------------------------------ MODULE SynchProofs ------------------------------
(***************************************************************************)
(* Proofs about Synch, for any finite number of threads and any locks,     *)
(* condition variables and semaphores, used in any order.                  *)
(***************************************************************************)
EXTENDS Synch, SynchPrimsProofs, FiniteSetTheorems

\* The threads that were woken in P and have not tested the value yet.
Awake(kk, pp, s) == {u \in Threads \ kk.blocked : pp[u] = InP(s)}

VsKept(kk, pp) ==
  \A s \in Sems : kk.sem[s].queue # <<>> => kk.sem[s].value <= Cardinality(Awake(kk, pp, s))

\* Whoever is inside a lock owns it.
InsideIsOwner(kk, in) == \A t \in Threads : \A l \in in[t] : kk.lock[l].owner = t

\* The inductive invariant.
IInv ==
  /\ pc \in [Threads -> Pcs]
  /\ inside \in [Threads -> SUBSET Locks]
  /\ Sound(k, pc)
  /\ InsideIsOwner(k, inside)
  /\ VsKept(k, pc)
-------------------------------------------------------------------------------
(***************************************************************************)
(* The places of a thread.                                                 *)
(***************************************************************************)
LEMMA PcTypes ==
  /\ Run \in Pcs
  /\ \A l \in Locks : InAcquire(l) \in Pcs
  /\ \A c \in Conds : \A l \in Locks : InWait(c, l) \in Pcs /\ InBroadcast(c, l) \in Pcs
  /\ \A s \in Sems : InP(s) \in Pcs
  BY DEF Pcs

\* A thread in Broadcast is not asleep in another operation.
LEMMA BroadcastPlace ==
  /\ \A c, m, l : InBroadcast(c, m) # InAcquire(l)
  /\ \A c, m, s : InBroadcast(c, m) # InP(s)
  BY DEF InBroadcast, InAcquire, InP

\* A place tells the operation.
LEMMA PcAt ==
  ASSUME NEW p \in Pcs
  PROVE  /\ p.at = "Acquire" => p.lock \in Locks /\ p = InAcquire(p.lock)
         /\ p.at = "Wait" => p.lock \in Locks /\ \A s : p # InP(s)
         /\ p.at = "P" => p.sem \in Sems /\ p = InP(p.sem)
         /\ p.at = "Broadcast" => p.cond \in Conds /\ p.lock \in Locks /\ \A s : p # InP(s)
  BY DEF Pcs, Run, InAcquire, InWait, InP, InBroadcast
-------------------------------------------------------------------------------
(***************************************************************************)
(* The threads woken in P.                                                 *)
(***************************************************************************)
LEMMA AwakeFinite ==
  ASSUME NEW kk, NEW pp, NEW s
  PROVE  IsFiniteSet(Awake(kk, pp, s)) /\ Cardinality(Awake(kk, pp, s)) \in Nat
<1>1. Awake(kk, pp, s) \in SUBSET Threads
  BY DEF Awake
<1> QED
  BY <1>1, ThreadsAssumption, FS_Subset, FS_CardinalityType

\* A step that is not about semaphores: the same threads are awake in P.
LEMMA SameAwake ==
  ASSUME NEW kk, NEW pp, NEW k2, NEW pp2, VsKept(kk, pp), k2.sem = kk.sem,
         \A u \in Threads : \A s \in Sems :
           u \notin k2.blocked /\ pp2[u] = InP(s) <=> u \notin kk.blocked /\ pp[u] = InP(s)
  PROVE  VsKept(k2, pp2)
<1>1. \A s \in Sems : Awake(k2, pp2, s) = Awake(kk, pp, s)
  BY DEF Awake
<1> QED
  BY <1>1 DEF VsKept

\* A thread t that is not in P and not blocked goes somewhere else, or sleeps, and
\* others not in P wake up.
NotInP(t, kk, pp, k2, pp2) ==
  /\ OnlyMoves(t, pp, pp2) /\ t \notin kk.blocked
  /\ \A s \in Sems : pp[t] # InP(s) /\ pp2[t] # InP(s)
  /\ \A u \in Threads : u \in kk.blocked => u \in k2.blocked \/ \A s \in Sems : pp[u] # InP(s)
  /\ \A u \in Threads : u \in k2.blocked => u \in kk.blocked \/ u = t

LEMMA OthersAwake ==
  ASSUME NEW kk, NEW pp, NEW k2, NEW pp2, VsKept(kk, pp), k2.sem = kk.sem,
         NEW t \in Threads, NotInP(t, kk, pp, k2, pp2)
  PROVE  VsKept(k2, pp2)
<1> USE DEF NotInP
<1>1. ASSUME NEW u \in Threads, NEW s \in Sems
      PROVE  u \notin k2.blocked /\ pp2[u] = InP(s) <=> u \notin kk.blocked /\ pp[u] = InP(s)
  <2>1. CASE u = t
    BY <2>1
  <2>2. CASE u # t
    BY <2>2 DEF OnlyMoves
  <2> QED
    BY <2>1, <2>2
<1> QED
  BY <1>1, SameAwake
-------------------------------------------------------------------------------
(***************************************************************************)
(* The steps.                                                              *)
(***************************************************************************)
\* Acquire, called by a program or at the end of Wait, keeps the invariant.
LEMMA AcquireStep ==
  ASSUME IInv, NEW t \in Threads, NEW l \in Locks, t \notin k.blocked, \A s : pc[t] # InP(s),
         k' = Acquire(k, t, l), Goes(t, InAcquire(l)), Enters(t, l)
  PROVE  IInv'
<1>0. pc \in [Threads -> Pcs] /\ inside \in [Threads -> SUBSET Locks] /\ Sound(k, pc) /\ VsKept(k, pc)
  BY DEF IInv
<1>1. /\ pc' \in [Threads -> Pcs] /\ OnlyMoves(t, pc, pc')
      /\ pc'[t] = IF t \in k'.blocked THEN InAcquire(l) ELSE Run
  BY <1>0, PcTypes DEF Goes, OnlyMoves
<1>2. IntoAcquire(t, l, k', pc, pc')
  BY <1>1, Places DEF IntoAcquire
<1>3. Sound(k', pc') /\ AcquireDone(t, l, k, k')
  BY <1>0, <1>2, AcquireSound
<1>4. inside' \in [Threads -> SUBSET Locks] /\ InsideIsOwner(k', inside')
  <2>1. inside' \in [Threads -> SUBSET Locks]
    BY <1>0 DEF Enters
  <2>2. \A u \in Threads \ {t} : \A m \in inside'[u] : m \in Locks /\ k'.lock[m].owner = u
    BY <1>0, <1>3 DEF Enters, IInv, InsideIsOwner, AcquireDone, KeepOwners
  <2>3. \A m \in inside'[t] : k'.lock[m].owner = t
    BY <1>0, <1>3 DEF Enters, IInv, InsideIsOwner, AcquireDone
  <2> QED
    BY <2>1, <2>2, <2>3 DEF InsideIsOwner
<1>5. VsKept(k', pc')
  <2>1. \A s \in Sems : pc[t] # InP(s) /\ pc'[t] # InP(s)
    BY <1>1, Places
  <2>2. NotInP(t, k, pc, k', pc') /\ k'.sem = k.sem
    BY <1>1, <1>3, <2>1 DEF NotInP, AcquireDone
  <2> QED
    BY <1>0, <2>2, OthersAwake
<1> QED
  BY <1>1, <1>3, <1>4, <1>5 DEF IInv

\* So does a step of a thread that only goes on, perhaps into a lock it owns.
LEMMA MoveStep ==
  ASSUME IInv, NEW t \in Threads, t \notin k.blocked, k' = k, \A s : pc[t] # InP(s),
         NEW p \in Pcs, \A l : p # InAcquire(l), \A s : p # InP(s), pc' = [pc EXCEPT ![t] = p],
         inside' \in [Threads -> SUBSET Locks], InsideIsOwner(k, inside')
  PROVE  IInv'
<1>0. pc \in [Threads -> Pcs] /\ Sound(k, pc) /\ VsKept(k, pc)
  BY DEF IInv
<1>1. pc' \in [Threads -> Pcs] /\ OnlyMoves(t, pc, pc') /\ pc'[t] = p
  BY <1>0 DEF OnlyMoves
<1>2. MovesOwning(t, k, pc, pc') /\ NotInP(t, k, pc, k', pc')
  BY <1>1 DEF MovesOwning, NotInP
<1>3. Sound(k', pc') /\ VsKept(k', pc')
  BY <1>0, <1>2, MoveSound, OthersAwake
<1> QED
  BY <1>1, <1>3 DEF IInv

\* Release: whoever is woken owns the lock, and the caller is no longer inside.
LEMMA ReleaseStep ==
  ASSUME IInv, NEW t \in Threads, NEW l \in Locks, ReleaseCall(t, l)
  PROVE  IInv'
<1>0. pc \in [Threads -> Pcs] /\ inside \in [Threads -> SUBSET Locks] /\ Sound(k, pc) /\ VsKept(k, pc)
  BY DEF IInv
<1>1. /\ t \notin k.blocked /\ pc[t] = Run /\ pc' = pc /\ k' = Release(k, t, l)
      /\ inside' = [inside EXCEPT ![t] = @ \ {l}]
  BY DEF ReleaseCall, Calls, Leaves
<1>2. MovesOut(t, pc, pc')
  BY <1>1, Places DEF OnlyMoves, MovesOut
<1>3. Sound(k', pc') /\ ReleaseDone(t, l, k, k', pc)
  BY <1>0, <1>1, <1>2, ReleaseSound
<1>4. inside' \in [Threads -> SUBSET Locks] /\ InsideIsOwner(k', inside')
  <2>1. inside' \in [Threads -> SUBSET Locks]
    BY <1>0, <1>1
  <2>2. \A u \in Threads \ {t} : \A m \in inside'[u] : k'.lock[m].owner = u
    BY <1>0, <1>1, <1>3 DEF IInv, InsideIsOwner, ReleaseDone, KeepOwners
  <2>3. \A m \in inside'[t] : k'.lock[m].owner = t
    BY <1>0, <1>1, <1>3 DEF IInv, InsideIsOwner, ReleaseDone
  <2> QED
    BY <2>2, <2>3, <2>1 DEF InsideIsOwner
<1>5. VsKept(k', pc')
  <2>1. \A s \in Sems : pc[t] # InP(s) /\ pc'[t] # InP(s)
    BY <1>1, Places
  <2>2. \A u \in Threads : u \in k.blocked => u \in k'.blocked \/ \A s \in Sems : pc[u] # InP(s)
    BY <1>3, Places DEF ReleaseDone
  <2>3. NotInP(t, k, pc, k', pc') /\ k'.sem = k.sem
    BY <1>1, <1>2, <1>3, <2>1, <2>2 DEF NotInP, ReleaseDone, MovesOut
  <2> QED
    BY <1>0, <2>3, OthersAwake
<1> QED
  BY <1>0, <1>1, <1>3, <1>4, <1>5 DEF IInv

\* Signal, called by a program or by Broadcast.
LEMMA SignalStep ==
  ASSUME IInv, NEW t \in Threads, NEW c \in Conds, NEW l \in Locks, t \notin k.blocked,
         \A m \in Locks : pc[t] # InAcquire(m), \A s : pc[t] # InP(s),
         k' = Signal(k, c, l), UNCHANGED <<pc, inside>>
  PROVE  IInv'
<1>0. pc \in [Threads -> Pcs] /\ inside \in [Threads -> SUBSET Locks] /\ Sound(k, pc) /\ VsKept(k, pc)
  BY DEF IInv
<1>2. MovesOwning(t, k, pc, pc')
  BY DEF OnlyMoves, MovesOwning
<1>3. Sound(k', pc') /\ SignalDone(c, l, k, k', pc)
  BY <1>0, <1>2, SignalSound
<1>4. InsideIsOwner(k', inside')
  BY <1>3 DEF IInv, InsideIsOwner, SignalDone
<1>5. VsKept(k', pc')
  <2>1. \A s \in Sems : pc[t] # InP(s) /\ pc'[t] # InP(s)
    OBVIOUS
  <2>2. \A u \in Threads : u \in k.blocked => u \in k'.blocked \/ \A s \in Sems : pc[u] # InP(s)
    BY <1>3, Places DEF SignalDone
  <2>3. NotInP(t, k, pc, k', pc') /\ k'.sem = k.sem
    BY <1>2, <1>3, <2>1, <2>2 DEF NotInP, SignalDone, MovesOwning
  <2> QED
    BY <1>0, <2>3, OthersAwake
<1> QED
  BY <1>0, <1>3, <1>4, <1>5 DEF IInv

\* P, called or tested again: a value is left only if enough others are awake.
LEMMA PStep ==
  ASSUME IInv, NEW t \in Threads, NEW s \in Sems, t \notin k.blocked, pc[t] \in {Run, InP(s)},
         k' = P(k, t, s), Goes(t, InP(s)), inside' = inside
  PROVE  IInv'
<1>0. /\ pc \in [Threads -> Pcs] /\ inside \in [Threads -> SUBSET Locks]
      /\ Sound(k, pc) /\ VsKept(k, pc) /\ k \in Kernel
  BY DEF IInv, Sound
<1>1. /\ pc' \in [Threads -> Pcs] /\ OnlyMoves(t, pc, pc')
      /\ pc'[t] = IF t \in k'.blocked THEN InP(s) ELSE Run
  BY <1>0, PcTypes DEF Goes, OnlyMoves
<1>2. IntoP(t, s, k', pc, pc')
  BY <1>1, Places DEF IntoP
<1>a. Sound(k', pc') /\ PDone(t, s, k, k')
  BY <1>0, <1>2, PSound
<1>3. /\ Sound(k', pc')
      /\ k'.lock = k.lock /\ \A r \in Sems \ {s} : k'.sem[r] = k.sem[r]
      /\ \/ /\ k.sem[s].value > 0 /\ k'.sem[s].value = k.sem[s].value - 1
            /\ k'.sem[s].queue = k.sem[s].queue /\ k'.blocked = k.blocked
         \/ /\ k.sem[s].value = 0 /\ k'.sem[s].value = 0
            /\ k'.blocked = k.blocked \cup {t}
  BY <1>a DEF PDone
<1>4. InsideIsOwner(k', inside')
  BY <1>3 DEF IInv, InsideIsOwner
<1>5. ASSUME NEW r \in Sems, r # s
      PROVE  Awake(k', pc', r) = Awake(k, pc, r)
  <2>1. pc[t] # InP(r) /\ pc'[t] # InP(r)
    BY <1>1, <1>5, Places
  <2>2. \A u \in Threads \ {t} : pc'[u] = pc[u] /\ (u \in k'.blocked <=> u \in k.blocked)
    BY <1>1, <1>3 DEF OnlyMoves
  <2> QED
    BY <2>1, <2>2 DEF Awake
<1>6. k'.sem[s].queue # <<>> => k'.sem[s].value <= Cardinality(Awake(k', pc', s))
  <2>1. CASE k'.sem[s].value = 0
    BY <2>1, AwakeFinite
  <2>2. CASE k'.sem[s].value # 0
    <3> DEFINE A == Awake(k, pc, s)
    <3>1. /\ k'.sem[s].value = k.sem[s].value - 1 /\ k'.sem[s].queue = k.sem[s].queue
          /\ k'.blocked = k.blocked /\ k.sem[s].value \in Nat
      BY <1>0, <1>3, <2>2, KernelFields
    <3>2. Awake(k', pc', s) = A \ {t}
      <4>1. pc'[t] # InP(s)
        BY <1>1, <3>1, Places
      <4>2. \A u \in Threads \ {t} : pc'[u] = pc[u]
        BY <1>1 DEF OnlyMoves
      <4> QED
        BY <3>1, <4>1, <4>2 DEF Awake
    <3>3. IsFiniteSet(A) /\ Cardinality(A) \in Nat
      BY AwakeFinite
    <3>4. k.sem[s].queue # <<>> => k.sem[s].value <= Cardinality(A)
      BY <1>0 DEF VsKept
    <3> HIDE DEF A
    <3>5. Cardinality(A \ {t}) = IF t \in A THEN Cardinality(A) - 1 ELSE Cardinality(A)
      BY <3>3, FS_RemoveElement
    <3> QED
      BY <3>1, <3>2, <3>3, <3>4, <3>5
  <2> QED
    BY <2>1, <2>2
<1>7. VsKept(k', pc')
  BY <1>0, <1>3, <1>5, <1>6 DEF VsKept
<1> QED
  BY <1>0, <1>1, <1>3, <1>4, <1>7 DEF IInv

\* V: with a thread in the queue, one more is awake.
LEMMA VStep ==
  ASSUME IInv, NEW t \in Threads, NEW s \in Sems, VCall(t, s)
  PROVE  IInv'
<1>0. /\ pc \in [Threads -> Pcs] /\ inside \in [Threads -> SUBSET Locks]
      /\ Sound(k, pc) /\ VsKept(k, pc) /\ k \in Kernel
  BY DEF IInv, Sound
<1>1. k' = V(k, s) /\ pc' = pc /\ inside' = inside
  BY DEF VCall
<1>a. Sound(k', pc) /\ VDone(s, k, k', pc)
  BY <1>0, <1>1, VSound
<1>2. /\ Sound(k', pc)
      /\ k'.lock = k.lock /\ \A r \in Sems \ {s} : k'.sem[r] = k.sem[r]
      /\ k'.sem[s].value = k.sem[s].value + 1
      /\ \/ /\ k.sem[s].queue = <<>>
            /\ k'.sem[s].queue = k.sem[s].queue /\ k'.blocked = k.blocked
         \/ /\ k.sem[s].queue # <<>>
            /\ Head(k.sem[s].queue) \in k.blocked /\ pc[Head(k.sem[s].queue)] = InP(s)
            /\ k'.blocked = k.blocked \ {Head(k.sem[s].queue)}
  BY <1>a DEF VDone
<1>3. InsideIsOwner(k', inside')
  BY <1>1, <1>2 DEF IInv, InsideIsOwner
<1>4. CASE k.sem[s].queue = <<>>
  <2>1. \A r \in Sems : Awake(k', pc, r) = Awake(k, pc, r)
    BY <1>2, <1>4 DEF Awake
  <2>2. k'.sem[s].queue = <<>>
    BY <1>2, <1>4
  <2>3. VsKept(k', pc)
    BY <1>0, <1>2, <2>1, <2>2 DEF VsKept
  <2> QED
    BY <1>0, <1>1, <1>2, <1>3, <2>3 DEF IInv
<1>5. CASE k.sem[s].queue # <<>>
  <2> DEFINE h == Head(k.sem[s].queue)
             A == Awake(k, pc, s)
  <2>1. h \in k.blocked /\ h \in Threads /\ pc[h] = InP(s) /\ k'.blocked = k.blocked \ {h}
    BY <1>0, <1>2, <1>5, KernelFields
  <2> HIDE DEF h
  <2>2. Awake(k', pc, s) = A \cup {h} /\ h \notin A
    BY <2>1 DEF Awake
  <2>3. \A r \in Sems \ {s} : Awake(k', pc, r) = Awake(k, pc, r)
    BY <2>1, Places DEF Awake
  <2>4. IsFiniteSet(A) /\ Cardinality(A) \in Nat /\ k.sem[s].value \in Nat
    BY <1>0, AwakeFinite, KernelFields
  <2>5. k.sem[s].value <= Cardinality(A)
    BY <1>0, <1>5 DEF VsKept
  <2> HIDE DEF A
  <2>6. Cardinality(A \cup {h}) = Cardinality(A) + 1
    BY <2>2, <2>4, FS_AddElement
  <2>7. k'.sem[s].value <= Cardinality(Awake(k', pc, s))
    BY <1>2, <2>2, <2>4, <2>5, <2>6
  <2>8. VsKept(k', pc)
    BY <1>0, <1>2, <2>3, <2>7 DEF VsKept
  <2> QED
    BY <1>0, <1>1, <1>2, <1>3, <2>8 DEF IInv
<1> QED
  BY <1>4, <1>5

\* Wait, with the waiters' lock or with another one, which it refuses.
LEMMA WaitStep ==
  ASSUME IInv, NEW t \in Threads, NEW c \in Conds, NEW l \in Locks, WaitCall(t, c, l)
  PROVE  IInv'
<1>0. pc \in [Threads -> Pcs] /\ inside \in [Threads -> SUBSET Locks] /\ Sound(k, pc) /\ VsKept(k, pc)
  BY DEF IInv
<1>c. t \notin k.blocked /\ pc[t] = Run /\ \A s : pc[t] # InP(s)
  BY Places DEF WaitCall, Calls
<1>1. CASE ~MayWait(k, c, l)
  <2>1. k' = k /\ inside' = inside /\ pc' = [pc EXCEPT ![t] = Run]
    BY <1>0, <1>1, <1>c DEF WaitCall, Wait, Goes
  <2>2. Run \in Pcs /\ (\A m : Run # InAcquire(m)) /\ \A s : Run # InP(s)
    BY PcTypes, Places
  <2> QED
    BY <1>0, <1>c, <2>1, <2>2, MoveStep DEF IInv
<1>2. CASE MayWait(k, c, l)
  <2> DEFINE p2 == [pc EXCEPT ![t] = InWait(c, l)]
  <2>1. IntoWait(t, c, l, pc, p2) /\ k' = Wait(k, t, c, l)
    BY <1>0 DEF OnlyMoves, IntoWait, WaitCall
  <2>p. p2 \in [Threads -> Pcs] /\ \A s \in Sems : p2[t] # InP(s)
    BY <1>0, PcTypes, Places
  <2> HIDE DEF p2
  <2>2. Sound(k', p2) /\ WaitDone(t, l, k, k', pc)
    BY <1>0, <1>2, <1>c, <2>1, WaitSound
  <2>3. pc' = p2 /\ inside' = [inside EXCEPT ![t] = @ \ {l}]
    BY <1>2, <2>2 DEF WaitCall, Goes, WaitDone, p2
  <2>4. inside' \in [Threads -> SUBSET Locks] /\ InsideIsOwner(k', inside')
    <3>1. inside' \in [Threads -> SUBSET Locks]
      BY <1>0, <2>3
    <3>2. \A u \in Threads \ {t} : \A m \in inside'[u] : k'.lock[m].owner = u
      BY <1>0, <2>2, <2>3 DEF IInv, InsideIsOwner, WaitDone, KeepOwners
    <3>3. \A m \in inside'[t] : k'.lock[m].owner = t
      BY <1>0, <2>2, <2>3 DEF IInv, InsideIsOwner, WaitDone
    <3> QED
      BY <3>1, <3>2, <3>3 DEF InsideIsOwner
  <2>5. VsKept(k', p2)
    <3>1. \A u \in Threads : u \in k.blocked => u \in k'.blocked \/ \A s \in Sems : pc[u] # InP(s)
      BY <2>2, Places DEF WaitDone
    <3>2. NotInP(t, k, pc, k', p2) /\ k'.sem = k.sem
      BY <1>c, <2>1, <2>2, <2>p, <3>1 DEF NotInP, WaitDone, IntoWait
    <3> QED
      BY <1>0, <3>2, OthersAwake
  <2> QED
    BY <2>2, <2>3, <2>4, <2>5, <2>p DEF IInv
<1> QED
  BY <1>1, <1>2

\* The initial states satisfy the invariant.
LEMMA InitIInv == Init => IInv
<1> SUFFICES ASSUME Init PROVE IInv
  OBVIOUS
<1>1. pc \in [Threads -> Pcs] /\ inside \in [Threads -> SUBSET Locks] /\ InsideIsOwner(k, inside)
  BY PcTypes DEF Init, InsideIsOwner
<1>2. \A t \in Threads : \A l \in Locks : pc[t] # InAcquire(l)
  BY Places DEF Init
<1>3. Sound(k, pc) /\ \A s \in Sems : k.sem[s].queue = <<>>
  BY <1>2, InitialAssumption, NewSound DEF Init
<1>4. VsKept(k, pc)
  BY <1>3 DEF VsKept
<1> QED
  BY <1>1, <1>3, <1>4 DEF IInv

\* Every step keeps the invariant.
LEMMA NextIInv == IInv /\ [Next]_vars => IInv'
<1> SUFFICES ASSUME IInv, [Next]_vars PROVE IInv'
  OBVIOUS
<1>0. pc \in [Threads -> Pcs] /\ inside \in [Threads -> SUBSET Locks] /\ Sound(k, pc)
  BY DEF IInv
<1>i. InsideIsOwner(k, inside)
  BY DEF IInv
<1>r. Run \in Pcs /\ (\A m : Run # InAcquire(m)) /\ \A s : Run # InP(s)
  BY PcTypes, Places
<1>1. CASE UNCHANGED vars
  BY <1>1 DEF vars, IInv
<1>2. ASSUME NEW t \in Threads, AcquireReturn(t) PROVE IInv'
  <2> DEFINE l == pc[t].lock
  <2>1. /\ t \notin k.blocked /\ l \in Locks /\ pc[t] = InAcquire(l)
        /\ k' = k /\ pc' = [pc EXCEPT ![t] = Run]
        /\ inside' = [inside EXCEPT ![t] = @ \cup {l}]
    BY <1>0, <1>2, PcAt DEF AcquireReturn, Resumes
  <2>2. k.lock[l].owner = t /\ \A s : pc[t] # InP(s)
    BY <1>0, <2>1, Places DEF Sound, OwnersSound
  <2> HIDE DEF l
  <2>3. inside' \in [Threads -> SUBSET Locks] /\ InsideIsOwner(k, inside')
    BY <1>0, <1>i, <2>1, <2>2 DEF InsideIsOwner
  <2> QED
    BY <2>1, <2>2, <2>3, <1>r, MoveStep
<1>3. ASSUME NEW t \in Threads, WaitReturn(t) PROVE IInv'
  <2>1. t \notin k.blocked /\ pc[t].lock \in Locks /\ \A s : pc[t] # InP(s)
    BY <1>0, <1>3, PcAt DEF WaitReturn, Resumes
  <2> QED
    BY <1>3, <2>1, AcquireStep DEF WaitReturn
<1>4. ASSUME NEW t \in Threads, BroadcastRound(t) PROVE IInv'
  <2>1. /\ t \notin k.blocked /\ pc[t].cond \in Conds /\ pc[t].lock \in Locks
        /\ (\A s : pc[t] # InP(s)) /\ \A m \in Locks : pc[t] # InAcquire(m)
    <3>1. pc[t] \in Pcs /\ pc[t].at = "Broadcast" /\ t \notin k.blocked
      BY <1>0, <1>4 DEF BroadcastRound, Resumes
    <3>2. \A m : InAcquire(m).at # "Broadcast"
      BY DEF InAcquire
    <3> QED
      BY <3>1, <3>2, PcAt
  <2>2. CASE k.cond[pc[t].cond].queue # <<>>
    BY <1>4, <2>1, <2>2, SignalStep DEF BroadcastRound
  <2>3. CASE k.cond[pc[t].cond].queue = <<>>
    <3>1. k' = k /\ pc' = [pc EXCEPT ![t] = Run] /\ inside' = inside
      BY <1>4, <2>3 DEF BroadcastRound
    <3> QED
      BY <1>0, <1>r, <1>i, <2>1, <3>1, MoveStep
  <2> QED
    BY <2>2, <2>3
<1>5. ASSUME NEW t \in Threads, PRound(t) PROVE IInv'
  <2>1. t \notin k.blocked /\ pc[t].sem \in Sems /\ pc[t] = InP(pc[t].sem)
    BY <1>0, <1>5, PcAt DEF PRound, Resumes
  <2>2. Goes(t, InP(pc[t].sem)) /\ k' = P(k, t, pc[t].sem) /\ inside' = inside
    BY <1>5, <2>1 DEF PRound
  <2> QED
    BY <2>1, <2>2, PStep
<1>6. ASSUME NEW t \in Threads, NEW l \in Locks, AcquireCall(t, l) PROVE IInv'
  BY <1>6, <1>r, AcquireStep DEF AcquireCall, Calls
<1>7. ASSUME NEW t \in Threads, NEW l \in Locks, ReleaseCall(t, l) PROVE IInv'
  BY <1>7, ReleaseStep
<1>8. ASSUME NEW t \in Threads, NEW c \in Conds, NEW l \in Locks, WaitCall(t, c, l) PROVE IInv'
  BY <1>8, WaitStep
<1>9. ASSUME NEW t \in Threads, NEW c \in Conds, NEW l \in Locks, SignalCall(t, c, l) PROVE IInv'
  BY <1>9, <1>r, SignalStep DEF SignalCall, Calls
<1>10. ASSUME NEW t \in Threads, NEW c \in Conds, NEW l \in Locks, BroadcastCall(t, c, l) PROVE IInv'
  <2>1. /\ t \notin k.blocked /\ k' = k /\ pc' = [pc EXCEPT ![t] = InBroadcast(c, l)]
        /\ inside' = inside /\ \A s : pc[t] # InP(s)
    BY <1>10, <1>r DEF BroadcastCall, Calls
  <2>2. InBroadcast(c, l) \in Pcs
    BY PcTypes
  <2> QED
    BY <1>0, <1>i, <2>1, <2>2, BroadcastPlace, MoveStep
<1>11. ASSUME NEW t \in Threads, NEW s \in Sems, PCall(t, s) PROVE IInv'
  BY <1>11, PStep DEF PCall, Calls
<1>12. ASSUME NEW t \in Threads, NEW s \in Sems, VCall(t, s) PROVE IInv'
  BY <1>12, VStep
<1> QED
  BY <1>1, <1>2, <1>3, <1>4, <1>5, <1>6, <1>7, <1>8, <1>9, <1>10, <1>11, <1>12
     DEF Next, Resume, Call
-------------------------------------------------------------------------------
\* The inductive invariant of the kernel's synchronization (threads/synch.cc)
\* holds in every reachable state.
THEOREM KernelInvariance == Spec => []IInv
<1> QED
  BY InitIInv, NextIInv, PTL DEF Spec

\* Every variable has its type; the value of a semaphore is never negative.
THEOREM KernelTypes == Spec => []TypeOK
<1>1. IInv => TypeOK
  BY DEF IInv, Sound, TypeOK
<1> QED
  BY <1>1, KernelInvariance, PTL

\* Locks exclude: a thread whose Acquire or Wait has returned owns the lock until
\* it releases it or waits, whatever the other threads call.
THEOREM LocksExclude == Spec => []InsideOwns
<1>1. ASSUME IInv PROVE InsideOwns
  <2>1. ASSUME NEW t \in Threads, NEW l \in inside[t]
        PROVE  k.lock[l].state = "BUSY" /\ k.lock[l].owner = t
    <3>1. l \in Locks /\ k.lock[l].owner = t /\ k \in Kernel /\ LocksSound(k)
      BY <1>1 DEF IInv, InsideIsOwner, Sound
    <3>2. k.lock[l].state \in {"FREE", "BUSY"}
      BY <3>1, KernelFields
    <3> QED
      BY <3>1, <3>2, NullIsNoThread DEF LocksSound
  <2> QED
    BY <2>1 DEF InsideOwns
<1>2. IInv => InsideOwns
  BY <1>1
<1> QED
  BY <1>2, KernelInvariance, PTL

\* A thread woken in Acquire owns the lock before it runs: nobody gets in between.
THEOREM HandOff == Spec => []WokenOwns
<1>1. IInv => WokenOwns
  BY DEF IInv, Sound, OwnersSound, WokenOwns
<1> QED
  BY <1>1, KernelInvariance, PTL

\* Nobody waits for a free lock.
THEOREM FreeLocksUnowned == Spec => []FreeUnowned
<1>1. IInv => FreeUnowned
  BY DEF IInv, Sound, LocksSound, FreeUnowned
<1> QED
  BY <1>1, KernelInvariance, PTL

\* Signal never removes from an empty queue.
THEOREM SignalCorrect == Spec => []SignalFindsWaiter
<1>1. IInv => SignalFindsWaiter
  BY DEF IInv, Sound, CondsSound, SignalFindsWaiter
<1> QED
  BY <1>1, KernelInvariance, PTL

\* Every blocked thread is in the queue of what it waits for, once: Release,
\* Signal, Broadcast and V can still find it.
THEOREM NobodyForgotten == Spec => []QueuedWhereAsleep
<1>1. IInv => QueuedWhereAsleep
  BY DEF IInv, Sound, QueuedWhereAsleep
<1> QED
  BY <1>1, KernelInvariance, PTL

\* A thread sleeps on a semaphore with a positive value only while at least as
\* many woken threads are about to take it: V's wake-up is not lost although P
\* tests the value again and others may have taken it meanwhile.
THEOREM VsAreNotLost == Spec => []NoLostV
<1>1. IInv => NoLostV
  BY DEF IInv, VsKept, Awake, NoLostV
<1> QED
  BY <1>1, KernelInvariance, PTL
================================================================================
