--------------------------------- MODULE Synch ---------------------------------
(***************************************************************************)
(* Threads that use the kernel's locks, condition variables and semaphores *)
(* in any order (threads/synch.cc under threads/scheduler.cc).  Any thread *)
(* that is not blocked may take the next step: with interrupts on, the     *)
(* timer may switch threads between any two of them.                       *)
(***************************************************************************)
EXTENDS SynchPrims, FiniteSets

CONSTANTS
  Initial,      \* the initial value of each semaphore
  MaxValue,     \* bound: the value of a semaphore
  Disciplined   \* condition operations and releases by the lock's holder only

ASSUME ThreadsAssumption == IsFiniteSet(Threads)
ASSUME InitialAssumption == Initial \in [Sems -> Nat]
ASSUME MaxValueAssumption == MaxValue \in Nat
ASSUME DisciplinedAssumption == Disciplined \in BOOLEAN

VARIABLES
  k,       \* the kernel's objects and the blocked threads
  pc,      \* pc[t]: where t is inside one of the operations
  inside   \* inside[t]: locks whose Acquire or Wait has returned (history variable)

vars == <<k, pc, inside>>

\* In the loop of Broadcast, which sleeps nowhere.
InBroadcast(c, l) == [at |-> "Broadcast", cond |-> c, lock |-> l]

Init ==
  /\ k = NewKernel(Initial)
  /\ pc = [t \in Threads |-> Run]
  /\ inside = [t \in Threads |-> {}]
-------------------------------------------------------------------------------
Calls(t) == t \notin k.blocked /\ pc[t] = Run
Resumes(t, at) == t \notin k.blocked /\ pc[t].at = at

\* t goes on at p if the operation put it to sleep, and has returned if not.
Goes(t, p) == pc' = [pc EXCEPT ![t] = IF t \in k'.blocked THEN p ELSE Run]

\* The lock is t's when the operation returned.
Enters(t, l) == inside' = [inside EXCEPT ![t] = IF t \in k'.blocked THEN @ ELSE @ \cup {l}]
Leaves(t, l) == inside' = [inside EXCEPT ![t] = @ \ {l}]

AcquireCall(t, l) ==
  /\ Calls(t)
  /\ k' = Acquire(k, t, l)
  /\ Goes(t, InAcquire(l))
  /\ Enters(t, l)

\* Woken as the owner: Acquire returns.
AcquireReturn(t) ==
  /\ Resumes(t, "Acquire")
  /\ pc' = [pc EXCEPT ![t] = Run]
  /\ inside' = [inside EXCEPT ![t] = @ \cup {pc[t].lock}]
  /\ k' = k

ReleaseCall(t, l) ==
  /\ Calls(t)
  /\ Disciplined => l \in inside[t]
  /\ k' = Release(k, t, l)
  /\ Leaves(t, l)
  /\ pc' = pc

WaitCall(t, c, l) ==
  /\ Calls(t)
  /\ Disciplined => l \in inside[t]
  /\ k' = Wait(k, t, c, l)
  /\ Goes(t, InWait(c, l))
  /\ inside' = [inside EXCEPT ![t] = IF MayWait(k, c, l) THEN @ \ {l} ELSE @]

\* Mutant of WaitReturn: Wait returns without the lock.
WaitReturnUnlocked(t) ==
  /\ Resumes(t, "Wait")
  /\ k' = k
  /\ pc' = [pc EXCEPT ![t] = Run]
  /\ inside' = [inside EXCEPT ![t] = @ \cup {pc[t].lock}]

\* Signalled: Wait acquires the lock again, perhaps going to sleep for it.
WaitReturn(t) ==
  /\ Resumes(t, "Wait")
  /\ k' = Acquire(k, t, pc[t].lock)
  /\ Goes(t, InAcquire(pc[t].lock))
  /\ Enters(t, pc[t].lock)

SignalCall(t, c, l) ==
  /\ Calls(t)
  /\ Disciplined => l \in inside[t]
  /\ k' = Signal(k, c, l)
  /\ UNCHANGED <<pc, inside>>

\* Broadcast only prints when the lock is not the waiters'.
BroadcastCall(t, c, l) ==
  /\ Calls(t)
  /\ Disciplined => l \in inside[t]
  /\ k.cond[c].waitingLock # NULL
  /\ pc' = [pc EXCEPT ![t] = InBroadcast(c, l)]
  /\ UNCHANGED <<k, inside>>

\* Mutant of BroadcastRound: only the lock's owner signals.
BroadcastRoundByOwner(t) ==
  /\ Resumes(t, "Broadcast")
  /\ LET c == pc[t].cond
     IN  IF k.cond[c].queue # <<>>
         THEN k' = (IF isHeldBy(k, t, pc[t].lock) THEN Signal(k, c, pc[t].lock) ELSE k) /\ pc' = pc
         ELSE k' = k /\ pc' = [pc EXCEPT ![t] = Run]
  /\ inside' = inside

\* Its loop runs with interrupts on: one Signal per round.
BroadcastRound(t) ==
  /\ Resumes(t, "Broadcast")
  /\ LET c == pc[t].cond
     IN  IF k.cond[c].queue # <<>>
         THEN k' = Signal(k, c, pc[t].lock) /\ pc' = pc
         ELSE k' = k /\ pc' = [pc EXCEPT ![t] = Run]
  /\ inside' = inside

PCall(t, s) ==
  /\ Calls(t)
  /\ k' = P(k, t, s)
  /\ Goes(t, InP(s))
  /\ inside' = inside

\* Mutant of PRound: a woken thread does not test the value again.
PRoundNoTest(t) ==
  /\ Resumes(t, "P")
  /\ k' = [k EXCEPT !.sem[pc[t].sem].value = @ - 1]
  /\ pc' = [pc EXCEPT ![t] = Run]
  /\ inside' = inside

\* Woken: the loop tests the value again.
PRound(t) ==
  /\ Resumes(t, "P")
  /\ k' = P(k, t, pc[t].sem)
  /\ Goes(t, pc[t])
  /\ inside' = inside

VCall(t, s) ==
  /\ Calls(t)
  /\ k.sem[s].value < MaxValue
  /\ k' = V(k, s)
  /\ UNCHANGED <<pc, inside>>

\* What a thread does when it is run inside an operation.
Resume(t) == AcquireReturn(t) \/ WaitReturn(t) \/ BroadcastRound(t) \/ PRound(t)

Call(t) ==
  \/ \E l \in Locks : AcquireCall(t, l) \/ ReleaseCall(t, l)
  \/ \E c \in Conds : \E l \in Locks : WaitCall(t, c, l) \/ SignalCall(t, c, l) \/ BroadcastCall(t, c, l)
  \/ \E s \in Sems : PCall(t, s) \/ VCall(t, s)

Next == \E t \in Threads : Resume(t) \/ Call(t)

Spec == Init /\ [][Next]_vars

\* The ready list is first in, first out and the timer preempts, so a thread
\* that is not blocked gets to run; none has to call anything.
FairSpec == Spec /\ \A t \in Threads : WF_vars(Resume(t))
-------------------------------------------------------------------------------
(***************************************************************************)
(* Properties.                                                             *)
(***************************************************************************)
Pcs ==
  {Run} \cup {InAcquire(l) : l \in Locks} \cup {InWait(c, l) : c \in Conds, l \in Locks}
  \cup {InP(s) : s \in Sems} \cup {InBroadcast(c, l) : c \in Conds, l \in Locks}

\* Every variable has its type; in particular no semaphore goes below 0.
TypeOK ==
  /\ k \in Kernel
  /\ pc \in [Threads -> Pcs]
  /\ inside \in [Threads -> SUBSET Locks]

\* Whoever has returned from Acquire or Wait and not released owns the lock:
\* no two threads are inside one lock.
InsideOwns ==
  \A t \in Threads : \A l \in inside[t] : k.lock[l].state = "BUSY" /\ k.lock[l].owner = t

\* A lock is free exactly when nobody owns it, and then nobody waits for it.
FreeUnowned ==
  \A l \in Locks :
    LET lk == k.lock[l]
    IN  /\ lk.state = "FREE" <=> lk.owner = NULL
        /\ lk.state = "FREE" => lk.queue = <<>>

\* A condition variable remembers a lock exactly while threads wait on it, so
\* that Signal never makes a thread NULL ready.
SignalFindsWaiter ==
  \A c \in Conds : k.cond[c].waitingLock = NULL <=> k.cond[c].queue = <<>>

\* A thread that was woken in Acquire owns the lock already: nobody can take it
\* before the thread runs, and Acquire needs no second test.
WokenOwns ==
  \A t \in Threads \ k.blocked : \A l \in Locks : pc[t] = InAcquire(l) => k.lock[l].owner = t

\* A blocked thread is in the queue of what it waits for, once, and no thread is
\* in a queue otherwise: no wake-up is lost and none is repeated.
QueuedWhereAsleep == QueuedAt(k, pc)

\* A V is not lost: threads stay asleep on a semaphore with a positive value only
\* while as many have been woken to take it.
NoLostV ==
  \A s \in Sems :
    k.sem[s].queue # <<>> =>
      k.sem[s].value <= Cardinality({t \in Threads \ k.blocked : pc[t] = InP(s)})

\* A thread stays in the loop of Broadcast for ever only if again and again the
\* waiters wait with another lock than it was called with, or threads keep
\* coming to wait on the condition variable: otherwise Broadcast returns.
BroadcastReturns ==
  \A t \in Threads :
    <>[](pc[t].at = "Broadcast") =>
      \/ []<>(pc[t].at = "Broadcast" /\ k.cond[pc[t].cond].waitingLock \notin {pc[t].lock, NULL})
      \/ []<><<pc[t].at = "Broadcast" /\ \E u \in Threads, l \in Locks : WaitCall(u, pc[t].cond, l)>>_vars
================================================================================
