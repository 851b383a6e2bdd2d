---------------------------- MODULE SynchPrimsProofs ----------------------------
(***************************************************************************)
(* Lemmas about the kernel's locks, condition variables and semaphores,    *)
(* for any threads and objects and any program that uses them: what each   *)
(* operation does to the kernel, and how the queues and the blocked        *)
(* threads stay together.                                                  *)
(***************************************************************************)
EXTENDS SynchPrims, TLAPS, SequenceTheorems

(***************************************************************************)
(* Queues.                                                                 *)
(***************************************************************************)
\* A thread that is not in a queue can be appended to it.
LEMMA AppendQueue ==
  ASSUME NEW q \in Seq(Threads), NEW u \in Threads, NoRepeat(q), ~In(u, q)
  PROVE  /\ Append(q, u) \in Seq(Threads) /\ Append(q, u) # <<>>
         /\ NoRepeat(Append(q, u))
         /\ \A t \in Threads : In(t, Append(q, u)) <=> In(t, q) \/ t = u
  BY DEF NoRepeat, In

\* The first thread is in the queue and, after Remove, no longer.
LEMMA TailQueue ==
  ASSUME NEW q \in Seq(Threads), q # <<>>, NoRepeat(q)
  PROVE  /\ Head(q) \in Threads /\ In(Head(q), q)
         /\ Tail(q) \in Seq(Threads) /\ (Len(q) = 1 <=> Tail(q) = <<>>)
         /\ NoRepeat(Tail(q))
         /\ \A t \in Threads : In(t, Tail(q)) <=> In(t, q) /\ t # Head(q)
<1>1. /\ Head(q) \in Threads /\ Head(q) = q[1] /\ Len(q) \in Nat \ {0}
      /\ Tail(q) \in Seq(Threads) /\ Len(Tail(q)) = Len(q) - 1
      /\ DOMAIN q = 1 .. Len(q) /\ DOMAIN Tail(q) = 1 .. Len(q) - 1
      /\ \A i \in 1 .. Len(q) - 1 : Tail(q)[i] = q[i + 1]
  <2>1. Len(q) \in Nat \ {0} /\ DOMAIN q = 1 .. Len(q) /\ \A i \in 1 .. Len(q) : q[i] \in Threads
    OBVIOUS
  <2>2. Head(q) = q[1] /\ Tail(q) \in Seq(Threads) /\ Len(Tail(q)) = Len(q) - 1
    OBVIOUS
  <2>3. \A i \in 1 .. Len(q) - 1 : Tail(q)[i] = q[i + 1]
    OBVIOUS
  <2> QED
    BY <2>1, <2>2, <2>3
<1>2. In(Head(q), q)
  BY <1>1 DEF In
<1>3. Len(q) = 1 <=> Tail(q) = <<>>
  <2>1. \A r \in Seq(Threads) : Len(r) = 0 <=> r = <<>>
    BY EmptySeq
  <2>2. Len(Tail(q)) = 0 <=> Tail(q) = <<>>
    BY <1>1, <2>1
  <2>3. Len(q) = 1 <=> Len(Tail(q)) = 0
    BY <1>1
  <2> QED
    BY <2>2, <2>3
<1>4. NoRepeat(Tail(q))
  BY <1>1 DEF NoRepeat
<1>5. ASSUME NEW t \in Threads, In(t, Tail(q))
      PROVE  In(t, q) /\ t # Head(q)
  <2>1. PICK i \in 1 .. Len(q) - 1 : q[i + 1] = t
    BY <1>1, <1>5 DEF In
  <2> QED
    BY <1>1, <2>1 DEF In, NoRepeat
<1>6. ASSUME NEW t \in Threads, In(t, q), t # Head(q)
      PROVE  In(t, Tail(q))
  <2>1. PICK i \in 1 .. Len(q) : q[i] = t
    BY <1>1, <1>6 DEF In
  <2>2. i - 1 \in 1 .. Len(q) - 1 /\ Tail(q)[i - 1] = t
    BY <1>1, <1>6, <2>1
  <2> QED
    BY <1>1, <2>2 DEF In
<1> QED
  BY <1>1, <1>2, <1>3, <1>4, <1>5, <1>6

\* Nobody is in an empty queue.
LEMMA EmptyQueue == NoRepeat(<<>>) /\ \A t : ~In(t, <<>>)
  BY DEF NoRepeat, In

\* Where a thread is tells what it does there.
LEMMA Places ==
  /\ \A l, m : InAcquire(l) = InAcquire(m) => l = m
  /\ \A c, d, l, m : InWait(c, l) = InWait(d, m) => c = d /\ l = m
  /\ \A r, s : InP(r) = InP(s) => r = s
  /\ \A l, c, m : InAcquire(l) # InWait(c, m)
  /\ \A l, s : InAcquire(l) # InP(s)
  /\ \A c, l, s : InWait(c, l) # InP(s)
  /\ \A l : Run # InAcquire(l)
  /\ \A c, l : Run # InWait(c, l)
  /\ \A s : Run # InP(s)
  BY DEF Run, InAcquire, InWait, InP
-------------------------------------------------------------------------------
(***************************************************************************)
(* What the operations do, field by field.                                 *)
(***************************************************************************)
\* The fields of the kernel have their types.
LEMMA KernelFields ==
  ASSUME NEW kk \in Kernel
  PROVE  /\ kk.lock \in [Locks -> Lock] /\ kk.cond \in [Conds -> Condition]
         /\ kk.sem \in [Sems -> Semaphore] /\ kk.blocked \in SUBSET Threads
         /\ \A l \in Locks : /\ kk.lock[l] \in Lock /\ kk.lock[l].queue \in Seq(Threads)
                            /\ kk.lock[l].state \in {"FREE", "BUSY"}
         /\ \A c \in Conds : kk.cond[c] \in Condition /\ kk.cond[c].queue \in Seq(Threads)
         /\ \A s \in Sems : /\ kk.sem[s] \in Semaphore /\ kk.sem[s].queue \in Seq(Threads)
                           /\ kk.sem[s].value \in Nat
<1>1. /\ kk.lock \in [Locks -> Lock] /\ kk.cond \in [Conds -> Condition]
      /\ kk.sem \in [Sems -> Semaphore] /\ kk.blocked \in SUBSET Threads
  BY DEF Kernel
<1>2. \A x \in Lock : x.queue \in Seq(Threads) /\ x.state \in {"FREE", "BUSY"}
  BY DEF Lock
<1>3. \A x \in Condition : x.queue \in Seq(Threads)
  BY DEF Condition
<1>4. \A x \in Semaphore : x.queue \in Seq(Threads) /\ x.value \in Nat
  BY DEF Semaphore
<1> QED
  BY <1>1, <1>2, <1>3, <1>4

\* A kernel in which one object has changed.
WithLock(kk, l, x) == [kk EXCEPT !.lock[l] = x]
WithCond(kk, c, x) == [kk EXCEPT !.cond[c] = x]
WithSem(kk, s, x) == [kk EXCEPT !.sem[s] = x]

\* A kernel in which one lock has changed.
LEMMA SetLock ==
  ASSUME NEW kk \in Kernel, NEW l \in Locks, NEW x \in Lock, NEW k2, k2 = WithLock(kk, l, x)
  PROVE  /\ k2 \in Kernel /\ k2.cond = kk.cond /\ k2.sem = kk.sem /\ k2.blocked = kk.blocked
         /\ k2.lock[l] = x /\ \A m \in Locks \ {l} : k2.lock[m] = kk.lock[m]
  BY DEF Kernel, WithLock

\* A kernel in which one condition variable has changed.
LEMMA SetCond ==
  ASSUME NEW kk \in Kernel, NEW c \in Conds, NEW x \in Condition, NEW k2, k2 = WithCond(kk, c, x)
  PROVE  /\ k2 \in Kernel /\ k2.lock = kk.lock /\ k2.sem = kk.sem /\ k2.blocked = kk.blocked
         /\ k2.cond[c] = x /\ \A d \in Conds \ {c} : k2.cond[d] = kk.cond[d]
  BY DEF Kernel, WithCond

\* A kernel in which one semaphore has changed.
LEMMA SetSem ==
  ASSUME NEW kk \in Kernel, NEW s \in Sems, NEW x \in Semaphore, NEW k2, k2 = WithSem(kk, s, x)
  PROVE  /\ k2 \in Kernel /\ k2.lock = kk.lock /\ k2.cond = kk.cond /\ k2.blocked = kk.blocked
         /\ k2.sem[s] = x /\ \A r \in Sems \ {s} : k2.sem[r] = kk.sem[r]
  BY DEF Kernel, WithSem

\* A thread goes to sleep.
LEMMA SleepEffect ==
  ASSUME NEW kk \in Kernel, NEW t \in Threads, NEW k2, k2 = Sleep(kk, t)
  PROVE  /\ k2 \in Kernel /\ k2.lock = kk.lock /\ k2.cond = kk.cond /\ k2.sem = kk.sem
         /\ k2.blocked = kk.blocked \cup {t}
<1> DEFINE B == kk.blocked \cup {t}
<1>1. B \in SUBSET Threads
  BY KernelFields
<1>2. k2 = [kk EXCEPT !.blocked = B]
  BY DEF Sleep
<1>3. B = kk.blocked \cup {t}
  OBVIOUS
<1> HIDE DEF B
<1> QED
  BY <1>1, <1>2, <1>3 DEF Kernel

\* A thread is made ready.
LEMMA ReadyEffect ==
  ASSUME NEW kk \in Kernel, NEW t \in Threads, NEW k2, k2 = ReadyToRun(kk, t)
  PROVE  /\ k2 \in Kernel /\ k2.lock = kk.lock /\ k2.cond = kk.cond /\ k2.sem = kk.sem
         /\ k2.blocked = kk.blocked \ {t}
<1> DEFINE B == kk.blocked \ {t}
<1>1. B \in SUBSET Threads
  BY KernelFields
<1>2. k2 = [kk EXCEPT !.blocked = B]
  BY DEF ReadyToRun
<1>3. B = kk.blocked \ {t}
  OBVIOUS
<1> HIDE DEF B
<1> QED
  BY <1>1, <1>2, <1>3 DEF Kernel

\* Acquire: nothing, the lock, or asleep in its queue.
LEMMA AcquireEffect ==
  ASSUME NEW kk \in Kernel, NEW t \in Threads, NEW l \in Locks, NEW k2, k2 = Acquire(kk, t, l)
  PROVE  /\ k2 \in Kernel
         /\ k2.cond = kk.cond /\ k2.sem = kk.sem
         /\ \A m \in Locks \ {l} : k2.lock[m] = kk.lock[m]
         /\ \/ kk.lock[l].owner = t /\ k2 = kk
            \/ /\ kk.lock[l].owner # t /\ kk.lock[l].state = "FREE"
               /\ k2.lock[l].state = "BUSY" /\ k2.lock[l].owner = t
               /\ k2.lock[l].queue = kk.lock[l].queue
               /\ k2.blocked = kk.blocked
            \/ /\ kk.lock[l].owner # t /\ kk.lock[l].state = "BUSY"
               /\ k2.lock[l].state = "BUSY" /\ k2.lock[l].owner = kk.lock[l].owner
               /\ k2.lock[l].queue = Append(kk.lock[l].queue, t)
               /\ k2.blocked = kk.blocked \cup {t}
<1>0. /\ kk.lock[l] \in Lock /\ kk.lock[l].queue \in Seq(Threads)
      /\ kk.lock[l].state \in {"FREE", "BUSY"}
  BY KernelFields
<1>1. CASE kk.lock[l].owner = t
  BY <1>1 DEF Acquire, isHeldBy
<1>2. CASE kk.lock[l].owner # t /\ kk.lock[l].state = "FREE"
  <2> DEFINE x == [kk.lock[l] EXCEPT !.state = "BUSY", !.owner = t]
  <2>1. k2 = WithLock(kk, l, x)
    BY <1>2 DEF Acquire, isHeldBy, WithLock
  <2>2. x \in Lock /\ x.state = "BUSY" /\ x.owner = t /\ x.queue = kk.lock[l].queue
    BY <1>0 DEF Lock
  <2> HIDE DEF x
  <2> QED
    BY <1>2, <2>1, <2>2, SetLock
<1>3. CASE kk.lock[l].owner # t /\ kk.lock[l].state # "FREE"
  <2> DEFINE q == Append(kk.lock[l].queue, t)
             x == [kk.lock[l] EXCEPT !.queue = q]
             j == WithLock(kk, l, x)
  <2>1. k2 = Sleep(j, t)
    BY <1>3 DEF Acquire, isHeldBy, WithLock
  <2>2. q \in Seq(Threads)
    BY <1>0
  <2> HIDE DEF q
  <2>3. x \in Lock /\ x.state = kk.lock[l].state /\ x.owner = kk.lock[l].owner /\ x.queue = q
    BY <1>0, <2>2 DEF Lock
  <2> HIDE DEF x
  <2>4. /\ j \in Kernel /\ j.cond = kk.cond /\ j.sem = kk.sem /\ j.blocked = kk.blocked
        /\ j.lock[l] = x /\ \A m \in Locks \ {l} : j.lock[m] = kk.lock[m]
    BY <2>3, SetLock
  <2> HIDE DEF j
  <2>j. j \in Kernel
    BY <2>4
  <2>5. /\ k2 \in Kernel /\ k2.lock = j.lock /\ k2.cond = j.cond /\ k2.sem = j.sem
        /\ k2.blocked = j.blocked \cup {t}
    BY <2>1, <2>j, SleepEffect
  <2> QED
    BY <1>0, <1>3, <2>3, <2>4, <2>5 DEF q
<1> QED
  BY <1>1, <1>2, <1>3

\* Release: nothing, the lock handed on, or free.
LEMMA ReleaseEffect ==
  ASSUME NEW kk \in Kernel, NEW t \in Threads, NEW l \in Locks, NEW k2, k2 = Release(kk, t, l)
  PROVE  /\ k2 \in Kernel
         /\ k2.cond = kk.cond /\ k2.sem = kk.sem
         /\ \A m \in Locks \ {l} : k2.lock[m] = kk.lock[m]
         /\ \/ kk.lock[l].owner # t /\ k2 = kk
            \/ /\ kk.lock[l].owner = t /\ kk.lock[l].queue # <<>>
               /\ k2.lock[l].state = kk.lock[l].state
               /\ k2.lock[l].owner = Head(kk.lock[l].queue)
               /\ k2.lock[l].queue = Tail(kk.lock[l].queue)
               /\ k2.blocked = kk.blocked \ {Head(kk.lock[l].queue)}
            \/ /\ kk.lock[l].owner = t /\ kk.lock[l].queue = <<>>
               /\ k2.lock[l].state = "FREE" /\ k2.lock[l].owner = NULL
               /\ k2.lock[l].queue = <<>>
               /\ k2.blocked = kk.blocked
<1>0. kk.lock[l] \in Lock /\ kk.lock[l].queue \in Seq(Threads)
  BY KernelFields
<1>1. CASE kk.lock[l].owner # t
  BY <1>1 DEF Release, isHeldBy
<1>2. CASE kk.lock[l].owner = t /\ kk.lock[l].queue # <<>>
  <2> DEFINE h == Head(kk.lock[l].queue)
             q == Tail(kk.lock[l].queue)
             x == [kk.lock[l] EXCEPT !.owner = h, !.queue = q]
             j == WithLock(kk, l, x)
  <2>1. k2 = ReadyToRun(j, h)
    BY <1>2 DEF Release, isHeldBy, WithLock
  <2>2. h \in Threads /\ q \in Seq(Threads)
    BY <1>0, <1>2
  <2> HIDE DEF h, q
  <2>3. x \in Lock /\ x.state = kk.lock[l].state /\ x.owner = h /\ x.queue = q
    BY <1>0, <2>2 DEF Lock
  <2> HIDE DEF x
  <2>4. /\ j \in Kernel /\ j.cond = kk.cond /\ j.sem = kk.sem /\ j.blocked = kk.blocked
        /\ j.lock[l] = x /\ \A m \in Locks \ {l} : j.lock[m] = kk.lock[m]
    BY <2>3, SetLock
  <2> HIDE DEF j
  <2>j. j \in Kernel /\ h \in Threads
    BY <2>2, <2>4
  <2>5. /\ k2 \in Kernel /\ k2.lock = j.lock /\ k2.cond = j.cond /\ k2.sem = j.sem
        /\ k2.blocked = j.blocked \ {h}
    BY <2>1, <2>j, ReadyEffect
  <2> QED
    BY <1>2, <2>3, <2>4, <2>5 DEF h, q
<1>3. CASE kk.lock[l].owner = t /\ kk.lock[l].queue = <<>>
  <2> DEFINE x == [kk.lock[l] EXCEPT !.state = "FREE", !.owner = NULL]
  <2>1. k2 = WithLock(kk, l, x)
    BY <1>3 DEF Release, isHeldBy, WithLock
  <2>2. x \in Lock /\ x.state = "FREE" /\ x.owner = NULL /\ x.queue = kk.lock[l].queue
    BY <1>0 DEF Lock
  <2> HIDE DEF x
  <2> QED
    BY <1>3, <2>1, <2>2, SetLock
<1> QED
  BY <1>1, <1>2, <1>3

\* Signal with a consistent condition variable: nothing, or its first thread
\* is ready.
LEMMA SignalEffect ==
  ASSUME NEW kk \in Kernel, NEW c \in Conds, NEW l \in Locks, NEW k2, k2 = Signal(kk, c, l),
         kk.cond[c].waitingLock = NULL <=> kk.cond[c].queue = <<>>
  PROVE  /\ k2 \in Kernel
         /\ k2.lock = kk.lock /\ k2.sem = kk.sem
         /\ \A d \in Conds \ {c} : k2.cond[d] = kk.cond[d]
         /\ \/ k2 = kk
            \/ /\ kk.cond[c].waitingLock = l /\ kk.cond[c].queue # <<>>
               /\ k2.cond[c].queue = Tail(kk.cond[c].queue)
               /\ k2.cond[c].waitingLock = IF Len(kk.cond[c].queue) = 1 THEN NULL ELSE l
               /\ k2.blocked = kk.blocked \ {Head(kk.cond[c].queue)}
<1> DEFINE q == kk.cond[c].queue
<1>1. CASE kk.cond[c].waitingLock # l
  BY <1>1 DEF Signal
<1>2. CASE kk.cond[c].waitingLock = l
  <2> DEFINE w == IF Len(q) = 1 THEN NULL ELSE l
             h == Head(q)
             r == Tail(q)
             x == [waitingLock |-> w, queue |-> r]
             j == WithCond(kk, c, x)
  <2>1. k2 = ReadyToRun(j, h)
    BY <1>2 DEF Signal, WithCond
  <2>2. q # <<>> /\ q \in Seq(Threads) /\ w \in Locks \cup {NULL}
    BY <1>2, KernelFields, NullIsNoLock
  <2>3. h \in Threads /\ r \in Seq(Threads)
    BY <2>2
  <2> HIDE DEF w, h, r
  <2>4. x \in Condition /\ x.waitingLock = w /\ x.queue = r
    BY <2>2, <2>3 DEF Condition
  <2> HIDE DEF x
  <2>5. /\ j \in Kernel /\ j.lock = kk.lock /\ j.sem = kk.sem /\ j.blocked = kk.blocked
        /\ j.cond[c] = x /\ \A d \in Conds \ {c} : j.cond[d] = kk.cond[d]
    BY <2>4, SetCond
  <2> HIDE DEF j
  <2>j. j \in Kernel /\ h \in Threads
    BY <2>3, <2>5
  <2>6. /\ k2 \in Kernel /\ k2.lock = j.lock /\ k2.cond = j.cond /\ k2.sem = j.sem
        /\ k2.blocked = j.blocked \ {h}
    BY <2>1, <2>j, ReadyEffect
  <2> QED
    BY <1>2, <2>2, <2>4, <2>5, <2>6 DEF w, h, r
<1> QED
  BY <1>1, <1>2

\* P: one is taken from a positive value, or the thread is asleep.
LEMMA PEffect ==
  ASSUME NEW kk \in Kernel, NEW t \in Threads, NEW s \in Sems, NEW k2, k2 = P(kk, t, s)
  PROVE  /\ k2 \in Kernel
         /\ k2.lock = kk.lock /\ k2.cond = kk.cond
         /\ \A r \in Sems \ {s} : k2.sem[r] = kk.sem[r]
         /\ \/ /\ kk.sem[s].value > 0 /\ k2.sem[s].value = kk.sem[s].value - 1
               /\ k2.sem[s].queue = kk.sem[s].queue /\ k2.blocked = kk.blocked
            \/ /\ kk.sem[s].value = 0 /\ k2.sem[s].value = 0
               /\ k2.sem[s].queue = Append(kk.sem[s].queue, t)
               /\ k2.blocked = kk.blocked \cup {t}
<1>0. kk.sem[s] \in Semaphore /\ kk.sem[s].queue \in Seq(Threads) /\ kk.sem[s].value \in Nat
  BY KernelFields
<1>1. CASE kk.sem[s].value = 0
  <2> DEFINE q == Append(kk.sem[s].queue, t)
             x == [kk.sem[s] EXCEPT !.queue = q]
             j == WithSem(kk, s, x)
  <2>1. k2 = Sleep(j, t)
    BY <1>1 DEF P, WithSem
  <2>2. q \in Seq(Threads)
    BY <1>0
  <2> HIDE DEF q
  <2>3. x \in Semaphore /\ x.value = kk.sem[s].value /\ x.queue = q
    BY <1>0, <2>2 DEF Semaphore
  <2> HIDE DEF x
  <2>4. /\ j \in Kernel /\ j.lock = kk.lock /\ j.cond = kk.cond /\ j.blocked = kk.blocked
        /\ j.sem[s] = x /\ \A r \in Sems \ {s} : j.sem[r] = kk.sem[r]
    BY <2>3, SetSem
  <2> HIDE DEF j
  <2>j. j \in Kernel
    BY <2>4
  <2>5. /\ k2 \in Kernel /\ k2.lock = j.lock /\ k2.cond = j.cond /\ k2.sem = j.sem
        /\ k2.blocked = j.blocked \cup {t}
    BY <2>1, <2>j, SleepEffect
  <2> QED
    BY <1>1, <2>3, <2>4, <2>5 DEF q
<1>2. CASE kk.sem[s].value # 0
  <2> DEFINE v == kk.sem[s].value - 1
             x == [kk.sem[s] EXCEPT !.value = v]
  <2>1. k2 = WithSem(kk, s, x)
    BY <1>2 DEF P, WithSem
  <2>2. v \in Nat /\ kk.sem[s].value > 0
    BY <1>0, <1>2
  <2> HIDE DEF v
  <2>3. x \in Semaphore /\ x.value = v /\ x.queue = kk.sem[s].queue
    BY <1>0, <2>2 DEF Semaphore
  <2> HIDE DEF x
  <2>4. /\ k2 \in Kernel /\ k2.lock = kk.lock /\ k2.cond = kk.cond /\ k2.blocked = kk.blocked
        /\ k2.sem[s] = x /\ \A r \in Sems \ {s} : k2.sem[r] = kk.sem[r]
    BY <2>1, <2>3, SetSem
  <2> QED
    BY <2>2, <2>3, <2>4 DEF v
<1> QED
  BY <1>1, <1>2

\* V: the value goes up and the first thread, if any, is ready.
LEMMA VEffect ==
  ASSUME NEW kk \in Kernel, NEW s \in Sems, NEW k2, k2 = V(kk, s)
  PROVE  /\ k2 \in Kernel
         /\ k2.lock = kk.lock /\ k2.cond = kk.cond
         /\ \A r \in Sems \ {s} : k2.sem[r] = kk.sem[r]
         /\ k2.sem[s].value = kk.sem[s].value + 1
         /\ \/ /\ kk.sem[s].queue = <<>>
               /\ k2.sem[s].queue = kk.sem[s].queue /\ k2.blocked = kk.blocked
            \/ /\ kk.sem[s].queue # <<>>
               /\ k2.sem[s].queue = Tail(kk.sem[s].queue)
               /\ k2.blocked = kk.blocked \ {Head(kk.sem[s].queue)}
<1> DEFINE q == kk.sem[s].queue
           v == kk.sem[s].value + 1
           x == [kk.sem[s] EXCEPT !.value = v]
           more == WithSem(kk, s, x)
<1>0. kk.sem[s] \in Semaphore /\ q \in Seq(Threads) /\ v \in Nat
  BY KernelFields
<1>a. k2 = IF q = <<>> THEN more ELSE ReadyToRun([more EXCEPT !.sem[s].queue = Tail(q)], Head(q))
  BY DEF V, WithSem
<1> HIDE DEF v, q
<1>b. q = kk.sem[s].queue /\ x \in Semaphore /\ x.value = v /\ x.queue = q
  BY <1>0 DEF Semaphore, q
<1> HIDE DEF x
<1>1. /\ more \in Kernel /\ more.lock = kk.lock /\ more.cond = kk.cond
      /\ more.blocked = kk.blocked /\ more.sem[s] = x
      /\ \A r \in Sems \ {s} : more.sem[r] = kk.sem[r]
  BY <1>b, SetSem
<1> HIDE DEF more
<1>2. CASE q = <<>>
  BY <1>a, <1>b, <1>1, <1>2 DEF v
<1>3. CASE q # <<>>
  <2> DEFINE h == Head(q)
             r == Tail(q)
             y == [more.sem[s] EXCEPT !.queue = r]
             j == WithSem(more, s, y)
  <2>1. k2 = ReadyToRun(j, h)
    BY <1>a, <1>3 DEF WithSem
  <2>2. h \in Threads /\ r \in Seq(Threads)
    BY <1>0, <1>3
  <2> HIDE DEF h, r
  <2>3. y \in Semaphore /\ y.value = v /\ y.queue = r
    BY <1>b, <1>1, <2>2 DEF Semaphore
  <2> HIDE DEF y
  <2>4. /\ j \in Kernel /\ j.lock = more.lock /\ j.cond = more.cond /\ j.blocked = more.blocked
        /\ j.sem[s] = y /\ \A u \in Sems \ {s} : j.sem[u] = more.sem[u]
    BY <1>1, <2>3, SetSem
  <2> HIDE DEF j
  <2>j. j \in Kernel /\ h \in Threads
    BY <2>2, <2>4
  <2>5. /\ k2 \in Kernel /\ k2.lock = j.lock /\ k2.cond = j.cond /\ k2.sem = j.sem
        /\ k2.blocked = j.blocked \ {h}
    BY <2>1, <2>j, ReadyEffect
  <2> QED
    BY <1>b, <1>1, <1>3, <2>3, <2>4, <2>5 DEF h, r, v
<1> QED
  BY <1>2, <1>3
-------------------------------------------------------------------------------
(***************************************************************************)
(* Threads in queues: going to sleep and waking up.  pp gives the places   *)
(* of the threads before, pp2 after.                                       *)
(***************************************************************************)
\* Nobody who sleeps moves.
Stay(kk, pp, pp2) == \A u \in kk.blocked : pp2[u] = pp[u]

\* From kk to k2, the queues stay.
QueuesStay(kk, k2) ==
  /\ \A l \in Locks : k2.lock[l].queue = kk.lock[l].queue
  /\ \A c \in Conds : k2.cond[c] = kk.cond[c]
  /\ \A s \in Sems : k2.sem[s].queue = kk.sem[s].queue
  /\ k2.blocked = kk.blocked

LEMMA SameQueues ==
  ASSUME NEW kk \in Kernel, NEW k2 \in Kernel, NEW pp, NEW pp2, QueuedAt(kk, pp),
         Stay(kk, pp, pp2), QueuesStay(kk, k2)
  PROVE  QueuedAt(k2, pp2)
  BY DEF QueuedAt, Stay, QueuesStay

\* From kk to k2, t goes to sleep in the queue of a lock, a semaphore or a condition
\* variable, or the first thread in the queue of a condition variable is woken.
SleepsInLock(kk, k2, t, l) ==
  /\ k2.lock[l].queue = Append(kk.lock[l].queue, t) /\ \A m \in Locks \ {l} : k2.lock[m] = kk.lock[m]
  /\ k2.cond = kk.cond /\ k2.sem = kk.sem /\ k2.blocked = kk.blocked \cup {t}
SleepsInSem(kk, k2, t, s) ==
  /\ k2.sem[s].queue = Append(kk.sem[s].queue, t) /\ \A r \in Sems \ {s} : k2.sem[r] = kk.sem[r]
  /\ k2.lock = kk.lock /\ k2.cond = kk.cond /\ k2.blocked = kk.blocked \cup {t}
SleepsInCond(kk, k2, t, c, l) ==
  /\ kk.cond[c].queue # <<>> => kk.cond[c].waitingLock = l
  /\ k2.cond[c].waitingLock = l /\ k2.cond[c].queue = Append(kk.cond[c].queue, t)
  /\ \A d \in Conds \ {c} : k2.cond[d] = kk.cond[d]
  /\ k2.lock = kk.lock /\ k2.sem = kk.sem /\ k2.blocked = kk.blocked \cup {t}
WakesInCond(kk, k2, c) ==
  /\ kk.cond[c].queue # <<>> /\ k2.cond[c].queue = Tail(kk.cond[c].queue)
  /\ k2.cond[c].queue # <<>> => k2.cond[c].waitingLock = kk.cond[c].waitingLock
  /\ \A d \in Conds \ {c} : k2.cond[d] = kk.cond[d]
  /\ k2.lock = kk.lock /\ k2.sem = kk.sem /\ k2.blocked = kk.blocked \ {Head(kk.cond[c].queue)}

\* A thread that is not blocked is in no queue.
LEMMA AwakeInNoQueue ==
  ASSUME NEW kk \in Kernel, NEW pp, QueuedAt(kk, pp), NEW t \in Threads, t \notin kk.blocked
  PROVE  /\ \A l \in Locks : ~In(t, kk.lock[l].queue)
         /\ \A c \in Conds : ~In(t, kk.cond[c].queue)
         /\ \A s \in Sems : ~In(t, kk.sem[s].queue)
  BY DEF QueuedAt

\* The first thread in a queue sleeps there.
LEMMA FirstSleeps ==
  ASSUME NEW kk \in Kernel, NEW pp, QueuedAt(kk, pp)
  PROVE  /\ \A l \in Locks : LET q == kk.lock[l].queue IN
              q # <<>> => Head(q) \in Threads /\ Head(q) \in kk.blocked /\ pp[Head(q)] = InAcquire(l)
         /\ \A c \in Conds : LET q == kk.cond[c].queue IN
              q # <<>> => /\ Head(q) \in Threads /\ Head(q) \in kk.blocked
                          /\ pp[Head(q)] = InWait(c, kk.cond[c].waitingLock)
                          /\ Len(q) = 1 <=> Tail(q) = <<>>
         /\ \A s \in Sems : LET q == kk.sem[s].queue IN
              q # <<>> => Head(q) \in Threads /\ Head(q) \in kk.blocked /\ pp[Head(q)] = InP(s)
<1>1. ASSUME NEW l \in Locks, kk.lock[l].queue # <<>>
      PROVE  /\ Head(kk.lock[l].queue) \in Threads /\ Head(kk.lock[l].queue) \in kk.blocked
             /\ pp[Head(kk.lock[l].queue)] = InAcquire(l)
  BY <1>1, TailQueue, KernelFields DEF QueuedAt
<1>2. ASSUME NEW c \in Conds, kk.cond[c].queue # <<>>
      PROVE  /\ Head(kk.cond[c].queue) \in Threads /\ Head(kk.cond[c].queue) \in kk.blocked
             /\ pp[Head(kk.cond[c].queue)] = InWait(c, kk.cond[c].waitingLock)
             /\ Len(kk.cond[c].queue) = 1 <=> Tail(kk.cond[c].queue) = <<>>
  BY <1>2, TailQueue, KernelFields DEF QueuedAt
<1>3. ASSUME NEW s \in Sems, kk.sem[s].queue # <<>>
      PROVE  /\ Head(kk.sem[s].queue) \in Threads /\ Head(kk.sem[s].queue) \in kk.blocked
             /\ pp[Head(kk.sem[s].queue)] = InP(s)
  BY <1>3, TailQueue, KernelFields DEF QueuedAt
<1> QED
  BY <1>1, <1>2, <1>3

\* The first thread in the queue of a lock is woken.
LEMMA WakeInLock ==
  ASSUME NEW kk \in Kernel, NEW k2 \in Kernel, NEW pp, NEW pp2, QueuedAt(kk, pp),
         \A u \in k2.blocked : pp2[u] = pp[u],
         NEW l \in Locks, kk.lock[l].queue # <<>>, k2.lock[l].queue = Tail(kk.lock[l].queue),
         \A m \in Locks \ {l} : k2.lock[m] = kk.lock[m],
         \A c \in Conds : k2.cond[c] = kk.cond[c], k2.sem = kk.sem,
         k2.blocked = kk.blocked \ {Head(kk.lock[l].queue)}
  PROVE  QueuedAt(k2, pp2)
<1> DEFINE h == Head(kk.lock[l].queue)
<1>1. /\ h \in Threads /\ In(h, kk.lock[l].queue) /\ NoRepeat(k2.lock[l].queue)
      /\ \A t \in Threads : In(t, k2.lock[l].queue) <=> In(t, kk.lock[l].queue) /\ t # h
  BY TailQueue, KernelFields DEF QueuedAt
<1>2. \A t : t \in k2.blocked <=> t \in kk.blocked /\ t # h
  OBVIOUS
<1>3. pp[h] = InAcquire(l)
  BY <1>1 DEF QueuedAt
<1> HIDE DEF h
<1>4. /\ \A m \in Locks : m # l => ~In(h, kk.lock[m].queue)
      /\ \A c \in Conds : ~In(h, kk.cond[c].queue)
      /\ \A s \in Sems : ~In(h, kk.sem[s].queue)
  BY <1>1, <1>3, Places, KernelFields DEF QueuedAt, Condition
<1>5. \A m \in Locks : NoRepeat(k2.lock[m].queue)
  BY <1>1 DEF QueuedAt
<1>6. ASSUME NEW t \in Threads, NEW m \in Locks, In(t, k2.lock[m].queue)
      PROVE  t \in k2.blocked /\ pp2[t] = InAcquire(m)
  <2>1. In(t, kk.lock[m].queue) /\ t # h
    BY <1>1, <1>4, <1>6
  <2> QED
    BY <1>2, <2>1 DEF QueuedAt
<1>7. ASSUME NEW t \in k2.blocked
      PROVE  \/ \E m \in Locks : In(t, k2.lock[m].queue)
             \/ \E c \in Conds : In(t, k2.cond[c].queue)
             \/ \E s \in Sems : In(t, k2.sem[s].queue)
  <2>1. t \in Threads /\ t \in kk.blocked /\ t # h
    BY <1>2, KernelFields
  <2>2. \A m \in Locks : In(t, kk.lock[m].queue) => In(t, k2.lock[m].queue)
    BY <1>1, <2>1
  <2> QED
    BY <2>1, <2>2 DEF QueuedAt
<1>8. /\ \A c \in Conds : \A t \in Threads : In(t, k2.cond[c].queue) =>
           t \in k2.blocked /\ pp2[t] = InWait(c, k2.cond[c].waitingLock)
      /\ \A s \in Sems : \A t \in Threads : In(t, k2.sem[s].queue) =>
           t \in k2.blocked /\ pp2[t] = InP(s)
  BY <1>2, <1>4 DEF QueuedAt
<1>9. /\ \A c \in Conds : NoRepeat(k2.cond[c].queue)
      /\ \A s \in Sems : NoRepeat(k2.sem[s].queue)
  BY DEF QueuedAt
<1> QED
  BY <1>5, <1>6, <1>7, <1>8, <1>9 DEF QueuedAt

\* The first thread in the queue of a semaphore is woken.
LEMMA WakeInSem ==
  ASSUME NEW kk \in Kernel, NEW k2 \in Kernel, NEW pp, NEW pp2, QueuedAt(kk, pp),
         \A u \in k2.blocked : pp2[u] = pp[u],
         NEW s \in Sems, kk.sem[s].queue # <<>>, k2.sem[s].queue = Tail(kk.sem[s].queue),
         \A r \in Sems \ {s} : k2.sem[r] = kk.sem[r], k2.lock = kk.lock, k2.cond = kk.cond,
         k2.blocked = kk.blocked \ {Head(kk.sem[s].queue)}
  PROVE  QueuedAt(k2, pp2)
<1> DEFINE h == Head(kk.sem[s].queue)
<1>1. /\ h \in Threads /\ In(h, kk.sem[s].queue) /\ NoRepeat(k2.sem[s].queue)
      /\ \A t \in Threads : In(t, k2.sem[s].queue) <=> In(t, kk.sem[s].queue) /\ t # h
  BY TailQueue, KernelFields DEF QueuedAt
<1>2. \A t : t \in k2.blocked <=> t \in kk.blocked /\ t # h
  OBVIOUS
<1>3. pp[h] = InP(s)
  BY <1>1 DEF QueuedAt
<1> HIDE DEF h
<1>4. /\ \A r \in Sems : r # s => ~In(h, kk.sem[r].queue)
      /\ \A c \in Conds : ~In(h, kk.cond[c].queue)
      /\ \A l \in Locks : ~In(h, kk.lock[l].queue)
  BY <1>1, <1>3, Places DEF QueuedAt
<1>5. \A r \in Sems : NoRepeat(k2.sem[r].queue)
  BY <1>1 DEF QueuedAt
<1>6. ASSUME NEW t \in Threads, NEW r \in Sems, In(t, k2.sem[r].queue)
      PROVE  t \in k2.blocked /\ pp2[t] = InP(r)
  <2>1. In(t, kk.sem[r].queue) /\ t # h
    BY <1>1, <1>4, <1>6
  <2> QED
    BY <1>2, <2>1 DEF QueuedAt
<1>7. ASSUME NEW t \in k2.blocked
      PROVE  \/ \E l \in Locks : In(t, k2.lock[l].queue)
             \/ \E c \in Conds : In(t, k2.cond[c].queue)
             \/ \E r \in Sems : In(t, k2.sem[r].queue)
  <2>1. t \in Threads /\ t \in kk.blocked /\ t # h
    BY <1>2, KernelFields
  <2>2. \A r \in Sems : In(t, kk.sem[r].queue) => In(t, k2.sem[r].queue)
    BY <1>1, <2>1
  <2> QED
    BY <2>1, <2>2 DEF QueuedAt
<1>8. /\ \A c \in Conds : \A t \in Threads : In(t, k2.cond[c].queue) =>
           t \in k2.blocked /\ pp2[t] = InWait(c, k2.cond[c].waitingLock)
      /\ \A l \in Locks : \A t \in Threads : In(t, k2.lock[l].queue) =>
           t \in k2.blocked /\ pp2[t] = InAcquire(l)
  BY <1>2, <1>4 DEF QueuedAt
<1>9. /\ \A c \in Conds : NoRepeat(k2.cond[c].queue)
      /\ \A l \in Locks : NoRepeat(k2.lock[l].queue)
  BY DEF QueuedAt
<1> QED
  BY <1>5, <1>6, <1>7, <1>8, <1>9 DEF QueuedAt

\* The first thread in the queue of a condition variable is woken.
LEMMA WakeInCond ==
  ASSUME NEW kk \in Kernel, NEW k2 \in Kernel, NEW pp, NEW pp2, QueuedAt(kk, pp),
         Stay(k2, pp, pp2), NEW c \in Conds, WakesInCond(kk, k2, c)
  PROVE  QueuedAt(k2, pp2)
<1> USE DEF Stay, WakesInCond
<1> DEFINE h == Head(kk.cond[c].queue)
<1>1. /\ h \in Threads /\ In(h, kk.cond[c].queue) /\ NoRepeat(k2.cond[c].queue)
      /\ \A t \in Threads : In(t, k2.cond[c].queue) <=> In(t, kk.cond[c].queue) /\ t # h
  BY TailQueue, KernelFields DEF QueuedAt
<1>2. \A t : t \in k2.blocked <=> t \in kk.blocked /\ t # h
  OBVIOUS
<1>3. pp[h] = InWait(c, kk.cond[c].waitingLock)
  BY <1>1 DEF QueuedAt
<1> HIDE DEF h
<1>4. /\ \A d \in Conds : d # c => ~In(h, kk.cond[d].queue)
      /\ \A s \in Sems : ~In(h, kk.sem[s].queue)
      /\ \A l \in Locks : ~In(h, kk.lock[l].queue)
  BY <1>1, <1>3, Places DEF QueuedAt
<1>5. \A d \in Conds : NoRepeat(k2.cond[d].queue)
  BY <1>1 DEF QueuedAt
<1>6. ASSUME NEW t \in Threads, NEW d \in Conds, In(t, k2.cond[d].queue)
      PROVE  t \in k2.blocked /\ pp2[t] = InWait(d, k2.cond[d].waitingLock)
  <2>1. In(t, kk.cond[d].queue) /\ t # h
    BY <1>1, <1>4, <1>6
  <2>2. k2.cond[d].waitingLock = kk.cond[d].waitingLock
    BY <1>6, EmptyQueue
  <2> QED
    BY <1>2, <2>1, <2>2 DEF QueuedAt
<1>7. ASSUME NEW t \in k2.blocked
      PROVE  \/ \E l \in Locks : In(t, k2.lock[l].queue)
             \/ \E d \in Conds : In(t, k2.cond[d].queue)
             \/ \E s \in Sems : In(t, k2.sem[s].queue)
  <2>1. t \in Threads /\ t \in kk.blocked /\ t # h
    BY <1>2, KernelFields
  <2>2. \A d \in Conds : In(t, kk.cond[d].queue) => In(t, k2.cond[d].queue)
    BY <1>1, <2>1
  <2> QED
    BY <2>1, <2>2 DEF QueuedAt
<1>8. /\ \A s \in Sems : \A t \in Threads : In(t, k2.sem[s].queue) =>
           t \in k2.blocked /\ pp2[t] = InP(s)
      /\ \A l \in Locks : \A t \in Threads : In(t, k2.lock[l].queue) =>
           t \in k2.blocked /\ pp2[t] = InAcquire(l)
  BY <1>2, <1>4 DEF QueuedAt
<1>9. /\ \A s \in Sems : NoRepeat(k2.sem[s].queue)
      /\ \A l \in Locks : NoRepeat(k2.lock[l].queue)
  BY DEF QueuedAt
<1> QED
  BY <1>5, <1>6, <1>7, <1>8, <1>9 DEF QueuedAt

\* A thread goes to sleep in the queue of a lock.
LEMMA SleepInLock ==
  ASSUME NEW kk \in Kernel, NEW k2 \in Kernel, NEW pp, NEW pp2, QueuedAt(kk, pp),
         NEW t \in Threads, t \notin kk.blocked, NEW l \in Locks,
         pp2[t] = InAcquire(l), Stay(kk, pp, pp2), SleepsInLock(kk, k2, t, l)
  PROVE  QueuedAt(k2, pp2)
<1> USE DEF Stay, SleepsInLock
<1>1. ~In(t, kk.lock[l].queue)
  BY DEF QueuedAt
<1>2. /\ NoRepeat(k2.lock[l].queue)
      /\ \A u \in Threads : In(u, k2.lock[l].queue) <=> In(u, kk.lock[l].queue) \/ u = t
  BY <1>1, AppendQueue, KernelFields DEF QueuedAt
<1>3. \A u \in k2.blocked : u \in Threads
  BY KernelFields
<1>4. \A u : u \in k2.blocked <=> u \in kk.blocked \/ u = t
  OBVIOUS
<1>5. ASSUME NEW u \in Threads, NEW m \in Locks, In(u, k2.lock[m].queue)
      PROVE  u \in k2.blocked /\ pp2[u] = InAcquire(m)
  <2>1. In(u, kk.lock[m].queue) \/ (m = l /\ u = t)
    BY <1>2, <1>5
  <2> QED
    BY <1>4, <2>1 DEF QueuedAt
<1>6. /\ \A m \in Locks : NoRepeat(k2.lock[m].queue)
      /\ \A c \in Conds : NoRepeat(k2.cond[c].queue)
      /\ \A s \in Sems : NoRepeat(k2.sem[s].queue)
  BY <1>2 DEF QueuedAt
<1>7. ASSUME NEW u \in Threads
      PROVE  /\ \A c \in Conds : In(u, k2.cond[c].queue) =>
                  u \in k2.blocked /\ pp2[u] = InWait(c, k2.cond[c].waitingLock)
             /\ \A s \in Sems : In(u, k2.sem[s].queue) => u \in k2.blocked /\ pp2[u] = InP(s)
  BY <1>4 DEF QueuedAt
<1>8. ASSUME NEW u \in k2.blocked
      PROVE  \/ \E m \in Locks : In(u, k2.lock[m].queue)
             \/ \E c \in Conds : In(u, k2.cond[c].queue)
             \/ \E s \in Sems : In(u, k2.sem[s].queue)
  <2>1. \A m \in Locks : In(u, kk.lock[m].queue) => In(u, k2.lock[m].queue)
    BY <1>2, <1>3
  <2> QED
    BY <1>2, <1>3, <1>4, <2>1 DEF QueuedAt
<1> QED
  BY <1>5, <1>6, <1>7, <1>8 DEF QueuedAt

\* A thread goes to sleep in the queue of a semaphore.
LEMMA SleepInSem ==
  ASSUME NEW kk \in Kernel, NEW k2 \in Kernel, NEW pp, NEW pp2, QueuedAt(kk, pp),
         NEW t \in Threads, t \notin kk.blocked, NEW s \in Sems,
         pp2[t] = InP(s), Stay(kk, pp, pp2), SleepsInSem(kk, k2, t, s)
  PROVE  QueuedAt(k2, pp2)
<1> USE DEF Stay, SleepsInSem
<1>1. ~In(t, kk.sem[s].queue)
  BY DEF QueuedAt
<1>2. /\ NoRepeat(k2.sem[s].queue)
      /\ \A u \in Threads : In(u, k2.sem[s].queue) <=> In(u, kk.sem[s].queue) \/ u = t
  BY <1>1, AppendQueue, KernelFields DEF QueuedAt
<1>3. \A u \in k2.blocked : u \in Threads
  BY KernelFields
<1>4. \A u : u \in k2.blocked <=> u \in kk.blocked \/ u = t
  OBVIOUS
<1>5. ASSUME NEW u \in Threads, NEW r \in Sems, In(u, k2.sem[r].queue)
      PROVE  u \in k2.blocked /\ pp2[u] = InP(r)
  <2>1. In(u, kk.sem[r].queue) \/ (r = s /\ u = t)
    BY <1>2, <1>5
  <2> QED
    BY <1>4, <2>1 DEF QueuedAt
<1>6. /\ \A l \in Locks : NoRepeat(k2.lock[l].queue)
      /\ \A c \in Conds : NoRepeat(k2.cond[c].queue)
      /\ \A r \in Sems : NoRepeat(k2.sem[r].queue)
  BY <1>2 DEF QueuedAt
<1>7. ASSUME NEW u \in Threads
      PROVE  /\ \A c \in Conds : In(u, k2.cond[c].queue) =>
                  u \in k2.blocked /\ pp2[u] = InWait(c, k2.cond[c].waitingLock)
             /\ \A l \in Locks : In(u, k2.lock[l].queue) => u \in k2.blocked /\ pp2[u] = InAcquire(l)
  BY <1>4 DEF QueuedAt
<1>8. ASSUME NEW u \in k2.blocked
      PROVE  \/ \E l \in Locks : In(u, k2.lock[l].queue)
             \/ \E c \in Conds : In(u, k2.cond[c].queue)
             \/ \E r \in Sems : In(u, k2.sem[r].queue)
  <2>1. \A r \in Sems : In(u, kk.sem[r].queue) => In(u, k2.sem[r].queue)
    BY <1>2, <1>3
  <2> QED
    BY <1>2, <1>3, <1>4, <2>1 DEF QueuedAt
<1> QED
  BY <1>5, <1>6, <1>7, <1>8 DEF QueuedAt

\* A thread goes to sleep in the queue of a condition variable, with lock l.
LEMMA SleepInCond ==
  ASSUME NEW kk \in Kernel, NEW k2 \in Kernel, NEW pp, NEW pp2, QueuedAt(kk, pp),
         NEW t \in Threads, t \notin kk.blocked, NEW c \in Conds, NEW l \in Locks,
         pp2[t] = InWait(c, l), Stay(kk, pp, pp2), SleepsInCond(kk, k2, t, c, l)
  PROVE  QueuedAt(k2, pp2)
<1> USE DEF Stay, SleepsInCond
<1>1. ~In(t, kk.cond[c].queue)
  BY DEF QueuedAt
<1>2. /\ NoRepeat(k2.cond[c].queue)
      /\ \A u \in Threads : In(u, k2.cond[c].queue) <=> In(u, kk.cond[c].queue) \/ u = t
  BY <1>1, AppendQueue, KernelFields DEF QueuedAt
<1>3. \A u \in k2.blocked : u \in Threads
  BY KernelFields
<1>4. \A u : u \in k2.blocked <=> u \in kk.blocked \/ u = t
  OBVIOUS
<1>w. \A u \in Threads : In(u, kk.cond[c].queue) => u \in kk.blocked /\ pp[u] = InWait(c, l)
  BY EmptyQueue DEF QueuedAt
<1>5. ASSUME NEW u \in Threads, NEW d \in Conds, In(u, k2.cond[d].queue)
      PROVE  u \in k2.blocked /\ pp2[u] = InWait(d, k2.cond[d].waitingLock)
  <2>1. CASE d = c
    BY <1>2, <1>4, <1>5, <1>w, <2>1
  <2>2. CASE d # c
    BY <1>4, <1>5, <2>2 DEF QueuedAt
  <2> QED
    BY <2>1, <2>2
<1>6. /\ \A m \in Locks : NoRepeat(k2.lock[m].queue)
      /\ \A d \in Conds : NoRepeat(k2.cond[d].queue)
      /\ \A s \in Sems : NoRepeat(k2.sem[s].queue)
  BY <1>2 DEF QueuedAt
<1>7. ASSUME NEW u \in Threads
      PROVE  /\ \A m \in Locks : In(u, k2.lock[m].queue) => u \in k2.blocked /\ pp2[u] = InAcquire(m)
             /\ \A s \in Sems : In(u, k2.sem[s].queue) => u \in k2.blocked /\ pp2[u] = InP(s)
  BY <1>4 DEF QueuedAt
<1>8. ASSUME NEW u \in k2.blocked
      PROVE  \/ \E m \in Locks : In(u, k2.lock[m].queue)
             \/ \E d \in Conds : In(u, k2.cond[d].queue)
             \/ \E s \in Sems : In(u, k2.sem[s].queue)
  <2>1. \A d \in Conds : In(u, kk.cond[d].queue) => In(u, k2.cond[d].queue)
    BY <1>2, <1>3
  <2> QED
    BY <1>2, <1>3, <1>4, <2>1 DEF QueuedAt
<1> QED
  BY <1>5, <1>6, <1>7, <1>8 DEF QueuedAt
-------------------------------------------------------------------------------
(***************************************************************************)
(* A sound kernel, for threads at the places pp.                           *)
(***************************************************************************)
\* A lock is free exactly when nobody owns it, and then nobody waits for it.
LocksSound(kk) ==
  \A l \in Locks : /\ kk.lock[l].state = "FREE" <=> kk.lock[l].owner = NULL
                   /\ kk.lock[l].state = "FREE" => kk.lock[l].queue = <<>>

\* A condition variable remembers a lock exactly while threads wait.
CondsSound(kk) == \A c \in Conds : kk.cond[c].waitingLock = NULL <=> kk.cond[c].queue = <<>>

\* A thread in Acquire that is not blocked owns the lock.
OwnersSound(kk, pp) ==
  \A t \in Threads \ kk.blocked : \A l \in Locks : pp[t] = InAcquire(l) => kk.lock[l].owner = t

Sound(kk, pp) ==
  kk \in Kernel /\ LocksSound(kk) /\ CondsSound(kk) /\ QueuedAt(kk, pp) /\ OwnersSound(kk, pp)

\* Only t changes its place.
OnlyMoves(t, pp, pp2) == \A u \in Threads \ {t} : pp2[u] = pp[u]

\* No other thread than t loses a lock.
KeepOwners(t, kk, k2) == \A u \in Threads \ {t} : \A l \in Locks : kk.lock[l].owner = u => k2.lock[l].owner = u

\* How the places change in each operation: t may be in Acquire of a lock it owns,
\* or leaves Acquire; it is in the operation if that put it to sleep.
MovesOwning(t, kk, pp, pp2) ==
  OnlyMoves(t, pp, pp2) /\ \A l \in Locks : pp2[t] = InAcquire(l) => kk.lock[l].owner = t
MovesOut(t, pp, pp2) ==
  OnlyMoves(t, pp, pp2) /\ \A l \in Locks : pp2[t] # InAcquire(l)
IntoAcquire(t, l, k2, pp, pp2) ==
  /\ OnlyMoves(t, pp, pp2)
  /\ t \in k2.blocked => pp2[t] = InAcquire(l)
  /\ t \notin k2.blocked => \A m \in Locks : pp2[t] = InAcquire(m) => m = l
IntoWait(t, c, l, pp, pp2) ==
  OnlyMoves(t, pp, pp2) /\ pp2[t] = InWait(c, l)
IntoP(t, s, k2, pp, pp2) ==
  /\ OnlyMoves(t, pp, pp2)
  /\ t \in k2.blocked => pp2[t] = InP(s)
  /\ t \notin k2.blocked => \A m \in Locks : pp2[t] # InAcquire(m)

\* What the operations do to owners, semaphores and blocked threads.
AcquireDone(t, l, kk, k2) ==
  /\ k2.sem = kk.sem
  /\ k2.blocked = kk.blocked \/ k2.blocked = kk.blocked \cup {t}
  /\ t \notin k2.blocked => k2.lock[l].owner = t
  /\ KeepOwners(t, kk, k2) /\ \A m \in Locks : kk.lock[m].owner = t => k2.lock[m].owner = t
ReleaseDone(t, l, kk, k2, pp) ==
  /\ k2.sem = kk.sem
  /\ \A u \in Threads : u \in kk.blocked => u \in k2.blocked \/ pp[u] = InAcquire(l)
  /\ \A u \in Threads : u \in k2.blocked => u \in kk.blocked
  /\ KeepOwners(t, kk, k2) /\ \A m \in Locks \ {l} : kk.lock[m].owner = t => k2.lock[m].owner = t
WaitDone(t, l, kk, k2, pp) ==
  /\ k2.sem = kk.sem
  /\ \A u \in Threads : u \in kk.blocked => u \in k2.blocked \/ pp[u] = InAcquire(l)
  /\ \A u \in Threads : u \in k2.blocked => u \in kk.blocked \/ u = t
  /\ t \in k2.blocked
  /\ KeepOwners(t, kk, k2) /\ \A m \in Locks \ {l} : kk.lock[m].owner = t => k2.lock[m].owner = t
SignalDone(c, l, kk, k2, pp) ==
  /\ k2.sem = kk.sem /\ k2.lock = kk.lock
  /\ \A u \in Threads : u \in kk.blocked => u \in k2.blocked \/ pp[u] = InWait(c, l)
  /\ \A u \in Threads : u \in k2.blocked => u \in kk.blocked
PDone(t, s, kk, k2) ==
  /\ k2.lock = kk.lock /\ \A r \in Sems \ {s} : k2.sem[r] = kk.sem[r]
  /\ \/ /\ kk.sem[s].value > 0 /\ k2.sem[s].value = kk.sem[s].value - 1
        /\ k2.sem[s].queue = kk.sem[s].queue /\ k2.blocked = kk.blocked
     \/ /\ kk.sem[s].value = 0 /\ k2.sem[s].value = 0
        /\ k2.blocked = kk.blocked \cup {t}
VDone(s, kk, k2, pp) ==
  /\ k2.lock = kk.lock /\ \A r \in Sems \ {s} : k2.sem[r] = kk.sem[r]
  /\ k2.sem[s].value = kk.sem[s].value + 1
  /\ \/ /\ kk.sem[s].queue = <<>>
        /\ k2.sem[s].queue = kk.sem[s].queue /\ k2.blocked = kk.blocked
     \/ /\ kk.sem[s].queue # <<>>
        /\ Head(kk.sem[s].queue) \in kk.blocked /\ pp[Head(kk.sem[s].queue)] = InP(s)
        /\ k2.blocked = kk.blocked \ {Head(kk.sem[s].queue)}

\* A new kernel is sound, when every thread is outside the operations.
LEMMA NewSound ==
  ASSUME NEW values \in [Sems -> Nat], NEW pp, \A t \in Threads : \A l \in Locks : pp[t] # InAcquire(l)
  PROVE  /\ Sound(NewKernel(values), pp)
         /\ NewKernel(values).blocked = {} /\ \A l \in Locks : NewKernel(values).lock[l].owner = NULL
         /\ \A s \in Sems : NewKernel(values).sem[s].value = values[s] /\ NewKernel(values).sem[s].queue = <<>>
<1> DEFINE kk == NewKernel(values)
<1>1. /\ kk.lock = [l \in Locks |-> NewLock] /\ kk.cond = [c \in Conds |-> NewCondition]
      /\ kk.sem = [s \in Sems |-> NewSemaphore(values[s])] /\ kk.blocked = {}
  BY DEF NewKernel
<1>2. kk \in Kernel
  BY DEF NewKernel, NewLock, NewCondition, NewSemaphore, Kernel, Lock, Condition, Semaphore
<1> HIDE DEF kk
<1>3. LocksSound(kk) /\ CondsSound(kk) /\ OwnersSound(kk, pp)
  BY <1>1 DEF LocksSound, CondsSound, OwnersSound, NewLock, NewCondition
<1>4. QueuedAt(kk, pp)
  BY <1>1, EmptyQueue DEF QueuedAt, NewLock, NewCondition, NewSemaphore
<1>5. /\ \A l \in Locks : kk.lock[l].owner = NULL
      /\ \A s \in Sems : kk.sem[s].value = values[s] /\ kk.sem[s].queue = <<>>
  BY <1>1 DEF NewLock, NewSemaphore
<1> QED
  BY <1>1, <1>2, <1>3, <1>4, <1>5 DEF Sound, kk

\* A thread that is not blocked goes anywhere but into an Acquire of a lock it
\* does not own.
LEMMA MoveSound ==
  ASSUME NEW kk, NEW pp, NEW pp2, Sound(kk, pp), NEW t \in Threads, t \notin kk.blocked,
         MovesOwning(t, kk, pp, pp2)
  PROVE  Sound(kk, pp2)
<1> USE DEF MovesOwning
<1>1. kk \in Kernel /\ \A u \in kk.blocked : u \in Threads /\ pp2[u] = pp[u]
  BY KernelFields DEF Sound, OnlyMoves
<1>2. QueuedAt(kk, pp2)
  BY <1>1, SameQueues DEF Sound, Stay, QueuesStay
<1>3. OwnersSound(kk, pp2)
  BY DEF Sound, OwnersSound, OnlyMoves
<1> QED
  BY <1>2, <1>3 DEF Sound

\* Acquire: the lock is the caller's unless it sleeps.
LEMMA AcquireSound ==
  ASSUME NEW kk, NEW pp, NEW pp2, NEW k2, Sound(kk, pp), NEW t \in Threads, NEW l \in Locks,
         t \notin kk.blocked, k2 = Acquire(kk, t, l), IntoAcquire(t, l, k2, pp, pp2)
  PROVE  Sound(k2, pp2) /\ AcquireDone(t, l, kk, k2)
<1> USE DEF IntoAcquire
<1>0. kk \in Kernel
  BY DEF Sound
<1>1. /\ k2 \in Kernel
      /\ k2.cond = kk.cond /\ k2.sem = kk.sem
      /\ \A m \in Locks \ {l} : k2.lock[m] = kk.lock[m]
      /\ \/ kk.lock[l].owner = t /\ k2 = kk
         \/ /\ kk.lock[l].owner # t /\ kk.lock[l].state = "FREE"
            /\ k2.lock[l].state = "BUSY" /\ k2.lock[l].owner = t
            /\ k2.lock[l].queue = kk.lock[l].queue
            /\ k2.blocked = kk.blocked
         \/ /\ kk.lock[l].owner # t /\ kk.lock[l].state = "BUSY"
            /\ k2.lock[l].state = "BUSY" /\ k2.lock[l].owner = kk.lock[l].owner
            /\ k2.lock[l].queue = Append(kk.lock[l].queue, t)
            /\ k2.blocked = kk.blocked \cup {t}
  BY <1>0, AcquireEffect
<1>2. LocksSound(kk) /\ CondsSound(kk) /\ QueuedAt(kk, pp) /\ OwnersSound(kk, pp)
  BY DEF Sound
<1>3. \A u \in kk.blocked : u \in Threads /\ pp2[u] = pp[u]
  BY <1>0, KernelFields DEF OnlyMoves
<1>4. LocksSound(k2)
  BY <1>1, <1>2, NullIsNoThread DEF LocksSound
<1>5. CondsSound(k2)
  BY <1>1, <1>2 DEF CondsSound
<1>6. QueuedAt(k2, pp2)
  <2>1. CASE k2.blocked = kk.blocked
    <3>1. \A m \in Locks : k2.lock[m].queue = kk.lock[m].queue
      BY <1>1, <2>1
    <3>2. k2 \in Kernel /\ Stay(kk, pp, pp2) /\ QueuesStay(kk, k2)
      BY <1>1, <1>3, <2>1, <3>1 DEF Stay, QueuesStay
    <3> QED
      BY <1>0, <1>2, <3>2, SameQueues
  <2>2. CASE k2.blocked # kk.blocked
    <3>1. k2.lock[l].queue = Append(kk.lock[l].queue, t) /\ k2.blocked = kk.blocked \cup {t}
      BY <1>1, <2>2
    <3>2. pp2[t] = InAcquire(l) /\ QueuedAt(kk, pp) /\ Stay(kk, pp, pp2)
      BY <1>2, <1>3, <3>1 DEF Stay
    <3>3. k2 \in Kernel /\ SleepsInLock(kk, k2, t, l)
      BY <1>1, <3>1 DEF SleepsInLock
    <3> QED
      BY <1>0, <3>2, <3>3, SleepInLock
  <2> QED
    BY <2>1, <2>2
<1>7. KeepOwners(t, kk, k2) /\ \A m \in Locks : kk.lock[m].owner = t => k2.lock[m].owner = t
  BY <1>1, <1>2, NullIsNoThread DEF LocksSound, KeepOwners
<1>8. t \notin k2.blocked => k2.lock[l].owner = t
  BY <1>1
<1>9. OwnersSound(k2, pp2)
  <2> SUFFICES ASSUME NEW u \in Threads, u \notin k2.blocked, NEW m \in Locks, pp2[u] = InAcquire(m)
               PROVE  k2.lock[m].owner = u
    BY DEF OwnersSound
  <2>1. CASE u = t
    BY <1>8, <2>1
  <2>2. CASE u # t
    <3>1. u \notin kk.blocked /\ pp[u] = InAcquire(m)
      BY <1>1, <2>2 DEF OnlyMoves
    <3> QED
      BY <1>2, <1>7, <2>2, <3>1 DEF OwnersSound, KeepOwners
  <2> QED
    BY <2>1, <2>2
<1>10. k2.blocked = kk.blocked \/ k2.blocked = kk.blocked \cup {t}
  BY <1>1
<1> QED
  BY <1>1, <1>4, <1>5, <1>6, <1>7, <1>8, <1>9, <1>10 DEF Sound, AcquireDone

\* Release: whoever is woken owns the lock.
LEMMA ReleaseSound ==
  ASSUME NEW kk, NEW pp, NEW pp2, NEW k2, Sound(kk, pp), NEW t \in Threads, NEW l \in Locks,
         t \notin kk.blocked, k2 = Release(kk, t, l), MovesOut(t, pp, pp2)
  PROVE  Sound(k2, pp2) /\ k2.cond = kk.cond /\ ReleaseDone(t, l, kk, k2, pp)
<1> USE DEF MovesOut
<1>0. kk \in Kernel
  BY DEF Sound
<1>1. /\ k2 \in Kernel
      /\ k2.cond = kk.cond /\ k2.sem = kk.sem
      /\ \A m \in Locks \ {l} : k2.lock[m] = kk.lock[m]
      /\ \/ kk.lock[l].owner # t /\ k2 = kk
         \/ /\ kk.lock[l].owner = t /\ kk.lock[l].queue # <<>>
            /\ k2.lock[l].state = kk.lock[l].state
            /\ k2.lock[l].owner = Head(kk.lock[l].queue)
            /\ k2.lock[l].queue = Tail(kk.lock[l].queue)
            /\ k2.blocked = kk.blocked \ {Head(kk.lock[l].queue)}
         \/ /\ kk.lock[l].owner = t /\ kk.lock[l].queue = <<>>
            /\ k2.lock[l].state = "FREE" /\ k2.lock[l].owner = NULL
            /\ k2.lock[l].queue = <<>>
            /\ k2.blocked = kk.blocked
  BY <1>0, ReleaseEffect
<1>2. LocksSound(kk) /\ CondsSound(kk) /\ QueuedAt(kk, pp) /\ OwnersSound(kk, pp)
  BY DEF Sound
<1>3. \A u \in kk.blocked : u \in Threads /\ pp2[u] = pp[u]
  BY <1>0, KernelFields DEF OnlyMoves
<1>f. kk.lock[l].queue # <<>> =>
        /\ Head(kk.lock[l].queue) \in Threads /\ Head(kk.lock[l].queue) \in kk.blocked
        /\ pp[Head(kk.lock[l].queue)] = InAcquire(l)
  BY <1>0, <1>2, FirstSleeps
<1>4. LocksSound(k2)
  BY <1>1, <1>2, <1>f, NullIsNoThread DEF LocksSound
<1>5. CondsSound(k2)
  BY <1>1, <1>2 DEF CondsSound
<1>6. QueuedAt(k2, pp2)
  <2>1. CASE kk.lock[l].owner = t /\ kk.lock[l].queue # <<>>
    <3>1. /\ k2.lock[l].queue = Tail(kk.lock[l].queue)
          /\ k2.blocked = kk.blocked \ {Head(kk.lock[l].queue)}
      BY <1>1, <2>1
    <3>2. QueuedAt(kk, pp) /\ \A u \in k2.blocked : pp2[u] = pp[u]
      BY <1>2, <1>3, <3>1
    <3>3. /\ k2 \in Kernel /\ k2.cond = kk.cond /\ k2.sem = kk.sem
          /\ \A m \in Locks \ {l} : k2.lock[m] = kk.lock[m]
      BY <1>1
    <3> QED
      BY <1>0, <2>1, <3>1, <3>2, <3>3, WakeInLock
  <2>2. CASE ~(kk.lock[l].owner = t /\ kk.lock[l].queue # <<>>)
    <3>1. k2.blocked = kk.blocked /\ \A m \in Locks : k2.lock[m].queue = kk.lock[m].queue
      BY <1>1, <2>2
    <3>2. k2 \in Kernel /\ Stay(kk, pp, pp2) /\ QueuesStay(kk, k2)
      BY <1>1, <1>3, <3>1 DEF Stay, QueuesStay
    <3> QED
      BY <1>0, <1>2, <3>2, SameQueues
  <2> QED
    BY <2>1, <2>2
<1>7. KeepOwners(t, kk, k2) /\ \A m \in Locks \ {l} : kk.lock[m].owner = t => k2.lock[m].owner = t
  BY <1>1 DEF KeepOwners
<1>8. /\ \A u \in Threads : u \in kk.blocked => u \in k2.blocked \/ pp[u] = InAcquire(l)
      /\ \A u \in Threads : u \in k2.blocked => u \in kk.blocked
  BY <1>1, <1>f
<1>9. OwnersSound(k2, pp2)
  <2> SUFFICES ASSUME NEW u \in Threads, u \notin k2.blocked, NEW m \in Locks, pp2[u] = InAcquire(m)
               PROVE  k2.lock[m].owner = u
    BY DEF OwnersSound
  <2>1. u # t /\ pp[u] = InAcquire(m)
    BY DEF OnlyMoves
  <2>2. CASE u \notin kk.blocked
    BY <1>2, <1>7, <2>1, <2>2 DEF OwnersSound, KeepOwners
  <2>3. CASE u \in kk.blocked
    <3>1. u = Head(kk.lock[l].queue) /\ kk.lock[l].queue # <<>> /\ k2.lock[l].owner = u
      BY <1>1, <2>3
    <3>2. m = l
      BY <1>f, <2>1, <3>1, Places
    <3> QED
      BY <3>1, <3>2
  <2> QED
    BY <2>2, <2>3
<1> QED
  BY <1>1, <1>4, <1>5, <1>6, <1>7, <1>8, <1>9 DEF Sound, ReleaseDone

\* Signal: at most the first waiter is woken, still inside Wait.
LEMMA SignalSound ==
  ASSUME NEW kk, NEW pp, NEW pp2, NEW k2, Sound(kk, pp), NEW t \in Threads, NEW c \in Conds,
         NEW l \in Locks, t \notin kk.blocked, k2 = Signal(kk, c, l), MovesOwning(t, kk, pp, pp2)
  PROVE  Sound(k2, pp2) /\ SignalDone(c, l, kk, k2, pp)
<1> USE DEF MovesOwning
<1>0. kk \in Kernel
  BY DEF Sound
<1>2. LocksSound(kk) /\ CondsSound(kk) /\ QueuedAt(kk, pp) /\ OwnersSound(kk, pp)
  BY DEF Sound
<1>1. /\ k2 \in Kernel
      /\ k2.lock = kk.lock /\ k2.sem = kk.sem
      /\ \A d \in Conds \ {c} : k2.cond[d] = kk.cond[d]
      /\ \/ k2 = kk
         \/ /\ kk.cond[c].waitingLock = l /\ kk.cond[c].queue # <<>>
            /\ k2.cond[c].queue = Tail(kk.cond[c].queue)
            /\ k2.cond[c].waitingLock = IF Len(kk.cond[c].queue) = 1 THEN NULL ELSE l
            /\ k2.blocked = kk.blocked \ {Head(kk.cond[c].queue)}
  BY <1>0, <1>2, SignalEffect DEF CondsSound
<1>3. \A u \in kk.blocked : u \in Threads /\ pp2[u] = pp[u]
  BY <1>0, KernelFields DEF OnlyMoves
<1>f. kk.cond[c].queue # <<>> =>
        /\ Head(kk.cond[c].queue) \in Threads /\ Head(kk.cond[c].queue) \in kk.blocked
        /\ pp[Head(kk.cond[c].queue)] = InWait(c, kk.cond[c].waitingLock)
        /\ Len(kk.cond[c].queue) = 1 <=> Tail(kk.cond[c].queue) = <<>>
  BY <1>0, <1>2, FirstSleeps
<1>4. LocksSound(k2)
  BY <1>1, <1>2 DEF LocksSound
<1>5. CondsSound(k2)
  <2>1. k2.cond[c].waitingLock = NULL <=> k2.cond[c].queue = <<>>
    BY <1>1, <1>2, <1>f, NullIsNoLock DEF CondsSound
  <2>2. \A d \in Conds \ {c} : k2.cond[d] = kk.cond[d]
    BY <1>1
  <2> QED
    BY <1>2, <2>1, <2>2 DEF CondsSound
<1>6. QueuedAt(k2, pp2)
  <2>1. CASE k2 = kk
    BY <1>0, <1>2, <1>3, <2>1, SameQueues DEF Stay, QueuesStay
  <2>2. CASE k2 # kk
    <3>1. /\ kk.cond[c].queue # <<>> /\ k2.cond[c].queue = Tail(kk.cond[c].queue)
          /\ k2.cond[c].queue # <<>> => k2.cond[c].waitingLock = kk.cond[c].waitingLock
          /\ k2.blocked = kk.blocked \ {Head(kk.cond[c].queue)}
      BY <1>1, <1>f, <2>2
    <3>2. QueuedAt(kk, pp) /\ Stay(k2, pp, pp2)
      BY <1>2, <1>3, <3>1 DEF Stay
    <3>3. k2 \in Kernel /\ WakesInCond(kk, k2, c)
      BY <1>1, <3>1 DEF WakesInCond
    <3> QED
      BY <1>0, <3>2, <3>3, WakeInCond
  <2> QED
    BY <2>1, <2>2
<1>7. /\ \A u \in Threads : u \in kk.blocked => u \in k2.blocked \/ pp[u] = InWait(c, l)
      /\ \A u \in Threads : u \in k2.blocked => u \in kk.blocked
  BY <1>1, <1>f
<1>8. OwnersSound(k2, pp2)
  <2> SUFFICES ASSUME NEW u \in Threads, u \notin k2.blocked, NEW m \in Locks, pp2[u] = InAcquire(m)
               PROVE  kk.lock[m].owner = u
    BY <1>1 DEF OwnersSound
  <2>1. CASE u = t
    BY <2>1
  <2>2. CASE u # t
    <3>1. pp[u] = InAcquire(m)
      BY <2>2 DEF OnlyMoves
    <3>2. u \notin kk.blocked
      BY <1>7, <3>1, Places
    <3> QED
      BY <1>2, <3>1, <3>2 DEF OwnersSound
  <2> QED
    BY <2>1, <2>2
<1> QED
  BY <1>1, <1>4, <1>5, <1>6, <1>7, <1>8 DEF Sound, SignalDone

\* P: the caller sleeps in P or has taken one.
LEMMA PSound ==
  ASSUME NEW kk, NEW pp, NEW pp2, NEW k2, Sound(kk, pp), NEW t \in Threads, NEW s \in Sems,
         t \notin kk.blocked, k2 = P(kk, t, s), IntoP(t, s, k2, pp, pp2)
  PROVE  Sound(k2, pp2) /\ PDone(t, s, kk, k2)
<1> USE DEF IntoP
<1>0. kk \in Kernel
  BY DEF Sound
<1>1. /\ k2 \in Kernel
      /\ k2.lock = kk.lock /\ k2.cond = kk.cond
      /\ \A r \in Sems \ {s} : k2.sem[r] = kk.sem[r]
      /\ \/ /\ kk.sem[s].value > 0 /\ k2.sem[s].value = kk.sem[s].value - 1
            /\ k2.sem[s].queue = kk.sem[s].queue /\ k2.blocked = kk.blocked
         \/ /\ kk.sem[s].value = 0 /\ k2.sem[s].value = 0
            /\ k2.sem[s].queue = Append(kk.sem[s].queue, t)
            /\ k2.blocked = kk.blocked \cup {t}
  BY <1>0, PEffect
<1>2. LocksSound(kk) /\ CondsSound(kk) /\ QueuedAt(kk, pp) /\ OwnersSound(kk, pp)
  BY DEF Sound
<1>3. \A u \in kk.blocked : u \in Threads /\ pp2[u] = pp[u]
  BY <1>0, KernelFields DEF OnlyMoves
<1>4. LocksSound(k2) /\ CondsSound(k2)
  BY <1>1, <1>2 DEF LocksSound, CondsSound
<1>5. QueuedAt(k2, pp2)
  <2>1. CASE k2.blocked = kk.blocked
    <3>1. \A r \in Sems : k2.sem[r].queue = kk.sem[r].queue
      BY <1>1, <2>1
    <3>2. k2 \in Kernel /\ Stay(kk, pp, pp2) /\ QueuesStay(kk, k2)
      BY <1>1, <1>3, <2>1, <3>1 DEF Stay, QueuesStay
    <3> QED
      BY <1>0, <1>2, <3>2, SameQueues
  <2>2. CASE k2.blocked # kk.blocked
    <3>1. k2.sem[s].queue = Append(kk.sem[s].queue, t) /\ k2.blocked = kk.blocked \cup {t}
      BY <1>1, <2>2
    <3>2. pp2[t] = InP(s) /\ QueuedAt(kk, pp) /\ Stay(kk, pp, pp2)
      BY <1>2, <1>3, <3>1 DEF Stay
    <3>3. k2 \in Kernel /\ SleepsInSem(kk, k2, t, s)
      BY <1>1, <3>1 DEF SleepsInSem
    <3> QED
      BY <1>0, <3>2, <3>3, SleepInSem
  <2> QED
    BY <2>1, <2>2
<1>6. OwnersSound(k2, pp2)
  <2> SUFFICES ASSUME NEW u \in Threads, u \notin k2.blocked, NEW m \in Locks, pp2[u] = InAcquire(m)
               PROVE  kk.lock[m].owner = u
    BY <1>1 DEF OwnersSound
  <2>1. u # t
    OBVIOUS
  <2>2. u \notin kk.blocked /\ pp[u] = InAcquire(m)
    BY <1>1, <2>1 DEF OnlyMoves
  <2> QED
    BY <1>2, <2>2 DEF OwnersSound
<1> QED
  BY <1>1, <1>4, <1>5, <1>6 DEF Sound, PDone

\* V, called by a thread or in an interrupt: at most the first thread is woken,
\* still inside P.
LEMMA VSound ==
  ASSUME NEW kk, NEW pp, NEW k2, Sound(kk, pp), NEW s \in Sems, k2 = V(kk, s)
  PROVE  Sound(k2, pp) /\ VDone(s, kk, k2, pp)
<1>0. kk \in Kernel
  BY DEF Sound
<1>1. /\ k2 \in Kernel
      /\ k2.lock = kk.lock /\ k2.cond = kk.cond
      /\ \A r \in Sems \ {s} : k2.sem[r] = kk.sem[r]
      /\ k2.sem[s].value = kk.sem[s].value + 1
      /\ \/ /\ kk.sem[s].queue = <<>>
            /\ k2.sem[s].queue = kk.sem[s].queue /\ k2.blocked = kk.blocked
         \/ /\ kk.sem[s].queue # <<>>
            /\ k2.sem[s].queue = Tail(kk.sem[s].queue)
            /\ k2.blocked = kk.blocked \ {Head(kk.sem[s].queue)}
  BY <1>0, VEffect
<1>2. LocksSound(kk) /\ CondsSound(kk) /\ QueuedAt(kk, pp) /\ OwnersSound(kk, pp)
  BY DEF Sound
<1>f. kk.sem[s].queue # <<>> =>
        /\ Head(kk.sem[s].queue) \in Threads /\ Head(kk.sem[s].queue) \in kk.blocked
        /\ pp[Head(kk.sem[s].queue)] = InP(s)
  BY <1>0, <1>2, FirstSleeps
<1>4. LocksSound(k2) /\ CondsSound(k2)
  BY <1>1, <1>2 DEF LocksSound, CondsSound
<1>5. QueuedAt(k2, pp)
  <2>1. CASE kk.sem[s].queue = <<>>
    <3>1. k2.blocked = kk.blocked /\ \A r \in Sems : k2.sem[r].queue = kk.sem[r].queue
      BY <1>1, <2>1
    <3>2. k2 \in Kernel /\ Stay(kk, pp, pp) /\ QueuesStay(kk, k2)
      BY <1>1, <3>1 DEF Stay, QueuesStay
    <3> QED
      BY <1>0, <1>2, <3>2, SameQueues
  <2>2. CASE kk.sem[s].queue # <<>>
    <3>1. /\ k2.sem[s].queue = Tail(kk.sem[s].queue)
          /\ k2.blocked = kk.blocked \ {Head(kk.sem[s].queue)}
      BY <1>1, <2>2
    <3> QED
      BY <1>0, <1>1, <1>2, <2>2, <3>1, WakeInSem
  <2> QED
    BY <2>1, <2>2
<1>6. OwnersSound(k2, pp)
  <2> SUFFICES ASSUME NEW u \in Threads, u \notin k2.blocked, NEW m \in Locks, pp[u] = InAcquire(m)
               PROVE  kk.lock[m].owner = u
    BY <1>1 DEF OwnersSound
  <2>1. u \notin kk.blocked
    BY <1>1, <1>f, Places
  <2> QED
    BY <1>2, <2>1 DEF OwnersSound
<1> QED
  BY <1>1, <1>4, <1>5, <1>6, <1>f DEF Sound, VDone

\* Release does not look at condition variables.
LEMMA ReleaseThenCond ==
  ASSUME NEW kk \in Kernel, NEW t \in Threads, NEW c \in Conds, NEW l \in Locks, NEW x
  PROVE  Release(WithCond(kk, c, x), t, l) = WithCond(Release(kk, t, l), c, x)
<1> DEFINE a == WithCond(kk, c, x)
<1>1. a.lock = kk.lock
  BY DEF Kernel, WithCond
<1>2. CASE kk.lock[l].owner # t
  BY <1>1, <1>2 DEF Release, isHeldBy
<1>3. ASSUME NEW y PROVE WithLock(a, l, y) = WithCond(WithLock(kk, l, y), c, x)
  BY DEF WithLock, WithCond, Kernel
<1>4. ASSUME NEW y, NEW u
      PROVE  ReadyToRun(WithLock(a, l, y), u) = WithCond(ReadyToRun(WithLock(kk, l, y), u), c, x)
  BY DEF WithLock, WithCond, ReadyToRun, Kernel
<1>5. CASE kk.lock[l].owner = t /\ kk.lock[l].queue # <<>>
  <2> DEFINE y == [kk.lock[l] EXCEPT !.owner = Head(kk.lock[l].queue), !.queue = Tail(kk.lock[l].queue)]
             h == Head(kk.lock[l].queue)
  <2>1. Release(kk, t, l) = ReadyToRun(WithLock(kk, l, y), h)
    BY <1>5 DEF Release, isHeldBy, WithLock
  <2>2. Release(a, t, l) = ReadyToRun(WithLock(a, l, y), h)
    <3> HIDE DEF a
    <3> QED
      BY <1>1, <1>5 DEF Release, isHeldBy, WithLock
  <2> HIDE DEF y, h
  <2> QED
    BY <1>4, <2>1, <2>2
<1>6. CASE kk.lock[l].owner = t /\ kk.lock[l].queue = <<>>
  <2> DEFINE y == [kk.lock[l] EXCEPT !.state = "FREE", !.owner = NULL]
  <2>1. Release(kk, t, l) = WithLock(kk, l, y)
    BY <1>6 DEF Release, isHeldBy, WithLock
  <2>2. Release(a, t, l) = WithLock(a, l, y)
    <3> HIDE DEF a
    <3> QED
      BY <1>1, <1>6 DEF Release, isHeldBy, WithLock
  <2> HIDE DEF y
  <2> QED
    BY <1>3, <2>1, <2>2
<1> QED
  BY <1>2, <1>5, <1>6

\* Wait: the lock is handed on or free, and the caller sleeps.
LEMMA WaitSound ==
  ASSUME NEW kk, NEW pp, NEW pp2, NEW k2, Sound(kk, pp), NEW t \in Threads, NEW c \in Conds,
         NEW l \in Locks, t \notin kk.blocked, MayWait(kk, c, l), k2 = Wait(kk, t, c, l),
         IntoWait(t, c, l, pp, pp2)
  PROVE  Sound(k2, pp2) /\ WaitDone(t, l, kk, k2, pp)
<1> USE DEF IntoWait
<1> DEFINE q == Append(kk.cond[c].queue, t)
           x == [kk.cond[c] EXCEPT !.waitingLock = l, !.queue = q]
           r == Release(kk, t, l)
           j == WithCond(r, c, x)
           ppr == [u \in Threads |-> IF u = t THEN Run ELSE pp[u]]
<1>0. kk \in Kernel /\ CondsSound(kk)
  BY DEF Sound
<1>1. k2 = Sleep(j, t)
  <2>1. WithCond(kk, c, x) = [kk EXCEPT !.cond[c].waitingLock = l, !.cond[c].queue = Append(@, t)]
    BY <1>0, KernelFields DEF WithCond, Kernel, Condition
  <2>2. k2 = Sleep(Release(WithCond(kk, c, x), t, l), t)
    BY <2>1 DEF Wait
  <2> HIDE DEF x
  <2> QED
    BY <1>0, <2>2, ReleaseThenCond
<1>2. kk.cond[c] \in Condition /\ q \in Seq(Threads) /\ q # <<>>
  BY <1>0, KernelFields
<1>3. q = Append(kk.cond[c].queue, t)
  OBVIOUS
<1> HIDE DEF q
<1>4. x \in Condition /\ x.waitingLock = l /\ x.queue = q
  BY <1>2 DEF Condition
<1> HIDE DEF x
<1>5. OnlyMoves(t, pp, ppr) /\ ppr[t] = Run /\ \A m \in Locks : ppr[t] # InAcquire(m)
  BY Places DEF OnlyMoves
<1>6. /\ Sound(r, ppr) /\ r.sem = kk.sem /\ r.cond = kk.cond
      /\ \A u \in Threads : u \in kk.blocked => u \in r.blocked \/ pp[u] = InAcquire(l)
      /\ \A u \in Threads : u \in r.blocked => u \in kk.blocked
      /\ KeepOwners(t, kk, r) /\ \A m \in Locks \ {l} : kk.lock[m].owner = t => r.lock[m].owner = t
  <2>1. MovesOut(t, pp, ppr)
    BY <1>5 DEF MovesOut
  <2> HIDE DEF ppr
  <2>2. Sound(r, ppr) /\ r.cond = kk.cond /\ ReleaseDone(t, l, kk, r, pp)
    BY <2>1, ReleaseSound
  <2> QED
    BY <2>2 DEF ReleaseDone
<1> HIDE DEF r
<1>7. r \in Kernel /\ LocksSound(r) /\ CondsSound(r) /\ QueuedAt(r, ppr) /\ OwnersSound(r, ppr)
  BY <1>6 DEF Sound
<1>8. /\ j \in Kernel /\ j.lock = r.lock /\ j.sem = r.sem /\ j.blocked = r.blocked
      /\ j.cond[c] = x /\ \A d \in Conds \ {c} : j.cond[d] = r.cond[d]
  BY <1>4, <1>7, SetCond
<1> HIDE DEF j
<1>9. /\ k2 \in Kernel /\ k2.lock = j.lock /\ k2.cond = j.cond /\ k2.sem = j.sem
      /\ k2.blocked = j.blocked \cup {t}
  <2>1. j \in Kernel
    BY <1>8
  <2> QED
    BY <1>1, <2>1, SleepEffect
<1>10. LocksSound(k2)
  BY <1>7, <1>8, <1>9 DEF LocksSound
<1>11. CondsSound(k2)
  BY <1>2, <1>4, <1>7, <1>8, <1>9, NullIsNoLock DEF CondsSound
<1>12. /\ t \notin r.blocked
       /\ \A u \in r.blocked : u \in Threads /\ u # t /\ pp2[u] = ppr[u]
  BY <1>6, <1>7, KernelFields DEF OnlyMoves
<1>13. QueuedAt(k2, pp2)
  <2>1. r.cond[c].queue # <<>> => r.cond[c].waitingLock = l
    BY <1>0, <1>6 DEF MayWait, CondsSound
  <2>2. k2.cond[c].waitingLock = l /\ k2.cond[c].queue = Append(r.cond[c].queue, t)
    BY <1>3, <1>4, <1>6, <1>8, <1>9
  <2>3. Stay(r, ppr, pp2)
    BY <1>12 DEF Stay
  <2>4. SleepsInCond(r, k2, t, c, l)
    BY <1>8, <1>9, <2>1, <2>2 DEF SleepsInCond
  <2> QED
    BY <1>7, <1>9, <1>12, <2>3, <2>4, SleepInCond
<1>14. OwnersSound(k2, pp2)
  <2> SUFFICES ASSUME NEW u \in Threads, u \notin k2.blocked, NEW m \in Locks, pp2[u] = InAcquire(m)
               PROVE  k2.lock[m].owner = u
    BY DEF OwnersSound
  <2>1. u # t /\ u \notin r.blocked /\ ppr[u] = InAcquire(m)
    BY <1>8, <1>9 DEF OnlyMoves
  <2> QED
    BY <1>7, <1>8, <1>9, <2>1 DEF OwnersSound
<1>15. /\ t \in k2.blocked /\ k2.sem = kk.sem
       /\ \A u \in Threads : u \in kk.blocked => u \in k2.blocked \/ pp[u] = InAcquire(l)
       /\ \A u \in Threads : u \in k2.blocked => u \in kk.blocked \/ u = t
  BY <1>6, <1>8, <1>9
<1>16. KeepOwners(t, kk, k2) /\ \A m \in Locks \ {l} : kk.lock[m].owner = t => k2.lock[m].owner = t
  BY <1>6, <1>8, <1>9 DEF KeepOwners
<1> QED
  BY <1>9, <1>10, <1>11, <1>13, <1>14, <1>15, <1>16 DEF Sound, WaitDone
================================================================================
