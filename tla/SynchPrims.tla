------------------------------- MODULE SynchPrims -------------------------------
(***************************************************************************)
(* The kernel's semaphores, locks and condition variables                  *)
(* (threads/synch.cc) as operators on the state k of the kernel.  They run *)
(* with interrupts off, so each is one step of the thread t that calls it, *)
(* up to the point where t goes to sleep; what t does when it is run again *)
(* is up to the modules that use them.                                     *)
(***************************************************************************)
EXTENDS Integers, Sequences

CONSTANTS
  Threads,   \* kernel threads
  Locks,     \* objects of class Lock
  Conds,     \* objects of class Condition
  Sems,      \* objects of class Semaphore
  NULL       \* no thread, no lock

ASSUME NullIsNoThread == NULL \notin Threads
ASSUME NullIsNoLock == NULL \notin Locks

NewLock == [state |-> "FREE", owner |-> NULL, queue |-> <<>>]
NewCondition == [waitingLock |-> NULL, queue |-> <<>>]
NewSemaphore(value) == [value |-> value, queue |-> <<>>]

Lock == [state : {"FREE", "BUSY"}, owner : Threads \cup {NULL}, queue : Seq(Threads)]
Condition == [waitingLock : Locks \cup {NULL}, queue : Seq(Threads)]
Semaphore == [value : Nat, queue : Seq(Threads)]

\* The kernel: blocked is the set of threads with status BLOCKED; every other
\* thread runs or is on the ready list.
Kernel == [lock : [Locks -> Lock], cond : [Conds -> Condition], sem : [Sems -> Semaphore],
           blocked : SUBSET Threads]

\* A kernel whose semaphores have these initial values.
NewKernel(values) ==
  [lock |-> [l \in Locks |-> NewLock], cond |-> [c \in Conds |-> NewCondition],
   sem |-> [s \in Sems |-> NewSemaphore(values[s])], blocked |-> {}]

Sleep(k, t) == [k EXCEPT !.blocked = @ \cup {t}]
ReadyToRun(k, t) == [k EXCEPT !.blocked = @ \ {t}]

isHeldBy(k, t, l) == k.lock[l].owner = t
-------------------------------------------------------------------------------
(***************************************************************************)
(* Locks.                                                                  *)
(***************************************************************************)
Acquire(k, t, l) ==
  CASE isHeldBy(k, t, l) -> k
    [] ~isHeldBy(k, t, l) /\ k.lock[l].state = "FREE" ->
         [k EXCEPT !.lock[l] = [@ EXCEPT !.state = "BUSY", !.owner = t]]
    [] OTHER -> Sleep([k EXCEPT !.lock[l].queue = Append(@, t)], t)

\* Mutants of Release: a waiter is woken but the lock is free for anyone; the lock
\* is freed whoever waits for it; it is handed on to a thread that stays asleep.
ReleaseMesa(k, t, l) ==
  LET q == k.lock[l].queue
      free == [k EXCEPT !.lock[l] = [@ EXCEPT !.state = "FREE", !.owner = NULL]]
  IN  CASE ~isHeldBy(k, t, l) -> k
        [] isHeldBy(k, t, l) /\ q # <<>> ->
             ReadyToRun([free EXCEPT !.lock[l].queue = Tail(q)], Head(q))
        [] OTHER -> free

ReleaseNoHandOff(k, t, l) ==
  IF isHeldBy(k, t, l)
  THEN [k EXCEPT !.lock[l] = [@ EXCEPT !.state = "FREE", !.owner = NULL]]
  ELSE k

ReleaseNoWakeUp(k, t, l) ==
  LET q == k.lock[l].queue
  IN  CASE ~isHeldBy(k, t, l) -> k
        [] isHeldBy(k, t, l) /\ q # <<>> ->
             [k EXCEPT !.lock[l] = [@ EXCEPT !.owner = Head(q), !.queue = Tail(q)]]
        [] OTHER -> [k EXCEPT !.lock[l] = [@ EXCEPT !.state = "FREE", !.owner = NULL]]

\* Only the owner releases; the first waiter becomes the owner and is woken.
Release(k, t, l) ==
  LET q == k.lock[l].queue
  IN  CASE ~isHeldBy(k, t, l) -> k
        [] isHeldBy(k, t, l) /\ q # <<>> ->
             ReadyToRun([k EXCEPT !.lock[l] = [@ EXCEPT !.owner = Head(q), !.queue = Tail(q)]],
                        Head(q))
        [] OTHER -> [k EXCEPT !.lock[l] = [@ EXCEPT !.state = "FREE", !.owner = NULL]]
-------------------------------------------------------------------------------
(***************************************************************************)
(* Condition variables.                                                    *)
(***************************************************************************)
\* Wait with another lock than the waiters' prints and returns.
MayWait(k, c, l) == k.cond[c].waitingLock \in {NULL, l}

\* Wait up to its Sleep, after which the thread acquires l again.
Wait(k, t, c, l) ==
  IF MayWait(k, c, l)
  THEN Sleep(Release([k EXCEPT !.cond[c].waitingLock = l, !.cond[c].queue = Append(@, t)], t, l), t)
  ELSE k

\* Mutant of Signal: the last waiter leaves its lock behind.
SignalKeepsLock(k, c, l) ==
  LET q == k.cond[c].queue
  IN  IF k.cond[c].waitingLock = l /\ q # <<>>
      THEN ReadyToRun([k EXCEPT !.cond[c].queue = Tail(q)], Head(q))
      ELSE k

Signal(k, c, l) ==
  LET q == k.cond[c].queue
  IN  IF k.cond[c].waitingLock = l
      THEN ReadyToRun([k EXCEPT !.cond[c] = [waitingLock |-> IF Len(q) = 1 THEN NULL ELSE l,
                                             queue |-> Tail(q)]], Head(q))
      ELSE k
-------------------------------------------------------------------------------
(***************************************************************************)
(* Semaphores.                                                             *)
(***************************************************************************)
\* The test of P's loop: asleep while the value is 0.
P(k, t, s) ==
  IF k.sem[s].value = 0
  THEN Sleep([k EXCEPT !.sem[s].queue = Append(@, t)], t)
  ELSE [k EXCEPT !.sem[s].value = @ - 1]

\* Mutant of V: nobody is woken.
VNoWakeUp(k, s) == [k EXCEPT !.sem[s].value = @ + 1]

V(k, s) ==
  LET q == k.sem[s].queue
      more == [k EXCEPT !.sem[s].value = @ + 1]
  IN  IF q = <<>> THEN more ELSE ReadyToRun([more EXCEPT !.sem[s].queue = Tail(q)], Head(q))
-------------------------------------------------------------------------------
(***************************************************************************)
(* Who sleeps where.                                                       *)
(***************************************************************************)
\* Outside every operation, or asleep in one and what it does when run again.
Run == [at |-> "run"]
InAcquire(l) == [at |-> "Acquire", lock |-> l]
InWait(c, l) == [at |-> "Wait", cond |-> c, lock |-> l]
InP(s) == [at |-> "P", sem |-> s]

In(t, q) == \E j \in DOMAIN q : q[j] = t
NoRepeat(q) == \A i, j \in DOMAIN q : q[i] = q[j] => i = j

\* With the threads at these places, a thread is in a queue, once, exactly if it
\* is blocked there.
QueuedAt(k, place) ==
  /\ \A l \in Locks : NoRepeat(k.lock[l].queue)
  /\ \A c \in Conds : NoRepeat(k.cond[c].queue)
  /\ \A s \in Sems : NoRepeat(k.sem[s].queue)
  /\ \A t \in Threads :
       /\ \A l \in Locks : In(t, k.lock[l].queue) => t \in k.blocked /\ place[t] = InAcquire(l)
       /\ \A c \in Conds :
            In(t, k.cond[c].queue) => t \in k.blocked /\ place[t] = InWait(c, k.cond[c].waitingLock)
       /\ \A s \in Sems : In(t, k.sem[s].queue) => t \in k.blocked /\ place[t] = InP(s)
  /\ \A t \in k.blocked :
       \/ \E l \in Locks : In(t, k.lock[l].queue)
       \/ \E c \in Conds : In(t, k.cond[c].queue)
       \/ \E s \in Sems : In(t, k.sem[s].queue)
================================================================================
