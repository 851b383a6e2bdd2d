------------------------------- MODULE PostOffice -------------------------------
(***************************************************************************)
(* The post offices of several machines (network/post.cc) over the network *)
(* device (machine/network.cc) and the synchronized lists of the mailboxes *)
(* (threads/synchlist.cc), all built from the kernel's locks, conditions   *)
(* and semaphores.  A thread's mailbox has the thread's number; so mailbox *)
(* b is that of thread b.                                                  *)
(*                                                                         *)
(* The objects of all machines are in one kernel state k.  A step is a     *)
(* network interrupt, or what a thread does up to the next point where     *)
(* interrupts are enabled again and another thread may run.                *)
(***************************************************************************)
EXTENDS Integers, Sequences, FiniteSets

CONSTANTS
  Machines,   \* machine ids
  Users,      \* threads that send and receive; also their mailboxes
  Host,       \* Host[u]: the machine of thread u
  Routes,     \* pairs <<u, v>>: u writes to v
  NULL,       \* nothing
  MaxSends,   \* bound: messages a thread sends
  Lossy       \* a packet may be lost (-l below 1)

ASSUME HostAssumption == Host \in [Users -> Machines]
ASSUME RoutesAssumption == Routes \subseteq Users \X Users
ASSUME MaxSendsAssumption == MaxSends \in Nat
ASSUME LossyAssumption == Lossy \in BOOLEAN

worker(m) == <<"postal worker", m>>
sendLock(m) == <<"message send lock", m>>
listLock(u) == <<"list lock", u>>
messageAvailable(m) == <<"message available", m>>
messageSent(m) == <<"message sent", m>>

Workers == {worker(m) : m \in Machines}
Sem == {messageAvailable(m) : m \in Machines} \cup {messageSent(m) : m \in Machines}

\* A mailbox's condition "list empty cond" has the mailbox's name.
INSTANCE SynchPrims WITH
  Threads <- Users \cup Workers,
  Locks <- {sendLock(m) : m \in Machines} \cup {listLock(u) : u \in Users},
  Conds <- Users,
  Sems <- Sem

Message == [from : Users, to : Users, n : 1 .. MaxSends]

ASSUME NullIsNoMessage == NULL \notin Message
ASSUME NullIsNoObject ==
  /\ NULL \notin Users \cup Workers
  /\ \A m \in Machines : NULL # sendLock(m)
  /\ \A u \in Users : NULL # listLock(u)
ASSUME UsersAreNoWorkers == Users \cap Workers = {}

VARIABLES
  k,        \* locks, conditions, semaphores and blocked threads
  pc,       \* pc[t]: where thread t is, with the message it handles, if any
  list,     \* list[u]: the messages in mailbox u
  socket,   \* socket[m]: packets on their way to machine m
  inbox,    \* inbox[m]: the packet the device has buffered, or NULL
  due,      \* due[m]: SendDone interrupts that are scheduled
  sent      \* sent[u]: messages u has sent

vars == <<k, pc, list, socket, inbox, due, sent>>

At(p) == [at |-> p, msg |-> NULL]
With(p, m) == [at |-> p, msg |-> m]

Init ==
  /\ k = NewKernel([s \in Sem |-> 0])
  /\ pc = [t \in Users \cup Workers |-> At(IF t \in Users THEN "idle" ELSE "wait")]
  /\ list = [u \in Users |-> <<>>]
  /\ socket = [m \in Machines |-> <<>>]
  /\ inbox = [m \in Machines |-> NULL]
  /\ due = [m \in Machines |-> 0]
  /\ sent = [u \in Users |-> 0]

\* Thread t is at p and not blocked.
Runs(t, p) == t \notin k.blocked /\ pc[t].at = p
Goes(t, p) == pc' = [pc EXCEPT ![t] = With(p, pc[t].msg)]
-------------------------------------------------------------------------------
(***************************************************************************)
(* PostOffice::Send and Network::Send.                                     *)
(***************************************************************************)
SendCall(u, v) ==
  /\ Runs(u, "idle")
  /\ <<u, v>> \in Routes
  /\ sent[u] < MaxSends
  /\ sent' = [sent EXCEPT ![u] = @ + 1]
  /\ k' = Acquire(k, u, sendLock(Host[u]))
  /\ pc' = [pc EXCEPT ![u] = With("send", [from |-> u, to |-> v, n |-> sent[u] + 1])]
  /\ UNCHANGED <<list, socket, inbox, due>>

\* The packet is in the receiver's socket, or lost, when Send returns; an
\* interrupt is due in either case.
NetworkSend(u) ==
  /\ Runs(u, "send")
  /\ \/ socket' = [socket EXCEPT ![Host[pc[u].msg.to]] = Append(@, pc[u].msg)]
     \/ Lossy /\ socket' = socket
  /\ due' = [due EXCEPT ![Host[u]] = @ + 1]
  /\ Goes(u, "await")
  /\ UNCHANGED <<k, list, inbox, sent>>

\* Mutant of AwaitSent: the lock is released without waiting.
AwaitNothing(u) ==
  /\ Runs(u, "await")
  /\ Goes(u, "unlock")
  /\ UNCHANGED <<k, list, socket, inbox, due, sent>>

\* messageSent->P(), tested again when the thread is woken.
AwaitSent(u) ==
  /\ Runs(u, "await")
  /\ k' = P(k, u, messageSent(Host[u]))
  /\ IF u \in k'.blocked THEN pc' = pc ELSE Goes(u, "unlock")
  /\ UNCHANGED <<list, socket, inbox, due, sent>>

SendReturn(u) ==
  /\ Runs(u, "unlock")
  /\ k' = Release(k, u, sendLock(Host[u]))
  /\ pc' = [pc EXCEPT ![u] = At("idle")]
  /\ UNCHANGED <<list, socket, inbox, due, sent>>
-------------------------------------------------------------------------------
(***************************************************************************)
(* The device's interrupts.                                                *)
(***************************************************************************)
\* Mutant of SendDone: the post office is not told.
SendDoneSilent(m) ==
  /\ due[m] > 0
  /\ due' = [due EXCEPT ![m] = @ - 1]
  /\ UNCHANGED <<k, pc, list, socket, inbox, sent>>

SendDone(m) ==
  /\ due[m] > 0
  /\ due' = [due EXCEPT ![m] = @ - 1]
  /\ k' = V(k, messageSent(m))
  /\ UNCHANGED <<pc, list, socket, inbox, sent>>

\* Mutant of CheckPktAvail: a buffered packet does not delay the next one.
CheckPktAlways(m) ==
  /\ socket[m] # <<>>
  /\ inbox' = [inbox EXCEPT ![m] = Head(socket[m])]
  /\ socket' = [socket EXCEPT ![m] = Tail(@)]
  /\ k' = V(k, messageAvailable(m))
  /\ UNCHANGED <<pc, list, due, sent>>

\* The poll reads the next packet unless one is still buffered.
CheckPktAvail(m) ==
  /\ inbox[m] = NULL
  /\ socket[m] # <<>>
  /\ inbox' = [inbox EXCEPT ![m] = Head(socket[m])]
  /\ socket' = [socket EXCEPT ![m] = Tail(@)]
  /\ k' = V(k, messageAvailable(m))
  /\ UNCHANGED <<pc, list, due, sent>>
-------------------------------------------------------------------------------
(***************************************************************************)
(* PostalDelivery: the worker takes the packet off the device and appends  *)
(* it to the list of its mailbox.                                          *)
(***************************************************************************)
AwaitPacket(m) ==
  LET w == worker(m)
  IN  /\ Runs(w, "wait")
      /\ k' = P(k, w, messageAvailable(m))
      /\ IF w \in k'.blocked THEN pc' = pc ELSE Goes(w, "take")
      /\ UNCHANGED <<list, socket, inbox, due, sent>>

TakePacket(m) ==
  LET w == worker(m)
  IN  /\ Runs(w, "take")
      /\ pc' = [pc EXCEPT ![w] = With("put", inbox[m])]
      /\ inbox' = [inbox EXCEPT ![m] = NULL]
      /\ UNCHANGED <<k, list, socket, due, sent>>

\* SynchList::Append: Acquire; Append and Signal; Release.
PutLock(m) ==
  LET w == worker(m)
  IN  /\ Runs(w, "put")
      /\ k' = Acquire(k, w, listLock(pc[w].msg.to))
      /\ Goes(w, "append")
      /\ UNCHANGED <<list, socket, inbox, due, sent>>

\* Mutants of PutAppend: the message is put in front; nobody waiting for mail is
\* woken.
PutPrepend(m) ==
  LET w == worker(m)
      to == pc[w].msg.to
  IN  /\ Runs(w, "append")
      /\ list' = [list EXCEPT ![to] = <<pc[w].msg>> \o @]
      /\ k' = Signal(k, to, listLock(to))
      /\ Goes(w, "unlock")
      /\ UNCHANGED <<socket, inbox, due, sent>>

PutNoSignal(m) ==
  LET w == worker(m)
  IN  /\ Runs(w, "append")
      /\ list' = [list EXCEPT ![pc[w].msg.to] = Append(@, pc[w].msg)]
      /\ Goes(w, "unlock")
      /\ UNCHANGED <<k, socket, inbox, due, sent>>

PutAppend(m) ==
  LET w == worker(m)
      to == pc[w].msg.to
  IN  /\ Runs(w, "append")
      /\ list' = [list EXCEPT ![to] = Append(@, pc[w].msg)]
      /\ k' = Signal(k, to, listLock(to))
      /\ Goes(w, "unlock")
      /\ UNCHANGED <<socket, inbox, due, sent>>

PutReturn(m) ==
  LET w == worker(m)
  IN  /\ Runs(w, "unlock")
      /\ k' = Release(k, w, listLock(pc[w].msg.to))
      /\ pc' = [pc EXCEPT ![w] = At("wait")]
      /\ UNCHANGED <<list, socket, inbox, due, sent>>
-------------------------------------------------------------------------------
(***************************************************************************)
(* Receive of a thread's own mailbox: SynchList::Remove.                   *)
(***************************************************************************)
ReceiveCall(u) ==
  /\ Runs(u, "idle")
  /\ k' = Acquire(k, u, listLock(u))
  /\ pc' = [pc EXCEPT ![u] = At("test")]
  /\ UNCHANGED <<list, socket, inbox, due, sent>>

\* while (list->IsEmpty()) listEmpty->Wait(lock)
ReceiveWait(u) ==
  /\ Runs(u, "test")
  /\ list[u] = <<>>
  /\ k' = Wait(k, u, u, listLock(u))
  /\ Goes(u, "woken")
  /\ UNCHANGED <<list, socket, inbox, due, sent>>

\* The end of Wait: the lock is acquired again.
ReceiveWoken(u) ==
  /\ Runs(u, "woken")
  /\ k' = Acquire(k, u, listLock(u))
  /\ Goes(u, "test")
  /\ UNCHANGED <<list, socket, inbox, due, sent>>

\* The first message is taken and the lock released.
ReceiveTake(u) ==
  /\ Runs(u, "test")
  /\ list[u] # <<>>
  /\ list' = [list EXCEPT ![u] = Tail(@)]
  /\ k' = Release(k, u, listLock(u))
  /\ Goes(u, "idle")
  /\ UNCHANGED <<socket, inbox, due, sent>>
-------------------------------------------------------------------------------
SendStep(u) == NetworkSend(u) \/ AwaitSent(u) \/ SendReturn(u)
ReceiveStep(u) == ReceiveWait(u) \/ ReceiveWoken(u) \/ ReceiveTake(u)
WorkerStep(m) ==
  AwaitPacket(m) \/ TakePacket(m) \/ PutLock(m) \/ PutAppend(m) \/ PutReturn(m)

Next ==
  \/ \E u \in Users : ReceiveCall(u) \/ \E v \in Users : SendCall(u, v)
  \/ \E u \in Users : SendStep(u) \/ ReceiveStep(u)
  \/ \E m \in Machines : SendDone(m) \/ CheckPktAvail(m) \/ WorkerStep(m)

Spec == Init /\ [][Next]_vars

\* Threads that are not blocked get to run, a scheduled interrupt occurs and
\* the device goes on polling; no thread has to send or receive.
Fairness ==
  /\ \A u \in Users : WF_vars(SendStep(u)) /\ WF_vars(ReceiveStep(u))
  /\ \A m \in Machines : WF_vars(SendDone(m)) /\ WF_vars(CheckPktAvail(m)) /\ WF_vars(WorkerStep(m))

FairSpec == Spec /\ Fairness
-------------------------------------------------------------------------------
(***************************************************************************)
(* Properties.                                                             *)
(***************************************************************************)

\* The messages for u, of one (or NULL) and of a sequence.
One(u, m) == IF m # NULL /\ m.to = u THEN <<m>> ELSE <<>>
For(u, s) ==
  LET upTo[i \in 0 .. Len(s)] == IF i = 0 THEN <<>> ELSE upTo[i - 1] \o One(u, s[i])
  IN  upTo[Len(s)]

\* Mail for u that is past Send and before the end of its list: in the hands of
\* the worker, in the device's buffer, on its way.
inHand(m) == IF pc[worker(m)].at \in {"put", "append"} THEN pc[worker(m)].msg ELSE NULL
Coming(u) == One(u, inHand(Host[u])) \o (One(u, inbox[Host[u]]) \o For(u, socket[Host[u]]))

mailbox == [u \in Users |-> list[u] \o Coming(u)]

\* The post office implements mailboxes that are queues: what Send handed to
\* the network is received once, from the mailbox it was sent to, in the order
\* in which it reached the machine; interrupts, the worker and the threads in
\* the middle are stuttering steps.
M == INSTANCE Mailboxes WITH Boxes <- Users, Messages <- Message, box <- mailbox

AreQueues == M!Spec

\* The interrupt a sender waits for is that of its own packet: at most one thread
\* of a machine waits, with one interrupt due or counted.  This is what the
\* device asserts with sendBusy, which Network::Send never sets.
OneSendAtATime ==
  \A m \in Machines :
    LET await == {u \in Users : Host[u] = m /\ pc[u].at = "await"}
    IN  due[m] + k.sem[messageSent(m)].value = Cardinality(await) /\ Cardinality(await) <= 1

\* The worker finds a packet whenever the semaphore lets it through, so that
\* the header it delivers by is that of a packet.
WorkerFindsPacket ==
  \A m \in Machines :
    k.sem[messageAvailable(m)].value + (IF pc[worker(m)].at = "take" THEN 1 ELSE 0)
      = IF inbox[m] = NULL THEN 0 ELSE 1

\* Send returns, even when the machine's other threads send as well.
SendReturns == \A u \in Users : pc[u].at \in {"send", "await", "unlock"} ~> pc[u].at = "idle"

\* A thread in Receive gets its mail: no message lies in a mailbox while its
\* thread sleeps on it forever.
MailIsReceived ==
  \A u \in Users :
    pc[u].at \in {"test", "woken"} /\ mailbox[u] # <<>> ~> pc[u].at = "idle"
================================================================================
