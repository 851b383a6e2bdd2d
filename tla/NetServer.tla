------------------------------- MODULE NetServer -------------------------------
(***************************************************************************)
(* The network of servers and clients: Server() of network/nettest.cc on   *)
(* every running server machine, and the NETWORK system calls of           *)
(* userprog/exception.cc in every client thread.                           *)
(*                                                                         *)
(* A message goes to one mailbox.  Delivery is reliable and in the order   *)
(* the messages reach the receiving machine (the default -l 1).  A server  *)
(* takes a message only when the mail of the previous handler has all been *)
(* sent; between two of its sends other machines run.                      *)
(***************************************************************************)
EXTENDS ServerObjects

CONSTANTS
  Calls,        \* the system calls clients make, see CallSet
  MaxCalls,     \* bound: system calls per client
  Disciplined   \* clients acquire, wait and release as a monitor requires

VARIABLES
  srv,      \* srv[s]: the state of server s
  mail,     \* mail[s]: mailbox 0 of server s
  inbox,    \* inbox[c]: the mailbox of client thread c
  call,     \* call[c]: the system call c waits in, or NoCall
  handle,   \* handle[c][n]: the id c's last create of n returned, else -1
  made,     \* made[c]: system calls c has made
  holds,    \* holds[c]: the locks c may believe it holds (history variable)
  refs      \* refs[c][n]: creates of n less destroys of n by c (history variable)

vars == <<srv, mail, inbox, call, handle, made, holds, refs>>

NoCall == [op |-> "none"]

CallSet == [op : Ops, obj : Names, lock : Names, index : Int, value : Int]

ASSUME CallsAssumption == \A k \in Calls : k \in CallSet
ASSUME MaxCallsAssumption == MaxCalls \in Nat
ASSUME DisciplinedAssumption == Disciplined \in BOOLEAN

Init ==
  /\ srv = [s \in Servers |-> NewServer(s)]
  /\ mail = [s \in Servers |-> <<>>]
  /\ inbox = [c \in Clients |-> <<>>]
  /\ call = [c \in Clients |-> NoCall]
  /\ handle = [c \in Clients |-> [n \in Names |-> -1]]
  /\ made = [c \in Clients |-> 0]
  /\ holds = [c \in Clients |-> {}]
  /\ refs = [c \in Clients |-> [n \in Names |-> 0]]
-------------------------------------------------------------------------------
(***************************************************************************)
(* Clients.                                                                *)
(***************************************************************************)

\* The arguments as they are sent: names in a create, ids in the others.
ArgOf(c, k) ==
  [obj |-> IF k.op \in Creates THEN k.obj ELSE handle[c][k.obj],
   lock |-> IF k.op \in CVOps \ {"DestroyCondition"} THEN handle[c][k.lock] ELSE -1,
   index |-> k.index,
   value |-> k.value]

\* Mutant of Accepted: a negative id is not rejected.
AcceptedAnyId(c, k) ==
  /\ k.op = "CreateMV" => k.index > 0
  /\ k.op \in {"Set", "Get"} => k.index >= 0

\* The checks of the system calls; a rejected call returns and sends nothing.
Accepted(c, k) ==
  /\ k.op \notin Creates => handle[c][k.obj] >= 0
  /\ k.op \in CVOps \ {"DestroyCondition"} => handle[c][k.lock] >= 0
  /\ k.op = "CreateMV" => k.index > 0
  /\ k.op \in {"Set", "Get"} => k.index >= 0

\* The lock a call is about, as the caller knows it.
LockOf(c, k) == IF k.op \in LockOps THEN handle[c][k.obj] ELSE handle[c][k.lock]

\* What a monitor requires of its callers: condition operations and releases
\* by a holder of the lock, no second acquire; and objects used and destroyed
\* only between their create and their destroy by the same client.
Proper(c, k) ==
  /\ k.op \notin Creates => refs[c][k.obj] > 0
  /\ k.op = "Acquire" => LockOf(c, k) \notin holds[c]
  /\ k.op \in {"Release", "Wait", "Signal", "Broadcast"} => LockOf(c, k) \in holds[c]
  /\ k.op = "DestroyLock" => LockOf(c, k) \notin holds[c]

\* A system call up to clientSendMail, which reaches any one running server.
\* Release and the destroys are complete then, the others wait for a result.
ClientCall(c, k) ==
  /\ call[c] = NoCall
  /\ made[c] < MaxCalls
  /\ Accepted(c, k)
  /\ Disciplined => Proper(c, k)
  /\ \E s \in Servers :
       mail' = [mail EXCEPT ![s] =
                  Append(@, [kind |-> "call", type |-> k.op, client |-> c, arg |-> ArgOf(c, k)])]
  /\ call' = [call EXCEPT ![c] = IF k.op \in OneWay THEN NoCall ELSE k]
  /\ made' = [made EXCEPT ![c] = @ + 1]
  /\ holds' = [holds EXCEPT ![c] =
                 IF k.op \in {"Release", "Wait"} THEN @ \ {LockOf(c, k)} ELSE @]
  /\ refs' = [refs EXCEPT ![c][k.obj] = IF k.op \in Destroys THEN @ - 1 ELSE @]
  /\ UNCHANGED <<srv, inbox, handle>>

\* An id read from a result that has none is an uninitialised int.
AnyId == -1 .. 5 * TableSize - 1

\* The rest of the call: the first result in the mailbox is read as its own.
ClientReturn(c) ==
  /\ call[c] # NoCall
  /\ inbox[c] # <<>>
  /\ LET k == call[c]
         r == Head(inbox[c])
     IN  \E ok \in r.ok :
           /\ \E id \in IF r.val = {} THEN AnyId ELSE r.val :
                handle' = IF k.op \in Creates
                          THEN [handle EXCEPT ![c][k.obj] = IF ok THEN id ELSE -1]
                          ELSE handle
           /\ refs' = [refs EXCEPT ![c][k.obj] = IF k.op \in Creates /\ ok THEN @ + 1 ELSE @]
           /\ holds' = [holds EXCEPT ![c] =
                IF k.op \in {"Acquire", "Wait"} /\ r.ok # {FALSE}
                THEN @ \cup {LockOf(c, k)} ELSE @]
  /\ inbox' = [inbox EXCEPT ![c] = Tail(@)]
  /\ call' = [call EXCEPT ![c] = NoCall]
  /\ UNCHANGED <<srv, mail, made>>
-------------------------------------------------------------------------------
(***************************************************************************)
(* Servers.                                                                *)
(***************************************************************************)

\* What is left to send after one sendMail: the mail of a request goes to the
\* servers in increasing order.
AfterSend(out) ==
  LET h == Head(out)
  IN  IF Cardinality(h.to) <= 1
      THEN Tail(out)
      ELSE <<[h EXCEPT !.to = @ \ {Min(h.to)}]>> \o Tail(out)

ServerSend(s) ==
  /\ srv[s].out # <<>>
  /\ LET h == Head(srv[s].out)
     IN  IF h.msg.kind = "result"
         THEN /\ inbox' = [inbox EXCEPT ![h.msg.client] = Append(@, h.msg)]
              /\ mail' = mail
         ELSE /\ mail' = [mail EXCEPT ![Min(h.to)] = Append(@, h.msg)]
              /\ inbox' = inbox
  /\ srv' = [srv EXCEPT ![s].out = AfterSend(@)]
  /\ UNCHANGED <<call, handle, made, holds, refs>>

\* postOffice->Receive of a message of this type, and its handler.
Receive(s, type, st) ==
  /\ srv[s].out = <<>>
  /\ srv[s].loop = NoLoop
  /\ mail[s] # <<>>
  /\ Head(mail[s]).type = type
  /\ mail' = [mail EXCEPT ![s] = Tail(@)]
  /\ srv' = [srv EXCEPT ![s] = st]
  /\ UNCHANGED <<inbox, call, handle, made, holds, refs>>

M(s) == Head(mail[s])

CreateLock(s) == Receive(s, "CreateLock", serverCreateLock(srv[s], M(s)))
Acquire(s) == Receive(s, "Acquire", HandleById(srv[s], M(s), DoAcquireLock))
Release(s) == Receive(s, "Release", HandleById(srv[s], M(s), DoReleaseLock))
DestroyLock(s) == Receive(s, "DestroyLock", serverDestroyLock(srv[s], M(s)))

CreateCondition(s) == Receive(s, "CreateCondition", serverCreateCV(srv[s], M(s)))
Wait(s) == Receive(s, "Wait", serverWait(srv[s], M(s)))
Signal(s) == Receive(s, "Signal", serverSignal(srv[s], M(s)))
Broadcast(s) == Receive(s, "Broadcast", serverBroadcast(srv[s], M(s)))
DestroyCondition(s) == Receive(s, "DestroyCondition", serverDestroyCV(srv[s], M(s)))

CreateMV(s) == Receive(s, "CreateMV", serverCreateMV(srv[s], M(s)))
DestroyMV(s) == Receive(s, "DestroyMV", serverDestroyMV(srv[s], M(s)))
Set(s) == Receive(s, "Set", serverSet(srv[s], M(s)))
Get(s) == Receive(s, "Get", serverGet(srv[s], M(s)))

\* A round of the loop the handler is in.
Round(s, type, st) ==
  /\ srv[s].out = <<>>
  /\ srv[s].loop.type = type
  /\ srv' = [srv EXCEPT ![s] = st]
  /\ UNCHANGED <<mail, inbox, call, handle, made, holds, refs>>

CreateLockLoop(s) == Round(s, "CreateLock", CreateRound(srv[s], DoCreateLock))
CreateConditionLoop(s) == Round(s, "CreateCondition", CreateRound(srv[s], DoCreateCV))
CreateMVLoop(s) == Round(s, "CreateMV", CreateRound(srv[s], DoCreateMV))
BroadcastLoop(s) == Round(s, "Broadcast", BroadcastRound(srv[s]))

LockStep(s) == CreateLock(s) \/ CreateLockLoop(s) \/ Acquire(s) \/ Release(s) \/ DestroyLock(s)
CVStep(s) ==
  \/ CreateCondition(s) \/ CreateConditionLoop(s) \/ Wait(s) \/ Signal(s)
  \/ Broadcast(s) \/ BroadcastLoop(s) \/ DestroyCondition(s)
MVStep(s) == CreateMV(s) \/ CreateMVLoop(s) \/ Set(s) \/ Get(s) \/ DestroyMV(s)

ServerStep(s) == ServerSend(s) \/ LockStep(s) \/ CVStep(s) \/ MVStep(s)

Next ==
  \/ \E c \in Clients : ClientReturn(c) \/ \E k \in Calls : ClientCall(c, k)
  \/ \E s \in Servers : ServerStep(s)

Spec == Init /\ [][Next]_vars

\* A server never stops serving its mailbox and a client in Receive is woken
\* by its mail; nothing obliges a client program to make another call.
Fairness ==
  /\ \A s \in Servers : WF_vars(ServerStep(s))
  /\ \A c \in Clients : WF_vars(ClientReturn(c))

FairSpec == Spec /\ Fairness
-------------------------------------------------------------------------------
(***************************************************************************)
(* Properties.                                                             *)
(***************************************************************************)
\* Every variable has its type; no message carries an id that a client's
\* system call should have rejected.
TypeOK ==
  /\ srv \in [Servers -> ServerState]
  /\ mail \in [Servers -> Seq(ServerMail)]
  /\ inbox \in [Clients -> Seq(ResultMail)]
  /\ call \in [Clients -> CallSet \cup {NoCall}]
  /\ handle \in [Clients -> [Names -> Int]]
  /\ made \in [Clients -> 0 .. MaxCalls]
  /\ holds \in [Clients -> SUBSET Int]
  /\ refs \in [Clients -> [Names -> Int]]

Tables(s) == {srv[s].locks, srv[s].cvs, srv[s].mvs}
TableFor(s, op) ==
  CASE op = "CreateLock" -> srv[s].locks
    [] op = "CreateCondition" -> srv[s].cvs
    [] op = "CreateMV" -> srv[s].mvs

\* Acquire gives a lock to one client at a time: no two clients that were told
\* they have a lock and have not yet given it up.
MutualExclusion == \A c, d \in Clients : c # d => holds[c] \cap holds[d] = {}

\* A free lock has no waiters: every release hands it on, so that no client is
\* left in the queue of a lock that nobody will release.
FreeLocksHaveNoWaiters ==
  \A s \in Servers : \A i \in Used(srv[s].locks) :
    srv[s].locks.slot[i].state = "FREE" => srv[s].locks.slot[i].q = <<>>

\* Nobody waits twice for a lock and its owner does not wait for it, or it
\* would wait for itself.
QueuedOnce ==
  \A s \in Servers : \A i \in Used(srv[s].locks) :
    LET l == srv[s].locks.slot[i]
    IN  /\ l.state = "BUSY" => l.owner \notin Range(l.q)
        /\ \A j, k \in DOMAIN l.q : l.q[j] = l.q[k] => j = k

\* serverDoSignal's "ERROR Q is not empty but waitingLock is NULL" is never
\* printed, and a lock is remembered only while somebody waits.
WaitingLockIffWaiters ==
  \A s \in Servers : \A i \in Used(srv[s].cvs) :
    LET cv == srv[s].cvs.slot[i]
    IN  cv.waitingLock = -1 <=> cv.q = <<>>

\* The bitmap marks exactly the entries in use, and the bit it finds never
\* lies beyond the end of the vector: the ASSERT(FALSE) of the create
\* functions is unreachable.
NoTableGap ==
  \A s \in Servers : \A t \in Tables(s) :
    /\ t.bits = {i \in Index : t.slot[i] # NULL}
    /\ t.bits \subseteq 0 .. t.size - 1
    /\ FindBit(t) <= t.size

\* The servers never keep two objects of one kind and name.
UniqueNames ==
  \A s, t \in Servers : \A op \in Creates : \A n \in Names :
    /\ Cardinality(Named(TableFor(s, op), n)) <= 1
    /\ s # t => Named(TableFor(s, op), n) = {} \/ Named(TableFor(t, op), n) = {}

\* Whoever has created an object and not destroyed it can use the id it was
\* given: some server still keeps the object under that id and name.
ReferencedObjectsExist ==
  \A c \in Clients : \A k \in Calls :
    k.op \in Creates /\ refs[c][k.obj] > 0 =>
      LET id == handle[c][k.obj]
          s == id \div TableSize
      IN  /\ s \in Servers
          /\ id % TableSize \in Named(TableFor(s, k.op), k.obj)

\* Results on their way to client c, and the promises of one: its places in
\* the queues of locks and condition variables, and a broadcast of its own.
Places(q, c) == {j \in DOMAIN q : q[j] = c}
PromisedBy(s, c) ==
  LET st == srv[s]
  IN  {<<"out", s, 0, j>> : j \in {j \in DOMAIN st.out :
                                     st.out[j].msg.kind = "result" /\ st.out[j].msg.client = c}}
      \cup (UNION {{<<"lock", s, i, j>> : j \in Places(st.locks.slot[i].q, c)} : i \in Used(st.locks)})
      \cup (UNION {{<<"cv", s, i, j>> : j \in Places(st.cvs.slot[i].q, c)} : i \in Used(st.cvs)})
      \cup {<<"broadcast", s, 0, 0>> : b \in {b \in {st.loop} : b.type = "Broadcast" /\ b.client = c}}
Promises(c) ==
  {<<"inbox", 0, 0, j>> : j \in DOMAIN inbox[c]} \cup (UNION {PromisedBy(s, c) : s \in Servers})
Owed(c) == Cardinality(Promises(c))

\* A call is answered once: no client in a call is owed two results and none is
\* left for a client that has returned, whose next call would take it.
NoDoubleResult == \A c \in Clients : Owed(c) <= IF call[c] = NoCall THEN 0 ELSE 1

Quiet == \A s \in Servers : mail[s] = <<>> /\ srv[s].out = <<>> /\ srv[s].loop = NoLoop

\* No call is lost: once the servers have nothing left to do, every client in a
\* call is queued for a lock or a condition variable, or has its result.
NoLostCall == Quiet => \A c \in Clients : call[c] # NoCall => Owed(c) = 1

\* A call that is not waiting for a lock or a condition returns.
CallsReturn ==
  \A c \in Clients :
    call[c] # NoCall /\ call[c].op \notin {"Acquire", "Wait"} ~> call[c] = NoCall
================================================================================
