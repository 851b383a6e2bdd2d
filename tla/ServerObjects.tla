----------------------------- MODULE ServerObjects -----------------------------
(***************************************************************************)
(* The objects one network server keeps (network/nettest.cc): its tables   *)
(* of locks, condition variables and monitor variables, the requests it    *)
(* has pending with the other servers, and what the serverDo... functions  *)
(* and the routing functions around them do to that state.  Every          *)
(* operator takes the state st of one server and returns the new one; the  *)
(* mail a function sends is appended to st.out in the order it is sent.    *)
(*                                                                         *)
(* The server is one thread that handles one message at a time, so a       *)
(* handler is a function of st.  The two handlers with a loop around a     *)
(* sendMail (Broadcast, and the creation of every pending object of one    *)
(* name) leave the rest of the loop in st.loop; NetServer runs it.         *)
(***************************************************************************)
EXTENDS Integers, Sequences, FiniteSets, FiniteSetsExt

CONSTANTS
  Servers,     \* machine ids of the servers that are running
  Clients,     \* client threads: a machine id of 5 or more and a mailbox
  Names,       \* names of locks, condition variables and monitor variables
  TableSize,   \* lockTableSize, CVTableSize and MVTableSize (100 in the code)
  NoClient,    \* the owner of a lock that nobody has owned yet
  NULL         \* an entry of a table that is not in use

ASSUME ServersAssumption == Servers \subseteq 0 .. 4
ASSUME TableSizeAssumption == TableSize \in Nat \ {0}
ASSUME NoClientAssumption == NoClient \notin Clients

Creates == {"CreateLock", "CreateCondition", "CreateMV"}
LockOps == {"Acquire", "Release", "DestroyLock"}
CVOps == {"Wait", "Signal", "Broadcast", "DestroyCondition"}
MVOps == {"Set", "Get", "DestroyMV"}
Ops == Creates \cup LockOps \cup CVOps \cup MVOps

\* The system calls that return without waiting for an answer.
Destroys == {"DestroyLock", "DestroyCondition", "DestroyMV"}
OneWay == {"Release"} \cup Destroys
-------------------------------------------------------------------------------
(***************************************************************************)
(* A table: a vector with size entries, NULL where an object was removed,  *)
(* and a bitmap of the entries in use.                                     *)
(***************************************************************************)
Index == 0 .. TableSize - 1

EmptyTable == [size |-> 0, bits |-> {}, slot |-> [i \in Index |-> NULL]]

\* checkIf...IDExists: within the vector and not NULL.
Exists(t, i) == i >= 0 /\ i < t.size /\ t.slot[i] # NULL

Used(t) == {i \in Index : i < t.size /\ t.slot[i] # NULL}
Named(t, n) == {i \in Used(t) : t.slot[i].name = n}

\* find...Named: the first entry with that name.
FindNamed(t, n) == IF Named(t, n) = {} THEN -1 ELSE Min(Named(t, n))

\* BitMap::Find, which the create functions call: the lowest clear bit.
FindBit(t) == IF Index \ t.bits = {} THEN -1 ELSE Min(Index \ t.bits)

\* A new entry at the bit Find returned: push_back at the end of the vector,
\* an assignment below it, ASSERT(FALSE) beyond it (see NoTableGap).
Insert(t, x) ==
  LET i == FindBit(t)
  IN  [size |-> IF i = t.size THEN t.size + 1 ELSE t.size,
       bits |-> t.bits \cup {i},
       slot |-> [t.slot EXCEPT ![i] = x]]

\* Mutant of Remove: the bit is not cleared.
RemoveKeepsBit(t, i) == [t EXCEPT !.slot[i] = NULL]

\* The entry becomes NULL and its bit is cleared.
Remove(t, i) == [t EXCEPT !.bits = @ \ {i}, !.slot[i] = NULL]

\* Mutant of CreateNamed: another create of an object does not count.
CreateNamedUncounted(t, n, new) ==
  LET i == FindNamed(t, n)
  IN  CASE i # -1 -> [table |-> t, index |-> i]
        [] i = -1 /\ FindBit(t) # -1 -> [table |-> Insert(t, new), index |-> FindBit(t)]
        [] OTHER -> [table |-> t, index |-> -1]

\* create...Named: the new table and the index, -1 when the table is full.
CreateNamed(t, n, new) ==
  LET i == FindNamed(t, n)
  IN  CASE i # -1 -> [table |-> [t EXCEPT !.slot[i].count = @ + 1], index |-> i]
        [] i = -1 /\ FindBit(t) # -1 -> [table |-> Insert(t, new), index |-> FindBit(t)]
        [] OTHER -> [table |-> t, index |-> -1]

NewLock(n) == [name |-> n, state |-> "FREE", owner |-> NoClient, q |-> <<>>,
               isToBeDestroyed |-> FALSE, count |-> 1]
NewCV(n) == [name |-> n, q |-> <<>>, waitingLock |-> -1, count |-> 1]
NewMV(n, sz) == [name |-> n, size |-> sz, v |-> [k \in 1 .. sz |-> 0], count |-> 1]

IsOwner(l, c) == l.owner = c /\ l.state = "BUSY"

\* An assignment to an entry of a table.
PutLock(st, i, l) == [st EXCEPT !.locks.slot[i] = l]
PutCV(st, i, cv) == [st EXCEPT !.cvs.slot[i] = cv]
PutMV(st, i, mv) == [st EXCEPT !.mvs.slot[i] = mv]
-------------------------------------------------------------------------------
(***************************************************************************)
(* Mail.  An item of st.out has a set of destination servers, served in    *)
(* increasing order, or none when the mail is a result for a client.       *)
(***************************************************************************)
NoLoop == [type |-> "none"]

NewServer(s) ==
  [id |-> s, locks |-> EmptyTable, cvs |-> EmptyTable, mvs |-> EmptyTable,
   pending |-> {}, nextReq |-> 0, out |-> <<>>, loop |-> NoLoop]

\* sendMail of a result to a client: the statuses and the values that the
\* client may read from its text.
SendResult(st, c, oks, vals) ==
  [st EXCEPT !.out =
     Append(@, [to |-> {}, msg |-> [kind |-> "result", client |-> c, ok |-> oks, val |-> vals]])]

Status(st, c, ok) == SendResult(st, c, {ok}, {})
StatusAndValue(st, c, ok, val) == SendResult(st, c, {ok}, {val})

\* The text of a queued reply is freed before it is sent: any status.
StoredReply(st, c) == SendResult(st, c, BOOLEAN, {})

\* sendMail of YES or NO to the server that asked.
Answer(st, m, yes) ==
  [st EXCEPT !.out =
     Append(@, [to |-> {m.from},
                msg |-> [kind |-> "reply", type |-> m.type, client |-> m.client,
                         arg |-> m.arg, req |-> m.req, yes |-> yes]])]

Peers(st) == Servers \ {st.id}

Request(st, type, a, c, sent) ==
  [req |-> st.nextReq, type |-> type, arg |-> a, client |-> c, sent |-> sent, no |-> 0]

\* A PendingRequest that is never sent (sentCount stays -1).
Adopt(st, type, a, c) ==
  [st EXCEPT !.pending = @ \cup {Request(st, type, a, c, -1)}, !.nextReq = @ + 1]

\* A new PendingRequest, pushed on the table and sent to every other server.
SendPending(st, type, a, c) ==
  [st EXCEPT !.pending = @ \cup {Request(st, type, a, c, Cardinality(Peers(st)))},
             !.nextReq = @ + 1,
             !.out = Append(@, [to |-> Peers(st),
                                msg |-> [kind |-> "request", type |-> type, client |-> c,
                                         arg |-> a, from |-> st.id, req |-> st.nextReq]])]

\* A PendingRequest that no server could be sent: made, then deleted.
Unsent(st) == [st EXCEPT !.nextReq = @ + 1]

\* checkIf...IsMineAndGetMyIndex.
OwnIndex(st, id) == IF id \div TableSize = st.id THEN id % TableSize ELSE -1

\* findPending...Request: the pending request a reply is about.
Matching(st, m) ==
  {p \in st.pending : /\ p.req = m.req
                      /\ p.type = m.type
                      /\ p.client = m.client
                      /\ p.arg.obj = m.arg.obj}

\* findPendingCreate...RequestNamed: every pending creation of this name.
PendingCreates(st, type, n) == {p \in st.pending : p.type = type /\ p.arg.obj = n}
-------------------------------------------------------------------------------
(***************************************************************************)
(* Who handles a request: this server, from state st and with that index   *)
(* into its table, or not this server (or not yet).                        *)
(***************************************************************************)
Here(st, i) == [here |-> TRUE, st |-> st, index |-> i]
NotHere(st) == [here |-> FALSE, st |-> st, index |-> -1]

\* The state after one more NO for the pending request p.
CountNo(st, p) ==
  NotHere([st EXCEPT !.pending = (@ \ {p}) \cup {[p EXCEPT !.no = @ + 1]}])

(***************************************************************************)
(* Requests that name an object by its id: lockID, CVID or MVID.           *)
(***************************************************************************)

\* server<Op>: ours, or forwarded, or (alone) done with index -1, an error.
RouteById(st, type, a, c) ==
  LET i == OwnIndex(st, a.obj)
  IN  CASE i # -1 -> Here(st, i)
        [] i = -1 /\ Peers(st) # {} -> NotHere(SendPending(st, type, a, c))
        [] OTHER -> Here(Unsent(st), -1)

\* Mutant of RequestById: the operation is done and the answer is NO.
RequestByIdAnswersNo(st, m) ==
  LET i == OwnIndex(st, m.arg.obj)
  IN  IF i # -1 THEN Here(Answer(st, m, FALSE), i) ELSE NotHere(Answer(st, m, FALSE))

\* A request of another server: YES and the operation, or NO.
RequestById(st, m) ==
  LET i == OwnIndex(st, m.arg.obj)
  IN  IF i # -1 THEN Here(Answer(st, m, TRUE), i) ELSE NotHere(Answer(st, m, FALSE))

\* A reply of another server.  When every server said NO, the operation is
\* done here with the id itself in place of an index.
ReplyById(st, m) ==
  LET ps == Matching(st, m)
      p == CHOOSE q \in ps : TRUE
      done == [st EXCEPT !.pending = @ \ {p}]
  IN  CASE ps = {} -> NotHere(st)
        [] ps # {} /\ m.yes -> NotHere(done)
        [] ps # {} /\ ~m.yes /\ p.no + 1 = p.sent -> Here(done, m.arg.obj)
        [] OTHER -> CountNo(st, p)

ById(st, m) ==
  CASE m.kind = "call" -> RouteById(st, m.type, m.arg, m.client)
    [] m.kind = "request" -> RequestById(st, m)
    [] m.kind = "reply" -> ReplyById(st, m)

\* The handler of a message of the type that Do carries out.
HandleById(st, m, Do(_, _, _, _)) ==
  LET r == ById(st, m)
  IN  IF r.here THEN Do(r.st, r.index, m.arg, m.client) ELSE r.st
-------------------------------------------------------------------------------
(***************************************************************************)
(* Requests that create an object by name; t is the table of its kind.     *)
(***************************************************************************)

\* server<Create>: ours, or asked of the other servers, or (alone) created.
RouteCreate(st, m, t) ==
  LET mine == FindNamed(t, m.arg.obj) # -1
  IN  CASE mine -> Here(st, -1)
        [] ~mine /\ Peers(st) # {} -> NotHere(SendPending(st, m.type, m.arg, m.client))
        [] OTHER -> Here(Unsent(st), -1)

\* Mutant of RequestCreate: no rule between rival creations.
RequestCreateNoTieBreak(st, m, t) ==
  IF FindNamed(t, m.arg.obj) # -1
  THEN Here(Answer(st, m, TRUE), -1)
  ELSE NotHere(Answer(st, m, FALSE))

\* A request of another server.  With a pending creation of the same name the
\* lower machine id wins: it says YES and takes the request over.
RequestCreate(st, m, t) ==
  LET mine == FindNamed(t, m.arg.obj) # -1
      rival == PendingCreates(st, m.type, m.arg.obj) # {}
  IN  CASE mine -> Here(Answer(st, m, TRUE), -1)
        [] ~mine /\ rival /\ st.id < m.from ->
             NotHere(Adopt(Answer(st, m, TRUE), m.type, m.arg, m.client))
        [] OTHER -> NotHere(Answer(st, m, FALSE))

\* Mutant of ReplyCreate: one NO more than the requests sent is awaited.
ReplyCreateOneMoreNo(st, m) ==
  LET ps == Matching(st, m)
      p == CHOOSE q \in ps : TRUE
  IN  CASE ps = {} -> NotHere(st)
        [] ps # {} /\ m.yes ->
             NotHere([st EXCEPT !.pending = @ \ PendingCreates(st, m.type, m.arg.obj)])
        [] ps # {} /\ ~m.yes /\ p.no = p.sent ->
             Here([st EXCEPT !.pending = @ \ {p},
                             !.loop = [type |-> m.type, name |-> m.arg.obj]], -1)
        [] OTHER -> CountNo(st, p)

\* A reply: YES drops every pending creation of the name, the last NO creates
\* the object and leaves the other creations of the name to the loop.
ReplyCreate(st, m) ==
  LET ps == Matching(st, m)
      p == CHOOSE q \in ps : TRUE
  IN  CASE ps = {} -> NotHere(st)
        [] ps # {} /\ m.yes ->
             NotHere([st EXCEPT !.pending = @ \ PendingCreates(st, m.type, m.arg.obj)])
        [] ps # {} /\ ~m.yes /\ p.no + 1 = p.sent ->
             Here([st EXCEPT !.pending = @ \ {p},
                             !.loop = [type |-> m.type, name |-> m.arg.obj]], -1)
        [] OTHER -> CountNo(st, p)

ByName(st, m, t) ==
  CASE m.kind = "call" -> RouteCreate(st, m, t)
    [] m.kind = "request" -> RequestCreate(st, m, t)
    [] m.kind = "reply" -> ReplyCreate(st, m)

HandleCreate(st, m, t, Do(_, _, _)) ==
  LET r == ByName(st, m, t)
  IN  IF r.here THEN Do(r.st, m.arg, m.client) ELSE r.st

\* The first pending creation of the name the loop is about, if any.
LoopRequests(st) == PendingCreates(st, st.loop.type, st.loop.name)
FirstRequest(st) ==
  CHOOSE p \in LoopRequests(st) : \A q \in LoopRequests(st) : p.req <= q.req

\* One round of "handle all requests with same name": the oldest first.
CreateRound(st, Do(_, _, _)) ==
  LET p == FirstRequest(st)
  IN  IF LoopRequests(st) = {}
      THEN [st EXCEPT !.loop = NoLoop]
      ELSE Do([st EXCEPT !.pending = @ \ {p}], p.arg, p.client)
-------------------------------------------------------------------------------
(***************************************************************************)
(* Locks.                                                                  *)
(***************************************************************************)
Id(st, i) == st.id * TableSize + i

\* serverDoCreateLock: unlike a condition variable's, the id of a full table
\* (index -1) is still offset by the machine id before the status is computed.
DoCreateLock(st, a, c) ==
  LET r == CreateNamed(st.locks, a.obj, NewLock(a.obj))
  IN  StatusAndValue([st EXCEPT !.locks = r.table], c, Id(st, r.index) # -1, Id(st, r.index))

\* What is done with a message of each type: a server... function for a call of
\* a client, and Server itself for the request or the reply of another server.
serverCreateLock(st, m) == HandleCreate(st, m, st.locks, DoCreateLock)

\* checkLockAndDestroy, of an existing lock.
CheckLockAndDestroy(st, i) ==
  LET l == st.locks.slot[i]
  IN  IF l.isToBeDestroyed /\ l.state = "FREE" /\ l.count = 0
      THEN [st EXCEPT !.locks = Remove(@, i)]
      ELSE st

\* Mutants of DoAcquireLock: a busy lock is taken; a queued client is
\* answered as well.
AcquireBusyLock(st, i, a, c) ==
  IF Exists(st.locks, i)
  THEN Status(PutLock(st, i, [st.locks.slot[i] EXCEPT !.state = "BUSY", !.owner = c]), c, TRUE)
  ELSE Status(st, c, FALSE)

AcquireAnswersQueued(st, i, a, c) ==
  LET l == st.locks.slot[i]
  IN  CASE ~Exists(st.locks, i) -> Status(st, c, FALSE)
        [] Exists(st.locks, i) /\ IsOwner(l, c) -> Status(st, c, TRUE)
        [] Exists(st.locks, i) /\ ~IsOwner(l, c) /\ l.state = "BUSY" ->
             Status(PutLock(st, i, [l EXCEPT !.q = Append(@, c)]), c, TRUE)
        [] OTHER ->
             Status(PutLock(st, i, [l EXCEPT !.state = "BUSY", !.owner = c]), c, TRUE)

DoAcquireLock(st, i, a, c) ==
  LET l == st.locks.slot[i]
  IN  CASE ~Exists(st.locks, i) -> Status(st, c, FALSE)
        [] Exists(st.locks, i) /\ IsOwner(l, c) -> Status(st, c, TRUE)
        [] Exists(st.locks, i) /\ ~IsOwner(l, c) /\ l.state = "BUSY" ->
             PutLock(st, i, [l EXCEPT !.q = Append(@, c)])
        [] OTHER ->
             Status(PutLock(st, i, [l EXCEPT !.state = "BUSY", !.owner = c]), c, TRUE)

\* Mutants of DoReleaseLock: the lock is freed whoever waits; the new owner
\* stays in the queue; the new owner is not sent its reply.
ReleaseNoHandOff(st, i, a, c) ==
  IF Exists(st.locks, i) /\ IsOwner(st.locks.slot[i], c)
  THEN CheckLockAndDestroy(PutLock(st, i, [st.locks.slot[i] EXCEPT !.state = "FREE"]), i)
  ELSE st

ReleaseKeepsQueue(st, i, a, c) ==
  LET l == st.locks.slot[i]
  IN  CASE ~Exists(st.locks, i) \/ ~IsOwner(l, c) -> st
        [] Exists(st.locks, i) /\ IsOwner(l, c) /\ l.q # <<>> ->
             StoredReply(PutLock(st, i, [l EXCEPT !.owner = Head(l.q)]), Head(l.q))
        [] OTHER -> CheckLockAndDestroy(PutLock(st, i, [l EXCEPT !.state = "FREE"]), i)

ReleaseSilently(st, i, a, c) ==
  LET l == st.locks.slot[i]
  IN  CASE ~Exists(st.locks, i) \/ ~IsOwner(l, c) -> st
        [] Exists(st.locks, i) /\ IsOwner(l, c) /\ l.q # <<>> ->
             PutLock(st, i, [l EXCEPT !.owner = Head(l.q), !.q = Tail(l.q)])
        [] OTHER -> CheckLockAndDestroy(PutLock(st, i, [l EXCEPT !.state = "FREE"]), i)

\* Only the owner releases; the first waiter becomes the owner and is sent
\* the reply that was stored when it queued.
DoReleaseLock(st, i, a, c) ==
  LET l == st.locks.slot[i]
  IN  CASE ~Exists(st.locks, i) -> st
        [] Exists(st.locks, i) /\ ~IsOwner(l, c) -> st
        [] Exists(st.locks, i) /\ IsOwner(l, c) /\ l.q # <<>> ->
             StoredReply(PutLock(st, i, [l EXCEPT !.owner = Head(l.q), !.q = Tail(l.q)]),
                         Head(l.q))
        [] OTHER -> CheckLockAndDestroy(PutLock(st, i, [l EXCEPT !.state = "FREE"]), i)

DoDestroyLock(st, i, a, c) ==
  LET l == st.locks.slot[i]
  IN  IF Exists(st.locks, i)
      THEN CheckLockAndDestroy(
             PutLock(st, i, [l EXCEPT !.isToBeDestroyed = TRUE, !.count = @ - 1]), i)
      ELSE st

serverDestroyLock(st, m) == HandleById(st, m, DoDestroyLock)

LockArg(lockID) == [obj |-> lockID, lock |-> -1, index |-> -1, value |-> 0]

\* serverAcquireLock and serverReleaseLock, called by the condition variables.
ServerAcquireLock(st, lockID, c) ==
  LET r == RouteById(st, "Acquire", LockArg(lockID), c)
  IN  IF r.here THEN DoAcquireLock(r.st, r.index, LockArg(lockID), c) ELSE r.st

ServerReleaseLock(st, lockID, c) ==
  LET r == RouteById(st, "Release", LockArg(lockID), c)
  IN  IF r.here THEN DoReleaseLock(r.st, r.index, LockArg(lockID), c) ELSE r.st
-------------------------------------------------------------------------------
(***************************************************************************)
(* Condition variables.  The lock of a Wait, Signal or Broadcast is        *)
(* a.lock; it may belong to another server.                                *)
(***************************************************************************)
DoCreateCV(st, a, c) ==
  LET r == CreateNamed(st.cvs, a.obj, NewCV(a.obj))
  IN  StatusAndValue([st EXCEPT !.cvs = r.table], c, r.index # -1,
             IF r.index = -1 THEN -1 ELSE Id(st, r.index))

serverCreateCV(st, m) == HandleCreate(st, m, st.cvs, DoCreateCV)

\* The waiter is queued and its lock released, owner or not.
DoWait(st, i, a, c) ==
  LET cv == st.cvs.slot[i]
  IN  CASE ~Exists(st.cvs, i) -> Status(st, c, FALSE)
        [] Exists(st.cvs, i) /\ cv.waitingLock \notin {-1, a.lock} -> Status(st, c, FALSE)
        [] OTHER -> ServerReleaseLock(
                      PutCV(st, i, [cv EXCEPT !.waitingLock = a.lock, !.q = Append(@, c)]),
                      a.lock, c)

serverWait(st, m) == HandleById(st, m, DoWait)

\* Mutant of WakeOne: the last waiter leaves its lock behind.
WakeOneKeepsLock(st, i, lockID) ==
  LET cv == st.cvs.slot[i]
  IN  ServerAcquireLock(PutCV(st, i, [cv EXCEPT !.q = Tail(@)]), lockID, Head(cv.q))

\* Remove the first waiter and acquire the lock on its behalf.
WakeOne(st, i, lockID) ==
  LET cv == st.cvs.slot[i]
  IN  ServerAcquireLock(
        PutCV(st, i, [cv EXCEPT !.q = Tail(@),
                                !.waitingLock = IF Len(cv.q) = 1 THEN -1 ELSE @]),
        lockID, Head(cv.q))

DoSignal(st, i, a, c) ==
  LET w == st.cvs.slot[i].waitingLock
  IN  CASE ~Exists(st.cvs, i) -> Status(st, c, FALSE)
        [] Exists(st.cvs, i) /\ w = -1 -> Status(st, c, TRUE)
        [] Exists(st.cvs, i) /\ w # -1 /\ w # a.lock -> Status(st, c, FALSE)
        [] OTHER -> Status(WakeOne(st, i, a.lock), c, TRUE)

serverSignal(st, m) == HandleById(st, m, DoSignal)

\* Unlike Signal, no check that a.lock is the lock the waiters passed.
DoBroadcast(st, i, a, c) ==
  IF Exists(st.cvs, i)
  THEN [st EXCEPT !.loop = [type |-> "Broadcast", cv |-> i, lock |-> a.lock, client |-> c]]
  ELSE Status(st, c, FALSE)

serverBroadcast(st, m) == HandleById(st, m, DoBroadcast)

\* One round of Broadcast's loop; the result once the queue is empty.
BroadcastRound(st) ==
  IF st.cvs.slot[st.loop.cv].q # <<>>
  THEN WakeOne(st, st.loop.cv, st.loop.lock)
  ELSE Status([st EXCEPT !.loop = NoLoop], st.loop.client, TRUE)

\* serverDoDestroyCV with checkCVAndDestroy, which nothing else calls.
DoDestroyCV(st, i, a, c) ==
  LET cv == st.cvs.slot[i]
  IN  CASE ~Exists(st.cvs, i) -> st
        [] Exists(st.cvs, i) /\ cv.q = <<>> /\ cv.count = 1 ->
             [st EXCEPT !.cvs = Remove(@, i)]
        [] OTHER -> PutCV(st, i, [cv EXCEPT !.count = @ - 1])

serverDestroyCV(st, m) == HandleById(st, m, DoDestroyCV)
-------------------------------------------------------------------------------
(***************************************************************************)
(* Monitor variables.  a.index is the size of a creation.                  *)
(***************************************************************************)
DoCreateMV(st, a, c) ==
  LET i == FindNamed(st.mvs, a.obj)
      r == CreateNamed(st.mvs, a.obj, NewMV(a.obj, a.index))
  IN  IF i # -1 /\ st.mvs.slot[i].size # a.index
      THEN StatusAndValue(st, c, FALSE, -1)
      ELSE StatusAndValue([st EXCEPT !.mvs = r.table], c, r.index # -1,
                  IF r.index = -1 THEN -1 ELSE Id(st, r.index))

serverCreateMV(st, m) == HandleCreate(st, m, st.mvs, DoCreateMV)

DoDestroyMV(st, i, a, c) ==
  CASE ~Exists(st.mvs, i) -> st
    [] Exists(st.mvs, i) /\ st.mvs.slot[i].count = 1 -> [st EXCEPT !.mvs = Remove(@, i)]
    [] OTHER -> PutMV(st, i, [st.mvs.slot[i] EXCEPT !.count = @ - 1])

serverDestroyMV(st, m) == HandleById(st, m, DoDestroyMV)

InMV(st, i, k) == Exists(st.mvs, i) /\ k >= 0 /\ k < st.mvs.slot[i].size

DoSet(st, i, a, c) ==
  IF InMV(st, i, a.index)
  THEN Status(PutMV(st, i, [st.mvs.slot[i] EXCEPT !.v[a.index + 1] = a.value]), c, TRUE)
  ELSE Status(st, c, FALSE)

serverSet(st, m) == HandleById(st, m, DoSet)

DoGet(st, i, a, c) ==
  IF InMV(st, i, a.index)
  THEN StatusAndValue(st, c, TRUE, st.mvs.slot[i].v[a.index + 1])
  ELSE StatusAndValue(st, c, FALSE, 0)

serverGet(st, m) == HandleById(st, m, DoGet)
-------------------------------------------------------------------------------
(***************************************************************************)
(* Types.  Creates carry a name, the others an id that the client checked  *)
(* not to be negative; so do the locks of Wait, Signal and Broadcast.      *)
(***************************************************************************)
TableOf(R) == [size : Nat, bits : SUBSET Index, slot : [Index -> R \cup {NULL}]]

ServerLock == [name : Names, state : {"FREE", "BUSY"}, owner : Clients \cup {NoClient},
               q : Seq(Clients), isToBeDestroyed : BOOLEAN, count : Int]
ServerCV == [name : Names, q : Seq(Clients), waitingLock : Int, count : Int]
ServerMV == [name : Names, size : Nat, v : Seq(Int), count : Int]

ASSUME NullAssumption ==
  NULL \notin ServerLock /\ NULL \notin ServerCV /\ NULL \notin ServerMV

Arg == [obj : Names \cup Nat, lock : Int, index : Int, value : Int]
ArgOK(type, a) ==
  /\ a.obj \in IF type \in Creates THEN Names ELSE Nat
  /\ type \in {"Wait", "Signal", "Broadcast"} => a.lock >= 0
  /\ type = "CreateMV" => a.index > 0

Typed(R) == {m \in R : ArgOK(m.type, m.arg)}
PendingRequest ==
  Typed([req : Nat, type : Ops, arg : Arg, client : Clients, sent : Int, no : Nat])
CallMail == Typed([kind : {"call"}, type : Ops, client : Clients, arg : Arg])
RequestMail == Typed([kind : {"request"}, type : Ops, client : Clients, arg : Arg,
                      from : Servers, req : Nat])
ReplyMail == Typed([kind : {"reply"}, type : Ops, client : Clients, arg : Arg,
                    req : Nat, yes : BOOLEAN])
ServerMail == CallMail \cup RequestMail \cup ReplyMail
ResultMail == [kind : {"result"}, client : Clients, ok : SUBSET BOOLEAN, val : SUBSET Int]

OutMail == [to : SUBSET Servers, msg : ServerMail \cup ResultMail]

Loop ==
  {NoLoop} \cup [type : Creates, name : Names]
  \cup [type : {"Broadcast"}, cv : Index, lock : Nat, client : Clients]

ServerState ==
  [id : Servers, locks : TableOf(ServerLock), cvs : TableOf(ServerCV), mvs : TableOf(ServerMV),
   pending : SUBSET PendingRequest, nextReq : Nat, out : Seq(OutMail), loop : Loop]
================================================================================
