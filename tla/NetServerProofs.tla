---------------------------- MODULE NetServerProofs ----------------------------
(***************************************************************************)
(* Theorems about NetServer.                                               *)
(***************************************************************************)
EXTENDS NetServer, TLAPS, WellFoundedInduction, FiniteSetTheorems, SequenceTheorems

\* Min of a non-empty set of natural numbers is its least element.
LEMMA MinNat ==
  ASSUME NEW S \in SUBSET Nat, S # {}
  PROVE  Min(S) \in S /\ \A y \in S : Min(S) <= y
<1>1. \E x \in S : \A y \in S : ~(<<y, x>> \in OpToRel(<, Nat))
  BY NatLessThanWellFounded, WFMin
<1>2. \E x \in S : \A y \in S : x <= y
  <2>1. PICK x \in S : \A y \in S : ~(<<y, x>> \in OpToRel(<, Nat))
    BY <1>1
  <2>2. \A y \in S : ~(y < x)
    BY <2>1 DEF OpToRel
  <2> QED
    BY <2>2
<1> QED
  BY <1>2 DEF Min
-------------------------------------------------------------------------------
(***************************************************************************)
(* The inductive invariant: every object a server keeps is a good one, and *)
(* its tables have no gaps and no name twice.                              *)
(***************************************************************************)
GoodLock == {l \in ServerLock : l.state = "FREE" => l.q = <<>>}
GoodCV == {cv \in ServerCV : cv.waitingLock = -1 <=> cv.q = <<>>}
GoodMV == {mv \in ServerMV : Len(mv.v) = mv.size}

GoodTable(R) ==
  {t \in TableOf(R) : /\ t.size <= TableSize
                      /\ t.bits = {i \in Index : t.slot[i] # NULL}
                      /\ t.bits \subseteq 0 .. t.size - 1
                      /\ \A i, j \in t.bits : t.slot[i].name = t.slot[j].name => i = j}

\* The condition variable of a broadcast in progress exists.
GoodServer ==
  {st \in [id : Servers, locks : GoodTable(GoodLock), cvs : GoodTable(GoodCV),
           mvs : GoodTable(GoodMV), pending : SUBSET PendingRequest, nextReq : Nat,
           out : Seq(OutMail), loop : Loop] :
     st.loop.type = "Broadcast" => Exists(st.cvs, st.loop.cv)}

IInv == TypeOK /\ \A s \in Servers : srv[s] \in GoodServer
-------------------------------------------------------------------------------
(***************************************************************************)
(* Assignments to one field of a good server.                              *)
(***************************************************************************)

\* Appending well-typed mail to out keeps the server good.
LEMMA SetOut ==
  ASSUME NEW st \in GoodServer, NEW x \in Seq(OutMail)
  PROVE  [st EXCEPT !.out = x] \in GoodServer
BY DEF GoodServer

\* So does a new set of pending requests.
LEMMA SetPending ==
  ASSUME NEW st \in GoodServer, NEW P \in SUBSET PendingRequest
  PROVE  [st EXCEPT !.pending = P] \in GoodServer
BY DEF GoodServer

\* So does a new lock table that is good.
LEMMA SetLocks ==
  ASSUME NEW st \in GoodServer, NEW t \in GoodTable(GoodLock)
  PROVE  [st EXCEPT !.locks = t] \in GoodServer
BY DEF GoodServer

\* So does a new table of condition variables, unless it takes the one a broadcast is in.
LEMMA SetCVs ==
  ASSUME NEW st \in GoodServer, NEW t \in GoodTable(GoodCV),
         st.loop.type = "Broadcast" => Exists(t, st.loop.cv)
  PROVE  [st EXCEPT !.cvs = t] \in GoodServer
BY DEF GoodServer

\* So does a new table of monitor variables that is good.
LEMMA SetMVs ==
  ASSUME NEW st \in GoodServer, NEW t \in GoodTable(GoodMV)
  PROVE  [st EXCEPT !.mvs = t] \in GoodServer
BY DEF GoodServer

\* So does entering or leaving a loop.
LEMMA SetLoop ==
  ASSUME NEW st \in GoodServer, NEW x \in Loop,
         x.type = "Broadcast" => Exists(st.cvs, x.cv)
  PROVE  [st EXCEPT !.loop = x] \in GoodServer
BY DEF GoodServer

\* A good server is well typed.
LEMMA GoodServerType == GoodServer \subseteq ServerState
<1>1. /\ GoodTable(GoodLock) \subseteq TableOf(ServerLock)
      /\ GoodTable(GoodCV) \subseteq TableOf(ServerCV)
      /\ GoodTable(GoodMV) \subseteq TableOf(ServerMV)
  BY DEF GoodTable, TableOf, GoodLock, GoodCV, GoodMV
<1> QED
  BY <1>1 DEF GoodServer, ServerState
-------------------------------------------------------------------------------
(***************************************************************************)
(* Tables.                                                                 *)
(***************************************************************************)

\* Assigning a good object to an entry in use keeps a table good.
LEMMA PutEntry ==
  ASSUME NEW R, NULL \notin R, NEW t \in GoodTable(R), NEW i \in Index, t.slot[i] # NULL,
         NEW x \in R, x.name = t.slot[i].name
  PROVE  [t EXCEPT !.slot[i] = x] \in GoodTable(R)
BY DEF GoodTable, TableOf

\* Clearing an entry together with its bit keeps a table good.
LEMMA RemoveEntry ==
  ASSUME NEW R, NEW t \in GoodTable(R), NEW i \in Index
  PROVE  Remove(t, i) \in GoodTable(R)
BY DEF GoodTable, TableOf, Remove

\* Find returns a clear bit that is not beyond the end of the vector.
LEMMA FindBitBound ==
  ASSUME NEW R, NEW t \in GoodTable(R)
  PROVE  /\ FindBit(t) <= t.size
         /\ FindBit(t) # -1 => FindBit(t) \in Index \ t.bits
<1> DEFINE S == Index \ t.bits
<1>1. CASE S = {}
  BY <1>1 DEF FindBit, GoodTable, TableOf
<1>2. CASE S # {}
  <2>1. S \in SUBSET Nat
    BY TableSizeAssumption DEF Index
  <2>2. Min(S) \in S /\ \A y \in S : Min(S) <= y
    BY <1>2, <2>1, MinNat
  <2>3. FindBit(t) = Min(S)
    BY <1>2 DEF FindBit
  <2>4. CASE t.size < TableSize
    <3>1. t.size \in S
      BY <2>4, TableSizeAssumption DEF GoodTable, TableOf, Index
    <3> QED
      BY <2>2, <2>3, <3>1
  <2>5. CASE ~(t.size < TableSize)
    <3>1. t.size = TableSize
      BY <2>5, TableSizeAssumption DEF GoodTable, TableOf
    <3>2. FindBit(t) \in Index
      BY <2>2, <2>3
    <3> QED
      BY <2>2, <2>3, <3>1, <3>2, TableSizeAssumption DEF Index
  <2> QED
    BY <2>4, <2>5
<1> QED
  BY <1>1, <1>2

\* An object of a new name at the bit Find returned keeps a table good: no gap opens.
LEMMA InsertEntry ==
  ASSUME NEW R, NULL \notin R, NEW t \in GoodTable(R), NEW x \in R, FindBit(t) # -1,
         \A j \in t.bits : t.slot[j].name # x.name
  PROVE  Insert(t, x) \in GoodTable(R)
<1> DEFINE i == FindBit(t)
<1>1. i \in Index \ t.bits /\ i <= t.size
  BY FindBitBound
<1>2. i = t.size => t.size + 1 <= TableSize
  BY <1>1, TableSizeAssumption DEF Index
<1> DEFINE u == Insert(t, x)
<1>3. /\ u = [size |-> u.size, bits |-> u.bits, slot |-> u.slot]
      /\ u.size = (IF i = t.size THEN t.size + 1 ELSE t.size)
      /\ u.bits = t.bits \cup {i} /\ u.slot = [t.slot EXCEPT ![i] = x]
  BY DEF Insert
<1>4. t.size \in Nat /\ t.size <= TableSize /\ t.slot \in [Index -> R \cup {NULL}]
      /\ t.bits = {j \in Index : t.slot[j] # NULL} /\ t.bits \subseteq 0 .. t.size - 1
      /\ \A j, k \in t.bits : t.slot[j].name = t.slot[k].name => j = k
  BY DEF GoodTable, TableOf
<1> HIDE DEF u, i
<1>5. u.size \in Nat /\ u.size <= TableSize /\ u.bits \subseteq 0 .. u.size - 1
  BY <1>1, <1>2, <1>3, <1>4, TableSizeAssumption DEF Index
<1>6. u.slot \in [Index -> R \cup {NULL}] /\ u.bits = {j \in Index : u.slot[j] # NULL}
  BY <1>1, <1>3, <1>4
<1>7. \A j, k \in u.bits : u.slot[j].name = u.slot[k].name => j = k
  BY <1>1, <1>3, <1>4
<1>8. u \in GoodTable(R)
  BY <1>3, <1>5, <1>6, <1>7 DEF GoodTable, TableOf
<1> QED
  BY <1>8 DEF u

\* find...Named returns -1 or the index of an entry in use.
LEMMA FindNamedEntry ==
  ASSUME NEW R, NEW t \in GoodTable(R), NEW n, FindNamed(t, n) # -1
  PROVE  FindNamed(t, n) \in Index /\ t.slot[FindNamed(t, n)] \in R
<1>1. Named(t, n) \in SUBSET Nat /\ Named(t, n) # {}
  BY TableSizeAssumption DEF FindNamed, Named, Used, Index
<1>2. FindNamed(t, n) \in Named(t, n)
  BY <1>1, MinNat DEF FindNamed
<1> QED
  BY <1>2 DEF Named, Used, GoodTable, TableOf

\* create...Named returns -1 or the index of an entry.
LEMMA CreateNamedEntry ==
  ASSUME NEW R, NULL \notin R,
         \A x \in R : [x EXCEPT !.count = @ + 1] \in R /\ [x EXCEPT !.count = @ + 1].name = x.name,
         NEW t \in GoodTable(R), NEW n, NEW new \in R, new.name = n
  PROVE  /\ CreateNamed(t, n, new).table \in GoodTable(R)
         /\ CreateNamed(t, n, new).index \in Index \cup {-1}
<1> DEFINE i == FindNamed(t, n)
<1>1. CASE i # -1
  <2>1. i \in Index /\ t.slot[i] \in R /\ t.slot[i] # NULL
    BY <1>1, FindNamedEntry
  <2>2. [t EXCEPT !.slot[i] = [t.slot[i] EXCEPT !.count = @ + 1]] \in GoodTable(R)
    BY <2>1, PutEntry
  <2>3. t.slot \in [Index -> R \cup {NULL}] /\ t = [size |-> t.size, bits |-> t.bits, slot |-> t.slot]
    BY DEF GoodTable, TableOf
  <2> QED
    BY <1>1, <2>1, <2>2, <2>3 DEF CreateNamed
<1>2. CASE i = -1 /\ FindBit(t) # -1
  <2>1. ASSUME NEW j \in t.bits PROVE t.slot[j].name # n
    <3>1. Named(t, n) = {}
      BY <1>2, FindNamedEntry, MinNat, TableSizeAssumption DEF FindNamed, Named, Used, Index
    <3>2. j \in Used(t)
      BY DEF GoodTable, TableOf, Used, Index
    <3> QED
      BY <3>1, <3>2 DEF Named
  <2>2. Insert(t, new) \in GoodTable(R)
    BY <1>2, <2>1, InsertEntry
  <2> QED
    BY <1>2, <2>2, FindBitBound DEF CreateNamed
<1>3. CASE i = -1 /\ FindBit(t) = -1
  BY <1>3 DEF CreateNamed
<1> QED
  BY <1>1, <1>2, <1>3
-------------------------------------------------------------------------------
(***************************************************************************)
(* Mail and pending requests.                                              *)
(***************************************************************************)

\* Sending a result to a client keeps the server good.
LEMMA SendResultGood ==
  ASSUME NEW st \in GoodServer, NEW c \in Clients, NEW oks \in SUBSET BOOLEAN,
         NEW vals \in SUBSET Int
  PROVE  SendResult(st, c, oks, vals) \in GoodServer
<1> DEFINE o == [to |-> {}, msg |-> [kind |-> "result", client |-> c, ok |-> oks, val |-> vals]]
<1>1. o \in OutMail
  BY DEF OutMail, ResultMail
<1>2. SendResult(st, c, oks, vals) = [st EXCEPT !.out = Append(st.out, o)]
  BY DEF SendResult
<1> HIDE DEF o
<1>3. Append(st.out, o) \in Seq(OutMail)
  BY <1>1 DEF GoodServer
<1> QED
  BY <1>2, <1>3, SetOut

\* The same for a result with a status only,
LEMMA StatusGood ==
  ASSUME NEW st \in GoodServer, NEW c \in Clients, NEW ok \in BOOLEAN
  PROVE  Status(st, c, ok) \in GoodServer
BY SendResultGood DEF Status

\* with a status and a value,
LEMMA StatusAndValueGood ==
  ASSUME NEW st \in GoodServer, NEW c \in Clients, NEW ok \in BOOLEAN, NEW val \in Int
  PROVE  StatusAndValue(st, c, ok, val) \in GoodServer
BY SendResultGood DEF StatusAndValue

\* and with the reply stored when the client queued.
LEMMA StoredReplyGood ==
  ASSUME NEW st \in GoodServer, NEW c \in Clients
  PROVE  StoredReply(st, c) \in GoodServer
BY SendResultGood DEF StoredReply

\* The arguments of a message of this type.
ArgsOf(type) == {a \in Arg : ArgOK(type, a)}

\* Sending YES or NO to the server that asked keeps the server good.
LEMMA AnswerGood ==
  ASSUME NEW st \in GoodServer, NEW m \in RequestMail, NEW yes \in BOOLEAN
  PROVE  Answer(st, m, yes) \in GoodServer /\ Answer(st, m, yes).loop = st.loop
<1> DEFINE r == [kind |-> "reply", type |-> m.type, client |-> m.client,
                 arg |-> m.arg, req |-> m.req, yes |-> yes]
<1>1. r \in ReplyMail
  BY DEF RequestMail, ReplyMail, Typed
<1> DEFINE o == [to |-> {m.from}, msg |-> r]
<1>2. o \in OutMail
  BY <1>1 DEF OutMail, ServerMail, RequestMail, Typed
<1>3. Answer(st, m, yes) = [st EXCEPT !.out = Append(st.out, o)]
  BY DEF Answer
<1> HIDE DEF o
<1>4. Append(st.out, o) \in Seq(OutMail)
  BY <1>2 DEF GoodServer
<1>5. Answer(st, m, yes) \in GoodServer
  BY <1>3, <1>4, SetOut
<1> QED
  BY <1>3, <1>5 DEF GoodServer

\* A new pending request is well typed.
LEMMA RequestType ==
  ASSUME NEW st \in GoodServer, NEW type \in Ops, NEW a \in ArgsOf(type), NEW c \in Clients,
         NEW sent \in Int
  PROVE  Request(st, type, a, c, sent) \in PendingRequest
BY DEF Request, PendingRequest, Typed, ArgsOf, GoodServer

\* Taking over the creation of a rival keeps the server good.
LEMMA AdoptGood ==
  ASSUME NEW st \in GoodServer, NEW type \in Ops, NEW a \in ArgsOf(type), NEW c \in Clients
  PROVE  Adopt(st, type, a, c) \in GoodServer /\ Adopt(st, type, a, c).loop = st.loop
<1>1. Request(st, type, a, c, -1) \in PendingRequest
  BY RequestType
<1> DEFINE P == st.pending \cup {Request(st, type, a, c, -1)}
<1>2. Adopt(st, type, a, c) = [st EXCEPT !.pending = P, !.nextReq = st.nextReq + 1]
  BY DEF Adopt
<1>3. P \in SUBSET PendingRequest /\ st.nextReq + 1 \in Nat /\ st.out \in Seq(OutMail)
  BY <1>1 DEF GoodServer
<1> HIDE DEF P
<1> QED
  BY <1>2, <1>3 DEF GoodServer

\* Forwarding a request to the other servers keeps the server good.
LEMMA SendPendingGood ==
  ASSUME NEW st \in GoodServer, NEW type \in Ops, NEW a \in ArgsOf(type), NEW c \in Clients
  PROVE  /\ SendPending(st, type, a, c) \in GoodServer
         /\ SendPending(st, type, a, c).loop = st.loop
<1> DEFINE n == Cardinality(Peers(st))
           r == [kind |-> "request", type |-> type, client |-> c,
                 arg |-> a, from |-> st.id, req |-> st.nextReq]
           o == [to |-> Peers(st), msg |-> r]
<1>1. n \in Int
  <2>1. IsFiniteSet(0 .. 4)
    BY ONLY FS_Interval, 0 \in Int, 4 \in Int
  <2>2. IsFiniteSet(Peers(st))
    BY <2>1, ServersAssumption, FS_Subset DEF Peers
  <2> QED
    BY <2>2, FS_CardinalityType
<1>2. Request(st, type, a, c, n) \in PendingRequest
  BY <1>1, RequestType
<1>3. r \in RequestMail
  BY DEF RequestMail, Typed, ArgsOf, GoodServer
<1>4. o \in OutMail
  BY <1>3 DEF OutMail, ServerMail, Peers
<1> DEFINE P == st.pending \cup {Request(st, type, a, c, n)}
           x == Append(st.out, o)
<1>5. SendPending(st, type, a, c) = [st EXCEPT !.pending = P, !.nextReq = st.nextReq + 1, !.out = x]
  BY DEF SendPending
<1>6. P \in SUBSET PendingRequest /\ st.nextReq + 1 \in Nat
  BY <1>2 DEF GoodServer
<1> HIDE DEF o
<1>7. x \in Seq(OutMail)
  BY <1>4 DEF GoodServer
<1> HIDE DEF P, x
<1>8. SendPending(st, type, a, c) \in GoodServer
  BY <1>5, <1>6, <1>7 DEF GoodServer
<1> QED
  BY <1>5, <1>8 DEF GoodServer

\* A request with nobody to ask changes the counter only.
LEMMA UnsentGood ==
  ASSUME NEW st \in GoodServer
  PROVE  Unsent(st) \in GoodServer /\ Unsent(st).loop = st.loop
BY DEF Unsent, GoodServer
-------------------------------------------------------------------------------
(***************************************************************************)
(* Routing: who handles a request is decided from a good state, and the    *)
(* handler starts from a good state.                                       *)
(***************************************************************************)
GoodRoute(st, r) ==
  /\ r.st \in GoodServer
  /\ r.index \in Int
  /\ r.st.loop = st.loop

\* checkIf...IsMineAndGetMyIndex returns -1 or an index of the table.
LEMMA OwnIndexType ==
  ASSUME NEW st \in GoodServer, NEW id \in Nat
  PROVE  OwnIndex(st, id) \in Int
BY TableSizeAssumption DEF OwnIndex

\* server<Op> decides from a good state, with an integer for an index.
LEMMA RouteByIdGood ==
  ASSUME NEW st \in GoodServer, NEW type \in Ops \ Creates, NEW a \in ArgsOf(type),
         NEW c \in Clients
  PROVE  GoodRoute(st, RouteById(st, type, a, c))
<1>1. OwnIndex(st, a.obj) \in Int
  BY OwnIndexType DEF ArgsOf, ArgOK
<1>2. SendPending(st, type, a, c) \in GoodServer /\ SendPending(st, type, a, c).loop = st.loop
  BY SendPendingGood
<1>3. Unsent(st) \in GoodServer /\ Unsent(st).loop = st.loop
  BY UnsentGood
<1> QED
  BY <1>1, <1>2, <1>3 DEF RouteById, GoodRoute, Here, NotHere

\* Counting a NO keeps the server good.
LEMMA CountNoGood ==
  ASSUME NEW st \in GoodServer, NEW p \in st.pending
  PROVE  GoodRoute(st, CountNo(st, p))
<1> DEFINE P == (st.pending \ {p}) \cup {[p EXCEPT !.no = p.no + 1]}
<1>1. p \in PendingRequest /\ st.pending \subseteq PendingRequest
  BY DEF GoodServer
<1>2. [p EXCEPT !.no = p.no + 1] \in PendingRequest
  BY <1>1 DEF PendingRequest, Typed
<1>3. P \in SUBSET PendingRequest
  BY <1>1, <1>2
<1> DEFINE new == [st EXCEPT !.pending = P]
<1>4. CountNo(st, p) = NotHere(new)
  BY DEF CountNo
<1> HIDE DEF P
<1>5. new \in GoodServer
  BY <1>3, SetPending
<1>6. new.loop = st.loop
  BY DEF GoodServer
<1> HIDE DEF new
<1> QED
  BY <1>4, <1>5, <1>6 DEF GoodRoute, NotHere

\* A message of this type is a call, a request or a reply, with its arguments.
LEMMA MailKinds ==
  ASSUME NEW m \in ServerMail
  PROVE  /\ m.type \in Ops /\ m.client \in Clients /\ m.arg \in ArgsOf(m.type)
         /\ m.kind = "call" \/ (m.kind = "request" /\ m \in RequestMail)
            \/ (m.kind = "reply" /\ m \in ReplyMail)
BY DEF ServerMail, CallMail, RequestMail, ReplyMail, Typed, ArgsOf

\* Who handles a request about an id is decided from a good state.
LEMMA ByIdGood ==
  ASSUME NEW st \in GoodServer, NEW m \in ServerMail, m.type \in Ops \ Creates
  PROVE  GoodRoute(st, ById(st, m))
<1>1. m.client \in Clients /\ m.arg \in ArgsOf(m.type) /\ m.arg.obj \in Nat
  BY MailKinds DEF ArgsOf, ArgOK
<1>2. CASE m.kind = "call"
  BY <1>1, <1>2, RouteByIdGood DEF ById
<1>3. CASE m.kind = "request" /\ m \in RequestMail
  <2>1. OwnIndex(st, m.arg.obj) \in Int
    BY <1>1, OwnIndexType
  <2>2. \A yes \in BOOLEAN : Answer(st, m, yes) \in GoodServer /\ Answer(st, m, yes).loop = st.loop
    BY <1>3, AnswerGood
  <2>3. GoodRoute(st, RequestById(st, m))
    BY <2>1, <2>2 DEF RequestById, GoodRoute, Here, NotHere
  <2> QED
    BY <1>3, <2>3 DEF ById
<1>4. CASE m.kind = "reply" /\ m \in ReplyMail
  <2> DEFINE ps == Matching(st, m)
             p == CHOOSE q \in ps : TRUE
             done == [st EXCEPT !.pending = @ \ {p}]
  <2>1. ps # {} => p \in st.pending
    BY DEF Matching
  <2>2. st.pending \ {p} \in SUBSET PendingRequest
    BY DEF GoodServer
  <2>3. done \in GoodServer
    BY <2>2, SetPending
  <2>4. done.loop = st.loop
    BY DEF GoodServer
  <2>5. ps # {} => GoodRoute(st, CountNo(st, p))
    BY <2>1, CountNoGood
  <2>6. ReplyById(st, m) =
          CASE ps = {} -> NotHere(st)
            [] ps # {} /\ m.yes -> NotHere(done)
            [] ps # {} /\ ~m.yes /\ p.no + 1 = p.sent -> Here(done, m.arg.obj)
            [] OTHER -> CountNo(st, p)
    BY DEF ReplyById
  <2> HIDE DEF ps, p, done
  <2>7. GoodRoute(st, NotHere(st)) /\ GoodRoute(st, NotHere(done))
        /\ GoodRoute(st, Here(done, m.arg.obj))
    BY <1>1, <2>3, <2>4 DEF GoodRoute, Here, NotHere
  <2>8. GoodRoute(st, ReplyById(st, m))
    BY <2>5, <2>6, <2>7
  <2> QED
    BY <1>4, <2>8 DEF ById
<1> QED
  BY <1>2, <1>3, <1>4, MailKinds
-------------------------------------------------------------------------------
(***************************************************************************)
(* Locks.                                                                  *)
(***************************************************************************)

\* NULL is no object.
LEMMA NullNotGood == NULL \notin GoodLock /\ NULL \notin GoodCV /\ NULL \notin GoodMV
BY NullAssumption DEF GoodLock, GoodCV, GoodMV

\* An index that exists is an entry of the table.
LEMMA ExistsEntry ==
  ASSUME NEW R, NEW t \in GoodTable(R), NEW i \in Int, Exists(t, i)
  PROVE  i \in Index /\ t.slot[i] # NULL /\ t.slot[i] \in R
BY TableSizeAssumption DEF Exists, GoodTable, TableOf, Index

\* Assigning a lock with no waiters while FREE keeps the server good.
LEMMA PutLockGood ==
  ASSUME NEW st \in GoodServer, NEW i \in Index, st.locks.slot[i] # NULL, NEW l \in GoodLock,
         l.name = st.locks.slot[i].name
  PROVE  /\ PutLock(st, i, l) \in GoodServer
         /\ PutLock(st, i, l).locks.slot[i] = l
<1> DEFINE t == [st.locks EXCEPT !.slot[i] = l]
<1>1. st.locks \in GoodTable(GoodLock)
  BY DEF GoodServer
<1>2. t \in GoodTable(GoodLock)
  BY <1>1, NullNotGood, PutEntry
<1>3. PutLock(st, i, l) = [st EXCEPT !.locks = t]
  BY DEF PutLock
<1>4. t.slot[i] = l
  BY <1>1 DEF GoodTable, TableOf
<1> HIDE DEF t
<1>5. [st EXCEPT !.locks = t] \in GoodServer
  BY <1>2, SetLocks
<1> QED
  BY <1>3, <1>4, <1>5 DEF GoodServer

\* checkLockAndDestroy keeps the server good.
LEMMA CheckLockAndDestroyGood ==
  ASSUME NEW st \in GoodServer, NEW i \in Index
  PROVE  CheckLockAndDestroy(st, i) \in GoodServer
<1>1. Remove(st.locks, i) \in GoodTable(GoodLock)
  BY RemoveEntry DEF GoodServer
<1>2. [st EXCEPT !.locks = Remove(st.locks, i)] \in GoodServer
  BY <1>1, SetLocks
<1> QED
  BY <1>2 DEF CheckLockAndDestroy

\* serverDoAcquireLock queues only behind an owner, so a FREE lock gets no waiter.
LEMMA DoAcquireLockGood ==
  ASSUME NEW st \in GoodServer, NEW i \in Int, NEW a, NEW c \in Clients
  PROVE  DoAcquireLock(st, i, a, c) \in GoodServer
<1> DEFINE l == st.locks.slot[i]
<1>1. CASE ~Exists(st.locks, i)
  BY <1>1, StatusGood DEF DoAcquireLock
<1>2. CASE Exists(st.locks, i)
  <2>1. i \in Index /\ l # NULL /\ l \in GoodLock
    BY <1>2, ExistsEntry DEF GoodServer
  <2>2. CASE IsOwner(l, c)
    BY <1>2, <2>2, StatusGood DEF DoAcquireLock
  <2>3. CASE ~IsOwner(l, c) /\ l.state = "BUSY"
    <3> DEFINE x == [l EXCEPT !.q = Append(@, c)]
    <3>1. x \in GoodLock /\ x.name = l.name
      <4>1. l \in ServerLock /\ Append(l.q, c) \in Seq(Clients)
        BY <2>1 DEF GoodLock, ServerLock
      <4>2. x \in ServerLock /\ x.state = "BUSY" /\ x.name = l.name
        BY <2>3, <4>1 DEF ServerLock
      <4> QED
        BY <4>2 DEF GoodLock
    <3>2. DoAcquireLock(st, i, a, c) = PutLock(st, i, x)
      BY <1>2, <2>3 DEF DoAcquireLock
    <3> HIDE DEF x
    <3> QED
      BY <2>1, <3>1, <3>2, PutLockGood
  <2>4. CASE ~IsOwner(l, c) /\ l.state # "BUSY"
    <3> DEFINE x == [l EXCEPT !.state = "BUSY", !.owner = c]
    <3>1. x \in GoodLock /\ x.name = l.name
      BY <2>1, <2>4 DEF GoodLock, ServerLock
    <3>2. DoAcquireLock(st, i, a, c) = Status(PutLock(st, i, x), c, TRUE)
      BY <1>2, <2>4 DEF DoAcquireLock
    <3>3. PutLock(st, i, x) \in GoodServer
      BY <2>1, <3>1, PutLockGood
    <3> QED
      BY <3>2, <3>3, StatusGood
  <2> QED
    BY <2>2, <2>3, <2>4
<1> QED
  BY <1>1, <1>2

\* serverDoReleaseLock frees a lock only when its queue is empty.
LEMMA DoReleaseLockGood ==
  ASSUME NEW st \in GoodServer, NEW i \in Int, NEW a, NEW c \in Clients
  PROVE  DoReleaseLock(st, i, a, c) \in GoodServer
<1> DEFINE l == st.locks.slot[i]
<1>1. CASE ~Exists(st.locks, i) \/ ~IsOwner(l, c)
  BY <1>1 DEF DoReleaseLock
<1>2. CASE Exists(st.locks, i) /\ IsOwner(l, c)
  <2>1. i \in Index /\ l # NULL /\ l \in GoodLock
    BY <1>2, ExistsEntry DEF GoodServer
  <2>2. CASE l.q # <<>>
    <3> DEFINE x == [l EXCEPT !.owner = Head(l.q), !.q = Tail(l.q)]
    <3>1. Head(l.q) \in Clients /\ Tail(l.q) \in Seq(Clients)
      BY <2>1, <2>2 DEF GoodLock, ServerLock
    <3>2. x \in GoodLock /\ x.name = l.name
      BY <1>2, <2>1, <3>1 DEF GoodLock, ServerLock, IsOwner
    <3>3. DoReleaseLock(st, i, a, c) = StoredReply(PutLock(st, i, x), Head(l.q))
      BY <1>2, <2>2 DEF DoReleaseLock
    <3>4. PutLock(st, i, x) \in GoodServer
      BY <2>1, <3>2, PutLockGood
    <3> QED
      BY <3>1, <3>3, <3>4, StoredReplyGood
  <2>3. CASE l.q = <<>>
    <3> DEFINE x == [l EXCEPT !.state = "FREE"]
    <3>1. x \in GoodLock /\ x.name = l.name
      BY <2>1, <2>3 DEF GoodLock, ServerLock
    <3>2. DoReleaseLock(st, i, a, c) = CheckLockAndDestroy(PutLock(st, i, x), i)
      BY <1>2, <2>3 DEF DoReleaseLock
    <3>3. PutLock(st, i, x) \in GoodServer
      BY <2>1, <3>1, PutLockGood
    <3> QED
      BY <2>1, <3>2, <3>3, CheckLockAndDestroyGood
  <2> QED
    BY <2>2, <2>3
<1> QED
  BY <1>1, <1>2

\* A lock that is to be destroyed is as it was otherwise.
LEMMA DestroyedLock ==
  ASSUME NEW l \in GoodLock, NEW x, x = [l EXCEPT !.isToBeDestroyed = TRUE, !.count = @ - 1]
  PROVE  x \in GoodLock /\ x.name = l.name /\ x.state = l.state /\ x.owner = l.owner /\ x.q = l.q
<1>1. l \in ServerLock /\ (l.state = "FREE" => l.q = <<>>)
  BY DEF GoodLock
<1>2. l.count - 1 \in Int
  BY <1>1 DEF ServerLock
<1>3. x = [l EXCEPT !.isToBeDestroyed = TRUE, !.count = l.count - 1]
  OBVIOUS
<1>4. x \in ServerLock /\ x.state = l.state /\ x.q = l.q /\ x.name = l.name /\ x.owner = l.owner
  BY <1>1, <1>2, <1>3, Zenon DEF ServerLock
<1> QED
  BY <1>1, <1>4 DEF GoodLock

\* serverDoDestroyLock keeps the server good.
LEMMA DoDestroyLockGood ==
  ASSUME NEW st \in GoodServer, NEW i \in Int, NEW a, NEW c \in Clients
  PROVE  DoDestroyLock(st, i, a, c) \in GoodServer
<1> DEFINE l == st.locks.slot[i]
           x == [l EXCEPT !.isToBeDestroyed = TRUE, !.count = @ - 1]
<1>1. CASE ~Exists(st.locks, i)
  BY <1>1 DEF DoDestroyLock
<1>2. CASE Exists(st.locks, i)
  <2>1. i \in Index /\ l # NULL /\ l \in GoodLock
    BY <1>2, ExistsEntry DEF GoodServer
  <2>2. x \in GoodLock /\ x.name = l.name
    BY <2>1, DestroyedLock
  <2>3. DoDestroyLock(st, i, a, c) = CheckLockAndDestroy(PutLock(st, i, x), i)
    BY <1>2 DEF DoDestroyLock
  <2> HIDE DEF x
  <2>4. PutLock(st, i, x) \in GoodServer
    BY <2>1, <2>2, PutLockGood
  <2> QED
    BY <2>1, <2>3, <2>4, CheckLockAndDestroyGood
<1> QED
  BY <1>1, <1>2

\* An id is an integer.
LEMMA IdType ==
  ASSUME NEW st \in GoodServer, NEW i \in Int
  PROVE  Id(st, i) \in Int
<1>1. st.id \in Servers
  BY DEF GoodServer
<1>2. \A s \in Servers : s \in Int
  BY ServersAssumption
<1>3. TableSize \in Int
  BY TableSizeAssumption
<1> QED
  BY <1>1, <1>2, <1>3 DEF Id

\* A create leaves a good table of locks, and returns -1 or the index of an entry.
LEMMA CreateLockTable ==
  ASSUME NEW st \in GoodServer, NEW a \in ArgsOf("CreateLock")
  PROVE  /\ CreateNamed(st.locks, a.obj, NewLock(a.obj)).table \in GoodTable(GoodLock)
         /\ CreateNamed(st.locks, a.obj, NewLock(a.obj)).index \in Index \cup {-1}
<1>1. a.obj \in Names
  BY DEF ArgsOf, ArgOK, Creates
<1>2. NewLock(a.obj) \in GoodLock /\ NewLock(a.obj).name = a.obj
  BY <1>1 DEF NewLock, GoodLock, ServerLock
<1>3. \A x \in GoodLock : /\ [x EXCEPT !.count = @ + 1] \in GoodLock
                          /\ [x EXCEPT !.count = @ + 1].name = x.name
  <2> SUFFICES ASSUME NEW x \in GoodLock
               PROVE  /\ [x EXCEPT !.count = x.count + 1] \in GoodLock
                      /\ [x EXCEPT !.count = x.count + 1].name = x.name
    OBVIOUS
  <2>1. x \in ServerLock /\ x.count + 1 \in Int /\ (x.state = "FREE" => x.q = <<>>)
    BY DEF GoodLock, ServerLock
  <2> QED
    BY <2>1, Zenon DEF GoodLock, ServerLock
<1>4. st.locks \in GoodTable(GoodLock)
  BY DEF GoodServer
<1> QED
  BY <1>2, <1>3, <1>4, NullNotGood, CreateNamedEntry

\* serverDoCreateLock keeps the server good, a full table included.
LEMMA DoCreateLockGood ==
  ASSUME NEW st \in GoodServer, NEW a \in ArgsOf("CreateLock"), NEW c \in Clients
  PROVE  DoCreateLock(st, a, c) \in GoodServer /\ DoCreateLock(st, a, c).loop = st.loop
<1> DEFINE r == CreateNamed(st.locks, a.obj, NewLock(a.obj))
           new == [st EXCEPT !.locks = r.table]
<1>5. r.table \in GoodTable(GoodLock) /\ r.index \in Index \cup {-1}
  BY CreateLockTable
<1>6. DoCreateLock(st, a, c) = StatusAndValue(new, c, Id(st, r.index) # -1, Id(st, r.index))
  BY DEF DoCreateLock
<1> HIDE DEF r
<1>7. new \in GoodServer
  BY <1>5, SetLocks
<1>8. Id(st, r.index) \in Int
  BY <1>5, IdType DEF Index
<1>9. new.loop = st.loop
  BY DEF GoodServer
<1> HIDE DEF new
<1>10. DoCreateLock(st, a, c) \in GoodServer
  BY <1>6, <1>7, <1>8, StatusAndValueGood
<1>11. DoCreateLock(st, a, c).loop = new.loop
  BY <1>6, <1>7 DEF StatusAndValue, SendResult, GoodServer
<1> QED
  BY <1>9, <1>10, <1>11

\* A lock operation that a condition variable asks for.
LEMMA LockArgType ==
  ASSUME NEW id \in Nat, NEW type \in LockOps
  PROVE  LockArg(id) \in ArgsOf(type) /\ type \in Ops \ Creates
BY DEF LockArg, ArgsOf, Arg, ArgOK, LockOps, Ops, Creates

\* serverAcquireLock, called for a signalled client, keeps the server good,
LEMMA ServerAcquireLockGood ==
  ASSUME NEW st \in GoodServer, NEW id \in Nat, NEW c \in Clients
  PROVE  ServerAcquireLock(st, id, c) \in GoodServer
<1> DEFINE r == RouteById(st, "Acquire", LockArg(id), c)
<1>1. GoodRoute(st, r)
  BY RouteByIdGood, LockArgType DEF LockOps
<1>2. r.st \in GoodServer /\ r.index \in Int
  BY <1>1 DEF GoodRoute
<1>3. DoAcquireLock(r.st, r.index, LockArg(id), c) \in GoodServer
  BY <1>2, DoAcquireLockGood
<1> QED
  BY <1>2, <1>3 DEF ServerAcquireLock

\* and so does serverReleaseLock, called for a waiting client.
LEMMA ServerReleaseLockGood ==
  ASSUME NEW st \in GoodServer, NEW id \in Nat, NEW c \in Clients
  PROVE  ServerReleaseLock(st, id, c) \in GoodServer
<1> DEFINE r == RouteById(st, "Release", LockArg(id), c)
<1>1. GoodRoute(st, r)
  BY RouteByIdGood, LockArgType DEF LockOps
<1>2. r.st \in GoodServer /\ r.index \in Int
  BY <1>1 DEF GoodRoute
<1>3. DoReleaseLock(r.st, r.index, LockArg(id), c) \in GoodServer
  BY <1>2, DoReleaseLockGood
<1> QED
  BY <1>2, <1>3 DEF ServerReleaseLock
-------------------------------------------------------------------------------
(***************************************************************************)
(* Condition variables.                                                    *)
(***************************************************************************)

\* Assigning a condition variable whose waitingLock agrees with its queue keeps the server good.
LEMMA PutCVGood ==
  ASSUME NEW st \in GoodServer, NEW i \in Index, st.cvs.slot[i] # NULL, NEW x \in GoodCV,
         x.name = st.cvs.slot[i].name
  PROVE  PutCV(st, i, x) \in GoodServer
<1> DEFINE t == [st.cvs EXCEPT !.slot[i] = x]
<1>1. st.cvs \in GoodTable(GoodCV)
  BY DEF GoodServer
<1>2. t \in GoodTable(GoodCV)
  BY <1>1, NullNotGood, PutEntry
<1>3. PutCV(st, i, x) = [st EXCEPT !.cvs = t]
  BY DEF PutCV
<1>4. ASSUME st.loop.type = "Broadcast"
      PROVE  Exists(t, st.loop.cv)
  <2>1. Exists(st.cvs, st.loop.cv) /\ x # NULL
    BY <1>4, NullNotGood DEF GoodServer
  <2>2. t.size = st.cvs.size /\ t.slot = [st.cvs.slot EXCEPT ![i] = x]
    BY <1>1 DEF GoodTable, TableOf
  <2>3. st.loop.cv \in Index
    BY <1>4 DEF GoodServer, Loop, NoLoop, Creates
  <2> QED
    BY <1>1, <2>1, <2>2, <2>3 DEF Exists, GoodTable, TableOf
<1> HIDE DEF t
<1>5. [st EXCEPT !.cvs = t] \in GoodServer
  BY <1>2, <1>4, SetCVs
<1> QED
  BY <1>3, <1>5

\* serverDoWait sets waitingLock with the first waiter.
LEMMA DoWaitGood ==
  ASSUME NEW st \in GoodServer, NEW i \in Int, NEW a \in ArgsOf("Wait"), NEW c \in Clients
  PROVE  DoWait(st, i, a, c) \in GoodServer
<1> DEFINE cv == st.cvs.slot[i]
<1>1. CASE ~Exists(st.cvs, i) \/ cv.waitingLock \notin {-1, a.lock}
  BY <1>1, StatusGood DEF DoWait
<1>2. CASE Exists(st.cvs, i) /\ cv.waitingLock \in {-1, a.lock}
  <2> DEFINE q == Append(cv.q, c)
             x == [cv EXCEPT !.waitingLock = a.lock, !.q = q]
  <2>1. i \in Index /\ cv # NULL /\ cv \in GoodCV
    BY <1>2, ExistsEntry DEF GoodServer
  <2>2. a.lock \in Nat
    BY DEF ArgsOf, ArgOK, Arg
  <2>3. cv \in ServerCV /\ q \in Seq(Clients) /\ q # <<>>
    BY <2>1 DEF GoodCV, ServerCV
  <2>4. x \in GoodCV /\ x.name = cv.name
    <3> HIDE DEF q
    <3>1. x \in ServerCV /\ x.waitingLock = a.lock /\ x.q = q /\ x.name = cv.name
      <4>1. a.lock \in Int
        BY <2>2
      <4> QED
        BY <2>3, <4>1, Zenon DEF ServerCV
    <3>2. a.lock # -1
      BY <2>2
    <3> QED
      BY <2>3, <3>1, <3>2, Zenon DEF GoodCV
  <2>5. DoWait(st, i, a, c) = ServerReleaseLock(PutCV(st, i, x), a.lock, c)
    BY <1>2 DEF DoWait
  <2> HIDE DEF x
  <2>6. PutCV(st, i, x) \in GoodServer
    BY <2>1, <2>4, PutCVGood
  <2> QED
    BY <2>2, <2>5, <2>6, ServerReleaseLockGood
<1> QED
  BY <1>1, <1>2

\* Waking the last waiter clears waitingLock.
LEMMA WakeOneGood ==
  ASSUME NEW st \in GoodServer, NEW i \in Index, st.cvs.slot[i] # NULL,
         st.cvs.slot[i].q # <<>>, NEW id \in Nat
  PROVE  WakeOne(st, i, id) \in GoodServer
<1> DEFINE cv == st.cvs.slot[i]
           w == IF Len(cv.q) = 1 THEN -1 ELSE cv.waitingLock
           x == [cv EXCEPT !.q = Tail(cv.q), !.waitingLock = w]
<1>1. cv \in GoodCV
  BY DEF GoodServer, GoodTable, TableOf
<1>2. cv \in ServerCV /\ cv.q \in Seq(Clients) /\ cv.waitingLock \in Int /\ cv.waitingLock # -1
  BY <1>1 DEF GoodCV, ServerCV
<1>3. Head(cv.q) \in Clients /\ Tail(cv.q) \in Seq(Clients)
  BY <1>2
<1>4. Tail(cv.q) = <<>> <=> Len(cv.q) = 1
  <2>1. Len(Tail(cv.q)) = Len(cv.q) - 1 /\ Len(cv.q) \in Nat
    BY <1>2
  <2>2. Tail(cv.q) = <<>> <=> Len(Tail(cv.q)) = 0
    BY <1>3, EmptySeq
  <2> QED
    BY <2>1, <2>2
<1>5. w \in Int /\ (w = -1 <=> Tail(cv.q) = <<>>)
  BY <1>2, <1>4
<1>6. x \in GoodCV /\ x.name = cv.name
  <2> HIDE DEF w
  <2>1. x \in ServerCV /\ x.waitingLock = w /\ x.q = Tail(cv.q) /\ x.name = cv.name
    BY <1>2, <1>3, <1>5 DEF ServerCV
  <2> QED
    BY <1>5, <2>1 DEF GoodCV
<1>7. WakeOne(st, i, id) = ServerAcquireLock(PutCV(st, i, x), id, Head(cv.q))
  BY DEF WakeOne
<1> HIDE DEF x
<1>8. PutCV(st, i, x) \in GoodServer
  BY <1>6, PutCVGood
<1> QED
  BY <1>3, <1>7, <1>8, ServerAcquireLockGood

\* serverDoSignal wakes only where the queue is not empty: waitingLock is set.
LEMMA DoSignalGood ==
  ASSUME NEW st \in GoodServer, NEW i \in Int, NEW a \in ArgsOf("Signal"), NEW c \in Clients
  PROVE  DoSignal(st, i, a, c) \in GoodServer
<1> DEFINE cv == st.cvs.slot[i]
<1>1. CASE ~Exists(st.cvs, i)
  BY <1>1, StatusGood DEF DoSignal
<1>2. CASE Exists(st.cvs, i) /\ cv.waitingLock = -1
  BY <1>2, StatusGood DEF DoSignal
<1>3. CASE Exists(st.cvs, i) /\ cv.waitingLock # -1 /\ cv.waitingLock # a.lock
  BY <1>3, StatusGood DEF DoSignal
<1>4. CASE Exists(st.cvs, i) /\ cv.waitingLock # -1 /\ cv.waitingLock = a.lock
  <2>1. i \in Index /\ cv # NULL /\ cv \in GoodCV
    BY <1>4, ExistsEntry DEF GoodServer
  <2>2. cv.q # <<>>
    BY <1>4, <2>1 DEF GoodCV
  <2>3. a.lock \in Nat
    BY DEF ArgsOf, ArgOK, Arg
  <2>4. WakeOne(st, i, a.lock) \in GoodServer
    BY <2>1, <2>2, <2>3, WakeOneGood
  <2>5. DoSignal(st, i, a, c) = Status(WakeOne(st, i, a.lock), c, TRUE)
    BY <1>4 DEF DoSignal
  <2> QED
    BY <2>4, <2>5, StatusGood
<1> QED
  BY <1>1, <1>2, <1>3, <1>4

\* serverDoBroadcast enters its loop for a condition variable that exists.
LEMMA DoBroadcastGood ==
  ASSUME NEW st \in GoodServer, NEW i \in Int, NEW a \in ArgsOf("Broadcast"), NEW c \in Clients
  PROVE  DoBroadcast(st, i, a, c) \in GoodServer
<1> DEFINE x == [type |-> "Broadcast", cv |-> i, lock |-> a.lock, client |-> c]
<1>1. CASE ~Exists(st.cvs, i)
  BY <1>1, StatusGood DEF DoBroadcast
<1>2. CASE Exists(st.cvs, i)
  <2>1. i \in Index
    BY <1>2, ExistsEntry DEF GoodServer
  <2>2. a.lock \in Nat
    BY DEF ArgsOf, ArgOK, Arg
  <2>3. x \in Loop
    BY <2>1, <2>2 DEF Loop
  <2>4. Exists(st.cvs, x.cv)
    BY <1>2
  <2>5. DoBroadcast(st, i, a, c) = [st EXCEPT !.loop = x]
    BY <1>2 DEF DoBroadcast
  <2> HIDE DEF x
  <2> QED
    BY <2>3, <2>4, <2>5, SetLoop
<1> QED
  BY <1>1, <1>2

\* Leaving a loop keeps the server good.
LEMMA NoLoopGood ==
  ASSUME NEW st \in GoodServer
  PROVE  [st EXCEPT !.loop = NoLoop] \in GoodServer
<1>1. NoLoop \in Loop /\ NoLoop.type # "Broadcast"
  BY DEF Loop, NoLoop
<1> QED
  BY <1>1, SetLoop

\* A round of the broadcast finds its condition variable still there.
LEMMA BroadcastRoundGood ==
  ASSUME NEW st \in GoodServer, st.loop.type = "Broadcast"
  PROVE  BroadcastRound(st) \in GoodServer
<1> DEFINE i == st.loop.cv
<1>1. st.loop.lock \in Nat /\ st.loop.client \in Clients /\ i \in Index
  BY DEF GoodServer, Loop, NoLoop, Creates
<1>2. st.cvs.slot[i] # NULL
  BY DEF GoodServer, Exists
<1>3. CASE st.cvs.slot[i].q # <<>>
  BY <1>1, <1>2, <1>3, WakeOneGood DEF BroadcastRound
<1>4. CASE st.cvs.slot[i].q = <<>>
  BY <1>1, <1>4, NoLoopGood, StatusGood DEF BroadcastRound
<1> QED
  BY <1>3, <1>4

\* serverDoDestroyCV removes a condition variable without waiters only.
LEMMA DoDestroyCVGood ==
  ASSUME NEW st \in GoodServer, st.loop.type # "Broadcast", NEW i \in Int, NEW a,
         NEW c \in Clients
  PROVE  DoDestroyCV(st, i, a, c) \in GoodServer
<1> DEFINE cv == st.cvs.slot[i]
<1>1. CASE ~Exists(st.cvs, i)
  BY <1>1 DEF DoDestroyCV
<1>2. CASE Exists(st.cvs, i)
  <2>1. i \in Index /\ cv # NULL /\ cv \in GoodCV
    BY <1>2, ExistsEntry DEF GoodServer
  <2>2. CASE cv.q = <<>> /\ cv.count = 1
    <3>1. Remove(st.cvs, i) \in GoodTable(GoodCV)
      BY <2>1, RemoveEntry DEF GoodServer
    <3>2. [st EXCEPT !.cvs = Remove(st.cvs, i)] \in GoodServer
      BY <3>1, SetCVs
    <3> QED
      BY <1>2, <2>2, <3>2 DEF DoDestroyCV
  <2>3. CASE ~(cv.q = <<>> /\ cv.count = 1)
    <3> DEFINE n == cv.count - 1
               x == [cv EXCEPT !.count = n]
    <3>1. cv \in ServerCV /\ n \in Int /\ (cv.waitingLock = -1 <=> cv.q = <<>>)
      BY <2>1 DEF GoodCV, ServerCV
    <3>2. DoDestroyCV(st, i, a, c) = PutCV(st, i, x)
      BY <1>2, <2>3 DEF DoDestroyCV
    <3> HIDE DEF n
    <3>3. x \in ServerCV /\ x.waitingLock = cv.waitingLock /\ x.q = cv.q /\ x.name = cv.name
      BY <3>1, Zenon DEF ServerCV
    <3>4. x \in GoodCV /\ x.name = cv.name
      BY <3>1, <3>3, Zenon DEF GoodCV
    <3> HIDE DEF x
    <3> QED
      BY <2>1, <3>2, <3>4, PutCVGood
  <2> QED
    BY <2>2, <2>3
<1> QED
  BY <1>1, <1>2

\* A create leaves a good table of condition variables, and returns -1 or the index of an entry.
LEMMA CreateCVTable ==
  ASSUME NEW st \in GoodServer, NEW a \in ArgsOf("CreateCondition")
  PROVE  /\ CreateNamed(st.cvs, a.obj, NewCV(a.obj)).table \in GoodTable(GoodCV)
         /\ CreateNamed(st.cvs, a.obj, NewCV(a.obj)).index \in Index \cup {-1}
<1>1. a.obj \in Names
  BY DEF ArgsOf, ArgOK, Creates
<1>2. NewCV(a.obj) \in GoodCV /\ NewCV(a.obj).name = a.obj
  BY <1>1 DEF NewCV, GoodCV, ServerCV
<1>3. \A x \in GoodCV : /\ [x EXCEPT !.count = @ + 1] \in GoodCV
                          /\ [x EXCEPT !.count = @ + 1].name = x.name
  <2> SUFFICES ASSUME NEW x \in GoodCV
               PROVE  /\ [x EXCEPT !.count = x.count + 1] \in GoodCV
                      /\ [x EXCEPT !.count = x.count + 1].name = x.name
    OBVIOUS
  <2>1. x \in ServerCV /\ x.count + 1 \in Int /\ (x.waitingLock = -1 <=> x.q = <<>>)
    BY DEF GoodCV, ServerCV
  <2> QED
    BY <2>1, Zenon DEF GoodCV, ServerCV
<1>4. st.cvs \in GoodTable(GoodCV)
  BY DEF GoodServer
<1> QED
  BY <1>2, <1>3, <1>4, NullNotGood, CreateNamedEntry

\* serverDoCreateCV keeps the server good.
LEMMA DoCreateCVGood ==
  ASSUME NEW st \in GoodServer, st.loop.type # "Broadcast",
         NEW a \in ArgsOf("CreateCondition"), NEW c \in Clients
  PROVE  DoCreateCV(st, a, c) \in GoodServer /\ DoCreateCV(st, a, c).loop = st.loop
<1> DEFINE r == CreateNamed(st.cvs, a.obj, NewCV(a.obj))
           new == [st EXCEPT !.cvs = r.table]
           id == IF r.index = -1 THEN -1 ELSE Id(st, r.index)
<1>5. r.table \in GoodTable(GoodCV) /\ r.index \in Index \cup {-1}
  BY CreateCVTable
<1>6. DoCreateCV(st, a, c) = StatusAndValue(new, c, r.index # -1, id)
  BY DEF DoCreateCV
<1> HIDE DEF r
<1>7. new \in GoodServer
  BY <1>5, SetCVs
<1>8. id \in Int
  BY <1>5, IdType DEF Index
<1>9. new.loop = st.loop
  BY DEF GoodServer
<1> HIDE DEF new, id
<1>10. DoCreateCV(st, a, c) \in GoodServer
  BY <1>6, <1>7, <1>8, StatusAndValueGood
<1>11. DoCreateCV(st, a, c).loop = new.loop
  BY <1>6, <1>7 DEF StatusAndValue, SendResult, GoodServer
<1> QED
  BY <1>9, <1>10, <1>11
-------------------------------------------------------------------------------
(***************************************************************************)
(* Monitor variables.                                                      *)
(***************************************************************************)

\* Assigning a monitor variable keeps the server good.
LEMMA PutMVGood ==
  ASSUME NEW st \in GoodServer, NEW i \in Index, st.mvs.slot[i] # NULL, NEW x \in GoodMV,
         x.name = st.mvs.slot[i].name
  PROVE  PutMV(st, i, x) \in GoodServer
<1> DEFINE t == [st.mvs EXCEPT !.slot[i] = x]
<1>1. st.mvs \in GoodTable(GoodMV)
  BY DEF GoodServer
<1>2. t \in GoodTable(GoodMV)
  BY <1>1, NullNotGood, PutEntry
<1>3. PutMV(st, i, x) = [st EXCEPT !.mvs = t]
  BY DEF PutMV
<1> HIDE DEF t
<1> QED
  BY <1>2, <1>3, SetMVs

\* A create leaves a good table of monitor variables, and returns -1 or the index of an entry.
LEMMA CreateMVTable ==
  ASSUME NEW st \in GoodServer, NEW a \in ArgsOf("CreateMV")
  PROVE  /\ CreateNamed(st.mvs, a.obj, NewMV(a.obj, a.index)).table \in GoodTable(GoodMV)
         /\ CreateNamed(st.mvs, a.obj, NewMV(a.obj, a.index)).index \in Index \cup {-1}
<1>1. a.obj \in Names /\ a.index \in Nat
  BY DEF ArgsOf, Arg, ArgOK, Creates
<1>2. NewMV(a.obj, a.index) \in GoodMV /\ NewMV(a.obj, a.index).name = a.obj
  <2>1. [k \in 1 .. a.index |-> 0] \in Seq(Int) /\ Len([k \in 1 .. a.index |-> 0]) = a.index
    BY <1>1
  <2> QED
    BY <1>1, <2>1 DEF NewMV, GoodMV, ServerMV
<1>3. \A x \in GoodMV : /\ [x EXCEPT !.count = @ + 1] \in GoodMV
                          /\ [x EXCEPT !.count = @ + 1].name = x.name
  <2> SUFFICES ASSUME NEW x \in GoodMV
               PROVE  /\ [x EXCEPT !.count = x.count + 1] \in GoodMV
                      /\ [x EXCEPT !.count = x.count + 1].name = x.name
    OBVIOUS
  <2>1. x \in ServerMV /\ x.count + 1 \in Int /\ Len(x.v) = x.size
    BY DEF GoodMV, ServerMV
  <2> QED
    BY <2>1, Zenon DEF GoodMV, ServerMV
<1>4. st.mvs \in GoodTable(GoodMV)
  BY DEF GoodServer
<1> QED
  BY <1>2, <1>3, <1>4, NullNotGood, CreateNamedEntry

\* serverDoCreateMV keeps the server good.
LEMMA DoCreateMVGood ==
  ASSUME NEW st \in GoodServer, NEW a \in ArgsOf("CreateMV"), NEW c \in Clients
  PROVE  DoCreateMV(st, a, c) \in GoodServer /\ DoCreateMV(st, a, c).loop = st.loop
<1> DEFINE j == FindNamed(st.mvs, a.obj)
           r == CreateNamed(st.mvs, a.obj, NewMV(a.obj, a.index))
           new == [st EXCEPT !.mvs = r.table]
           id == IF r.index = -1 THEN -1 ELSE Id(st, r.index)
<1>5. r.table \in GoodTable(GoodMV) /\ r.index \in Index \cup {-1}
  BY CreateMVTable
<1>6. \/ DoCreateMV(st, a, c) = StatusAndValue(st, c, FALSE, -1)
      \/ DoCreateMV(st, a, c) = StatusAndValue(new, c, r.index # -1, id)
  BY DEF DoCreateMV
<1> HIDE DEF r
<1>7. new \in GoodServer
  BY <1>5, SetMVs
<1>8. id \in Int
  BY <1>5, IdType DEF Index
<1>9. new.loop = st.loop
  BY DEF GoodServer
<1> HIDE DEF new, id
<1>10. DoCreateMV(st, a, c) \in GoodServer
  <2>1. -1 \in Int
    OBVIOUS
  <2>2. StatusAndValue(st, c, FALSE, -1) \in GoodServer
    BY <2>1, StatusAndValueGood, Zenon
  <2>3. StatusAndValue(new, c, r.index # -1, id) \in GoodServer
    BY <1>7, <1>8, StatusAndValueGood
  <2> QED
    BY <1>6, <2>2, <2>3
<1>11. StatusAndValue(new, c, r.index # -1, id).loop = new.loop
       /\ StatusAndValue(st, c, FALSE, -1).loop = st.loop
  BY <1>7 DEF StatusAndValue, SendResult, GoodServer
<1> QED
  BY <1>6, <1>9, <1>10, <1>11

\* serverDoDestroyMV keeps the server good.
LEMMA DoDestroyMVGood ==
  ASSUME NEW st \in GoodServer, NEW i \in Int, NEW a, NEW c \in Clients
  PROVE  DoDestroyMV(st, i, a, c) \in GoodServer
<1> DEFINE mv == st.mvs.slot[i]
<1>1. CASE ~Exists(st.mvs, i)
  BY <1>1 DEF DoDestroyMV
<1>2. CASE Exists(st.mvs, i)
  <2>1. i \in Index /\ mv # NULL /\ mv \in GoodMV
    BY <1>2, ExistsEntry DEF GoodServer
  <2>2. CASE mv.count = 1
    <3>1. Remove(st.mvs, i) \in GoodTable(GoodMV)
      BY <2>1, RemoveEntry DEF GoodServer
    <3>2. [st EXCEPT !.mvs = Remove(st.mvs, i)] \in GoodServer
      BY <3>1, SetMVs
    <3> QED
      BY <1>2, <2>2, <3>2 DEF DoDestroyMV
  <2>3. CASE mv.count # 1
    <3> DEFINE n == mv.count - 1
               x == [mv EXCEPT !.count = n]
    <3>1. mv \in ServerMV /\ n \in Int /\ Len(mv.v) = mv.size
      BY <2>1 DEF GoodMV, ServerMV
    <3>2. DoDestroyMV(st, i, a, c) = PutMV(st, i, x)
      BY <1>2, <2>3 DEF DoDestroyMV
    <3> HIDE DEF n
    <3>3. x \in ServerMV /\ x.v = mv.v /\ x.size = mv.size /\ x.name = mv.name
      BY <3>1, Zenon DEF ServerMV
    <3>4. x \in GoodMV /\ x.name = mv.name
      BY <3>1, <3>3, Zenon DEF GoodMV
    <3> HIDE DEF x
    <3> QED
      BY <2>1, <3>2, <3>4, PutMVGood
  <2> QED
    BY <2>2, <2>3
<1> QED
  BY <1>1, <1>2

\* serverDoSet writes within the array: its length is the size.
LEMMA SetValueGood ==
  ASSUME NEW st \in GoodServer, NEW i \in Int, NEW a \in Arg, InMV(st, i, a.index)
  PROVE  PutMV(st, i, [st.mvs.slot[i] EXCEPT !.v[a.index + 1] = a.value]) \in GoodServer
<1> DEFINE mv == st.mvs.slot[i]
           w == [mv.v EXCEPT ![a.index + 1] = a.value]
           x == [mv EXCEPT !.v = w]
<1>1. i \in Index /\ mv # NULL /\ mv \in GoodMV
  BY ExistsEntry DEF GoodServer, InMV
<1>2. mv \in ServerMV /\ mv.v \in Seq(Int) /\ Len(mv.v) = mv.size
  BY <1>1 DEF GoodMV, ServerMV
<1>3. w \in Seq(Int) /\ Len(w) = Len(mv.v)
  <2>1. a.value \in Int
    BY DEF Arg
  <2>2. mv.v \in [1 .. Len(mv.v) -> Int] /\ Len(mv.v) \in Nat
    BY <1>2
  <2>3. w \in [1 .. Len(mv.v) -> Int]
    BY <2>1, <2>2, Zenon
  <2> HIDE DEF w
  <2> QED
    BY <2>2, <2>3
<1>4. x = [st.mvs.slot[i] EXCEPT !.v[a.index + 1] = a.value]
  OBVIOUS
<1> HIDE DEF w
<1>5. x \in ServerMV /\ x.v = w /\ x.size = mv.size /\ x.name = mv.name
  BY <1>2, <1>3, Zenon DEF ServerMV
<1>6. x \in GoodMV /\ x.name = mv.name
  BY <1>2, <1>3, <1>5, Zenon DEF GoodMV
<1> HIDE DEF x
<1> QED
  BY <1>1, <1>4, <1>6, PutMVGood

\* serverDoSet.
LEMMA DoSetGood ==
  ASSUME NEW st \in GoodServer, NEW i \in Int, NEW a \in Arg, NEW c \in Clients
  PROVE  DoSet(st, i, a, c) \in GoodServer
<1> DEFINE st1 == PutMV(st, i, [st.mvs.slot[i] EXCEPT !.v[a.index + 1] = a.value])
<1>1. CASE ~InMV(st, i, a.index)
  BY <1>1, StatusGood DEF DoSet
<1>2. CASE InMV(st, i, a.index)
  <2>1. st1 \in GoodServer
    BY <1>2, SetValueGood
  <2>2. DoSet(st, i, a, c) = Status(st1, c, TRUE)
    BY <1>2 DEF DoSet
  <2> HIDE DEF st1
  <2> QED
    BY <2>1, <2>2, StatusGood
<1> QED
  BY <1>1, <1>2

\* A value in the array is an integer.
LEMMA ValueRead ==
  ASSUME NEW st \in GoodServer, NEW i \in Int, NEW a \in Arg, InMV(st, i, a.index)
  PROVE  st.mvs.slot[i].v[a.index + 1] \in Int
<1>1. PICK mv : mv = st.mvs.slot[i]
  OBVIOUS
<1>2. mv \in GoodMV
  BY <1>1, ExistsEntry DEF GoodServer, InMV
<1>3. mv.v \in Seq(Int) /\ Len(mv.v) = mv.size /\ mv.size \in Nat
  BY <1>2 DEF GoodMV, ServerMV
<1>4. PICK j : j = a.index + 1
  OBVIOUS
<1>5. a.index \in Int /\ a.index >= 0 /\ a.index < mv.size
  BY <1>1 DEF InMV, Arg
<1>6. j \in 1 .. Len(mv.v)
  BY <1>3, <1>4, <1>5
<1>7. mv.v[j] \in Int
  BY <1>3, <1>6
<1> QED
  BY <1>1, <1>4, <1>7

\* serverDoGet reads within the array.
LEMMA DoGetGood ==
  ASSUME NEW st \in GoodServer, NEW i \in Int, NEW a \in Arg, NEW c \in Clients
  PROVE  DoGet(st, i, a, c) \in GoodServer
<1>1. CASE ~InMV(st, i, a.index)
  <2>1. StatusAndValue(st, c, FALSE, 0) \in GoodServer
    <3>1. 0 \in Int
      OBVIOUS
    <3> QED
      BY <3>1, StatusAndValueGood, Zenon
  <2> QED
    BY <1>1, <2>1 DEF DoGet
<1>2. CASE InMV(st, i, a.index)
  BY <1>2, ValueRead, StatusAndValueGood DEF DoGet
<1> QED
  BY <1>1, <1>2
-------------------------------------------------------------------------------
(***************************************************************************)
(* Handlers.                                                               *)
(***************************************************************************)

\* No loop is not a broadcast.
LEMMA NotBroadcast == NoLoop.type # "Broadcast"
BY DEF NoLoop

\* Every handler of a message about an object's id leaves a good server.
LEMMA HandleByIdGood ==
  ASSUME NEW st \in GoodServer, st.loop = NoLoop, NEW m \in ServerMail
  PROVE  /\ m.type = "Acquire" => HandleById(st, m, DoAcquireLock) \in GoodServer
         /\ m.type = "Release" => HandleById(st, m, DoReleaseLock) \in GoodServer
         /\ m.type = "DestroyLock" => HandleById(st, m, DoDestroyLock) \in GoodServer
         /\ m.type = "Wait" => HandleById(st, m, DoWait) \in GoodServer
         /\ m.type = "Signal" => HandleById(st, m, DoSignal) \in GoodServer
         /\ m.type = "Broadcast" => HandleById(st, m, DoBroadcast) \in GoodServer
         /\ m.type = "DestroyCondition" => HandleById(st, m, DoDestroyCV) \in GoodServer
         /\ m.type = "DestroyMV" => HandleById(st, m, DoDestroyMV) \in GoodServer
         /\ m.type = "Set" => HandleById(st, m, DoSet) \in GoodServer
         /\ m.type = "Get" => HandleById(st, m, DoGet) \in GoodServer
<1> DEFINE r == ById(st, m)
<1>1. m.client \in Clients /\ m.arg \in ArgsOf(m.type) /\ m.arg \in Arg
  BY MailKinds DEF ArgsOf
<1>2. m.type \in Ops \ Creates =>
        r.st \in GoodServer /\ r.index \in Int /\ r.st.loop.type # "Broadcast"
  BY ByIdGood, NotBroadcast DEF GoodRoute
<1> HIDE DEF r
<1>3. m.type = "Acquire" => HandleById(st, m, DoAcquireLock) \in GoodServer
  BY <1>1, <1>2, DoAcquireLockGood DEF HandleById, r, Ops, LockOps, Creates
<1>4. m.type = "Release" => HandleById(st, m, DoReleaseLock) \in GoodServer
  BY <1>1, <1>2, DoReleaseLockGood DEF HandleById, r, Ops, LockOps, Creates
<1>5. m.type = "DestroyLock" => HandleById(st, m, DoDestroyLock) \in GoodServer
  BY <1>1, <1>2, DoDestroyLockGood DEF HandleById, r, Ops, LockOps, Creates
<1>6. m.type = "Wait" => HandleById(st, m, DoWait) \in GoodServer
  BY <1>1, <1>2, DoWaitGood DEF HandleById, r, Ops, CVOps, Creates
<1>7. m.type = "Signal" => HandleById(st, m, DoSignal) \in GoodServer
  BY <1>1, <1>2, DoSignalGood DEF HandleById, r, Ops, CVOps, Creates
<1>8. m.type = "Broadcast" => HandleById(st, m, DoBroadcast) \in GoodServer
  BY <1>1, <1>2, DoBroadcastGood DEF HandleById, r, Ops, CVOps, Creates
<1>9. m.type = "DestroyCondition" => HandleById(st, m, DoDestroyCV) \in GoodServer
  BY <1>1, <1>2, DoDestroyCVGood DEF HandleById, r, Ops, CVOps, Creates
<1>10. m.type = "DestroyMV" => HandleById(st, m, DoDestroyMV) \in GoodServer
  BY <1>1, <1>2, DoDestroyMVGood DEF HandleById, r, Ops, MVOps, Creates
<1>11. m.type = "Set" => HandleById(st, m, DoSet) \in GoodServer
  BY <1>1, <1>2, DoSetGood DEF HandleById, r, Ops, MVOps, Creates
<1>12. m.type = "Get" => HandleById(st, m, DoGet) \in GoodServer
  BY <1>1, <1>2, DoGetGood DEF HandleById, r, Ops, MVOps, Creates
<1> QED
  BY <1>3, <1>4, <1>5, <1>6, <1>7, <1>8, <1>9, <1>10, <1>11, <1>12

\* Who creates an object is decided from a good state.
LEMMA ByNameGood ==
  ASSUME NEW st \in GoodServer, st.loop = NoLoop, NEW m \in ServerMail, m.type \in Creates,
         NEW t
  PROVE  ByName(st, m, t).st \in GoodServer /\ ByName(st, m, t).st.loop.type # "Broadcast"
<1>1. m.type \in Ops /\ m.client \in Clients /\ m.arg \in ArgsOf(m.type) /\ m.arg.obj \in Names
  BY MailKinds DEF ArgsOf, ArgOK
<1>2. st.loop.type # "Broadcast"
  BY NotBroadcast
<1>3. CASE m.kind = "call"
  <2>1. /\ SendPending(st, m.type, m.arg, m.client) \in GoodServer
        /\ SendPending(st, m.type, m.arg, m.client).loop = st.loop
    BY <1>1, SendPendingGood
  <2>2. Unsent(st) \in GoodServer /\ Unsent(st).loop = st.loop
    BY UnsentGood
  <2> QED
    BY <1>2, <1>3, <2>1, <2>2 DEF ByName, RouteCreate, Here, NotHere
<1>4. CASE m.kind = "request" /\ m \in RequestMail
  <2>1. \A yes \in BOOLEAN : Answer(st, m, yes) \in GoodServer /\ Answer(st, m, yes).loop = st.loop
    BY <1>4, AnswerGood
  <2> DEFINE y == Answer(st, m, TRUE)
             n == Answer(st, m, FALSE)
  <2>2. y \in GoodServer /\ y.loop = st.loop /\ n \in GoodServer /\ n.loop = st.loop
    BY <2>1, Zenon
  <2>3. \/ ByName(st, m, t).st = y
        \/ ByName(st, m, t).st = n
        \/ ByName(st, m, t).st = Adopt(y, m.type, m.arg, m.client)
    BY <1>4 DEF ByName, RequestCreate, Here, NotHere
  <2> HIDE DEF y, n
  <2>4. /\ Adopt(y, m.type, m.arg, m.client) \in GoodServer
        /\ Adopt(y, m.type, m.arg, m.client).loop = y.loop
    BY <1>1, <2>2, AdoptGood
  <2> QED
    BY <1>2, <2>2, <2>3, <2>4
<1>5. CASE m.kind = "reply" /\ m \in ReplyMail
  <2> DEFINE ps == Matching(st, m)
             p == CHOOSE q \in ps : TRUE
             dropped == [st EXCEPT !.pending = @ \ PendingCreates(st, m.type, m.arg.obj)]
             x == [type |-> m.type, name |-> m.arg.obj]
             done == [st EXCEPT !.pending = @ \ {p}, !.loop = x]
  <2>1. \/ ByName(st, m, t).st = st
        \/ ByName(st, m, t).st = dropped
        \/ ByName(st, m, t).st = done
        \/ ps # {} /\ ByName(st, m, t).st = CountNo(st, p).st
    BY <1>5 DEF ByName, ReplyCreate, Here, NotHere
  <2>2. ps # {} => p \in st.pending
    BY DEF Matching
  <2>3. ps # {} => CountNo(st, p).st \in GoodServer /\ CountNo(st, p).st.loop = st.loop
    BY <2>2, CountNoGood DEF GoodRoute
  <2>4. dropped \in GoodServer /\ dropped.loop = st.loop
    BY DEF GoodServer
  <2>5. done \in GoodServer /\ done.loop.type # "Broadcast"
    <3>1. x \in Loop /\ x.type # "Broadcast"
      BY <1>1 DEF Loop, Creates
    <3> HIDE DEF x, p
    <3>2. done = [[st EXCEPT !.loop = x] EXCEPT !.pending = st.pending \ {p}]
      BY DEF GoodServer
    <3> QED
      BY <3>1 DEF GoodServer
  <2> QED
    BY <1>2, <2>1, <2>3, <2>4, <2>5
<1> QED
  BY <1>3, <1>4, <1>5, MailKinds

\* Every handler of a creation leaves a good server.
LEMMA HandleCreateGood ==
  ASSUME NEW st \in GoodServer, st.loop = NoLoop, NEW m \in ServerMail
  PROVE  /\ m.type = "CreateLock" => HandleCreate(st, m, st.locks, DoCreateLock) \in GoodServer
         /\ m.type = "CreateCondition" => HandleCreate(st, m, st.cvs, DoCreateCV) \in GoodServer
         /\ m.type = "CreateMV" => HandleCreate(st, m, st.mvs, DoCreateMV) \in GoodServer
<1>1. m.client \in Clients /\ m.arg \in ArgsOf(m.type)
  BY MailKinds
<1>2. ASSUME m.type \in Creates, NEW t
      PROVE  ByName(st, m, t).st \in GoodServer /\ ByName(st, m, t).st.loop.type # "Broadcast"
  BY <1>2, ByNameGood
<1>3. m.type = "CreateLock" => HandleCreate(st, m, st.locks, DoCreateLock) \in GoodServer
  BY <1>1, <1>2, DoCreateLockGood DEF HandleCreate, Creates
<1>4. m.type = "CreateCondition" => HandleCreate(st, m, st.cvs, DoCreateCV) \in GoodServer
  BY <1>1, <1>2, DoCreateCVGood DEF HandleCreate, Creates
<1>5. m.type = "CreateMV" => HandleCreate(st, m, st.mvs, DoCreateMV) \in GoodServer
  BY <1>1, <1>2, DoCreateMVGood DEF HandleCreate, Creates
<1> QED
  BY <1>3, <1>4, <1>5

\* The request a round of the loop takes is a pending creation of the loop's kind.
LEMMA FirstRequestType ==
  ASSUME NEW st \in GoodServer, st.loop.type \in Creates, LoopRequests(st) # {}
  PROVE  /\ FirstRequest(st) \in st.pending
         /\ FirstRequest(st).arg \in ArgsOf(st.loop.type)
         /\ FirstRequest(st).client \in Clients
<1> DEFINE ps == LoopRequests(st)
           S == {q.req : q \in ps}
<1>1. \A q \in ps : q \in st.pending /\ q \in PendingRequest /\ q.type = st.loop.type
  BY DEF LoopRequests, PendingCreates, GoodServer
<1>2. S \in SUBSET Nat /\ S # {}
  BY <1>1 DEF PendingRequest, Typed
<1>3. Min(S) \in S /\ \A y \in S : Min(S) <= y
  BY <1>2, MinNat
<1>4. \E q \in ps : \A r \in ps : q.req <= r.req
  BY <1>3
<1>5. FirstRequest(st) \in ps
  BY <1>4 DEF FirstRequest
<1> QED
  BY <1>1, <1>5 DEF PendingRequest, Typed, ArgsOf

\* A round of the creation loop leaves a good server.
LEMMA CreateRoundGood ==
  ASSUME NEW st \in GoodServer
  PROVE  /\ st.loop.type = "CreateLock" => CreateRound(st, DoCreateLock) \in GoodServer
         /\ st.loop.type = "CreateCondition" => CreateRound(st, DoCreateCV) \in GoodServer
         /\ st.loop.type = "CreateMV" => CreateRound(st, DoCreateMV) \in GoodServer
<1> DEFINE p == FirstRequest(st)
           rest == [st EXCEPT !.pending = @ \ {p}]
<1>1. [st EXCEPT !.loop = NoLoop] \in GoodServer
  BY NoLoopGood
<1>2. rest \in GoodServer /\ rest.loop = st.loop
  BY DEF GoodServer
<1>3. st.loop.type \in Creates /\ LoopRequests(st) # {} =>
        p.arg \in ArgsOf(st.loop.type) /\ p.client \in Clients
  BY FirstRequestType
<1>4. /\ CreateRound(st, DoCreateLock) = IF LoopRequests(st) = {} THEN [st EXCEPT !.loop = NoLoop]
                                         ELSE DoCreateLock(rest, p.arg, p.client)
      /\ CreateRound(st, DoCreateCV) = IF LoopRequests(st) = {} THEN [st EXCEPT !.loop = NoLoop]
                                       ELSE DoCreateCV(rest, p.arg, p.client)
      /\ CreateRound(st, DoCreateMV) = IF LoopRequests(st) = {} THEN [st EXCEPT !.loop = NoLoop]
                                       ELSE DoCreateMV(rest, p.arg, p.client)
  BY DEF CreateRound
<1> HIDE DEF rest, p
<1>5. st.loop.type = "CreateLock" => CreateRound(st, DoCreateLock) \in GoodServer
  BY <1>1, <1>2, <1>3, <1>4, DoCreateLockGood DEF Creates
<1>6. st.loop.type = "CreateCondition" => CreateRound(st, DoCreateCV) \in GoodServer
  BY <1>1, <1>2, <1>3, <1>4, DoCreateCVGood DEF Creates
<1>7. st.loop.type = "CreateMV" => CreateRound(st, DoCreateMV) \in GoodServer
  BY <1>1, <1>2, <1>3, <1>4, DoCreateMVGood DEF Creates
<1> QED
  BY <1>5, <1>6, <1>7
-------------------------------------------------------------------------------
(***************************************************************************)
(* Steps.                                                                  *)
(***************************************************************************)

\* The inductive invariant holds initially.
LEMMA InitIInv == Init => IInv
<1> SUFFICES ASSUME Init PROVE IInv
  OBVIOUS
<1>1. EmptyTable \in GoodTable(GoodLock) /\ EmptyTable \in GoodTable(GoodCV)
      /\ EmptyTable \in GoodTable(GoodMV)
  BY TableSizeAssumption DEF EmptyTable, GoodTable, TableOf
<1>2. NoLoop \in Loop /\ NoLoop.type # "Broadcast"
  BY DEF Loop, NoLoop
<1>3. \A s \in Servers : NewServer(s) \in GoodServer
  BY <1>1, <1>2 DEF NewServer, GoodServer
<1>4. \A s \in Servers : srv[s] \in GoodServer
  BY <1>3 DEF Init
<1>5. srv \in [Servers -> ServerState]
  BY <1>4, GoodServerType DEF Init
<1> QED
  BY <1>4, <1>5, MaxCallsAssumption DEF IInv, TypeOK, Init

\* A step that gives server s a good state.
LEMMA GoodStep ==
  ASSUME IInv, NEW s \in Servers, NEW st \in GoodServer, srv' = [srv EXCEPT ![s] = st]
  PROVE  srv' \in [Servers -> ServerState] /\ \A t \in Servers : srv'[t] \in GoodServer
<1>1. st \in ServerState
  BY GoodServerType
<1> QED
  BY <1>1 DEF IInv, TypeOK

\* Handling a message preserves the invariant when the handler leaves a good server,
LEMMA ReceiveStep ==
  ASSUME IInv, NEW s \in Servers, NEW type, NEW st \in GoodServer, Receive(s, type, st)
  PROVE  IInv'
<1>1. srv' \in [Servers -> ServerState] /\ \A t \in Servers : srv'[t] \in GoodServer
  BY GoodStep DEF Receive
<1>2. mail' \in [Servers -> Seq(ServerMail)]
  <2>1. mail[s] \in Seq(ServerMail) /\ mail[s] # <<>>
    BY DEF IInv, TypeOK, Receive
  <2>2. Tail(mail[s]) \in Seq(ServerMail)
    BY <2>1
  <2> QED
    BY <2>2 DEF IInv, TypeOK, Receive
<1> QED
  BY <1>1, <1>2 DEF IInv, TypeOK, Receive

\* and so does a round of a loop.
LEMMA RoundStep ==
  ASSUME IInv, NEW s \in Servers, NEW type, NEW st \in GoodServer, Round(s, type, st)
  PROVE  IInv'
<1>1. srv' \in [Servers -> ServerState] /\ \A t \in Servers : srv'[t] \in GoodServer
  BY GoodStep DEF Round
<1> QED
  BY <1>1 DEF IInv, TypeOK, Round

\* What a server that is about to handle a message knows of it.
LEMMA Received ==
  ASSUME IInv, NEW s \in Servers, NEW type, NEW st, Receive(s, type, st)
  PROVE  srv[s] \in GoodServer /\ srv[s].loop = NoLoop /\ M(s) \in ServerMail /\ M(s).type = type
<1>1. mail[s] \in Seq(ServerMail) /\ mail[s] # <<>>
  BY DEF IInv, TypeOK, Receive
<1>2. Head(mail[s]) \in ServerMail
  BY <1>1
<1> QED
  BY <1>2 DEF IInv, Receive, M

\* The handlers of lock messages preserve the invariant,
LEMMA LockStepIInv ==
  ASSUME IInv, NEW s \in Servers, LockStep(s)
  PROVE  IInv'
<1>1. CASE CreateLock(s)
  BY <1>1, Received, HandleCreateGood, ReceiveStep DEF CreateLock, serverCreateLock
<1>2. CASE CreateLockLoop(s)
  BY <1>2, CreateRoundGood, RoundStep DEF CreateLockLoop, Round, IInv
<1>3. CASE Acquire(s)
  BY <1>3, Received, HandleByIdGood, ReceiveStep DEF Acquire
<1>4. CASE Release(s)
  BY <1>4, Received, HandleByIdGood, ReceiveStep DEF Release
<1>5. CASE DestroyLock(s)
  BY <1>5, Received, HandleByIdGood, ReceiveStep DEF DestroyLock, serverDestroyLock
<1> QED
  BY <1>1, <1>2, <1>3, <1>4, <1>5 DEF LockStep

\* so do those of condition variable messages,
LEMMA CVStepIInv ==
  ASSUME IInv, NEW s \in Servers, CVStep(s)
  PROVE  IInv'
<1>1. CASE CreateCondition(s)
  BY <1>1, Received, HandleCreateGood, ReceiveStep DEF CreateCondition, serverCreateCV
<1>2. CASE CreateConditionLoop(s)
  BY <1>2, CreateRoundGood, RoundStep DEF CreateConditionLoop, Round, IInv
<1>3. CASE Wait(s)
  BY <1>3, Received, HandleByIdGood, ReceiveStep DEF Wait, serverWait
<1>4. CASE Signal(s)
  BY <1>4, Received, HandleByIdGood, ReceiveStep DEF Signal, serverSignal
<1>5. CASE Broadcast(s)
  BY <1>5, Received, HandleByIdGood, ReceiveStep DEF Broadcast, serverBroadcast
<1>6. CASE BroadcastLoop(s)
  BY <1>6, BroadcastRoundGood, RoundStep DEF BroadcastLoop, Round, IInv
<1>7. CASE DestroyCondition(s)
  BY <1>7, Received, HandleByIdGood, ReceiveStep DEF DestroyCondition, serverDestroyCV
<1> QED
  BY <1>1, <1>2, <1>3, <1>4, <1>5, <1>6, <1>7 DEF CVStep

\* and those of monitor variable messages.
LEMMA MVStepIInv ==
  ASSUME IInv, NEW s \in Servers, MVStep(s)
  PROVE  IInv'
<1>1. CASE CreateMV(s)
  BY <1>1, Received, HandleCreateGood, ReceiveStep DEF CreateMV, serverCreateMV
<1>2. CASE CreateMVLoop(s)
  BY <1>2, CreateRoundGood, RoundStep DEF CreateMVLoop, Round, IInv
<1>3. CASE Set(s)
  BY <1>3, Received, HandleByIdGood, ReceiveStep DEF Set, serverSet
<1>4. CASE Get(s)
  BY <1>4, Received, HandleByIdGood, ReceiveStep DEF Get, serverGet
<1>5. CASE DestroyMV(s)
  BY <1>5, Received, HandleByIdGood, ReceiveStep DEF DestroyMV, serverDestroyMV
<1> QED
  BY <1>1, <1>2, <1>3, <1>4, <1>5 DEF MVStep

\* A sendMail of a server preserves the invariant: what is left to send is still well typed.
LEMMA ServerSendIInv ==
  ASSUME IInv, NEW s \in Servers, ServerSend(s)
  PROVE  IInv'
<1> DEFINE out == srv[s].out
           h == Head(out)
           d == Min(h.to)
           rest == AfterSend(out)
           st == [srv[s] EXCEPT !.out = rest]
<1>1. srv[s] \in GoodServer /\ out \in Seq(OutMail) /\ out # <<>>
  BY DEF IInv, GoodServer, ServerSend
<1>2. h \in OutMail /\ Tail(out) \in Seq(OutMail)
  BY <1>1
<1>3. rest \in Seq(OutMail)
  <2> DEFINE h2 == [h EXCEPT !.to = @ \ {d}]
  <2>1. h2 \in OutMail
    BY <1>2 DEF OutMail
  <2>2. rest = IF Cardinality(h.to) <= 1 THEN Tail(out) ELSE <<h2>> \o Tail(out)
    BY DEF AfterSend
  <2> HIDE DEF h2, rest
  <2>3. <<h2>> \o Tail(out) \in Seq(OutMail)
    BY <1>2, <2>1
  <2> QED
    BY <1>2, <2>2, <2>3
<1>4. srv' = [srv EXCEPT ![s] = st]
  <2> HIDE DEF rest
  <2> QED
    BY DEF ServerSend, rest
<1>5. st \in GoodServer
  <2> HIDE DEF rest
  <2> QED
    BY <1>1, <1>3, SetOut
<1>6. srv' \in [Servers -> ServerState] /\ \A t \in Servers : srv'[t] \in GoodServer
  BY <1>4, <1>5, GoodStep
<1>7. CASE h.msg.kind = "result"
  <2>1. h.msg \in ResultMail
    BY <1>2, <1>7 DEF OutMail, ServerMail, CallMail, RequestMail, ReplyMail, Typed
  <2>2. h.msg.client \in Clients
    BY <2>1 DEF ResultMail
  <2>3. Append(inbox[h.msg.client], h.msg) \in Seq(ResultMail)
    BY <2>1, <2>2 DEF IInv, TypeOK
  <2>4. inbox' = [inbox EXCEPT ![h.msg.client] = Append(inbox[h.msg.client], h.msg)] /\ mail' = mail
    BY <1>7 DEF ServerSend
  <2>5. inbox' \in [Clients -> Seq(ResultMail)]
    BY <2>2, <2>3, <2>4 DEF IInv, TypeOK
  <2> QED
    BY <1>6, <2>4, <2>5 DEF IInv, TypeOK, ServerSend
<1>8. CASE h.msg.kind # "result"
  <2>1. h.msg \in ServerMail
    BY <1>2, <1>8 DEF OutMail, ResultMail
  <2>2. mail' = [mail EXCEPT ![d] = Append(mail[d], h.msg)] /\ inbox' = inbox
    BY <1>8 DEF ServerSend
  <2> HIDE DEF d, h
  <2>3. mail' \in [Servers -> Seq(ServerMail)]
    <3> DEFINE x == Append(mail[d], h.msg)
    <3>1. mail \in [Servers -> Seq(ServerMail)]
      BY DEF IInv, TypeOK
    <3>2. d \in Servers => x \in Seq(ServerMail)
      BY <2>1, <3>1
    <3> HIDE DEF x
    <3> QED
      BY <2>2, <3>1, <3>2 DEF x
  <2> QED
    BY <1>6, <2>2, <2>3 DEF IInv, TypeOK, ServerSend
<1> QED
  BY <1>7, <1>8

\* The arguments a client sends are those the server expects.
LEMMA ArgOfType ==
  ASSUME IInv, NEW c \in Clients, NEW k \in Calls, Accepted(c, k)
  PROVE  ArgOf(c, k) \in ArgsOf(k.op) /\ k.op \in Ops /\ k.obj \in Names
<1>1. k.op \in Ops /\ k.obj \in Names /\ k.lock \in Names /\ k.index \in Int /\ k.value \in Int
  BY CallsAssumption DEF CallSet
<1>2. handle[c][k.obj] \in Int /\ handle[c][k.lock] \in Int
  BY <1>1 DEF IInv, TypeOK
<1> DEFINE a == ArgOf(c, k)
<1>3. /\ a.obj = (IF k.op \in Creates THEN k.obj ELSE handle[c][k.obj])
      /\ a.lock = (IF k.op \in CVOps \ {"DestroyCondition"} THEN handle[c][k.lock] ELSE -1)
      /\ a.index = k.index /\ a.value = k.value
      /\ a = [obj |-> a.obj, lock |-> a.lock, index |-> a.index, value |-> a.value]
  BY DEF ArgOf
<1> HIDE DEF a
<1>4. a.obj \in IF k.op \in Creates THEN Names ELSE Nat
  BY <1>1, <1>2, <1>3 DEF Accepted
<1>5. a.lock \in Int /\ (k.op \in {"Wait", "Signal", "Broadcast"} => a.lock >= 0)
  BY <1>2, <1>3 DEF Accepted, CVOps
<1>6. a \in Arg
  BY <1>1, <1>3, <1>4, <1>5 DEF Arg
<1>7. ArgOK(k.op, a)
  BY <1>3, <1>4, <1>5 DEF ArgOK, Accepted
<1> QED
  BY <1>1, <1>6, <1>7 DEF a, ArgsOf

\* A system call preserves the invariant: the checks of exception.cc type its arguments.
LEMMA ClientCallIInv ==
  ASSUME IInv, NEW c \in Clients, NEW k \in Calls, ClientCall(c, k)
  PROVE  IInv'
<1> DEFINE m == [kind |-> "call", type |-> k.op, client |-> c, arg |-> ArgOf(c, k)]
<1>1. ArgOf(c, k) \in ArgsOf(k.op) /\ k.op \in Ops /\ k.obj \in Names
  BY ArgOfType DEF ClientCall
<1>2. m \in ServerMail
  BY <1>1 DEF ServerMail, CallMail, Typed, ArgsOf
<1>3. mail' \in [Servers -> Seq(ServerMail)]
  <2>1. PICK s \in Servers : mail' = [mail EXCEPT ![s] = Append(mail[s], m)]
    BY DEF ClientCall
  <2> HIDE DEF m
  <2>2. Append(mail[s], m) \in Seq(ServerMail)
    BY <1>2 DEF IInv, TypeOK
  <2> QED
    BY <2>1, <2>2 DEF IInv, TypeOK
<1>4. srv' = srv /\ inbox' = inbox /\ handle' = handle
  BY DEF ClientCall
<1>5. call' \in [Clients -> CallSet \cup {NoCall}]
  BY CallsAssumption DEF IInv, TypeOK, ClientCall
<1>6. made' \in [Clients -> 0 .. MaxCalls]
  BY MaxCallsAssumption DEF IInv, TypeOK, ClientCall
<1>7. holds' \in [Clients -> SUBSET Int]
  BY DEF IInv, TypeOK, ClientCall
<1>8. refs' \in [Clients -> [Names -> Int]]
  <2> DEFINE x == IF k.op \in Destroys THEN refs[c][k.obj] - 1 ELSE refs[c][k.obj]
  <2>1. refs \in [Clients -> [Names -> Int]]
    BY DEF IInv, TypeOK
  <2>2. x \in Int
    BY <1>1, <2>1
  <2>3. refs' = [refs EXCEPT ![c] = [refs[c] EXCEPT ![k.obj] = x]]
    BY DEF ClientCall
  <2> HIDE DEF x
  <2> QED
    BY <2>1, <2>2, <2>3
<1> QED
  BY <1>3, <1>4, <1>5, <1>6, <1>7, <1>8 DEF IInv, TypeOK

\* A return from a system call preserves the invariant.
LEMMA ClientReturnIInv ==
  ASSUME IInv, NEW c \in Clients, ClientReturn(c)
  PROVE  IInv'
<1> DEFINE k == call[c]
           r == Head(inbox[c])
<1>1. k \in CallSet /\ k.obj \in Names /\ k.lock \in Names
  BY DEF IInv, TypeOK, ClientReturn, CallSet
<1>2. inbox[c] \in Seq(ResultMail) /\ inbox[c] # <<>>
  BY DEF IInv, TypeOK, ClientReturn
<1>3. r \in ResultMail /\ Tail(inbox[c]) \in Seq(ResultMail)
  BY <1>2
<1>4. r.val \subseteq Int
  BY <1>3 DEF ResultMail
<1>5. AnyId \subseteq Int
  BY TableSizeAssumption DEF AnyId
<1>6. handle \in [Clients -> [Names -> Int]] /\ refs \in [Clients -> [Names -> Int]]
      /\ holds \in [Clients -> SUBSET Int]
  BY DEF IInv, TypeOK
<1> HIDE DEF k, r
<1>7. PICK ok \in r.ok :
        /\ \E id \in IF r.val = {} THEN AnyId ELSE r.val :
             handle' = IF k.op \in Creates
                       THEN [handle EXCEPT ![c][k.obj] = IF ok THEN id ELSE -1]
                       ELSE handle
        /\ refs' = [refs EXCEPT ![c][k.obj] = IF k.op \in Creates /\ ok THEN @ + 1 ELSE @]
        /\ holds' = [holds EXCEPT ![c] =
             IF k.op \in {"Acquire", "Wait"} /\ r.ok # {FALSE}
             THEN @ \cup {LockOf(c, k)} ELSE @]
  BY DEF ClientReturn, k, r
<1>8. handle' \in [Clients -> [Names -> Int]]
  <2>1. PICK id \in IF r.val = {} THEN AnyId ELSE r.val :
          handle' = IF k.op \in Creates
                    THEN [handle EXCEPT ![c][k.obj] = IF ok THEN id ELSE -1]
                    ELSE handle
    BY <1>7
  <2> DEFINE x == IF ok THEN id ELSE -1
  <2>2. x \in Int
    BY <1>4, <1>5
  <2>3. handle' = IF k.op \in Creates THEN [handle EXCEPT ![c][k.obj] = x] ELSE handle
    BY <2>1
  <2> HIDE DEF x
  <2> QED
    BY <1>1, <1>6, <2>2, <2>3
<1>9. refs' \in [Clients -> [Names -> Int]]
  <2> DEFINE x == IF k.op \in Creates /\ ok THEN refs[c][k.obj] + 1 ELSE refs[c][k.obj]
  <2>1. x \in Int
    BY <1>1, <1>6
  <2>2. refs' = [refs EXCEPT ![c] = [refs[c] EXCEPT ![k.obj] = x]]
    BY <1>7
  <2> HIDE DEF x
  <2> QED
    BY <1>1, <1>6, <2>1, <2>2
<1>10. holds' \in [Clients -> SUBSET Int]
  <2>1. LockOf(c, k) \in Int
    BY <1>1, <1>6 DEF LockOf
  <2> QED
    BY <1>6, <1>7, <2>1
<1>11. inbox' \in [Clients -> Seq(ResultMail)]
  BY <1>3 DEF ClientReturn, IInv, TypeOK
<1>12. call' \in [Clients -> CallSet \cup {NoCall}]
  BY DEF ClientReturn, IInv, TypeOK
<1>13. srv' = srv /\ mail' = mail /\ made' = made
  BY DEF ClientReturn
<1> QED
  BY <1>8, <1>9, <1>10, <1>11, <1>12, <1>13 DEF IInv, TypeOK

\* Every step preserves the inductive invariant.
LEMMA NextIInv == IInv /\ [Next]_vars => IInv'
<1> SUFFICES ASSUME IInv, [Next]_vars PROVE IInv'
  OBVIOUS
<1>1. ASSUME NEW c \in Clients, ClientReturn(c) PROVE IInv'
  BY <1>1, ClientReturnIInv
<1>2. ASSUME NEW c \in Clients, NEW k \in Calls, ClientCall(c, k) PROVE IInv'
  BY <1>2, ClientCallIInv
<1>3. ASSUME NEW s \in Servers, ServerStep(s) PROVE IInv'
  BY <1>3, ServerSendIInv, LockStepIInv, CVStepIInv, MVStepIInv DEF ServerStep
<1>4. CASE UNCHANGED vars
  BY <1>4 DEF vars, IInv, TypeOK
<1> QED
  BY <1>1, <1>2, <1>3, <1>4 DEF Next

\* The inductive invariant IInv is an invariant of every behaviour.
THEOREM Invariance == Spec => []IInv
BY InitIInv, NextIInv, PTL DEF Spec
-------------------------------------------------------------------------------
(***************************************************************************)
(* What the invariant gives.                                               *)
(***************************************************************************)

\* TypeOK always holds: in particular no server is ever sent a negative id.
THEOREM TypeCorrect == Spec => []TypeOK
<1>1. IInv => TypeOK
  BY DEF IInv
<1> QED
  BY <1>1, Invariance, PTL

\* The bitmap of every table of every server marks exactly the entries in use,
\* and the ASSERT(FALSE) of the create functions is unreachable, whatever the
\* size of the tables and the number of servers and clients.
THEOREM TablesHaveNoGap == Spec => []NoTableGap
<1>1. IInv => NoTableGap
  <2> SUFFICES ASSUME IInv, NEW s \in Servers, NEW t \in Tables(s)
               PROVE  /\ t.bits = {i \in Index : t.slot[i] # NULL}
                      /\ t.bits \subseteq 0 .. t.size - 1
                      /\ FindBit(t) <= t.size
    BY DEF NoTableGap
  <2>1. t \in GoodTable(GoodLock) \/ t \in GoodTable(GoodCV) \/ t \in GoodTable(GoodMV)
    BY DEF IInv, GoodServer, Tables
  <2>2. FindBit(t) <= t.size
    BY <2>1, FindBitBound
  <2> QED
    BY <2>1, <2>2 DEF GoodTable
<1> QED
  BY <1>1, Invariance, PTL

\* No client is ever left in the queue of a free lock.
THEOREM FreeLocksUnwanted == Spec => []FreeLocksHaveNoWaiters
<1>1. IInv => FreeLocksHaveNoWaiters
  <2> SUFFICES ASSUME IInv, NEW s \in Servers, NEW i \in Used(srv[s].locks),
                      srv[s].locks.slot[i].state = "FREE"
               PROVE  srv[s].locks.slot[i].q = <<>>
    BY DEF FreeLocksHaveNoWaiters
  <2>1. srv[s].locks.slot[i] \in GoodLock
    BY DEF IInv, GoodServer, GoodTable, TableOf, Used
  <2> QED
    BY <2>1 DEF GoodLock
<1> QED
  BY <1>1, Invariance, PTL

\* A condition variable remembers a lock exactly while somebody waits on it.
THEOREM WaitingLockCorrect == Spec => []WaitingLockIffWaiters
<1>1. IInv => WaitingLockIffWaiters
  <2> SUFFICES ASSUME IInv, NEW s \in Servers, NEW i \in Used(srv[s].cvs)
               PROVE  srv[s].cvs.slot[i].waitingLock = -1 <=> srv[s].cvs.slot[i].q = <<>>
    BY DEF WaitingLockIffWaiters
  <2>1. srv[s].cvs.slot[i] \in GoodCV
    BY DEF IInv, GoodServer, GoodTable, TableOf, Used
  <2> QED
    BY <2>1 DEF GoodCV
<1> QED
  BY <1>1, Invariance, PTL
-------------------------------------------------------------------------------
(***************************************************************************)
(* One server.  With it the routing functions never send a request, and    *)
(* every message is the call of a client.                                  *)
(***************************************************************************)
OneServer == \E s : Servers = {s}

\* A set whose elements are all equal has at most one.
LEMMA AtMostOne ==
  ASSUME NEW S, \A x, y \in S : x = y
  PROVE  IsFiniteSet(S) /\ Cardinality(S) <= 1 /\ (S # {} => Cardinality(S) = 1) /\ Cardinality(S) \in Nat
<1>1. CASE S = {}
  BY <1>1, FS_EmptySet
<1>2. CASE S # {}
  <2>1. PICK x : S = {x}
    BY <1>2
  <2>2. IsFiniteSet({x}) /\ Cardinality({x}) = 1
    BY FS_Singleton, Zenon
  <2>3. IsFiniteSet(S) /\ Cardinality(S) = 1
    BY <2>1, <2>2, Zenon
  <2> QED
    BY <2>3
<1> QED
  BY <1>1, <1>2

\* A server that is alone never keeps two objects of one kind and name; nor does any
\* server among several, but two of them may.
THEOREM NamesAreUnique ==
  ASSUME OneServer
  PROVE  Spec => []UniqueNames
<1>1. IInv => UniqueNames
  <2> SUFFICES ASSUME IInv, NEW s \in Servers, NEW t \in Servers, NEW op \in Creates, NEW n \in Names
               PROVE  /\ Cardinality(Named(TableFor(s, op), n)) <= 1
                      /\ s # t => Named(TableFor(s, op), n) = {} \/ Named(TableFor(t, op), n) = {}
    BY DEF UniqueNames
  <2>1. s = t
    BY DEF OneServer
  <2>2. PICK u : u = TableFor(s, op)
    OBVIOUS
  <2>3. u \in GoodTable(GoodLock) \/ u \in GoodTable(GoodCV) \/ u \in GoodTable(GoodMV)
    BY <2>2 DEF IInv, GoodServer, TableFor, Creates
  <2>4. \A i, j \in Named(u, n) : i = j
    BY <2>3 DEF Named, Used, GoodTable
  <2>5. Cardinality(Named(u, n)) <= 1
    BY <2>4, AtMostOne
  <2> QED
    BY <2>1, <2>2, <2>5
<1> QED
  BY <1>1, Invariance, PTL
-------------------------------------------------------------------------------
(***************************************************************************)
(* What a lone server keeps that matters to the clients in a call: the     *)
(* owners of the locks, the queues, the clients that results are sent to,  *)
(* those of them that may read a success, and the client that broadcasts.  *)
(***************************************************************************)
\* The server, and the entry of its tables that an id is about.
Sole == CHOOSE s \in Servers : TRUE
IndexOf(id) == IF id \div TableSize = Sole THEN id % TableSize ELSE -1

\* The client that has a lock.
Owner(st, i) ==
  IF st.locks.slot[i] # NULL /\ st.locks.slot[i].state = "BUSY"
  THEN st.locks.slot[i].owner ELSE NoClient
\* The queues, and the lock of the waiters of a condition variable.
LockQ(st, i) == IF st.locks.slot[i] # NULL THEN st.locks.slot[i].q ELSE <<>>
CVQ(st, i) == IF st.cvs.slot[i] # NULL THEN st.cvs.slot[i].q ELSE <<>>
Waiting(st, i) == IF st.cvs.slot[i] # NULL THEN st.cvs.slot[i].waitingLock ELSE -1
\* The clients results go to, and those that may read a success in theirs.
OutTo(st) == [j \in DOMAIN st.out |-> st.out[j].msg.client]
MaySucceed(oks) == oks # {FALSE}
Sure(st) == {st.out[j].msg.client : j \in {j \in DOMAIN st.out : MaySucceed(st.out[j].msg.ok)}}
\* The client that is in Broadcast.
Caller(st) == IF st.loop.type = "Broadcast" THEN st.loop.client ELSE NoClient

\* A lone server sends results only, and has no loop of creations.
Alone(st) ==
  /\ \A j \in DOMAIN st.out : st.out[j].to = {} /\ st.out[j].msg.kind = "result"
  /\ st.loop.type \notin Creates
-------------------------------------------------------------------------------
(***************************************************************************)
(* Where the call of a client is: with the client, on its way, in the      *)
(* handler, in a queue, in a broadcast, or a result on its way.            *)
(***************************************************************************)
Idle == <<"idle", 0>>
Mailed == <<"mail", 0>>
Hand == <<"hand", 0>>
InLoop == <<"loop", 0>>
Out == <<"out", 0>>
Inbox == <<"inbox", 0>>
AtLock(i) == <<"lock", i>>
AtCV(i) == <<"cv", i>>

\* The places that are not the server's, and all of them.
Outer == {Idle, Mailed, Inbox}
Place == Outer \cup {Hand, InLoop, Out} \cup {AtLock(i) : i \in Index} \cup {AtCV(i) : i \in Index}

\* The clients at place p are those in the queue, each once.
Queue(q, W, p) ==
  /\ \A j, k \in DOMAIN q : q[j] = q[k] => j = k
  /\ \A c \in Clients : W[c] = p <=> \E j \in DOMAIN q : q[j] = c

\* The calls the server has are where W says, and no owner queues for its lock.
Located(st, W) ==
  /\ W \in [Clients -> Place]
  /\ Queue(OutTo(st), W, Out)
  /\ \A i \in Index : Queue(LockQ(st, i), W, AtLock(i))
  /\ \A i \in Index : Queue(CVQ(st, i), W, AtCV(i))
  /\ \A c \in Clients : W[c] = InLoop <=> Caller(st) = c
  /\ \A c \in Sure(st) : W[c] = Out
  /\ \A i \in Index : \A c \in Clients : Owner(st, i) = c => W[c] # AtLock(i)

\* c has the lock with this id.
Owns(st, c, id) == IndexOf(id) \in Index /\ Owner(st, IndexOf(id)) = c

\* c owns the locks in told[c], queues for the locks in want[c], and owns them before
\* it may read a success.
Held(st, W, want, told) ==
  /\ \A c \in Clients : \A id \in told[c] : Owns(st, c, id)
  /\ \A c \in Clients : \A i \in Index : W[c] = AtLock(i) => \A id \in want[c] : IndexOf(id) = i
  /\ \A c \in Clients : \A i \in Index : W[c] = AtCV(i) => \A id \in want[c] : Waiting(st, i) = id
  /\ \A c \in Clients : W[c] = InLoop => want[c] = {}
  /\ \A c \in Sure(st) : \A id \in want[c] : Owns(st, c, id)

\* All of it, about one state of the server.
Fits(st, W, want, told) == Alone(st) /\ Located(st, W) /\ Held(st, W, want, told)
-------------------------------------------------------------------------------
(***************************************************************************)
(* The invariants.                                                         *)
(***************************************************************************)
\* The mailbox of the server, and the messages that await a result.
Mail == mail[Sole]
TwoWay(m) == m.type \notin OneWay

\* The calls on their way to the server, in its mailbox q, are where W says: a call that
\* awaits a result is the last message of its client, and a client whose call the server
\* has read has no other.
MailAt(q, W) ==
  /\ \A c \in Clients : W[c] = Mailed <=> \E j \in DOMAIN q : TwoWay(q[j]) /\ q[j].client = c
  /\ \A j \in DOMAIN q : q[j].kind = "call" /\ W[q[j].client] \in {Idle, Mailed}
  /\ \A j, k \in DOMAIN q : TwoWay(q[j]) /\ q[k].client = q[j].client => k <= j

\* The calls that are not inside the server are where W says.
Outside(W) ==
  /\ \A c \in Clients : W[c] # Hand
  /\ \A c \in Clients : W[c] = Idle <=> call[c] = NoCall
  /\ \A c \in Clients : W[c] = Inbox <=> inbox[c] # <<>>
  /\ \A c \in Clients : Len(inbox[c]) <= 1
  /\ MailAt(Mail, W)

\* The lock that the call of c is to have when it succeeds, and the locks that c has
\* been told it has; none of either when b is FALSE.
Wants(b, c) ==
  IF b /\ call[c] # NoCall /\ call[c].op \in {"Acquire", "Wait"} THEN {LockOf(c, call[c])} ELSE {}
Told(b, c) ==
  IF b THEN holds[c] \cup (IF \E j \in DOMAIN inbox[c] : MaySucceed(inbox[c][j].ok) THEN Wants(b, c) ELSE {})
  ELSE {}
\* The same for all clients.
Want(b) == [c \in Clients |-> Wants(b, c)]
Have(b) == [c \in Clients |-> Told(b, c)]

\* The lock a message asks for.
Asked(m) ==
  CASE m.type = "Acquire" -> {m.arg.obj}
    [] m.type = "Wait" -> {m.arg.lock}
    [] OTHER -> {}

\* What a message gives up is not held, and it asks for the lock its client goes by.
MailFits(m, want, told) ==
  /\ m.type = "Release" => m.arg.obj \notin told[m.client]
  /\ m.type = "Wait" => m.arg.lock \notin told[m.client]
  /\ TwoWay(m) => want[m.client] \subseteq Asked(m)

\* W is where the calls are.
Placed(b, W) ==
  /\ Fits(srv[Sole], W, Want(b), Have(b))
  /\ Outside(W)
  /\ \A j \in DOMAIN Mail : MailFits(Mail[j], Want(b), Have(b))

\* A Broadcast under way names the lock that its waiters passed, as Signal checks and
\* Broadcast does not.
BroadcastsMatch ==
  \A s \in Servers :
    LET loop == srv[s].loop
    IN  loop.type = "Broadcast" => srv[s].cvs.slot[loop.cv].waitingLock \in {-1, loop.lock}

\* The invariants: without the locks, and with them.
AnsweredOnce == \E W \in [Clients -> Place] : Placed(FALSE, W)
Excluded == \E W \in [Clients -> Place] : Placed(TRUE, W)
-------------------------------------------------------------------------------
(***************************************************************************)
(* Places and queues.                                                      *)
(***************************************************************************)

\* The places are different, those of two locks or of two condition variables too.
LEMMA PlacesDiffer ==
  /\ Idle # Mailed /\ Idle # Hand /\ Idle # InLoop /\ Idle # Out /\ Idle # Inbox
  /\ Mailed # Hand /\ Mailed # InLoop /\ Mailed # Out /\ Mailed # Inbox
  /\ Hand # InLoop /\ Hand # Out /\ Hand # Inbox
  /\ InLoop # Out /\ InLoop # Inbox /\ Out # Inbox
  /\ \A i : /\ AtLock(i) \notin {Idle, Mailed, Hand, InLoop, Out, Inbox}
            /\ AtCV(i) \notin {Idle, Mailed, Hand, InLoop, Out, Inbox}
  /\ \A i, j : /\ AtLock(i) # AtCV(j)
               /\ AtLock(i) = AtLock(j) => i = j
               /\ AtCV(i) = AtCV(j) => i = j
BY DEF Idle, Mailed, Hand, InLoop, Out, Inbox, AtLock, AtCV

\* Every place is one.
LEMMA PlaceMembers ==
  /\ {Idle, Mailed, Hand, InLoop, Out, Inbox} \subseteq Place
  /\ \A i \in Index : AtLock(i) \in Place /\ AtCV(i) \in Place
BY DEF Place, Outer

\* The places outside the server are not inside it.
LEMMA OuterPlaces ==
  /\ Hand \notin Outer /\ InLoop \notin Outer /\ Out \notin Outer
  /\ \A i : AtLock(i) \notin Outer /\ AtCV(i) \notin Outer
  /\ Outer = {Idle, Mailed, Inbox}
BY PlacesDiffer DEF Outer

\* q2 is q with c in one more position.
Joined(q2, q, c) ==
  \E n : /\ n \notin DOMAIN q /\ DOMAIN q2 = DOMAIN q \cup {n}
         /\ q2[n] = c /\ \A j \in DOMAIN q : q2[j] = q[j]

\* Appending is that.
LEMMA AppendJoins ==
  ASSUME NEW S, NEW q \in Seq(S), NEW c \in S
  PROVE  Joined(Append(q, c), q, c)
<1> DEFINE q2 == Append(q, c)
           n == Len(q) + 1
<1>1. n \notin DOMAIN q /\ q2[n] = c /\ DOMAIN q2 = DOMAIN q \cup {n} /\ \A j \in DOMAIN q : q2[j] = q[j]
  OBVIOUS
<1> HIDE DEF q2, n
<1>2. Joined(q2, q, c)
  BY <1>1 DEF Joined
<1> QED
  BY <1>2 DEF q2

\* A client that joins a queue is at its place.
LEMMA QueueAppend ==
  ASSUME NEW q, NEW W \in [Clients -> Place], NEW p \in Place, Queue(q, W, p),
         NEW c \in Clients, W[c] # p, NEW q2, Joined(q2, q, c)
  PROVE  Queue(q2, [W EXCEPT ![c] = p], p)
<1>0. PICK n : /\ n \notin DOMAIN q /\ DOMAIN q2 = DOMAIN q \cup {n}
               /\ q2[n] = c /\ \A j \in DOMAIN q : q2[j] = q[j]
  BY DEF Joined
<1> DEFINE W2 == [W EXCEPT ![c] = p]
<1>1. \A d \in Clients : W2[d] = IF d = c THEN p ELSE W[d]
  OBVIOUS
<1> HIDE DEF W2
<1>2. \A j \in DOMAIN q : q[j] # c
  BY DEF Queue
<1>3. \A j, k \in DOMAIN q2 : q2[j] = q2[k] => j = k
  BY <1>0, <1>2 DEF Queue
<1>4. ASSUME NEW d \in Clients PROVE W2[d] = p <=> \E j \in DOMAIN q2 : q2[j] = d
  BY <1>0, <1>1, <1>2 DEF Queue
<1> QED
  BY <1>3, <1>4 DEF Queue, W2

\* q2 is q without its first element.
Rest(q2, q) ==
  \E n \in Nat \ {0} :
    DOMAIN q = 1 .. n /\ DOMAIN q2 = 1 .. n - 1 /\ \A j \in 1 .. n - 1 : q2[j] = q[j + 1]

\* The client that leaves the front of a queue was at its place, and no longer is.
LEMMA QueueTail ==
  ASSUME NEW q, NEW W \in [Clients -> Place], NEW p \in Place, Queue(q, W, p),
         q[1] \in Clients, NEW p2 \in Place, p2 # p, NEW q2, Rest(q2, q)
  PROVE  W[q[1]] = p /\ Queue(q2, [W EXCEPT ![q[1]] = p2], p)
<1>0. PICK n \in Nat \ {0} :
        DOMAIN q = 1 .. n /\ DOMAIN q2 = 1 .. n - 1 /\ \A j \in 1 .. n - 1 : q2[j] = q[j + 1]
  BY DEF Rest
<1> DEFINE W2 == [W EXCEPT ![q[1]] = p2]
<1>1. \A d \in Clients : W2[d] = IF d = q[1] THEN p2 ELSE W[d]
  OBVIOUS
<1> HIDE DEF W2
<1>2. W[q[1]] = p
  BY <1>0 DEF Queue
<1>3. ASSUME NEW j \in DOMAIN q2, NEW k \in DOMAIN q2, q2[j] = q2[k] PROVE j = k
  <2>1. j + 1 \in DOMAIN q /\ k + 1 \in DOMAIN q /\ q[j + 1] = q[k + 1]
    BY <1>0, <1>3
  <2> QED
    BY <1>0, <2>1 DEF Queue
<1>4. ASSUME NEW d \in Clients PROVE W2[d] = p <=> \E j \in DOMAIN q2 : q2[j] = d
  <2>1. CASE d = q[1]
    <3>1. ~ \E j \in DOMAIN q2 : q2[j] = q[1]
      BY <1>0 DEF Queue
    <3> QED
      BY <1>1, <2>1, <3>1
  <2>2. CASE d # q[1]
    <3>1. ASSUME NEW j \in 1 .. n, q[j] = d PROVE \E k \in 1 .. n - 1 : q2[k] = d
      <4>1. j - 1 \in 1 .. n - 1 /\ q2[j - 1] = d
        BY <1>0, <2>2, <3>1
      <4> QED
        BY <4>1
    <3>2. ASSUME NEW j \in 1 .. n - 1, q2[j] = d PROVE \E k \in 1 .. n : q[k] = d
      BY <1>0, <3>2
    <3>3. W2[d] = W[d] /\ (W[d] = p <=> \E j \in 1 .. n : q[j] = d)
      BY <1>0, <1>1, <2>2 DEF Queue
    <3> QED
      BY <1>0, <3>1, <3>2, <3>3
  <2> QED
    BY <2>1, <2>2
<1> QED
  BY <1>2, <1>3, <1>4 DEF Queue, W2

\* The same for a queue that is a sequence.
LEMMA QueueSeqTail ==
  ASSUME NEW q \in Seq(Clients), q # <<>>, NEW W \in [Clients -> Place], NEW p \in Place,
         Queue(q, W, p), NEW p2 \in Place, p2 # p
  PROVE  /\ Head(q) \in Clients /\ W[Head(q)] = p
         /\ Queue(Tail(q), [W EXCEPT ![Head(q)] = p2], p)
<1> DEFINE q2 == Tail(q)
           n == Len(q)
<1>1. n \in Nat \ {0} /\ DOMAIN q = 1 .. n /\ q[1] \in Clients /\ Head(q) = q[1]
  OBVIOUS
<1>2. DOMAIN q2 = 1 .. n - 1 /\ \A j \in 1 .. n - 1 : q2[j] = q[j + 1]
  OBVIOUS
<1> HIDE DEF q2, n
<1>3. Rest(q2, q)
  BY <1>1, <1>2 DEF Rest
<1>4. W[q[1]] = p /\ Queue(q2, [W EXCEPT ![q[1]] = p2], p)
  BY <1>1, <1>3, QueueTail
<1> QED
  BY <1>1, <1>4 DEF q2

\* A client that moves between other places leaves a queue as it is.
LEMMA QueueOther ==
  ASSUME NEW q, NEW W \in [Clients -> Place], NEW p \in Place, Queue(q, W, p),
         NEW c \in Clients, W[c] # p, NEW p2 \in Place, p2 # p
  PROVE  Queue(q, [W EXCEPT ![c] = p2], p)
BY DEF Queue

\* The same for the queues of all locks and all condition variables that it is not in.
LEMMA QueuesOther ==
  ASSUME NEW st, NEW W, Located(st, W), NEW c \in Clients, NEW p \in Place
  PROVE  /\ W[c] # Out /\ p # Out => Queue(OutTo(st), [W EXCEPT ![c] = p], Out)
         /\ \A i \in Index : W[c] # AtLock(i) /\ p # AtLock(i)
               => Queue(LockQ(st, i), [W EXCEPT ![c] = p], AtLock(i))
         /\ \A i \in Index : W[c] # AtCV(i) /\ p # AtCV(i)
               => Queue(CVQ(st, i), [W EXCEPT ![c] = p], AtCV(i))
BY QueueOther, PlaceMembers DEF Located
-------------------------------------------------------------------------------
(***************************************************************************)
(* Moves.  Every step of a handler moves one client from one place to      *)
(* another, or a lock to another owner.                                    *)
(***************************************************************************)
SameLocks(st, st2) ==
  \A i \in Index : Owner(st2, i) = Owner(st, i) /\ LockQ(st2, i) = LockQ(st, i)
SameCVs(st, st2) ==
  \A i \in Index : CVQ(st2, i) = CVQ(st, i) /\ Waiting(st2, i) = Waiting(st, i)
SameOut(st, st2) ==
  /\ OutTo(st2) = OutTo(st) /\ Sure(st2) = Sure(st)
  /\ Alone(st) => Alone(st2)
SameLoop(st, st2) == Caller(st2) = Caller(st)

\* What is in the queues and the fields is of its type.
Seen(st) ==
  /\ \A i \in Index : /\ Owner(st, i) \in Clients \cup {NoClient}
                      /\ LockQ(st, i) \in Seq(Clients)
                      /\ CVQ(st, i) \in Seq(Clients)
                      /\ Waiting(st, i) \in Int
                      /\ Waiting(st, i) = -1 <=> CVQ(st, i) = <<>>
  /\ Sure(st) \subseteq Clients
  /\ Caller(st) \in Clients \cup {NoClient}

\* A good server is seen so.
LEMMA GoodSeen ==
  ASSUME NEW st \in GoodServer
  PROVE  Seen(st)
<1>1. st.locks.slot \in [Index -> GoodLock \cup {NULL}] /\ st.cvs.slot \in [Index -> GoodCV \cup {NULL}]
  BY DEF GoodServer, GoodTable, TableOf
<1>2. st.out \in Seq(OutMail) /\ st.loop \in Loop
  BY DEF GoodServer
<1>3. ASSUME NEW i \in Index
      PROVE  /\ Owner(st, i) \in Clients \cup {NoClient}
             /\ LockQ(st, i) \in Seq(Clients)
             /\ CVQ(st, i) \in Seq(Clients)
             /\ Waiting(st, i) \in Int
             /\ Waiting(st, i) = -1 <=> CVQ(st, i) = <<>>
  BY <1>1 DEF Owner, LockQ, CVQ, Waiting, GoodLock, GoodCV, ServerLock, ServerCV
<1>4. ASSUME NEW j \in DOMAIN st.out PROVE st.out[j].msg.client \in Clients
  <2>1. st.out[j] \in OutMail
    BY <1>2
  <2> QED
    BY <2>1 DEF OutMail, ServerMail, CallMail, RequestMail, ReplyMail, ResultMail, Typed
<1>5. Sure(st) \subseteq Clients
  BY <1>4 DEF Sure
<1>6. Caller(st) \in Clients \cup {NoClient}
  BY <1>2 DEF Caller, Loop, NoLoop, Creates
<1> QED
  BY <1>3, <1>5, <1>6 DEF Seen

\* A result is sent: its client moves to the results on their way.
LEMMA MoveOut ==
  ASSUME NEW st, NEW st2, NEW W, NEW want, NEW told, Fits(st, W, want, told), Seen(st), Seen(st2),
         NEW c \in Clients, W[c] = Hand, SameLocks(st, st2), SameCVs(st, st2), SameLoop(st, st2),
         Alone(st2), Joined(OutTo(st2), OutTo(st), c),
         \A d \in Sure(st2) : d \in Sure(st) \/ (d = c /\ \A id \in want[c] : Owns(st, c, id))
  PROVE  Fits(st2, [W EXCEPT ![c] = Out], want, told)
<1> DEFINE W2 == [W EXCEPT ![c] = Out]
<1>1. W \in [Clients -> Place] /\ Queue(OutTo(st), W, Out)
  BY DEF Fits, Located
<1>2. W2 \in [Clients -> Place] /\ \A d \in Clients : W2[d] = IF d = c THEN Out ELSE W[d]
  BY <1>1, PlaceMembers
<1>3. Queue(OutTo(st2), W2, Out)
  BY <1>1, PlacesDiffer, PlaceMembers, QueueAppend
<1>4. \A i \in Index : Queue(LockQ(st2, i), W2, AtLock(i)) /\ Queue(CVQ(st2, i), W2, AtCV(i))
  BY QueuesOther, PlacesDiffer, PlaceMembers DEF Fits, SameLocks, SameCVs
<1> HIDE DEF W2
<1>5. Located(st2, W2)
  <2>1. \A d \in Sure(st2) : W2[d] = Out
    BY <1>2 DEF Fits, Located, Seen
  <2>2. \A d \in Clients : W2[d] = InLoop <=> Caller(st2) = d
    BY <1>2, PlacesDiffer DEF Fits, Located, SameLoop
  <2>3. \A j \in Index : \A d \in Clients : Owner(st2, j) = d => W2[d] # AtLock(j)
    BY <1>2, PlacesDiffer DEF Fits, Located, SameLocks
  <2> QED
    BY <1>2, <1>3, <1>4, <2>1, <2>2, <2>3 DEF Located
<1>6. \A d, id : Owns(st2, d, id) <=> Owns(st, d, id)
  BY DEF Owns, SameLocks
<1>7. Held(st2, W2, want, told)
  BY <1>2, <1>6, PlacesDiffer DEF Fits, Held, SameLocks, SameCVs, Located, Seen
<1> QED
  BY <1>5, <1>7 DEF Fits, W2

\* A client joins the queue of the lock it wants, which it does not own.
LEMMA MoveToLock ==
  ASSUME NEW st, NEW st2, NEW W, NEW want, NEW told, Fits(st, W, want, told), Seen(st), Seen(st2),
         NEW c \in Clients, W[c] = Hand, NEW i \in Index, SameCVs(st, st2), SameLoop(st, st2),
         SameOut(st, st2), \A j \in Index : Owner(st2, j) = Owner(st, j),
         \A j \in Index \ {i} : LockQ(st2, j) = LockQ(st, j),
         LockQ(st2, i) = Append(LockQ(st, i), c), Owner(st, i) # c,
         \A id \in want[c] : IndexOf(id) = i
  PROVE  Fits(st2, [W EXCEPT ![c] = AtLock(i)], want, told)
<1> DEFINE W2 == [W EXCEPT ![c] = AtLock(i)]
           q == LockQ(st, i)
<1>1. W \in [Clients -> Place] /\ Queue(q, W, AtLock(i)) /\ q \in Seq(Clients)
  BY DEF Fits, Located, Seen
<1>2. W2 \in [Clients -> Place] /\ \A d \in Clients : W2[d] = IF d = c THEN AtLock(i) ELSE W[d]
  BY <1>1, PlaceMembers
<1>3. Queue(LockQ(st2, i), W2, AtLock(i))
  BY <1>1, PlacesDiffer, PlaceMembers, AppendJoins, QueueAppend
<1>4. /\ \A j \in Index \ {i} : Queue(LockQ(st2, j), W2, AtLock(j))
      /\ \A j \in Index : Queue(CVQ(st2, j), W2, AtCV(j))
      /\ Queue(OutTo(st2), W2, Out)
  BY QueuesOther, PlacesDiffer, PlaceMembers DEF Fits, SameCVs, SameOut
<1> HIDE DEF W2, q
<1>5. Located(st2, W2)
  BY <1>2, <1>3, <1>4, PlacesDiffer DEF Fits, Located, SameLoop, SameOut, Seen
<1>6. \A d, id : Owns(st2, d, id) <=> Owns(st, d, id)
  BY DEF Owns
<1>7. Held(st2, W2, want, told)
  BY <1>2, <1>6, PlacesDiffer DEF Fits, Held, SameCVs, SameOut, Located
<1> QED
  BY <1>5, <1>7 DEF Fits, W2, SameOut

\* A lock is taken from nobody, or given up by its owner, which has not been told that
\* it has the lock and is not about to be.
LEMMA MoveOwner ==
  ASSUME NEW st, NEW st2, NEW W, NEW want, NEW told, Fits(st, W, want, told), Seen(st), Seen(st2),
         NEW i \in Index, SameCVs(st, st2), SameLoop(st, st2),
         SameOut(st, st2), \A j \in Index \ {i} : Owner(st2, j) = Owner(st, j),
         \A j \in Index : LockQ(st2, j) = LockQ(st, j),
         \/ Owner(st, i) = NoClient
         \/ /\ Owner(st, i) \notin Sure(st)
            /\ \A id \in told[Owner(st, i)] : IndexOf(id) # i,
         Owner(st2, i) = NoClient \/ W[Owner(st2, i)] # AtLock(i)
  PROVE  Fits(st2, W, want, told)
<1>1. Located(st2, W)
  BY NoClientAssumption DEF Fits, Located, SameCVs, SameLoop, SameOut
<1>2. ASSUME NEW d \in Clients, NEW id, Owns(st, d, id), id \in told[d] \/ d \in Sure(st)
      PROVE  Owns(st2, d, id)
  BY <1>2, NoClientAssumption DEF Owns
<1>3. Held(st2, W, want, told)
  BY <1>2 DEF Fits, Held, SameCVs, SameOut, Seen
<1> QED
  BY <1>1, <1>3 DEF Fits, SameOut

\* The first in the queue of a lock becomes its owner, and its call is in hand; it has
\* the lock it wants.
LEMMA MoveFromLock ==
  ASSUME NEW st, NEW st2, NEW W, NEW want, NEW told, Fits(st, W, want, told), Seen(st), Seen(st2),
         NEW i \in Index, LockQ(st, i) # <<>>, SameCVs(st, st2), SameLoop(st, st2),
         SameOut(st, st2), \A j \in Index \ {i} : Owner(st2, j) = Owner(st, j),
         \A j \in Index \ {i} : LockQ(st2, j) = LockQ(st, j),
         NEW c, c = Head(LockQ(st, i)), Owner(st2, i) = c, LockQ(st2, i) = Tail(LockQ(st, i)),
         Owner(st, i) \notin Sure(st), \A id \in told[Owner(st, i)] : IndexOf(id) # i
  PROVE  /\ c \in Clients /\ W[c] = AtLock(i)
         /\ Fits(st2, [W EXCEPT ![c] = Hand], want, told)
         /\ \A id \in want[c] : Owns(st2, c, id)
<1> DEFINE q == LockQ(st, i)
           W2 == [W EXCEPT ![c] = Hand]
<1>1. W \in [Clients -> Place] /\ Queue(q, W, AtLock(i)) /\ q \in Seq(Clients) /\ q # <<>> /\ c = Head(q)
  BY DEF Fits, Located, Seen
<1> DEFINE q2 == Tail(q)
           n == Len(q)
<1> HIDE DEF q2
<1>2. n \in Nat \ {0} /\ DOMAIN q = 1 .. n /\ DOMAIN q2 = 1 .. n - 1 /\ c \in Clients
  BY <1>1 DEF q2
<1>3. W[c] = AtLock(i) /\ Queue(q2, W2, AtLock(i))
  <2>1. Hand \in Place /\ AtLock(i) \in Place /\ Hand # AtLock(i)
    BY PlacesDiffer, PlaceMembers
  <2> HIDE DEF q
  <2>2. W[Head(q)] = AtLock(i) /\ Queue(Tail(q), [W EXCEPT ![Head(q)] = Hand], AtLock(i))
    BY ONLY <1>1, <2>1, QueueSeqTail
  <2> QED
    BY <1>1, <2>2 DEF q2
<1> HIDE DEF n
<1>4. W2 \in [Clients -> Place] /\ \A d \in Clients : W2[d] = IF d = c THEN Hand ELSE W[d]
  BY <1>1, <1>2, PlaceMembers
<1>5. /\ \A j \in Index \ {i} : Queue(LockQ(st2, j), W2, AtLock(j))
      /\ \A j \in Index : Queue(CVQ(st2, j), W2, AtCV(j))
      /\ Queue(OutTo(st2), W2, Out)
  BY <1>2, <1>3, QueuesOther, PlacesDiffer, PlaceMembers DEF Fits, SameCVs, SameOut
<1> HIDE DEF W2, q
<1>6. \A d \in Clients : (d \in Sure(st2) => W2[d] = Out) /\ (W2[d] = InLoop <=> Caller(st2) = d)
  BY <1>3, <1>4, PlacesDiffer DEF Fits, Located, SameOut, SameLoop
<1>7. \A j \in Index : \A d \in Clients : Owner(st2, j) = d => W2[d] # AtLock(j)
  BY <1>3, <1>4, PlacesDiffer DEF Fits, Located
<1>8. Located(st2, W2)
  BY <1>3, <1>4, <1>5, <1>6, <1>7 DEF Located, Seen, q2, q
<1>9. ASSUME NEW d \in Clients, NEW id, Owns(st, d, id), id \in told[d] \/ d \in Sure(st)
      PROVE  Owns(st2, d, id)
  BY <1>9 DEF Owns
<1>10. \A id \in want[c] : Owns(st2, c, id)
  BY <1>2, <1>3 DEF Fits, Held, Owns
<1>11. Held(st2, W2, want, told)
  BY <1>4, <1>9, PlacesDiffer DEF Fits, Held, SameCVs, SameOut, Seen
<1> QED
  BY <1>2, <1>3, <1>8, <1>10, <1>11 DEF Fits, W2, q, SameOut

\* A client joins the queue of a condition variable with the lock it wants, the lock
\* of those that wait there.
LEMMA MoveToCV ==
  ASSUME NEW st, NEW st2, NEW W, NEW want, NEW told, Fits(st, W, want, told), Seen(st), Seen(st2),
         NEW c \in Clients, W[c] = Hand, NEW i \in Index, NEW lk, SameLocks(st, st2),
         SameLoop(st, st2), SameOut(st, st2), \A j \in Index \ {i} : CVQ(st2, j) = CVQ(st, j),
         \A j \in Index \ {i} : Waiting(st2, j) = Waiting(st, j),
         CVQ(st2, i) = Append(CVQ(st, i), c), Waiting(st2, i) = lk, Waiting(st, i) \in {-1, lk},
         want[c] \subseteq {lk}
  PROVE  Fits(st2, [W EXCEPT ![c] = AtCV(i)], want, told)
<1> DEFINE W2 == [W EXCEPT ![c] = AtCV(i)]
           q == CVQ(st, i)
<1>1. W \in [Clients -> Place] /\ Queue(q, W, AtCV(i)) /\ q \in Seq(Clients)
  BY DEF Fits, Located, Seen
<1>2. W2 \in [Clients -> Place] /\ \A d \in Clients : W2[d] = IF d = c THEN AtCV(i) ELSE W[d]
  BY <1>1, PlaceMembers
<1>3. Queue(CVQ(st2, i), W2, AtCV(i))
  BY <1>1, PlacesDiffer, PlaceMembers, AppendJoins, QueueAppend
<1>4. /\ \A j \in Index : Queue(LockQ(st2, j), W2, AtLock(j))
      /\ \A j \in Index \ {i} : Queue(CVQ(st2, j), W2, AtCV(j))
      /\ Queue(OutTo(st2), W2, Out)
  BY QueuesOther, PlacesDiffer, PlaceMembers DEF Fits, SameLocks, SameOut
<1> HIDE DEF W2, q
<1>5. Located(st2, W2)
  <2>1. \A d \in Clients : (d \in Sure(st2) => W2[d] = Out) /\ (W2[d] = InLoop <=> Caller(st2) = d)
    BY <1>2, PlacesDiffer DEF Fits, Located, SameOut, SameLoop
  <2>2. \A j \in Index : \A d \in Clients : Owner(st2, j) = d => W2[d] # AtLock(j)
    BY <1>2, PlacesDiffer DEF Fits, Located, SameLocks
  <2> QED
    BY <1>2, <1>3, <1>4, <2>1, <2>2 DEF Located, Seen
<1>6. \A d, id : Owns(st2, d, id) <=> Owns(st, d, id)
  BY DEF Owns, SameLocks
<1>7. ASSUME NEW d \in Clients, NEW j \in Index, W2[d] = AtCV(j), NEW id \in want[d]
      PROVE  Waiting(st2, j) = id
  <2>1. CASE d = c
    BY <1>2, <1>7, <2>1, PlacesDiffer
  <2>2. CASE d # c /\ j # i
    BY <1>2, <1>7, <2>2 DEF Fits, Held
  <2>3. CASE d # c /\ j = i
    <3>1. W[d] = AtCV(i) /\ Waiting(st, i) = id
      BY <1>2, <1>7, <2>3 DEF Fits, Held
    <3>2. CVQ(st, i) # <<>>
      BY <3>1 DEF Fits, Located, Queue
    <3> QED
      BY <2>3, <3>1, <3>2 DEF Seen
  <2> QED
    BY <2>1, <2>2, <2>3
<1>8. Held(st2, W2, want, told)
  BY <1>2, <1>6, <1>7, PlacesDiffer DEF Fits, Held, SameOut, Located
<1> QED
  BY <1>5, <1>8 DEF Fits, W2, SameOut

\* The first in the queue of a condition variable is woken: its call is in hand.
LEMMA MoveFromCV ==
  ASSUME NEW st, NEW st2, NEW W, NEW want, NEW told, Fits(st, W, want, told), Seen(st), Seen(st2),
         NEW i \in Index, CVQ(st, i) # <<>>, SameLocks(st, st2), SameLoop(st, st2),
         SameOut(st, st2), \A j \in Index \ {i} : CVQ(st2, j) = CVQ(st, j),
         \A j \in Index \ {i} : Waiting(st2, j) = Waiting(st, j),
         NEW c, c = Head(CVQ(st, i)), CVQ(st2, i) = Tail(CVQ(st, i)),
         Waiting(st2, i) = IF Len(CVQ(st, i)) = 1 THEN -1 ELSE Waiting(st, i)
  PROVE  /\ c \in Clients /\ W[c] = AtCV(i)
         /\ Fits(st2, [W EXCEPT ![c] = Hand], want, told)
         /\ want[c] \subseteq {Waiting(st, i)}
<1> DEFINE q == CVQ(st, i)
           W2 == [W EXCEPT ![c] = Hand]
<1>1. W \in [Clients -> Place] /\ Queue(q, W, AtCV(i)) /\ q \in Seq(Clients) /\ q # <<>> /\ c = Head(q)
  BY DEF Fits, Located, Seen
<1> DEFINE q2 == Tail(q)
           n == Len(q)
<1> HIDE DEF q2
<1>2. n \in Nat \ {0} /\ DOMAIN q = 1 .. n /\ DOMAIN q2 = 1 .. n - 1 /\ c \in Clients
  BY <1>1 DEF q2
<1> HIDE DEF n, q
<1>3. W[c] = AtCV(i) /\ Queue(q2, W2, AtCV(i))
  <2>1. Hand \in Place /\ AtCV(i) \in Place /\ Hand # AtCV(i)
    BY PlacesDiffer, PlaceMembers
  <2>2. W[Head(q)] = AtCV(i) /\ Queue(Tail(q), [W EXCEPT ![Head(q)] = Hand], AtCV(i))
    BY ONLY <1>1, <2>1, QueueSeqTail
  <2> QED
    BY <1>1, <2>2 DEF q2
<1>4. W2 \in [Clients -> Place] /\ \A d \in Clients : W2[d] = IF d = c THEN Hand ELSE W[d]
  BY <1>1, <1>2, PlaceMembers
<1>5. /\ \A j \in Index : Queue(LockQ(st2, j), W2, AtLock(j))
      /\ \A j \in Index \ {i} : Queue(CVQ(st2, j), W2, AtCV(j))
      /\ Queue(OutTo(st2), W2, Out)
  BY <1>2, <1>3, QueuesOther, PlacesDiffer, PlaceMembers DEF Fits, SameLocks, SameOut
<1> HIDE DEF W2, q
<1>6. \A d \in Clients : (d \in Sure(st2) => W2[d] = Out) /\ (W2[d] = InLoop <=> Caller(st2) = d)
  BY <1>3, <1>4, PlacesDiffer DEF Fits, Located, SameOut, SameLoop
<1>7. \A j \in Index : \A d \in Clients : Owner(st2, j) = d => W2[d] # AtLock(j)
  BY <1>4, PlacesDiffer DEF Fits, Located, SameLocks
<1>8. Located(st2, W2)
  BY <1>3, <1>4, <1>5, <1>6, <1>7 DEF Located, Seen, q2, q
<1>9. \A d, id : Owns(st2, d, id) <=> Owns(st, d, id)
  BY DEF Owns, SameLocks
<1>10. want[c] \subseteq {Waiting(st, i)}
  BY <1>2, <1>3 DEF Fits, Held
<1>11. ASSUME NEW d \in Clients, NEW j \in Index, W2[d] = AtCV(j), NEW id \in want[d]
       PROVE  Waiting(st2, j) = id
  <2>1. W[d] = AtCV(j) /\ Waiting(st, j) = id
    BY <1>4, <1>11, PlacesDiffer DEF Fits, Held
  <2>2. CASE j = i
    <3>1. \E k \in DOMAIN q2 : q2[k] = d
      BY <1>3, <1>11, <2>2 DEF Queue
    <3>2. n # 1
      BY <1>2, <3>1
    <3> QED
      BY <2>1, <2>2, <3>2 DEF n, q
  <2> QED
    BY <2>1, <2>2
<1>12. Held(st2, W2, want, told)
  BY <1>4, <1>9, <1>11, PlacesDiffer DEF Fits, Held, SameOut, Seen
<1> QED
  BY <1>2, <1>3, <1>8, <1>10, <1>12 DEF Fits, W2, q, SameOut

\* A broadcast begins: the call is in the loop; it wants no lock.
LEMMA MoveToLoop ==
  ASSUME NEW st, NEW st2, NEW W, NEW want, NEW told, Fits(st, W, want, told), Seen(st), Seen(st2),
         NEW c \in Clients, W[c] = Hand, SameLocks(st, st2), SameCVs(st, st2), SameOut(st, st2),
         Caller(st) = NoClient, Caller(st2) = c, want[c] = {}
  PROVE  Fits(st2, [W EXCEPT ![c] = InLoop], want, told)
<1> DEFINE W2 == [W EXCEPT ![c] = InLoop]
<1>1. W2 \in [Clients -> Place] /\ \A d \in Clients : W2[d] = IF d = c THEN InLoop ELSE W[d]
  BY PlaceMembers DEF Fits, Located
<1>2. /\ \A j \in Index : Queue(LockQ(st2, j), W2, AtLock(j)) /\ Queue(CVQ(st2, j), W2, AtCV(j))
      /\ Queue(OutTo(st2), W2, Out)
  BY QueuesOther, PlacesDiffer, PlaceMembers DEF Fits, SameLocks, SameCVs, SameOut
<1> HIDE DEF W2
<1>3. \A d \in Clients : (d \in Sure(st2) => W2[d] = Out) /\ (W2[d] = InLoop <=> Caller(st2) = d)
  BY <1>1, PlacesDiffer, NoClientAssumption DEF Fits, Located, SameOut
<1>4. Located(st2, W2)
  BY <1>1, <1>2, <1>3, PlacesDiffer DEF Fits, Located, SameLocks, Seen
<1>5. \A d, id : Owns(st2, d, id) <=> Owns(st, d, id)
  BY DEF Owns, SameLocks
<1>6. Held(st2, W2, want, told)
  BY <1>1, <1>5, PlacesDiffer DEF Fits, Held, SameCVs, SameOut
<1> QED
  BY <1>4, <1>6 DEF Fits, W2, SameOut

\* A broadcast ends: the call is in hand again.
LEMMA MoveFromLoop ==
  ASSUME NEW st, NEW st2, NEW W, NEW want, NEW told, Fits(st, W, want, told), Seen(st), Seen(st2),
         NEW c \in Clients, Caller(st) = c, SameLocks(st, st2), SameCVs(st, st2), SameOut(st, st2),
         Caller(st2) = NoClient
  PROVE  /\ Fits(st2, [W EXCEPT ![c] = Hand], want, told)
         /\ W[c] = InLoop /\ want[c] = {}
<1> DEFINE W2 == [W EXCEPT ![c] = Hand]
<1>1. W2 \in [Clients -> Place] /\ \A d \in Clients : W2[d] = IF d = c THEN Hand ELSE W[d]
  BY PlaceMembers DEF Fits, Located
<1>2. W[c] = InLoop /\ want[c] = {}
  BY DEF Fits, Located, Held
<1>3. /\ \A j \in Index : Queue(LockQ(st2, j), W2, AtLock(j)) /\ Queue(CVQ(st2, j), W2, AtCV(j))
      /\ Queue(OutTo(st2), W2, Out)
  BY <1>2, QueuesOther, PlacesDiffer, PlaceMembers DEF Fits, SameLocks, SameCVs, SameOut
<1> HIDE DEF W2
<1>4. \A d \in Clients : (d \in Sure(st2) => W2[d] = Out) /\ (W2[d] = InLoop <=> Caller(st2) = d)
  BY <1>1, <1>2, PlacesDiffer, NoClientAssumption DEF Fits, Located, SameOut
<1>5. Located(st2, W2)
  BY <1>1, <1>3, <1>4, PlacesDiffer DEF Fits, Located, SameLocks, Seen
<1>6. \A d, id : Owns(st2, d, id) <=> Owns(st, d, id)
  BY DEF Owns, SameLocks
<1>7. Held(st2, W2, want, told)
  BY <1>1, <1>6, PlacesDiffer DEF Fits, Held, SameCVs, SameOut
<1> QED
  BY <1>2, <1>5, <1>7 DEF Fits, W2, SameOut

\* Nothing that is seen changes.
LEMMA MoveNone ==
  ASSUME NEW st, NEW st2, NEW W, NEW want, NEW told, Fits(st, W, want, told),
         SameLocks(st, st2), SameCVs(st, st2), SameOut(st, st2), SameLoop(st, st2)
  PROVE  Fits(st2, W, want, told)
<1>1. Located(st2, W)
  BY DEF Fits, Located, SameLocks, SameCVs, SameOut, SameLoop
<1>2. \A d, id : Owns(st2, d, id) <=> Owns(st, d, id)
  BY DEF Owns, SameLocks
<1>3. Held(st2, W, want, told)
  BY <1>2 DEF Fits, Held, SameCVs, SameOut
<1> QED
  BY <1>1, <1>3 DEF Fits, SameOut
-------------------------------------------------------------------------------
(***************************************************************************)
(* The functions of the server, as moves.                                  *)
(***************************************************************************)

\* The server's id is the only one there is.
LEMMA SoleId ==
  ASSUME OneServer, NEW st \in GoodServer
  PROVE  Sole \in Servers /\ st.id = Sole /\ Peers(st) = {} /\ \A id : OwnIndex(st, id) = IndexOf(id)
<1>1. PICK s : Servers = {s}
  BY DEF OneServer
<1>2. Sole = s /\ st.id = s
  BY <1>1 DEF Sole, GoodServer
<1> QED
  BY <1>1, <1>2 DEF Peers, OwnIndex, IndexOf

\* Two ids of one entry are the same.
LEMMA IdsOfOneEntry ==
  ASSUME NEW a \in Int, NEW b \in Int, IndexOf(a) \in Index, IndexOf(a) = IndexOf(b)
  PROVE  a = b
<1>1. -1 \notin Index
  BY TableSizeAssumption DEF Index
<1>2. a \div TableSize = b \div TableSize /\ a % TableSize = b % TableSize
  BY <1>1 DEF IndexOf
<1>3. \A x \in Int : x = TableSize * (x \div TableSize) + (x % TableSize)
  BY TableSizeAssumption
<1> QED
  BY <1>2, <1>3

\* A move inside the server: every call outside stays where it is.
Inside(W, W2) ==
  \A c \in Clients : W[c] \in Outer \/ W2[c] \in Outer => W2[c] = W[c]

\* The calls in hand are those of H.
Hands(W, H) == \A c \in Clients : W[c] = Hand <=> c \in H

\* The calls can be placed in the server st2 as they were in W, with those of H in hand.
Leads(W, st2, H, want, told) ==
  \E W2 : Fits(st2, W2, want, told) /\ Inside(W, W2) /\ Hands(W2, H)

\* Moves inside the server add up.
LEMMA LeadsTrans ==
  ASSUME NEW W, NEW W2, NEW st, NEW H, NEW want, NEW told, Inside(W, W2), Leads(W2, st, H, want, told)
  PROVE  Leads(W, st, H, want, told)
<1>1. PICK W3 : Fits(st, W3, want, told) /\ Inside(W2, W3) /\ Hands(W3, H)
  BY DEF Leads
<1>2. Inside(W, W3)
  BY <1>1 DEF Inside
<1> QED
  BY <1>1, <1>2 DEF Leads

\* One move inside the server.
LEMMA MoveInside ==
  ASSUME NEW W \in [Clients -> Place], NEW c \in Clients, W[c] \notin Outer, NEW p, p \notin Outer,
         NEW H, Hands(W, H)
  PROVE  /\ Inside(W, [W EXCEPT ![c] = p])
         /\ p # Hand => Hands([W EXCEPT ![c] = p], H \ {c})
         /\ p = Hand => Hands([W EXCEPT ![c] = p], H \cup {c})
<1>1. \A d \in Clients : [W EXCEPT ![c] = p][d] = IF d = c THEN p ELSE W[d]
  OBVIOUS
<1>2. Inside(W, [W EXCEPT ![c] = p])
  BY <1>1 DEF Inside
<1>3. ASSUME p # Hand PROVE Hands([W EXCEPT ![c] = p], H \ {c})
  BY <1>1, <1>3 DEF Hands
<1>4. ASSUME p = Hand PROVE Hands([W EXCEPT ![c] = p], H \cup {c})
  BY <1>1, <1>4 DEF Hands
<1> QED
  BY <1>2, <1>3, <1>4

\* Nothing moves.
LEMMA StaysPut ==
  ASSUME NEW W, NEW st, NEW H, NEW want, NEW told, Fits(st, W, want, told), Hands(W, H)
  PROVE  Leads(W, st, H, want, told)
BY DEF Leads, Inside

\* What a result in the mail to send changes.
LEMMA SendResultSeen ==
  ASSUME NEW st \in GoodServer, NEW c \in Clients, NEW oks \in SUBSET BOOLEAN, NEW vals \in SUBSET Int,
         Alone(st), NEW st2, st2 = SendResult(st, c, oks, vals)
  PROVE  /\ Alone(st2) /\ SameLocks(st, st2) /\ SameCVs(st, st2) /\ SameLoop(st, st2)
         /\ Joined(OutTo(st2), OutTo(st), c)
         /\ \A d \in Sure(st2) : d \in Sure(st) \/ (d = c /\ MaySucceed(oks))
<1> DEFINE o == [to |-> {}, msg |-> [kind |-> "result", client |-> c, ok |-> oks, val |-> vals]]
           n == Len(st.out) + 1
<1>2. /\ st2.out = Append(st.out, o) /\ st2.locks = st.locks /\ st2.cvs = st.cvs /\ st2.loop = st.loop
      /\ st.out \in Seq(OutMail)
  BY DEF SendResult, GoodServer
<1>3. o \in OutMail /\ o.to = {} /\ o.msg.kind = "result" /\ o.msg.client = c /\ o.msg.ok = oks
  BY DEF OutMail, ResultMail
<1> HIDE DEF o
<1>4. /\ n \notin DOMAIN st.out /\ DOMAIN st2.out = DOMAIN st.out \cup {n} /\ st2.out[n] = o
      /\ \A j \in DOMAIN st.out : st2.out[j] = st.out[j]
  BY <1>2, <1>3
<1> HIDE DEF n
<1>5. Alone(st2)
  BY <1>2, <1>3, <1>4 DEF Alone
<1>6. SameLocks(st, st2) /\ SameCVs(st, st2) /\ SameLoop(st, st2)
  BY <1>2 DEF SameLocks, SameCVs, SameLoop, Owner, LockQ, CVQ, Waiting, Caller
<1>7. Joined(OutTo(st2), OutTo(st), c)
  BY <1>3, <1>4 DEF OutTo, Joined
<1>8. \A d \in Sure(st2) : d \in Sure(st) \/ (d = c /\ MaySucceed(oks))
  <2>1. ASSUME NEW d PROVE d \in Sure(st2) <=> d \in Sure(st) \/ (d = c /\ MaySucceed(oks))
    <3>1. d \in Sure(st) <=> \E j \in DOMAIN st.out : MaySucceed(st.out[j].msg.ok) /\ st.out[j].msg.client = d
      BY DEF Sure
    <3>2. d \in Sure(st2) <=> \E j \in DOMAIN st2.out : MaySucceed(st2.out[j].msg.ok) /\ st2.out[j].msg.client = d
      BY DEF Sure
    <3> QED
      BY <1>3, <1>4, <3>1, <3>2
  <2> QED
    BY <2>1
<1> QED
  BY <1>5, <1>6, <1>7, <1>8

\* A result: the call in hand has its result on the way.  It may be a success only
\* when the client owns the lock it wants.
LEMMA SendResultLeads ==
  ASSUME NEW st \in GoodServer, NEW c \in Clients, NEW oks \in SUBSET BOOLEAN, NEW vals \in SUBSET Int,
         NEW W, NEW want, NEW told, Fits(st, W, want, told), NEW H, Hands(W, H), c \in H,
         ~MaySucceed(oks) \/ \A id \in want[c] : Owns(st, c, id)
  PROVE  Leads(W, SendResult(st, c, oks, vals), H \ {c}, want, told)
<1> DEFINE st2 == SendResult(st, c, oks, vals)
<1>1. W[c] = Hand /\ Alone(st) /\ W \in [Clients -> Place]
  BY DEF Hands, Fits, Located
<1>2. Seen(st) /\ Seen(st2)
  BY <1>1, GoodSeen, SendResultGood
<1>3. Fits(st2, [W EXCEPT ![c] = Out], want, told)
  <2>1. /\ Alone(st2) /\ SameLocks(st, st2) /\ SameCVs(st, st2) /\ SameLoop(st, st2)
        /\ Joined(OutTo(st2), OutTo(st), c)
        /\ \A d \in Sure(st2) : d \in Sure(st) \/ (d = c /\ MaySucceed(oks))
    BY <1>1, SendResultSeen
  <2> HIDE DEF st2
  <2>2. \A d \in Sure(st2) : d \in Sure(st) \/ (d = c /\ \A id \in want[c] : Owns(st, c, id))
    BY <2>1
  <2> QED
    BY <1>1, <1>2, <2>1, <2>2, MoveOut
<1>4. Inside(W, [W EXCEPT ![c] = Out]) /\ Hands([W EXCEPT ![c] = Out], H \ {c})
  BY <1>1, MoveInside, OuterPlaces, PlacesDiffer
<1> HIDE DEF st2
<1> QED
  BY <1>3, <1>4 DEF Leads, st2

\* The same for a failure, for a success, for a status and a value, and for a stored reply.
LEMMA FailureLeads ==
  ASSUME NEW st \in GoodServer, NEW c \in Clients,
         NEW W, NEW want, NEW told, Fits(st, W, want, told), NEW H, Hands(W, H), c \in H
  PROVE  Leads(W, Status(st, c, FALSE), H \ {c}, want, told)
<1> DEFINE oks == {FALSE}
           vals == {}
<1>1. oks \in SUBSET BOOLEAN /\ vals \in SUBSET Int /\ ~MaySucceed(oks)
  BY DEF MaySucceed
<1>2. Status(st, c, FALSE) = SendResult(st, c, oks, vals)
  BY DEF Status
<1> HIDE DEF oks, vals
<1>3. Leads(W, SendResult(st, c, oks, vals), H \ {c}, want, told)
  BY <1>1, SendResultLeads
<1> QED
  BY <1>2, <1>3

\* The same with a success, of a client that has the lock it wants.
LEMMA SuccessLeads ==
  ASSUME NEW st \in GoodServer, NEW c \in Clients,
         NEW W, NEW want, NEW told, Fits(st, W, want, told), NEW H, Hands(W, H), c \in H,
         \A id \in want[c] : Owns(st, c, id)
  PROVE  Leads(W, Status(st, c, TRUE), H \ {c}, want, told)
<1> DEFINE oks == {TRUE}
           vals == {}
<1>1. oks \in SUBSET BOOLEAN /\ vals \in SUBSET Int
  BY DEF MaySucceed
<1>2. Status(st, c, TRUE) = SendResult(st, c, oks, vals)
  BY DEF Status
<1> HIDE DEF oks, vals
<1>3. Leads(W, SendResult(st, c, oks, vals), H \ {c}, want, told)
  BY <1>1, SendResultLeads
<1> QED
  BY <1>2, <1>3

\* The same with a status and a value.
LEMMA StatusAndValueLeads ==
  ASSUME NEW st \in GoodServer, NEW c \in Clients, NEW ok \in BOOLEAN, NEW val \in Int,
         NEW W, NEW want, NEW told, Fits(st, W, want, told), NEW H, Hands(W, H), c \in H,
         want[c] = {}
  PROVE  Leads(W, StatusAndValue(st, c, ok, val), H \ {c}, want, told)
<1> DEFINE oks == {ok}
           vals == {val}
<1>1. oks \in SUBSET BOOLEAN /\ vals \in SUBSET Int
  OBVIOUS
<1>2. StatusAndValue(st, c, ok, val) = SendResult(st, c, oks, vals)
  BY DEF StatusAndValue
<1> HIDE DEF oks, vals
<1>3. Leads(W, SendResult(st, c, oks, vals), H \ {c}, want, told)
  BY <1>1, SendResultLeads
<1> QED
  BY <1>2, <1>3

\* The same with the reply of a creation.
LEMMA StoredReplyLeads ==
  ASSUME NEW st \in GoodServer, NEW c \in Clients,
         NEW W, NEW want, NEW told, Fits(st, W, want, told), NEW H, Hands(W, H), c \in H,
         \A id \in want[c] : Owns(st, c, id)
  PROVE  Leads(W, StoredReply(st, c), H \ {c}, want, told)
<1> DEFINE oks == BOOLEAN
           vals == {}
<1>1. oks \in SUBSET BOOLEAN /\ vals \in SUBSET Int
  OBVIOUS
<1>2. StoredReply(st, c) = SendResult(st, c, oks, vals)
  BY DEF StoredReply
<1> HIDE DEF oks, vals
<1>3. Leads(W, SendResult(st, c, oks, vals), H \ {c}, want, told)
  BY <1>1, SendResultLeads
<1> QED
  BY <1>2, <1>3

\* What a lock assigned to an entry changes.
LEMMA PutLockSeen ==
  ASSUME NEW st \in GoodServer, NEW i \in Index, st.locks.slot[i] # NULL, NEW l \in GoodLock,
         NEW st2, st2 = PutLock(st, i, l)
  PROVE  /\ SameCVs(st, st2) /\ SameOut(st, st2) /\ SameLoop(st, st2)
         /\ \A j \in Index \ {i} : Owner(st2, j) = Owner(st, j) /\ LockQ(st2, j) = LockQ(st, j)
         /\ Owner(st2, i) = IF l.state = "BUSY" THEN l.owner ELSE NoClient
         /\ LockQ(st2, i) = l.q
<1>1. st.locks \in GoodTable(GoodLock) /\ st.locks.slot \in [Index -> GoodLock \cup {NULL}] /\ l # NULL
  BY NullNotGood DEF GoodServer, GoodTable, TableOf
<1>2. st2.cvs = st.cvs /\ st2.out = st.out /\ st2.loop = st.loop /\ st2.locks.slot = [st.locks.slot EXCEPT ![i] = l]
  BY DEF PutLock, GoodServer, GoodTable, TableOf
<1>3. SameCVs(st, st2) /\ SameOut(st, st2) /\ SameLoop(st, st2)
  BY <1>2 DEF SameCVs, SameOut, SameLoop, CVQ, Waiting, OutTo, Sure, Caller, Alone
<1> QED
  BY <1>1, <1>2, <1>3 DEF Owner, LockQ

\* checkLockAndDestroy removes what looks as if it were not there.
LEMMA CheckLockAndDestroySeen ==
  ASSUME NEW st \in GoodServer, NEW i \in Index, st.locks.slot[i] # NULL, NEW st2,
         st2 = CheckLockAndDestroy(st, i)
  PROVE  SameLocks(st, st2) /\ SameCVs(st, st2) /\ SameOut(st, st2) /\ SameLoop(st, st2)
<1>1. CASE st2 = st
  BY <1>1 DEF SameLocks, SameCVs, SameOut, SameLoop
<1>2. CASE st2 # st
  <2>1. st.locks.slot \in [Index -> GoodLock \cup {NULL}]
    BY DEF GoodServer, GoodTable, TableOf
  <2>2. st.locks.slot[i].state = "FREE" /\ st.locks.slot[i].q = <<>>
    BY <1>2, <2>1 DEF CheckLockAndDestroy, GoodLock
  <2>3. /\ st2.cvs = st.cvs /\ st2.out = st.out /\ st2.loop = st.loop
        /\ st2.locks.slot = [st.locks.slot EXCEPT ![i] = NULL]
    BY <1>2 DEF CheckLockAndDestroy, Remove, GoodServer, GoodTable, TableOf
  <2>4. SameCVs(st, st2) /\ SameOut(st, st2) /\ SameLoop(st, st2)
    BY <2>3 DEF SameCVs, SameOut, SameLoop, CVQ, Waiting, OutTo, Sure, Caller, Alone
  <2>5. SameLocks(st, st2)
    BY <2>1, <2>2, <2>3 DEF SameLocks, Owner, LockQ
  <2> QED
    BY <2>4, <2>5
<1> QED
  BY <1>1, <1>2

\* serverDoAcquireLock: the call in hand is answered or queued, and answered with
\* success only when the lock is the client's.
LEMMA DoAcquireLockLeads ==
  ASSUME NEW st \in GoodServer, NEW i \in Int, NEW a, NEW c \in Clients,
         NEW W, NEW want, NEW told, Fits(st, W, want, told), NEW H, Hands(W, H), c \in H,
         \A id \in want[c] : IndexOf(id) = i
  PROVE  Leads(W, DoAcquireLock(st, i, a, c), H \ {c}, want, told)
<1> DEFINE l == st.locks.slot[i]
           st2 == DoAcquireLock(st, i, a, c)
<1>0. W[c] = Hand /\ W \in [Clients -> Place] /\ W[c] \notin Outer
  BY OuterPlaces DEF Hands, Fits, Located
<1>1. CASE ~Exists(st.locks, i)
  <2>1. st2 = Status(st, c, FALSE)
    BY <1>1 DEF DoAcquireLock
  <2>2. Leads(W, Status(st, c, FALSE), H \ {c}, want, told)
    BY FailureLeads
  <2> QED
    BY <2>1, <2>2, Zenon
<1>2. CASE Exists(st.locks, i)
  <2>1. i \in Index /\ l # NULL /\ l \in GoodLock
    BY <1>2, ExistsEntry DEF GoodServer
  <2>2. CASE IsOwner(l, c)
    <3>1. st2 = Status(st, c, TRUE)
      BY <1>2, <2>2 DEF DoAcquireLock
    <3>2. \A id \in want[c] : Owns(st, c, id)
      BY <2>1, <2>2 DEF Owns, Owner, IsOwner
    <3>3. Leads(W, Status(st, c, TRUE), H \ {c}, want, told)
      BY <3>2, SuccessLeads
    <3> QED
      BY <3>1, <3>3, Zenon
  <2>3. CASE ~IsOwner(l, c) /\ l.state = "BUSY"
    <3> DEFINE x == [l EXCEPT !.q = Append(@, c)]
    <3>1. x \in GoodLock /\ x.name = l.name /\ x.state = "BUSY" /\ x.owner = l.owner /\ x.q = Append(l.q, c)
      <4>1. l \in ServerLock /\ Append(l.q, c) \in Seq(Clients)
        BY <2>1 DEF GoodLock, ServerLock
      <4>2. x \in ServerLock /\ x.state = "BUSY" /\ x.name = l.name /\ x.owner = l.owner /\ x.q = Append(l.q, c)
        BY <2>3, <4>1 DEF ServerLock
      <4> QED
        BY <4>2 DEF GoodLock
    <3>2. st2 = PutLock(st, i, x)
      BY <1>2, <2>3 DEF DoAcquireLock
    <3> HIDE DEF x, st2
    <3>3. Owner(st, i) = l.owner /\ l.owner # c /\ LockQ(st, i) = l.q
      BY <2>1, <2>3 DEF Owner, LockQ, IsOwner
    <3>4. st2 \in GoodServer
      BY <2>1, <3>1, <3>2, PutLockGood
    <3>5. Seen(st) /\ Seen(st2)
      BY <3>4, GoodSeen
    <3>6. /\ SameCVs(st, st2) /\ SameOut(st, st2) /\ SameLoop(st, st2)
          /\ \A j \in Index \ {i} : Owner(st2, j) = Owner(st, j) /\ LockQ(st2, j) = LockQ(st, j)
          /\ Owner(st2, i) = l.owner /\ LockQ(st2, i) = Append(l.q, c)
      BY <2>1, <3>1, <3>2, PutLockSeen
    <3> HIDE DEF l
    <3>7. Fits(st2, [W EXCEPT ![c] = AtLock(i)], want, told)
      BY <1>0, <2>1, <3>3, <3>5, <3>6, MoveToLock
    <3>8. Inside(W, [W EXCEPT ![c] = AtLock(i)]) /\ Hands([W EXCEPT ![c] = AtLock(i)], H \ {c})
      BY <1>0, MoveInside, OuterPlaces, PlacesDiffer
    <3> QED
      BY <3>7, <3>8 DEF Leads, st2
  <2>4. CASE l.state # "BUSY"
    <3> DEFINE x == [l EXCEPT !.state = "BUSY", !.owner = c]
               st1 == PutLock(st, i, x)
    <3>1. x \in GoodLock /\ x.name = l.name /\ x.state = "BUSY" /\ x.owner = c /\ x.q = l.q
      BY <2>1, <2>4 DEF GoodLock, ServerLock
    <3>2. st2 = Status(st1, c, TRUE)
      BY <1>2, <2>4 DEF DoAcquireLock, IsOwner
    <3> HIDE DEF x, st2
    <3>3. Owner(st, i) = NoClient /\ LockQ(st, i) = l.q
      BY <2>1, <2>4 DEF Owner, LockQ
    <3>4. st1 \in GoodServer
      BY <2>1, <3>1, PutLockGood
    <3>5. Seen(st) /\ Seen(st1)
      BY <3>4, GoodSeen
    <3>6. /\ SameCVs(st, st1) /\ SameOut(st, st1) /\ SameLoop(st, st1)
          /\ \A j \in Index \ {i} : Owner(st1, j) = Owner(st, j) /\ LockQ(st1, j) = LockQ(st, j)
          /\ Owner(st1, i) = c /\ LockQ(st1, i) = l.q
      BY <2>1, <3>1, PutLockSeen
    <3> HIDE DEF l, st1
    <3>7. Fits(st1, W, want, told)
      BY <1>0, <2>1, <3>3, <3>5, <3>6, MoveOwner, PlacesDiffer
    <3>8. \A id \in want[c] : Owns(st1, c, id)
      BY <2>1, <3>6 DEF Owns
    <3>9. Leads(W, Status(st1, c, TRUE), H \ {c}, want, told)
      BY <3>4, <3>7, <3>8, SuccessLeads
    <3> QED
      BY <3>2, <3>9, Zenon DEF st2
  <2> QED
    BY <2>2, <2>3, <2>4
<1> QED
  BY <1>1, <1>2

\* serverDoReleaseLock: the lock has no owner or the first of its queue, which is sent
\* its result; whoever gives it up is not told that it has it.
LEMMA DoReleaseLockLeads ==
  ASSUME NEW st \in GoodServer, NEW i \in Int, NEW a, NEW c \in Clients,
         NEW W, NEW want, NEW told, Fits(st, W, want, told), NEW H, Hands(W, H), W[c] # Out,
         \A id \in told[c] : IndexOf(id) # i
  PROVE  Leads(W, DoReleaseLock(st, i, a, c), H, want, told)
<1> DEFINE l == st.locks.slot[i]
           st2 == DoReleaseLock(st, i, a, c)
<1>1. CASE ~Exists(st.locks, i) \/ ~IsOwner(l, c)
  <2>1. st2 = st
    BY <1>1 DEF DoReleaseLock
  <2> QED
    BY <2>1, StaysPut
<1>2. CASE Exists(st.locks, i) /\ IsOwner(l, c)
  <2>1. i \in Index /\ l # NULL /\ l \in GoodLock
    BY <1>2, ExistsEntry DEF GoodServer
  <2>2. Owner(st, i) = c /\ LockQ(st, i) = l.q /\ c \notin Sure(st) /\ W \in [Clients -> Place]
    BY <1>2, <2>1 DEF Owner, LockQ, IsOwner, Fits, Located
  <2>3. CASE l.q # <<>>
    <3> DEFINE d == Head(l.q)
               x == [l EXCEPT !.owner = d, !.q = Tail(l.q)]
               st1 == PutLock(st, i, x)
               W2 == [W EXCEPT ![d] = Hand]
    <3>1. Head(l.q) \in Clients /\ Tail(l.q) \in Seq(Clients)
      BY <2>1, <2>3 DEF GoodLock, ServerLock
    <3>2. x \in GoodLock /\ x.name = l.name /\ x.state = "BUSY" /\ x.owner = d
      BY <1>2, <2>1, <3>1 DEF GoodLock, ServerLock, IsOwner
    <3>3. st2 = StoredReply(st1, d) /\ d = Head(LockQ(st, i)) /\ LockQ(st, i) # <<>> /\ x.q = Tail(LockQ(st, i))
      BY <1>2, <2>1, <2>2, <2>3 DEF DoReleaseLock, GoodLock, ServerLock
    <3> HIDE DEF x, st2, d
    <3>4. st1 \in GoodServer
      BY <2>1, <3>2, PutLockGood
    <3>5. Seen(st) /\ Seen(st1)
      BY <3>4, GoodSeen
    <3>6. /\ SameCVs(st, st1) /\ SameOut(st, st1) /\ SameLoop(st, st1)
          /\ \A j \in Index \ {i} : Owner(st1, j) = Owner(st, j) /\ LockQ(st1, j) = LockQ(st, j)
          /\ Owner(st1, i) = d /\ LockQ(st1, i) = x.q
      BY <2>1, <3>2, PutLockSeen
    <3> HIDE DEF l, st1
    <3>12. /\ \A j \in Index \ {i} : Owner(st1, j) = Owner(st, j)
           /\ \A j \in Index \ {i} : LockQ(st1, j) = LockQ(st, j)
           /\ LockQ(st1, i) = Tail(LockQ(st, i))
           /\ Owner(st, i) \notin Sure(st) /\ \A id \in told[Owner(st, i)] : IndexOf(id) # i
      BY <2>2, <3>3, <3>6
    <3>7. d \in Clients /\ W[d] = AtLock(i) /\ Fits(st1, W2, want, told) /\ \A id \in want[d] : Owns(st1, d, id)
      BY <2>1, <3>3, <3>5, <3>6, <3>12, MoveFromLock
    <3>8. Inside(W, W2) /\ Hands(W2, H \cup {d})
      BY <2>2, <3>7, MoveInside, OuterPlaces
    <3> HIDE DEF W2
    <3>9. d \notin H
      BY <3>7, PlacesDiffer DEF Hands
    <3>10. Leads(W2, st2, (H \cup {d}) \ {d}, want, told)
      BY <3>3, <3>4, <3>7, <3>8, StoredReplyLeads
    <3>11. (H \cup {d}) \ {d} = H
      BY <3>9
    <3> QED
      BY <3>8, <3>10, <3>11, LeadsTrans DEF st2
  <2>4. CASE l.q = <<>>
    <3> DEFINE x == [l EXCEPT !.state = "FREE"]
               st1 == PutLock(st, i, x)
    <3>1. x \in GoodLock /\ x.name = l.name /\ x.state = "FREE" /\ x.q = l.q
      BY <2>1, <2>4 DEF GoodLock, ServerLock
    <3>2. st2 = CheckLockAndDestroy(st1, i)
      BY <1>2, <2>4 DEF DoReleaseLock
    <3> HIDE DEF x, st2
    <3>3. st1 \in GoodServer /\ st1.locks.slot[i] # NULL
      BY <2>1, <3>1, PutLockGood, NullNotGood
    <3>4. Seen(st) /\ Seen(st1)
      BY <3>3, GoodSeen
    <3>5. /\ SameCVs(st, st1) /\ SameOut(st, st1) /\ SameLoop(st, st1)
          /\ \A j \in Index \ {i} : Owner(st1, j) = Owner(st, j) /\ LockQ(st1, j) = LockQ(st, j)
          /\ Owner(st1, i) = NoClient /\ LockQ(st1, i) = l.q
      BY <2>1, <3>1, PutLockSeen
    <3> HIDE DEF l, st1
    <3>6. Fits(st1, W, want, told)
      BY <2>1, <2>2, <3>4, <3>5, MoveOwner
    <3>7. SameLocks(st1, st2) /\ SameCVs(st1, st2) /\ SameOut(st1, st2) /\ SameLoop(st1, st2)
      BY <2>1, <3>2, <3>3, CheckLockAndDestroySeen
    <3>8. Fits(st2, W, want, told)
      BY <3>6, <3>7, MoveNone
    <3> QED
      BY <3>8, StaysPut DEF st2
  <2> QED
    BY <2>3, <2>4
<1> QED
  BY <1>1, <1>2

\* Nothing that matters to the clients differs.
SameView(st, st2) ==
  SameLocks(st, st2) /\ SameCVs(st, st2) /\ SameOut(st, st2) /\ SameLoop(st, st2)

\* A request with nobody to ask changes nothing that is seen.
LEMMA UnsentSeen ==
  ASSUME NEW st \in GoodServer
  PROVE  SameView(st, Unsent(st))
<1>1. /\ Unsent(st).locks = st.locks /\ Unsent(st).cvs = st.cvs
      /\ Unsent(st).out = st.out /\ Unsent(st).loop = st.loop
  BY DEF Unsent, GoodServer
<1> QED
  BY <1>1 DEF SameView, SameLocks, SameCVs, SameOut, SameLoop, Owner, LockQ, CVQ, Waiting, OutTo,
              Sure, Caller, Alone

\* A lone server handles every request itself, whoever the object belongs to.
LEMMA RouteAlone ==
  ASSUME OneServer, NEW st \in GoodServer, NEW type, NEW a, NEW c, NEW W, NEW want, NEW told,
         Fits(st, W, want, told)
  PROVE  \E st1 \in GoodServer : /\ RouteById(st, type, a, c) = Here(st1, IndexOf(a.obj))
                                 /\ Fits(st1, W, want, told) /\ st1.loop = st.loop
<1> DEFINE i == IndexOf(a.obj)
<1>1. OwnIndex(st, a.obj) = i /\ Peers(st) = {}
  BY SoleId
<1> HIDE DEF i
<1>2. CASE i # -1
  <2>1. RouteById(st, type, a, c) = Here(st, i)
    BY <1>1, <1>2 DEF RouteById
  <2> QED
    BY <2>1 DEF i
<1>3. CASE i = -1
  <2>1. RouteById(st, type, a, c) = Here(Unsent(st), i)
    BY <1>1, <1>3 DEF RouteById
  <2>2. Fits(Unsent(st), W, want, told)
    BY UnsentSeen, MoveNone DEF SameView
  <2> QED
    BY <2>1, <2>2, UnsentGood DEF i
<1> QED
  BY <1>2, <1>3

\* checkIf...IsMineAndGetMyIndex returns an integer.
LEMMA IndexOfType ==
  ASSUME NEW id \in Nat
  PROVE  IndexOf(id) \in Int
BY TableSizeAssumption DEF IndexOf

\* serverAcquireLock and serverReleaseLock, as serverDoAcquireLock and serverDoReleaseLock.
LEMMA ServerAcquireLockLeads ==
  ASSUME OneServer, NEW st \in GoodServer, NEW lk \in Nat, NEW c \in Clients,
         NEW W, NEW want, NEW told, Fits(st, W, want, told), NEW H, Hands(W, H), c \in H,
         want[c] \subseteq {lk}
  PROVE  Leads(W, ServerAcquireLock(st, lk, c), H \ {c}, want, told)
<1> DEFINE a == LockArg(lk)
           i == IndexOf(lk)
<1>1. a.obj = lk
  BY DEF LockArg
<1> HIDE DEF a
<1>2. PICK st1 \in GoodServer : /\ RouteById(st, "Acquire", a, c) = Here(st1, i)
                                /\ Fits(st1, W, want, told)
  BY <1>1, RouteAlone
<1>3. ServerAcquireLock(st, lk, c) = DoAcquireLock(st1, i, a, c)
  BY <1>2 DEF ServerAcquireLock, Here, a
<1>4. i \in Int /\ \A id \in want[c] : IndexOf(id) = i
  BY IndexOfType
<1> HIDE DEF i
<1>5. Leads(W, DoAcquireLock(st1, i, a, c), H \ {c}, want, told)
  BY <1>2, <1>4, DoAcquireLockLeads
<1> QED
  BY <1>3, <1>5

\* The entry of a lock that c has not been told of is none of those it has.
LEMMA NotTold ==
  ASSUME NEW st, NEW W, NEW want, NEW told, Fits(st, W, want, told), NEW c \in Clients,
         told[c] \subseteq Int, NEW lk \in Int, lk \notin told[c]
  PROVE  \A id \in told[c] : IndexOf(id) # IndexOf(lk)
BY IdsOfOneEntry DEF Fits, Held, Owns

\* serverReleaseLock, about a lock its caller no longer has been told it has.
LEMMA ServerReleaseLockLeads ==
  ASSUME OneServer, NEW st \in GoodServer, NEW lk \in Nat, NEW c \in Clients,
         NEW W, NEW want, NEW told, Fits(st, W, want, told), NEW H, Hands(W, H), W[c] # Out,
         told[c] \subseteq Int, lk \notin told[c]
  PROVE  Leads(W, ServerReleaseLock(st, lk, c), H, want, told)
<1> DEFINE a == LockArg(lk)
           i == IndexOf(lk)
<1>1. a.obj = lk
  BY DEF LockArg
<1> HIDE DEF a
<1>2. PICK st1 \in GoodServer : /\ RouteById(st, "Release", a, c) = Here(st1, i)
                                /\ Fits(st1, W, want, told)
  BY <1>1, RouteAlone
<1>3. ServerReleaseLock(st, lk, c) = DoReleaseLock(st1, i, a, c)
  BY <1>2 DEF ServerReleaseLock, Here, a
<1>4. i \in Int /\ \A id \in told[c] : IndexOf(id) # i
  BY IndexOfType, NotTold
<1> HIDE DEF i
<1>5. Leads(W, DoReleaseLock(st1, i, a, c), H, want, told)
  BY <1>2, <1>4, DoReleaseLockLeads
<1> QED
  BY <1>3, <1>5

\* What a condition variable assigned to an entry changes.
LEMMA PutCVSeen ==
  ASSUME NEW st \in GoodServer, NEW i \in Index, st.cvs.slot[i] # NULL, NEW x \in GoodCV,
         NEW st2, st2 = PutCV(st, i, x)
  PROVE  /\ SameLocks(st, st2) /\ SameOut(st, st2) /\ SameLoop(st, st2)
         /\ \A j \in Index \ {i} : CVQ(st2, j) = CVQ(st, j)
         /\ \A j \in Index \ {i} : Waiting(st2, j) = Waiting(st, j)
         /\ CVQ(st2, i) = x.q /\ Waiting(st2, i) = x.waitingLock
<1>1. st.cvs \in GoodTable(GoodCV) /\ st.cvs.slot \in [Index -> GoodCV \cup {NULL}] /\ x # NULL
  BY NullNotGood DEF GoodServer, GoodTable, TableOf
<1>2. st2.locks = st.locks /\ st2.out = st.out /\ st2.loop = st.loop /\ st2.cvs.slot = [st.cvs.slot EXCEPT ![i] = x]
  BY DEF PutCV, GoodServer, GoodTable, TableOf
<1>3. SameLocks(st, st2) /\ SameOut(st, st2) /\ SameLoop(st, st2)
  BY <1>2 DEF SameLocks, SameOut, SameLoop, Owner, LockQ, OutTo, Sure, Caller, Alone
<1> QED
  BY <1>1, <1>2, <1>3 DEF CVQ, Waiting

\* serverDoWait: the waiter is queued with the lock it wants and gives it up, or fails.
LEMMA DoWaitLeads ==
  ASSUME OneServer, NEW st \in GoodServer, NEW i \in Int, NEW a \in ArgsOf("Wait"), NEW c \in Clients,
         NEW W, NEW want, NEW told, Fits(st, W, want, told), NEW H, Hands(W, H), c \in H,
         want[c] \subseteq {a.lock}, told[c] \subseteq Int, a.lock \notin told[c]
  PROVE  Leads(W, DoWait(st, i, a, c), H \ {c}, want, told)
<1> DEFINE cv == st.cvs.slot[i]
           st2 == DoWait(st, i, a, c)
<1>0. W[c] = Hand /\ W \in [Clients -> Place] /\ W[c] \notin Outer
  BY OuterPlaces DEF Hands, Fits, Located
<1>1. CASE ~Exists(st.cvs, i) \/ cv.waitingLock \notin {-1, a.lock}
  <2>1. st2 = Status(st, c, FALSE)
    BY <1>1 DEF DoWait
  <2>2. Leads(W, Status(st, c, FALSE), H \ {c}, want, told)
    BY FailureLeads
  <2> QED
    BY <2>1, <2>2, Zenon
<1>2. CASE Exists(st.cvs, i) /\ cv.waitingLock \in {-1, a.lock}
  <2> DEFINE q == Append(cv.q, c)
             x == [cv EXCEPT !.waitingLock = a.lock, !.q = q]
             st1 == PutCV(st, i, x)
             W2 == [W EXCEPT ![c] = AtCV(i)]
  <2>1. i \in Index /\ cv # NULL /\ cv \in GoodCV
    BY <1>2, ExistsEntry DEF GoodServer
  <2>2. a.lock \in Nat
    BY DEF ArgsOf, ArgOK, Arg
  <2>3. cv \in ServerCV /\ q \in Seq(Clients) /\ q # <<>>
    BY <2>1 DEF GoodCV, ServerCV
  <2>4. x \in GoodCV /\ x.name = cv.name /\ x.q = q /\ x.waitingLock = a.lock
    <3> HIDE DEF q
    <3>1. x \in ServerCV /\ x.waitingLock = a.lock /\ x.q = q /\ x.name = cv.name
      <4>1. a.lock \in Int
        BY <2>2
      <4> QED
        BY <2>3, <4>1, Zenon DEF ServerCV
    <3>2. a.lock # -1
      BY <2>2
    <3> QED
      BY <2>3, <3>1, <3>2, Zenon DEF GoodCV
  <2>5. st2 = ServerReleaseLock(st1, a.lock, c)
    BY <1>2 DEF DoWait
  <2>6. q = Append(CVQ(st, i), c) /\ Waiting(st, i) \in {-1, a.lock}
    BY <1>2, <2>1 DEF CVQ, Waiting
  <2> HIDE DEF x, q, st2
  <2>7. st1 \in GoodServer
    BY <2>1, <2>4, PutCVGood
  <2>8. Seen(st) /\ Seen(st1)
    BY <2>7, GoodSeen
  <2>9. /\ SameLocks(st, st1) /\ SameOut(st, st1) /\ SameLoop(st, st1)
        /\ \A j \in Index \ {i} : CVQ(st1, j) = CVQ(st, j)
        /\ \A j \in Index \ {i} : Waiting(st1, j) = Waiting(st, j)
        /\ CVQ(st1, i) = q /\ Waiting(st1, i) = a.lock
    BY <2>1, <2>4, PutCVSeen
  <2> HIDE DEF cv, st1
  <2>10. Fits(st1, W2, want, told)
    BY <1>0, <2>1, <2>6, <2>8, <2>9, MoveToCV
  <2>11. Inside(W, W2) /\ Hands(W2, H \ {c}) /\ W2[c] # Out
    BY <1>0, MoveInside, OuterPlaces, PlacesDiffer
  <2> HIDE DEF W2
  <2>12. Leads(W2, st2, H \ {c}, want, told)
    BY <2>2, <2>5, <2>7, <2>10, <2>11, ServerReleaseLockLeads
  <2> QED
    BY <2>11, <2>12, LeadsTrans DEF st2
<1> QED
  BY <1>1, <1>2

\* Waking: the first waiter acquires the lock, which is to be the one it wants.
LEMMA WakeOneLeads ==
  ASSUME OneServer, NEW st \in GoodServer, NEW i \in Index, st.cvs.slot[i] # NULL,
         st.cvs.slot[i].q # <<>>, NEW lk \in Nat,
         NEW W, NEW want, NEW told, Fits(st, W, want, told), NEW H, Hands(W, H),
         \A c \in Clients : W[c] = AtCV(i) => want[c] \subseteq {lk}
  PROVE  Leads(W, WakeOne(st, i, lk), H, want, told)
<1> DEFINE cv == st.cvs.slot[i]
           w == IF Len(cv.q) = 1 THEN -1 ELSE cv.waitingLock
           x == [cv EXCEPT !.q = Tail(cv.q), !.waitingLock = w]
           c == Head(cv.q)
           st1 == PutCV(st, i, x)
           W2 == [W EXCEPT ![c] = Hand]
<1>1. cv \in GoodCV
  BY DEF GoodServer, GoodTable, TableOf
<1>2. cv \in ServerCV /\ cv.q \in Seq(Clients) /\ cv.waitingLock \in Int /\ cv.waitingLock # -1
  BY <1>1 DEF GoodCV, ServerCV
<1>3. Tail(cv.q) \in Seq(Clients) /\ (Tail(cv.q) = <<>> <=> Len(cv.q) = 1)
  <2>1. Len(Tail(cv.q)) = Len(cv.q) - 1 /\ Len(cv.q) \in Nat /\ Tail(cv.q) \in Seq(Clients)
    BY <1>2
  <2>2. Tail(cv.q) = <<>> <=> Len(Tail(cv.q)) = 0
    BY <2>1, EmptySeq
  <2> QED
    BY <2>1, <2>2
<1>4. w \in Int /\ (w = -1 <=> Tail(cv.q) = <<>>)
  BY <1>2, <1>3
<1>5. x \in GoodCV /\ x.name = cv.name /\ x.q = Tail(cv.q) /\ x.waitingLock = w
  <2> HIDE DEF w
  <2>1. x \in ServerCV /\ x.waitingLock = w /\ x.q = Tail(cv.q) /\ x.name = cv.name
    BY <1>2, <1>3, <1>4 DEF ServerCV
  <2> QED
    BY <1>4, <2>1 DEF GoodCV
<1>6. WakeOne(st, i, lk) = ServerAcquireLock(st1, lk, c)
  BY DEF WakeOne
<1>7. /\ CVQ(st, i) # <<>> /\ c = Head(CVQ(st, i)) /\ x.q = Tail(CVQ(st, i))
      /\ x.waitingLock = IF Len(CVQ(st, i)) = 1 THEN -1 ELSE Waiting(st, i)
  BY <1>5 DEF CVQ, Waiting
<1> HIDE DEF x, c, w
<1>8. st1 \in GoodServer
  BY <1>5, PutCVGood
<1>9. Seen(st) /\ Seen(st1)
  BY <1>8, GoodSeen
<1>10. /\ SameLocks(st, st1) /\ SameOut(st, st1) /\ SameLoop(st, st1)
       /\ \A j \in Index \ {i} : CVQ(st1, j) = CVQ(st, j)
       /\ \A j \in Index \ {i} : Waiting(st1, j) = Waiting(st, j)
       /\ CVQ(st1, i) = x.q /\ Waiting(st1, i) = x.waitingLock
  BY <1>5, PutCVSeen
<1> HIDE DEF cv, st1
<1>11. c \in Clients /\ W[c] = AtCV(i) /\ Fits(st1, W2, want, told)
  BY <1>7, <1>9, <1>10, MoveFromCV
<1>12. Inside(W, W2) /\ Hands(W2, H \cup {c})
  BY <1>11, MoveInside, OuterPlaces DEF Fits, Located
<1> HIDE DEF W2
<1>13. (H \cup {c}) \ {c} = H
  BY <1>11, PlacesDiffer DEF Hands
<1>14. Leads(W2, ServerAcquireLock(st1, lk, c), (H \cup {c}) \ {c}, want, told)
  BY <1>8, <1>11, <1>12, ServerAcquireLockLeads
<1> QED
  BY <1>6, <1>12, <1>13, <1>14, LeadsTrans

\* serverDoSignal: the first waiter is woken with the lock it passed, and the caller
\* has its result.
LEMMA DoSignalLeads ==
  ASSUME OneServer, NEW st \in GoodServer, NEW i \in Int, NEW a \in ArgsOf("Signal"), NEW c \in Clients,
         NEW W, NEW want, NEW told, Fits(st, W, want, told), NEW H, Hands(W, H), c \in H, want[c] = {}
  PROVE  Leads(W, DoSignal(st, i, a, c), H \ {c}, want, told)
<1> DEFINE cv == st.cvs.slot[i]
<1>1. CASE ~Exists(st.cvs, i) \/ (cv.waitingLock # -1 /\ cv.waitingLock # a.lock)
  <2>1. DoSignal(st, i, a, c) = Status(st, c, FALSE)
    BY <1>1 DEF DoSignal
  <2>2. Leads(W, Status(st, c, FALSE), H \ {c}, want, told)
    BY FailureLeads
  <2> QED
    BY <2>1, <2>2, Zenon
<1>2. CASE Exists(st.cvs, i) /\ cv.waitingLock = -1
  <2>1. DoSignal(st, i, a, c) = Status(st, c, TRUE)
    BY <1>2 DEF DoSignal
  <2>2. Leads(W, Status(st, c, TRUE), H \ {c}, want, told)
    BY SuccessLeads
  <2> QED
    BY <2>1, <2>2, Zenon
<1>3. CASE Exists(st.cvs, i) /\ cv.waitingLock # -1 /\ cv.waitingLock = a.lock
  <2> DEFINE st1 == WakeOne(st, i, a.lock)
  <2>1. i \in Index /\ cv # NULL /\ cv \in GoodCV
    BY <1>3, ExistsEntry DEF GoodServer
  <2>2. cv.q # <<>> /\ a.lock \in Nat
    BY <1>3, <2>1 DEF GoodCV, ArgsOf, ArgOK, Arg
  <2>3. st1 \in GoodServer
    BY <2>1, <2>2, WakeOneGood
  <2>4. DoSignal(st, i, a, c) = Status(st1, c, TRUE)
    BY <1>3 DEF DoSignal
  <2>5. \A d \in Clients : W[d] = AtCV(i) => want[d] \subseteq {a.lock}
    BY <1>3, <2>1 DEF Fits, Held, Waiting
  <2>6. Leads(W, st1, H, want, told)
    BY <2>1, <2>2, <2>5, WakeOneLeads
  <2> HIDE DEF st1
  <2>7. PICK W2 : Fits(st1, W2, want, told) /\ Inside(W, W2) /\ Hands(W2, H)
    BY <2>6 DEF Leads
  <2>8. Leads(W2, Status(st1, c, TRUE), H \ {c}, want, told)
    BY <2>3, <2>7, SuccessLeads
  <2>9. Leads(W, Status(st1, c, TRUE), H \ {c}, want, told)
    BY <2>7, <2>8, LeadsTrans
  <2> QED
    BY <2>4, <2>9, Zenon
<1> QED
  BY <1>1, <1>2, <1>3

\* A loop entered or left is all that changes.
LEMMA SetLoopSeen ==
  ASSUME NEW st \in GoodServer, NEW x, x.type \notin Creates, NEW st2, st2 = [st EXCEPT !.loop = x]
  PROVE  /\ SameLocks(st, st2) /\ SameCVs(st, st2) /\ SameOut(st, st2)
         /\ Caller(st2) = IF x.type = "Broadcast" THEN x.client ELSE NoClient
<1>1. st2.locks = st.locks /\ st2.cvs = st.cvs /\ st2.out = st.out /\ st2.loop = x
  BY DEF GoodServer
<1> QED
  BY <1>1 DEF SameLocks, SameCVs, SameOut, Owner, LockQ, CVQ, Waiting, OutTo, Sure, Caller, Alone

\* serverDoBroadcast: the call is in the loop, or has failed.
LEMMA DoBroadcastLeads ==
  ASSUME NEW st \in GoodServer, st.loop = NoLoop, NEW i \in Int, NEW a \in ArgsOf("Broadcast"),
         NEW c \in Clients, NEW W, NEW want, NEW told, Fits(st, W, want, told), NEW H, Hands(W, H),
         c \in H, want[c] = {}
  PROVE  Leads(W, DoBroadcast(st, i, a, c), H \ {c}, want, told)
<1> DEFINE x == [type |-> "Broadcast", cv |-> i, lock |-> a.lock, client |-> c]
           st2 == DoBroadcast(st, i, a, c)
           W2 == [W EXCEPT ![c] = InLoop]
<1>1. CASE ~Exists(st.cvs, i)
  <2>1. st2 = Status(st, c, FALSE)
    BY <1>1 DEF DoBroadcast
  <2>2. Leads(W, Status(st, c, FALSE), H \ {c}, want, told)
    BY FailureLeads
  <2> QED
    BY <2>1, <2>2, Zenon
<1>2. CASE Exists(st.cvs, i)
  <2>1. st2 = [st EXCEPT !.loop = x]
    BY <1>2 DEF DoBroadcast
  <2>2. x.type = "Broadcast" /\ x.client = c /\ x.type \notin Creates
    BY DEF Creates
  <2> HIDE DEF x, st2
  <2>3. SameLocks(st, st2) /\ SameCVs(st, st2) /\ SameOut(st, st2) /\ Caller(st2) = c
    BY <2>1, <2>2, SetLoopSeen
  <2>4. Caller(st) = NoClient /\ W[c] = Hand /\ W \in [Clients -> Place]
    BY DEF Caller, NoLoop, Hands, Fits, Located
  <2>5. Seen(st) /\ Seen(st2)
    BY GoodSeen, DoBroadcastGood DEF st2
  <2>6. Fits(st2, W2, want, told)
    BY <2>3, <2>4, <2>5, MoveToLoop
  <2>7. Inside(W, W2) /\ Hands(W2, H \ {c})
    BY <2>4, MoveInside, OuterPlaces, PlacesDiffer
  <2> HIDE DEF W2
  <2> QED
    BY <2>6, <2>7 DEF Leads, st2
<1> QED
  BY <1>1, <1>2

\* A round of Broadcast: a waiter is woken, or the caller has its result.
LEMMA BroadcastRoundLeads ==
  ASSUME OneServer, NEW st \in GoodServer, st.loop.type = "Broadcast",
         NEW W, NEW want, NEW told, Fits(st, W, want, told), NEW H, Hands(W, H),
         \A c \in Clients : W[c] = AtCV(st.loop.cv) => want[c] \subseteq {st.loop.lock}
  PROVE  Leads(W, BroadcastRound(st), H, want, told)
<1> DEFINE i == st.loop.cv
           c == st.loop.client
<1>1. st.loop.lock \in Nat /\ c \in Clients /\ i \in Index /\ st.cvs.slot[i] # NULL
  BY DEF GoodServer, Loop, NoLoop, Creates, Exists
<1>2. CASE st.cvs.slot[i].q # <<>>
  BY <1>1, <1>2, WakeOneLeads DEF BroadcastRound
<1>3. CASE st.cvs.slot[i].q = <<>>
  <2> DEFINE st1 == [st EXCEPT !.loop = NoLoop]
             W2 == [W EXCEPT ![c] = Hand]
  <2>1. BroadcastRound(st) = Status(st1, c, TRUE)
    BY <1>3 DEF BroadcastRound
  <2>2. Caller(st) = c
    BY DEF Caller
  <2>3. NoLoop.type \notin Creates /\ NoLoop.type # "Broadcast"
    BY DEF NoLoop, Creates
  <2>4. SameLocks(st, st1) /\ SameCVs(st, st1) /\ SameOut(st, st1) /\ Caller(st1) = NoClient
    BY <2>3, SetLoopSeen
  <2>5. st1 \in GoodServer
    BY NoLoopGood
  <2> HIDE DEF st1
  <2>6. Seen(st) /\ Seen(st1)
    BY <2>5, GoodSeen
  <2> HIDE DEF c
  <2>7. Fits(st1, W2, want, told) /\ W[c] = InLoop /\ want[c] = {}
    BY <1>1, <2>2, <2>4, <2>6, MoveFromLoop
  <2>8. Inside(W, W2) /\ Hands(W2, H \cup {c})
    BY <1>1, <2>7, MoveInside, OuterPlaces DEF Fits, Located
  <2> HIDE DEF W2
  <2>9. (H \cup {c}) \ {c} = H
    BY <1>1, <2>7, PlacesDiffer DEF Hands
  <2>10. Leads(W2, Status(st1, c, TRUE), (H \cup {c}) \ {c}, want, told)
    BY <1>1, <2>5, <2>7, <2>8, SuccessLeads
  <2>11. Leads(W, Status(st1, c, TRUE), H, want, told)
    BY <2>8, <2>9, <2>10, LeadsTrans
  <2> QED
    BY <2>1, <2>11, Zenon
<1> QED
  BY <1>2, <1>3
-------------------------------------------------------------------------------
(***************************************************************************)
(* Creations, destructions and monitor variables change nothing that is    *)
(* seen but the result they send.                                          *)
(***************************************************************************)

\* A create changes a count, or puts the new object where there was none.
LEMMA CreateNamedSlots ==
  ASSUME NEW R, NULL \notin R, NEW t \in GoodTable(R), NEW n, NEW new, NEW j \in Index
  PROVE  LET t2 == CreateNamed(t, n, new).table
         IN  \/ t2.slot[j] = t.slot[j]
             \/ t.slot[j] \in R /\ t2.slot[j] = [t.slot[j] EXCEPT !.count = @ + 1]
             \/ t.slot[j] = NULL /\ t2.slot[j] = new
<1> DEFINE i == FindNamed(t, n)
<1>0. t.slot \in [Index -> R \cup {NULL}] /\ t = [size |-> t.size, bits |-> t.bits, slot |-> t.slot]
  BY DEF GoodTable, TableOf
<1>1. CASE i # -1
  <2>1. i \in Index /\ t.slot[i] \in R
    BY <1>1, FindNamedEntry
  <2>2. CreateNamed(t, n, new).table.slot = [t.slot EXCEPT ![i] = [t.slot[i] EXCEPT !.count = @ + 1]]
    BY <1>0, <1>1, <2>1 DEF CreateNamed
  <2> QED
    BY <1>0, <2>1, <2>2
<1>2. CASE i = -1 /\ FindBit(t) # -1
  <2>1. FindBit(t) \in Index \ t.bits /\ t.slot[FindBit(t)] = NULL
    BY <1>2, FindBitBound DEF GoodTable
  <2>2. CreateNamed(t, n, new).table.slot = [t.slot EXCEPT ![FindBit(t)] = new]
    BY <1>2 DEF CreateNamed, Insert
  <2> QED
    BY <1>0, <2>1, <2>2
<1>3. CASE i = -1 /\ FindBit(t) = -1
  BY <1>3 DEF CreateNamed
<1> QED
  BY <1>1, <1>2, <1>3

\* serverDoCreateLock.
LEMMA DoCreateLockLeads ==
  ASSUME NEW st \in GoodServer, NEW a \in ArgsOf("CreateLock"), NEW c \in Clients,
         NEW W, NEW want, NEW told, Fits(st, W, want, told), NEW H, Hands(W, H), c \in H, want[c] = {}
  PROVE  Leads(W, DoCreateLock(st, a, c), H \ {c}, want, told)
<1> DEFINE r == CreateNamed(st.locks, a.obj, NewLock(a.obj))
           st1 == [st EXCEPT !.locks = r.table]
           id == Id(st, r.index)
           ok == id # -1
<1>1. DoCreateLock(st, a, c) = StatusAndValue(st1, c, ok, id)
  BY DEF DoCreateLock
<1>2. st1 \in GoodServer /\ id \in Int
  <2>1. a.obj \in Names
    BY DEF ArgsOf, ArgOK, Creates
  <2>2. r.table \in GoodTable(GoodLock) /\ r.index \in Index \cup {-1}
    BY <2>1, CreateLockTable
  <2> HIDE DEF r
  <2> QED
    BY <2>2, SetLocks, IdType DEF Index
<1>3. st.locks \in GoodTable(GoodLock) /\ st.locks.slot \in [Index -> GoodLock \cup {NULL}]
  BY DEF GoodServer, GoodTable, TableOf
<1>4. st1.locks = r.table /\ st1.cvs = st.cvs /\ st1.out = st.out /\ st1.loop = st.loop
  BY DEF GoodServer
<1>5. ASSUME NEW j \in Index
      PROVE  \/ r.table.slot[j] = st.locks.slot[j]
             \/ st.locks.slot[j] \in GoodLock /\ r.table.slot[j] = [st.locks.slot[j] EXCEPT !.count = @ + 1]
             \/ st.locks.slot[j] = NULL /\ r.table.slot[j] = NewLock(a.obj)
  BY <1>3, NullNotGood, CreateNamedSlots
<1> HIDE DEF r
<1>6. SameView(st, st1)
  <2> HIDE DEF st1
  <2>1. SameCVs(st, st1) /\ SameOut(st, st1) /\ SameLoop(st, st1)
    BY <1>4 DEF SameCVs, SameOut, SameLoop, CVQ, Waiting, OutTo, Sure, Caller, Alone
  <2>2. ASSUME NEW j \in Index PROVE Owner(st1, j) = Owner(st, j) /\ LockQ(st1, j) = LockQ(st, j)
    <3> DEFINE l == st.locks.slot[j]
               l2 == st1.locks.slot[j]
    <3>1. CASE l2 = l
      BY <3>1 DEF Owner, LockQ
    <3>2. CASE l \in GoodLock /\ l2 = [l EXCEPT !.count = @ + 1]
      <4>1. l2 \in ServerLock /\ l2.state = l.state /\ l2.owner = l.owner /\ l2.q = l.q /\ l \in ServerLock
        BY <3>2 DEF GoodLock, ServerLock
      <4> HIDE DEF l, l2
      <4>2. l # NULL /\ l2 # NULL
        BY <4>1, NullAssumption
      <4> QED
        BY <4>1, <4>2 DEF Owner, LockQ, l, l2
    <3>3. CASE l = NULL /\ l2 = NewLock(a.obj)
      <4>1. l2.state = "FREE" /\ l2.q = <<>>
        BY <3>3 DEF NewLock
      <4> QED
        BY <3>3, <4>1 DEF Owner, LockQ
    <3> QED
      BY <1>4, <1>5, <3>1, <3>2, <3>3
  <2> QED
    BY <2>1, <2>2 DEF SameView, SameLocks
<1>7. Fits(st1, W, want, told)
  BY <1>6, MoveNone DEF SameView
<1> HIDE DEF st1, id
<1>8. ok \in BOOLEAN
  OBVIOUS
<1> HIDE DEF ok
<1> QED
  BY <1>1, <1>2, <1>7, <1>8, StatusAndValueLeads

\* serverDoCreateCV.
LEMMA DoCreateCVLeads ==
  ASSUME NEW st \in GoodServer, st.loop = NoLoop, NEW a \in ArgsOf("CreateCondition"), NEW c \in Clients,
         NEW W, NEW want, NEW told, Fits(st, W, want, told), NEW H, Hands(W, H), c \in H, want[c] = {}
  PROVE  Leads(W, DoCreateCV(st, a, c), H \ {c}, want, told)
<1> DEFINE r == CreateNamed(st.cvs, a.obj, NewCV(a.obj))
           st1 == [st EXCEPT !.cvs = r.table]
           id == IF r.index = -1 THEN -1 ELSE Id(st, r.index)
           ok == r.index # -1
<1>1. DoCreateCV(st, a, c) = StatusAndValue(st1, c, ok, id)
  BY DEF DoCreateCV
<1>2. st1 \in GoodServer /\ id \in Int
  <2>1. st.loop.type # "Broadcast"
    BY DEF NoLoop
  <2>2. r.table \in GoodTable(GoodCV) /\ r.index \in Index \cup {-1}
    BY CreateCVTable
  <2> HIDE DEF r
  <2> QED
    BY <2>1, <2>2, SetCVs, IdType DEF Index
<1>3. st.cvs \in GoodTable(GoodCV) /\ st.cvs.slot \in [Index -> GoodCV \cup {NULL}]
  BY DEF GoodServer, GoodTable, TableOf
<1>4. st1.cvs = r.table /\ st1.locks = st.locks /\ st1.out = st.out /\ st1.loop = st.loop
  BY DEF GoodServer
<1>5. ASSUME NEW j \in Index
      PROVE  \/ r.table.slot[j] = st.cvs.slot[j]
             \/ st.cvs.slot[j] \in GoodCV /\ r.table.slot[j] = [st.cvs.slot[j] EXCEPT !.count = @ + 1]
             \/ st.cvs.slot[j] = NULL /\ r.table.slot[j] = NewCV(a.obj)
  <2>1. NULL \notin GoodCV
    BY NullNotGood
  <2>2. PICK R : R = GoodCV
    OBVIOUS
  <2>3. PICK new : new = NewCV(a.obj)
    OBVIOUS
  <2>4. NULL \notin R /\ st.cvs \in GoodTable(R) /\ r = CreateNamed(st.cvs, a.obj, new)
    BY <1>3, <2>1, <2>2, <2>3
  <2> HIDE DEF r
  <2>5. \/ r.table.slot[j] = st.cvs.slot[j]
        \/ st.cvs.slot[j] \in R /\ r.table.slot[j] = [st.cvs.slot[j] EXCEPT !.count = @ + 1]
        \/ st.cvs.slot[j] = NULL /\ r.table.slot[j] = new
    BY <2>4, CreateNamedSlots
  <2> QED
    BY <2>2, <2>3, <2>5
<1> HIDE DEF r
<1>6. SameView(st, st1)
  <2> HIDE DEF st1
  <2>1. SameLocks(st, st1) /\ SameOut(st, st1) /\ SameLoop(st, st1)
    BY <1>4 DEF SameLocks, SameOut, SameLoop, LockQ, Owner, OutTo, Sure, Caller, Alone
  <2>2. ASSUME NEW j \in Index PROVE CVQ(st1, j) = CVQ(st, j) /\ Waiting(st1, j) = Waiting(st, j)
    <3> DEFINE x == st.cvs.slot[j]
               x2 == st1.cvs.slot[j]
    <3>1. CASE x2 = x
      BY <3>1 DEF CVQ, Waiting
    <3>2. CASE x \in GoodCV /\ x2 = [x EXCEPT !.count = @ + 1]
      <4>1. x2 \in ServerCV /\ x2.q = x.q /\ x2.waitingLock = x.waitingLock /\ x \in ServerCV
        BY <3>2 DEF GoodCV, ServerCV
      <4> HIDE DEF x, x2
      <4>2. x # NULL /\ x2 # NULL
        BY <4>1, NullAssumption
      <4> QED
        BY <4>1, <4>2 DEF CVQ, Waiting, x, x2
    <3>3. CASE x = NULL /\ x2 = NewCV(a.obj)
      <4>1. x2.waitingLock = -1 /\ x2.q = <<>>
        BY <3>3 DEF NewCV
      <4> QED
        BY <3>3, <4>1 DEF CVQ, Waiting
    <3> QED
      BY <1>4, <1>5, <3>1, <3>2, <3>3
  <2> QED
    BY <2>1, <2>2 DEF SameView, SameCVs
<1>7. Fits(st1, W, want, told)
  BY <1>6, MoveNone DEF SameView
<1> HIDE DEF st1, id
<1>8. ok \in BOOLEAN
  OBVIOUS
<1> HIDE DEF ok
<1> QED
  BY <1>1, <1>2, <1>7, <1>8, StatusAndValueLeads

\* The monitor variables are not seen.
LEMMA MVsUnseen ==
  ASSUME NEW st, NEW st2, st2.locks = st.locks, st2.cvs = st.cvs, st2.out = st.out, st2.loop = st.loop,
         NEW W, NEW want, NEW told, Fits(st, W, want, told)
  PROVE  Fits(st2, W, want, told)
<1>1. SameLocks(st, st2) /\ SameCVs(st, st2) /\ SameOut(st, st2) /\ SameLoop(st, st2)
  BY DEF SameLocks, SameCVs, SameOut, SameLoop, LockQ, Owner, CVQ, Waiting, OutTo, Sure, Caller, Alone
<1> QED
  BY <1>1, MoveNone

\* serverDoCreateMV.
LEMMA DoCreateMVLeads ==
  ASSUME NEW st \in GoodServer, NEW a \in ArgsOf("CreateMV"), NEW c \in Clients,
         NEW W, NEW want, NEW told, Fits(st, W, want, told), NEW H, Hands(W, H), c \in H, want[c] = {}
  PROVE  Leads(W, DoCreateMV(st, a, c), H \ {c}, want, told)
<1> DEFINE j == FindNamed(st.mvs, a.obj)
           r == CreateNamed(st.mvs, a.obj, NewMV(a.obj, a.index))
           st1 == [st EXCEPT !.mvs = r.table]
           id == IF r.index = -1 THEN -1 ELSE Id(st, r.index)
           ok == r.index # -1
           no == -1
           f == FALSE
<1>1. CASE j # -1 /\ st.mvs.slot[j].size # a.index
  <2>1. DoCreateMV(st, a, c) = StatusAndValue(st, c, f, no)
    BY <1>1 DEF DoCreateMV
  <2>2. no \in Int /\ f \in BOOLEAN
    OBVIOUS
  <2> HIDE DEF no, f
  <2> QED
    BY <2>1, <2>2, StatusAndValueLeads
<1>2. CASE ~(j # -1 /\ st.mvs.slot[j].size # a.index)
  <2>1. DoCreateMV(st, a, c) = StatusAndValue(st1, c, ok, id)
    BY <1>2 DEF DoCreateMV
  <2>2. st1 \in GoodServer /\ id \in Int
    <3>1. r.table \in GoodTable(GoodMV) /\ r.index \in Index \cup {-1}
      BY CreateMVTable
    <3> HIDE DEF r
    <3> QED
      BY <3>1, SetMVs, IdType DEF Index
  <2>3. st1.cvs = st.cvs /\ st1.locks = st.locks /\ st1.out = st.out /\ st1.loop = st.loop
    BY DEF GoodServer
  <2> HIDE DEF st1, id
  <2>4. Fits(st1, W, want, told)
    BY <2>3, MVsUnseen
  <2>5. ok \in BOOLEAN
    OBVIOUS
  <2> HIDE DEF ok
  <2> QED
    BY <2>1, <2>2, <2>4, <2>5, StatusAndValueLeads
<1> QED
  BY <1>1, <1>2

\* serverDoSet.
LEMMA DoSetLeads ==
  ASSUME NEW st \in GoodServer, NEW i \in Int, NEW a \in Arg, NEW c \in Clients,
         NEW W, NEW want, NEW told, Fits(st, W, want, told), NEW H, Hands(W, H), c \in H, want[c] = {}
  PROVE  Leads(W, DoSet(st, i, a, c), H \ {c}, want, told)
<1> DEFINE x == [st.mvs.slot[i] EXCEPT !.v[a.index + 1] = a.value]
           st1 == PutMV(st, i, x)
<1>1. CASE ~InMV(st, i, a.index)
  <2>1. DoSet(st, i, a, c) = Status(st, c, FALSE)
    BY <1>1 DEF DoSet
  <2>2. Leads(W, Status(st, c, FALSE), H \ {c}, want, told)
    BY FailureLeads
  <2> QED
    BY <2>1, <2>2, Zenon
<1>2. CASE InMV(st, i, a.index)
  <2>1. DoSet(st, i, a, c) = Status(st1, c, TRUE)
    BY <1>2 DEF DoSet
  <2>2. st1 \in GoodServer
    BY <1>2, SetValueGood
  <2>3. st1.cvs = st.cvs /\ st1.locks = st.locks /\ st1.out = st.out /\ st1.loop = st.loop
    BY DEF GoodServer, PutMV
  <2> HIDE DEF st1
  <2>4. Fits(st1, W, want, told)
    BY <2>3, MVsUnseen
  <2>5. Leads(W, Status(st1, c, TRUE), H \ {c}, want, told)
    BY <2>2, <2>4, SuccessLeads
  <2> QED
    BY <2>1, <2>5, Zenon
<1> QED
  BY <1>1, <1>2

\* serverDoGet.
LEMMA DoGetLeads ==
  ASSUME NEW st \in GoodServer, NEW i \in Int, NEW a \in Arg, NEW c \in Clients,
         NEW W, NEW want, NEW told, Fits(st, W, want, told), NEW H, Hands(W, H), c \in H, want[c] = {}
  PROVE  Leads(W, DoGet(st, i, a, c), H \ {c}, want, told)
<1> DEFINE ok == InMV(st, i, a.index)
           val == IF ok THEN st.mvs.slot[i].v[a.index + 1] ELSE 0
<1>1. DoGet(st, i, a, c) = StatusAndValue(st, c, ok, val)
  <2>1. CASE ok
    <3>1. ok = TRUE
      BY <2>1 DEF InMV, Exists
    <3> QED
      BY <2>1, <3>1 DEF DoGet
  <2>2. CASE ~ok
    <3>1. ok = FALSE
      BY <2>2 DEF InMV, Exists
    <3> QED
      BY <2>2, <3>1 DEF DoGet
  <2> QED
    BY <2>1, <2>2
<1>2. ok \in BOOLEAN
  BY DEF InMV, Exists
<1>3. val \in Int
  BY ValueRead
<1> HIDE DEF ok, val
<1> QED
  BY <1>1, <1>2, <1>3, StatusAndValueLeads

\* serverDoDestroyLock: a lock goes only when it is free, so that nobody waits for it.
LEMMA DoDestroyLockLeads ==
  ASSUME NEW st \in GoodServer, NEW i \in Int, NEW a, NEW c \in Clients,
         NEW W, NEW want, NEW told, Fits(st, W, want, told), NEW H, Hands(W, H)
  PROVE  Leads(W, DoDestroyLock(st, i, a, c), H, want, told)
<1> DEFINE l == st.locks.slot[i]
           x == [l EXCEPT !.isToBeDestroyed = TRUE, !.count = @ - 1]
           st1 == PutLock(st, i, x)
           st2 == CheckLockAndDestroy(st1, i)
<1>1. CASE ~Exists(st.locks, i)
  BY <1>1, StaysPut DEF DoDestroyLock
<1>2. CASE Exists(st.locks, i)
  <2>1. DoDestroyLock(st, i, a, c) = st2
    BY <1>2 DEF DoDestroyLock
  <2>2. i \in Index /\ l # NULL /\ l \in GoodLock
    BY <1>2, ExistsEntry DEF GoodServer
  <2>3. x \in GoodLock /\ x.name = l.name /\ x.state = l.state /\ x.owner = l.owner /\ x.q = l.q
    BY <2>2, DestroyedLock
  <2>4. Owner(st, i) = (IF l.state = "BUSY" THEN l.owner ELSE NoClient) /\ LockQ(st, i) = l.q
    BY <2>2 DEF Owner, LockQ
  <2>5. st1.locks.slot[i] = x
    BY <2>2 DEF PutLock, GoodServer, GoodTable, TableOf
  <2> HIDE DEF x
  <2>6. st1 \in GoodServer
    BY <2>2, <2>3, PutLockGood
  <2>7. /\ SameCVs(st, st1) /\ SameOut(st, st1) /\ SameLoop(st, st1)
        /\ \A j \in Index \ {i} : Owner(st1, j) = Owner(st, j) /\ LockQ(st1, j) = LockQ(st, j)
        /\ Owner(st1, i) = IF x.state = "BUSY" THEN x.owner ELSE NoClient
        /\ LockQ(st1, i) = x.q
    BY <2>2, <2>3, PutLockSeen
  <2> HIDE DEF st1, l
  <2>8. Fits(st1, W, want, told)
    BY <2>2, <2>3, <2>4, <2>7, MoveNone DEF SameLocks
  <2>9. st1.locks.slot[i] # NULL
    BY <2>3, <2>5, NullNotGood
  <2>10. SameLocks(st1, st2) /\ SameCVs(st1, st2) /\ SameOut(st1, st2) /\ SameLoop(st1, st2)
    BY <2>2, <2>6, <2>9, CheckLockAndDestroySeen
  <2> HIDE DEF st2
  <2>11. Fits(st2, W, want, told)
    BY <2>8, <2>10, MoveNone
  <2> QED
    BY <2>1, <2>11, StaysPut
<1> QED
  BY <1>1, <1>2

\* serverDoDestroyCV: a condition variable goes only when nobody waits on it.
LEMMA DoDestroyCVLeads ==
  ASSUME NEW st \in GoodServer, NEW i \in Int, NEW a, NEW c \in Clients,
         NEW W, NEW want, NEW told, Fits(st, W, want, told), NEW H, Hands(W, H)
  PROVE  Leads(W, DoDestroyCV(st, i, a, c), H, want, told)
<1> DEFINE cv == st.cvs.slot[i]
<1>1. CASE ~Exists(st.cvs, i)
  BY <1>1, StaysPut DEF DoDestroyCV
<1>2. CASE Exists(st.cvs, i)
  <2>1. i \in Index /\ cv # NULL /\ cv \in GoodCV
    BY <1>2, ExistsEntry DEF GoodServer
  <2>2. CASE cv.q = <<>> /\ cv.count = 1
    <3> DEFINE st2 == [st EXCEPT !.cvs = Remove(@, i)]
    <3>1. DoDestroyCV(st, i, a, c) = st2
      BY <1>2, <2>2 DEF DoDestroyCV
    <3>2. /\ st2.locks = st.locks /\ st2.out = st.out /\ st2.loop = st.loop
          /\ st2.cvs.slot = [st.cvs.slot EXCEPT ![i] = NULL] /\ DOMAIN st.cvs.slot = Index
      BY <2>1 DEF GoodServer, GoodTable, TableOf, Remove
    <3>3. cv.waitingLock = -1
      BY <2>1, <2>2 DEF GoodCV
    <3> HIDE DEF st2
    <3>4. SameLocks(st, st2) /\ SameOut(st, st2) /\ SameLoop(st, st2)
      BY <3>2 DEF SameLocks, SameOut, SameLoop, LockQ, Owner, OutTo, Sure, Caller, Alone
    <3>5. SameCVs(st, st2)
      BY <2>1, <2>2, <3>2, <3>3 DEF SameCVs, CVQ, Waiting
    <3> QED
      BY <3>1, <3>4, <3>5, MoveNone, StaysPut
  <2>3. CASE ~(cv.q = <<>> /\ cv.count = 1)
    <3> DEFINE x == [cv EXCEPT !.count = @ - 1]
               st2 == PutCV(st, i, x)
    <3>1. DoDestroyCV(st, i, a, c) = st2
      BY <1>2, <2>3 DEF DoDestroyCV
    <3>2. x \in GoodCV /\ x.q = cv.q /\ x.waitingLock = cv.waitingLock
      BY <2>1 DEF GoodCV, ServerCV
    <3>3. CVQ(st, i) = cv.q /\ Waiting(st, i) = cv.waitingLock
      BY <2>1 DEF CVQ, Waiting
    <3> HIDE DEF x, st2
    <3>4. /\ SameLocks(st, st2) /\ SameOut(st, st2) /\ SameLoop(st, st2)
          /\ \A j \in Index \ {i} : CVQ(st2, j) = CVQ(st, j)
          /\ \A j \in Index \ {i} : Waiting(st2, j) = Waiting(st, j)
          /\ CVQ(st2, i) = x.q /\ Waiting(st2, i) = x.waitingLock
      BY <2>1, <3>2, PutCVSeen DEF st2
    <3>5. SameCVs(st, st2)
      BY <2>1, <3>2, <3>3, <3>4 DEF SameCVs
    <3> QED
      BY <3>1, <3>4, <3>5, MoveNone, StaysPut
  <2> QED
    BY <2>2, <2>3
<1> QED
  BY <1>1, <1>2

\* serverDoDestroyMV.
LEMMA DoDestroyMVLeads ==
  ASSUME NEW st \in GoodServer, NEW i \in Int, NEW a, NEW c \in Clients,
         NEW W, NEW want, NEW told, Fits(st, W, want, told), NEW H, Hands(W, H)
  PROVE  Leads(W, DoDestroyMV(st, i, a, c), H, want, told)
<1> DEFINE st2 == DoDestroyMV(st, i, a, c)
<1>1. st2.cvs = st.cvs /\ st2.locks = st.locks /\ st2.out = st.out /\ st2.loop = st.loop
  BY DEF DoDestroyMV, PutMV, GoodServer
<1> HIDE DEF st2
<1>2. Fits(st2, W, want, told)
  BY <1>1, MVsUnseen
<1> QED
  BY <1>2, StaysPut DEF st2
-------------------------------------------------------------------------------
(***************************************************************************)
(* Handlers.                                                               *)
(***************************************************************************)

\* A message about an id is handled here, by a lone server;
LEMMA ByIdAlone ==
  ASSUME OneServer, NEW st \in GoodServer, NEW m, m.kind = "call", NEW W, NEW want, NEW told,
         Fits(st, W, want, told)
  PROVE  \E st1 \in GoodServer : /\ ById(st, m) = Here(st1, IndexOf(m.arg.obj))
                                 /\ Fits(st1, W, want, told) /\ st1.loop = st.loop
<1>1. ById(st, m) = RouteById(st, m.type, m.arg, m.client)
  BY DEF ById
<1> QED
  BY <1>1, RouteAlone

\* and so is a creation.
LEMMA ByNameAlone ==
  ASSUME OneServer, NEW st \in GoodServer, NEW m, m.kind = "call", NEW t, NEW W, NEW want, NEW told,
         Fits(st, W, want, told)
  PROVE  \E st1 \in GoodServer : /\ ByName(st, m, t) = Here(st1, -1)
                                 /\ Fits(st1, W, want, told) /\ st1.loop = st.loop
<1>1. ByName(st, m, t) = RouteCreate(st, m, t)
  BY DEF ByName
<1>2. Peers(st) = {}
  BY SoleId
<1>3. CASE FindNamed(t, m.arg.obj) # -1
  <2>1. RouteCreate(st, m, t) = Here(st, -1)
    BY <1>3 DEF RouteCreate
  <2> QED
    BY <1>1, <2>1
<1>4. CASE FindNamed(t, m.arg.obj) = -1
  <2>1. RouteCreate(st, m, t) = Here(Unsent(st), -1)
    BY <1>2, <1>4 DEF RouteCreate
  <2>2. Fits(Unsent(st), W, want, told)
    BY UnsentSeen, MoveNone DEF SameView
  <2> QED
    BY <1>1, <2>1, <2>2, UnsentGood
<1> QED
  BY <1>3, <1>4

\* A call that awaits a result, once it is in hand, leads to one or to a promise of one.
LEMMA TwoWayHandled ==
  ASSUME OneServer, NEW st \in GoodServer, st.loop = NoLoop, NEW m \in ServerMail, m.kind = "call",
         TwoWay(m), NEW W, NEW want, NEW told, Fits(st, W, want, told), Hands(W, {m.client}),
         told[m.client] \subseteq Int, MailFits(m, want, told)
  PROVE  /\ m.type = "Acquire" => Leads(W, HandleById(st, m, DoAcquireLock), {}, want, told)
         /\ m.type = "Wait" => Leads(W, HandleById(st, m, DoWait), {}, want, told)
         /\ m.type = "Signal" => Leads(W, HandleById(st, m, DoSignal), {}, want, told)
         /\ m.type = "Broadcast" => Leads(W, HandleById(st, m, DoBroadcast), {}, want, told)
         /\ m.type = "Set" => Leads(W, HandleById(st, m, DoSet), {}, want, told)
         /\ m.type = "Get" => Leads(W, HandleById(st, m, DoGet), {}, want, told)
         /\ m.type = "CreateLock" => Leads(W, HandleCreate(st, m, st.locks, DoCreateLock), {}, want, told)
         /\ m.type = "CreateCondition" => Leads(W, HandleCreate(st, m, st.cvs, DoCreateCV), {}, want, told)
         /\ m.type = "CreateMV" => Leads(W, HandleCreate(st, m, st.mvs, DoCreateMV), {}, want, told)
<1> DEFINE c == m.client
           a == m.arg
           i == IndexOf(a.obj)
           H == {c}
<1>1. c \in Clients /\ a \in ArgsOf(m.type) /\ a \in Arg
  BY MailKinds DEF ArgsOf
<1>2. c \in H /\ H \ {c} = {} /\ Hands(W, H)
  OBVIOUS
<1>3. m.type \notin Creates => i \in Int
  BY <1>1, IndexOfType DEF ArgsOf, ArgOK
<1>4. want[c] \subseteq Asked(m)
  BY DEF MailFits
<1>5. m.type \notin {"Acquire", "Wait"} => want[c] = {}
  BY <1>4 DEF Asked
<1>6. PICK st1 \in GoodServer : /\ ById(st, m) = Here(st1, i)
                                /\ Fits(st1, W, want, told) /\ st1.loop = st.loop
  BY ByIdAlone
<1>7. /\ HandleById(st, m, DoAcquireLock) = DoAcquireLock(st1, i, a, c)
      /\ HandleById(st, m, DoWait) = DoWait(st1, i, a, c)
      /\ HandleById(st, m, DoSignal) = DoSignal(st1, i, a, c)
      /\ HandleById(st, m, DoBroadcast) = DoBroadcast(st1, i, a, c)
      /\ HandleById(st, m, DoSet) = DoSet(st1, i, a, c)
      /\ HandleById(st, m, DoGet) = DoGet(st1, i, a, c)
  BY <1>6 DEF HandleById, Here
<1>8. ASSUME NEW t
      PROVE  \E st2 \in GoodServer : /\ ByName(st, m, t) = Here(st2, -1)
                                     /\ Fits(st2, W, want, told) /\ st2.loop = NoLoop
  BY ByNameAlone
<1>9. m.type = "Acquire" => \A id \in want[c] : IndexOf(id) = i
  BY <1>4 DEF Asked
<1>10. m.type = "Wait" => want[c] \subseteq {a.lock} /\ a.lock \notin told[c]
  BY <1>4 DEF Asked, MailFits
<1>11. told[c] \subseteq Int
  OBVIOUS
<1> HIDE DEF c, a, i, H
<1>12. CASE m.type = "Acquire"
  <2>1. Leads(W, DoAcquireLock(st1, i, a, c), H \ {c}, want, told)
    BY <1>1, <1>2, <1>3, <1>6, <1>9, <1>12, DoAcquireLockLeads DEF Creates
  <2> QED
    BY <1>2, <1>7, <1>12, <2>1
<1>13. CASE m.type = "Wait"
  <2>1. Leads(W, DoWait(st1, i, a, c), H \ {c}, want, told)
    BY <1>1, <1>2, <1>3, <1>6, <1>10, <1>11, <1>13, DoWaitLeads DEF Creates
  <2> QED
    BY <1>2, <1>7, <1>13, <2>1
<1>14. CASE m.type = "Signal"
  <2>1. Leads(W, DoSignal(st1, i, a, c), H \ {c}, want, told)
    BY <1>1, <1>2, <1>3, <1>5, <1>6, <1>14, DoSignalLeads DEF Creates
  <2> QED
    BY <1>2, <1>7, <1>14, <2>1
<1>15. CASE m.type = "Broadcast"
  <2>1. Leads(W, DoBroadcast(st1, i, a, c), H \ {c}, want, told)
    BY <1>1, <1>2, <1>3, <1>5, <1>6, <1>15, DoBroadcastLeads DEF Creates
  <2> QED
    BY <1>2, <1>7, <1>15, <2>1
<1>16. CASE m.type = "Set"
  <2>1. Leads(W, DoSet(st1, i, a, c), H \ {c}, want, told)
    BY <1>1, <1>2, <1>3, <1>5, <1>6, <1>16, DoSetLeads DEF Creates
  <2> QED
    BY <1>2, <1>7, <1>16, <2>1
<1>17. CASE m.type = "Get"
  <2>1. Leads(W, DoGet(st1, i, a, c), H \ {c}, want, told)
    BY <1>1, <1>2, <1>3, <1>5, <1>6, <1>17, DoGetLeads DEF Creates
  <2> QED
    BY <1>2, <1>7, <1>17, <2>1
<1>18. CASE m.type = "CreateLock"
  <2>1. PICK st2 \in GoodServer : /\ ByName(st, m, st.locks) = Here(st2, -1)
                                  /\ Fits(st2, W, want, told) /\ st2.loop = NoLoop
    BY <1>8
  <2>2. HandleCreate(st, m, st.locks, DoCreateLock) = DoCreateLock(st2, a, c)
    BY <2>1 DEF HandleCreate, Here, a, c
  <2>3. Leads(W, DoCreateLock(st2, a, c), H \ {c}, want, told)
    BY <1>1, <1>2, <1>5, <1>18, <2>1, DoCreateLockLeads
  <2> QED
    BY <1>2, <1>18, <2>2, <2>3
<1>19. CASE m.type = "CreateCondition"
  <2>1. PICK st2 \in GoodServer : /\ ByName(st, m, st.cvs) = Here(st2, -1)
                                  /\ Fits(st2, W, want, told) /\ st2.loop = NoLoop
    BY <1>8
  <2>2. HandleCreate(st, m, st.cvs, DoCreateCV) = DoCreateCV(st2, a, c)
    BY <2>1 DEF HandleCreate, Here, a, c
  <2>3. Leads(W, DoCreateCV(st2, a, c), H \ {c}, want, told)
    BY <1>1, <1>2, <1>5, <1>19, <2>1, DoCreateCVLeads
  <2> QED
    BY <1>2, <1>19, <2>2, <2>3
<1>20. CASE m.type = "CreateMV"
  <2>1. PICK st2 \in GoodServer : /\ ByName(st, m, st.mvs) = Here(st2, -1)
                                  /\ Fits(st2, W, want, told) /\ st2.loop = NoLoop
    BY <1>8
  <2>2. HandleCreate(st, m, st.mvs, DoCreateMV) = DoCreateMV(st2, a, c)
    BY <2>1 DEF HandleCreate, Here, a, c
  <2>3. Leads(W, DoCreateMV(st2, a, c), H \ {c}, want, told)
    BY <1>1, <1>2, <1>5, <1>20, <2>1, DoCreateMVLeads
  <2> QED
    BY <1>2, <1>20, <2>2, <2>3
<1> QED
  BY <1>12, <1>13, <1>14, <1>15, <1>16, <1>17, <1>18, <1>19, <1>20

\* A release or a destroy leads to the result of a waiter, or to none.
LEMMA OneWayHandled ==
  ASSUME OneServer, NEW st \in GoodServer, NEW m \in ServerMail, m.kind = "call",
         NEW W, NEW want, NEW told, Fits(st, W, want, told), Hands(W, {}), W[m.client] # Out,
         told[m.client] \subseteq Int, MailFits(m, want, told)
  PROVE  /\ m.type = "Release" => Leads(W, HandleById(st, m, DoReleaseLock), {}, want, told)
         /\ m.type = "DestroyLock" => Leads(W, HandleById(st, m, DoDestroyLock), {}, want, told)
         /\ m.type = "DestroyCondition" => Leads(W, HandleById(st, m, DoDestroyCV), {}, want, told)
         /\ m.type = "DestroyMV" => Leads(W, HandleById(st, m, DoDestroyMV), {}, want, told)
<1> DEFINE c == m.client
           a == m.arg
           i == IndexOf(a.obj)
           H == {}
<1>1. c \in Clients /\ a \in ArgsOf(m.type) /\ W[c] # Out /\ Hands(W, H) /\ H = {}
  BY MailKinds
<1>2. m.type \notin Creates => i \in Int /\ a.obj \in Nat
  BY <1>1, IndexOfType DEF ArgsOf, ArgOK
<1>3. PICK st1 \in GoodServer : /\ ById(st, m) = Here(st1, i)
                                /\ Fits(st1, W, want, told) /\ st1.loop = st.loop
  BY ByIdAlone
<1>4. /\ HandleById(st, m, DoReleaseLock) = DoReleaseLock(st1, i, a, c)
      /\ HandleById(st, m, DoDestroyLock) = DoDestroyLock(st1, i, a, c)
      /\ HandleById(st, m, DoDestroyCV) = DoDestroyCV(st1, i, a, c)
      /\ HandleById(st, m, DoDestroyMV) = DoDestroyMV(st1, i, a, c)
  BY <1>3 DEF HandleById, Here
<1>5. m.type = "Release" => told[c] \subseteq Int /\ a.obj \notin told[c]
  BY DEF MailFits
<1> HIDE DEF H
<1>6. CASE m.type = "Release"
  <2>1. a.obj \in Int /\ i \in Int
    BY <1>2, <1>6 DEF Creates
  <2> HIDE DEF c, a
  <2>2. \A id \in told[c] : IndexOf(id) # i
    BY <1>1, <1>3, <1>5, <1>6, <2>1, NotTold
  <2> HIDE DEF i
  <2>3. Leads(W, DoReleaseLock(st1, i, a, c), H, want, told)
    BY <1>1, <1>3, <2>1, <2>2, DoReleaseLockLeads
  <2> QED
    BY <1>1, <1>4, <1>6, <2>3
<1> HIDE DEF c, a, i
<1>7. CASE m.type = "DestroyLock"
  <2>1. Leads(W, DoDestroyLock(st1, i, a, c), H, want, told)
    BY <1>1, <1>2, <1>3, <1>7, DoDestroyLockLeads DEF Creates
  <2> QED
    BY <1>1, <1>4, <1>7, <2>1
<1>8. CASE m.type = "DestroyCondition"
  <2>1. Leads(W, DoDestroyCV(st1, i, a, c), H, want, told)
    BY <1>1, <1>2, <1>3, <1>8, DoDestroyCVLeads DEF Creates
  <2> QED
    BY <1>1, <1>4, <1>8, <2>1
<1>9. CASE m.type = "DestroyMV"
  <2>1. Leads(W, DoDestroyMV(st1, i, a, c), H, want, told)
    BY <1>1, <1>2, <1>3, <1>9, DoDestroyMVLeads DEF Creates
  <2> QED
    BY <1>1, <1>4, <1>9, <2>1
<1> QED
  BY <1>6, <1>7, <1>8, <1>9
-------------------------------------------------------------------------------
(***************************************************************************)
(* The calls outside the server.                                           *)
(***************************************************************************)

\* A client outside the server, or in hand, moves outside it; what it wants and has been
\* told may change, if it owns what it has been told.
LEMMA MoveOutside ==
  ASSUME NEW st, NEW W, NEW want, NEW told, Fits(st, W, want, told), Seen(st),
         NEW c \in Clients, NEW p, W[c] \in Outer \cup {Hand}, p \in Outer \cup {Hand},
         NEW want2, NEW told2,
         \A d \in Clients \ {c} : want2[d] = want[d] /\ told2[d] = told[d],
         \A id \in told2[c] : Owns(st, c, id)
  PROVE  Fits(st, [W EXCEPT ![c] = p], want2, told2)
<1> DEFINE W2 == [W EXCEPT ![c] = p]
<1>0. Sure(st) \subseteq Clients
  BY DEF Seen
<1>1. p \in Place /\ W \in [Clients -> Place]
  BY PlaceMembers, OuterPlaces DEF Fits, Located
<1>2. W2 \in [Clients -> Place] /\ \A d \in Clients : W2[d] = IF d = c THEN p ELSE W[d]
  BY <1>1
<1>3. /\ W[c] # Out /\ p # Out /\ W[c] # InLoop /\ p # InLoop
      /\ \A i : W[c] # AtLock(i) /\ p # AtLock(i) /\ W[c] # AtCV(i) /\ p # AtCV(i)
  BY PlacesDiffer, OuterPlaces
<1>4. /\ Queue(OutTo(st), W2, Out)
      /\ \A i \in Index : Queue(LockQ(st, i), W2, AtLock(i)) /\ Queue(CVQ(st, i), W2, AtCV(i))
  BY <1>1, <1>3, QueuesOther DEF Fits
<1> HIDE DEF W2
<1>5. Located(st, W2)
  <2>1. \A d \in Clients : W2[d] = InLoop <=> Caller(st) = d
    BY <1>2, <1>3 DEF Fits, Located
  <2>2. \A d \in Sure(st) : W2[d] = Out
    BY <1>0, <1>2, <1>3 DEF Fits, Located
  <2>3. \A i \in Index : \A d \in Clients : Owner(st, i) = d => W2[d] # AtLock(i)
    BY <1>2, <1>3 DEF Fits, Located
  <2> QED
    BY <1>2, <1>4, <2>1, <2>2, <2>3 DEF Located
<1>6. Held(st, W2, want2, told2)
  <2>1. \A d \in Clients : \A id \in told2[d] : Owns(st, d, id)
    BY DEF Fits, Held
  <2>2. \A d \in Clients \ {c} : W2[d] = W[d] /\ want2[d] = want[d]
    BY <1>2
  <2>3. W2[c] = p
    BY <1>2
  <2>4. c \notin Sure(st)
    BY <1>3 DEF Fits, Located
  <2>5. ASSUME NEW d \in Clients, NEW i \in Index, W2[d] = AtLock(i) PROVE \A id \in want2[d] : IndexOf(id) = i
    BY <1>3, <2>2, <2>3, <2>5 DEF Fits, Held
  <2>6. ASSUME NEW d \in Clients, NEW i \in Index, W2[d] = AtCV(i) PROVE \A id \in want2[d] : Waiting(st, i) = id
    BY <1>3, <2>2, <2>3, <2>6 DEF Fits, Held
  <2>7. ASSUME NEW d \in Clients, W2[d] = InLoop PROVE want2[d] = {}
    BY <1>3, <2>2, <2>3, <2>7 DEF Fits, Held
  <2>8. ASSUME NEW d \in Sure(st) PROVE \A id \in want2[d] : Owns(st, d, id)
    <3>1. W[d] = Out /\ d # c
      BY <1>3, <2>4 DEF Fits, Located
    <3> QED
      BY <1>0, <2>2, <3>1 DEF Fits, Held
  <2> QED
    BY <2>1, <2>5, <2>6, <2>7, <2>8 DEF Held
<1> QED
  BY <1>5, <1>6 DEF Fits, W2

\* The mailbox is as W2 says when W2 agrees with W on the clients that are idle or in it.
LEMMA MailKept ==
  ASSUME NEW q \in Seq(ServerMail), NEW W, MailAt(q, W), NEW W2,
         \A c \in Clients : W[c] = Mailed <=> W2[c] = Mailed,
         \A c \in Clients : W[c] = Idle => W2[c] = Idle
  PROVE  MailAt(q, W2)
<1>1. \A j \in DOMAIN q : q[j].client \in Clients
  <2>1. \A j \in DOMAIN q : q[j] \in ServerMail
    OBVIOUS
  <2> QED
    BY <2>1, MailKinds
<1> QED
  BY <1>1 DEF MailAt

\* A message is read: a call that awaits a result is in hand, and its client has no other.
LEMMA MailRead ==
  ASSUME NEW q \in Seq(ServerMail), q # <<>>, NEW W \in [Clients -> Place], MailAt(q, W),
         NEW m, m = Head(q), NEW W1, NEW W2, Inside(W1, W2),
         W1 = IF TwoWay(m) THEN [W EXCEPT ![m.client] = Hand] ELSE W
  PROVE  MailAt(Tail(q), W2)
<1> DEFINE q2 == Tail(q)
           n == Len(q)
           c == m.client
<1>1. /\ n \in Nat \ {0} /\ DOMAIN q = 1 .. n /\ m = q[1]
      /\ DOMAIN q2 = 1 .. n - 1 /\ \A j \in 1 .. n - 1 : q2[j] = q[j + 1]
  OBVIOUS
<1>2. \A j \in 1 .. n : q[j].client \in Clients
  <2>1. \A j \in 1 .. n : q[j] \in ServerMail
    OBVIOUS
  <2> QED
    BY <2>1, MailKinds
<1> HIDE DEF q2, n
<1>3. \A d \in Clients : W1[d] = IF TwoWay(m) /\ d = c THEN Hand ELSE W[d]
  BY <1>1, <1>2
<1>4. \A d \in Clients : /\ W2[d] = Mailed <=> W1[d] = Mailed
                         /\ W2[d] = Idle <=> W1[d] = Idle
  BY OuterPlaces DEF Inside
<1>5. ASSUME TwoWay(m), NEW k \in 2 .. n PROVE q[k].client # c
  <2>1. 1 \in DOMAIN q /\ k \in DOMAIN q /\ ~(k <= 1)
    BY <1>1
  <2> QED
    BY <1>1, <1>5, <2>1 DEF MailAt
<1>6. ASSUME NEW d \in Clients
      PROVE  W2[d] = Mailed <=> \E j \in DOMAIN q2 : TwoWay(q2[j]) /\ q2[j].client = d
  <2>1. (\E j \in 1 .. n - 1 : TwoWay(q2[j]) /\ q2[j].client = d)
          <=> \E k \in 2 .. n : TwoWay(q[k]) /\ q[k].client = d
    <3>1. ASSUME NEW k \in 2 .. n, TwoWay(q[k]), q[k].client = d
          PROVE  \E j \in 1 .. n - 1 : TwoWay(q2[j]) /\ q2[j].client = d
      <4>1. k - 1 \in 1 .. n - 1 /\ q2[k - 1] = q[k]
        BY <1>1
      <4> QED
        BY <3>1, <4>1
    <3>2. ASSUME NEW j \in 1 .. n - 1, TwoWay(q2[j]), q2[j].client = d
          PROVE  \E k \in 2 .. n : TwoWay(q[k]) /\ q[k].client = d
      <4>1. j + 1 \in 2 .. n /\ q2[j] = q[j + 1]
        BY <1>1
      <4> QED
        BY <3>2, <4>1
    <3> QED
      BY <3>1, <3>2
  <2>2. W[d] = Mailed <=> \E k \in 1 .. n : TwoWay(q[k]) /\ q[k].client = d
    BY <1>1 DEF MailAt
  <2>3. CASE TwoWay(m) /\ d = c
    <3>1. W2[d] # Mailed
      BY <1>3, <1>4, <2>3, PlacesDiffer
    <3>2. ~ \E k \in 2 .. n : TwoWay(q[k]) /\ q[k].client = d
      BY <1>5, <2>3
    <3> QED
      BY <1>1, <2>1, <3>1, <3>2
  <2>4. CASE ~(TwoWay(m) /\ d = c)
    <3>1. W2[d] = Mailed <=> W[d] = Mailed
      BY <1>3, <1>4, <2>4
    <3>2. ~(TwoWay(q[1]) /\ q[1].client = d)
      BY <1>1, <2>4
    <3>3. (\E k \in 1 .. n : TwoWay(q[k]) /\ q[k].client = d)
            <=> \E k \in 2 .. n : TwoWay(q[k]) /\ q[k].client = d
      <4>1. \A k \in 1 .. n : k = 1 \/ k \in 2 .. n
        BY <1>1
      <4>2. \A k \in 2 .. n : k \in 1 .. n
        BY <1>1
      <4> QED
        BY <3>2, <4>1, <4>2
    <3> QED
      BY <1>1, <2>1, <2>2, <3>1, <3>3
  <2> QED
    BY <2>3, <2>4
<1>7. ASSUME NEW j \in DOMAIN q2
      PROVE  q2[j].kind = "call" /\ W2[q2[j].client] \in {Idle, Mailed}
  <2>1. j + 1 \in 2 .. n /\ j + 1 \in 1 .. n /\ q2[j] = q[j + 1]
    BY <1>1
  <2>2. q[j + 1].kind = "call" /\ W[q[j + 1].client] \in {Idle, Mailed} /\ q[j + 1].client \in Clients
    BY <1>1, <1>2, <2>1 DEF MailAt
  <2>3. ~(TwoWay(m) /\ q[j + 1].client = c)
    BY <1>5, <2>1
  <2> QED
    BY <1>3, <1>4, <2>1, <2>2, <2>3
<1>8. ASSUME NEW j \in DOMAIN q2, NEW k \in DOMAIN q2, TwoWay(q2[j]), q2[k].client = q2[j].client
      PROVE  k <= j
  <2>1. /\ j + 1 \in DOMAIN q /\ q2[j] = q[j + 1] /\ k + 1 \in DOMAIN q /\ q2[k] = q[k + 1]
        /\ j \in Int /\ k \in Int
    BY <1>1
  <2>2. k + 1 <= j + 1
    BY <1>8, <2>1 DEF MailAt
  <2> QED
    BY <2>1, <2>2
<1> QED
  BY <1>6, <1>7, <1>8 DEF MailAt, q2

\* A message of a client that is in no call is sent.
LEMMA MailSent ==
  ASSUME NEW q \in Seq(ServerMail), NEW W \in [Clients -> Place], MailAt(q, W),
         NEW m \in ServerMail, m.kind = "call", W[m.client] = Idle, NEW W2,
         W2 = [W EXCEPT ![m.client] = IF TwoWay(m) THEN Mailed ELSE Idle]
  PROVE  MailAt(Append(q, m), W2)
<1> DEFINE q2 == Append(q, m)
           n == Len(q)
           c == m.client
<1>1. /\ n \in Nat /\ DOMAIN q = 1 .. n /\ DOMAIN q2 = 1 .. n + 1
      /\ q2[n + 1] = m /\ \A j \in 1 .. n : q2[j] = q[j]
  OBVIOUS
<1>2. c \in Clients /\ \A j \in 1 .. n : q[j].client \in Clients
  <2>1. \A j \in 1 .. n : q[j] \in ServerMail
    OBVIOUS
  <2> QED
    BY <2>1, MailKinds
<1> HIDE DEF q2, n
<1>3. \A d \in Clients : W2[d] = IF d = c THEN (IF TwoWay(m) THEN Mailed ELSE Idle) ELSE W[d]
  BY <1>2
<1>4. \A j \in 1 .. n : TwoWay(q[j]) => q[j].client # c
  BY <1>1, <1>2, PlacesDiffer DEF MailAt
<1>5. \A j \in 1 .. n + 1 : j = n + 1 \/ j \in 1 .. n
  BY <1>1
<1>6. n + 1 \in 1 .. n + 1 /\ \A j \in 1 .. n : j \in 1 .. n + 1
  BY <1>1
<1>7. ASSUME NEW d \in Clients
      PROVE  W2[d] = Mailed <=> \E j \in 1 .. n + 1 : TwoWay(q2[j]) /\ q2[j].client = d
  <2>1. W[d] = Mailed <=> \E j \in 1 .. n : TwoWay(q[j]) /\ q[j].client = d
    BY <1>1 DEF MailAt
  <2>2. (\E j \in 1 .. n + 1 : TwoWay(q2[j]) /\ q2[j].client = d)
          <=> (TwoWay(m) /\ d = c) \/ \E j \in 1 .. n : TwoWay(q[j]) /\ q[j].client = d
    BY <1>1, <1>5, <1>6
  <2> QED
    BY <1>3, <2>1, <2>2, PlacesDiffer
<1>8. ASSUME NEW j \in 1 .. n + 1
      PROVE  q2[j].kind = "call" /\ W2[q2[j].client] \in {Idle, Mailed}
  <2>1. CASE j = n + 1
    BY <1>1, <1>2, <1>3, <2>1
  <2>2. CASE j \in 1 .. n
    BY <1>1, <1>2, <1>3, <2>2 DEF MailAt
  <2> QED
    BY <1>5, <2>1, <2>2
<1>9. ASSUME NEW j \in 1 .. n + 1, NEW k \in 1 .. n + 1, TwoWay(q2[j]), q2[k].client = q2[j].client
      PROVE  k <= j
  <2>1. CASE j = n + 1
    BY <1>1, <2>1
  <2>2. CASE j \in 1 .. n
    <3>1. k # n + 1
      BY <1>1, <1>4, <1>9, <2>2
    <3>2. k \in 1 .. n
      BY <1>5, <3>1
    <3> QED
      BY <1>1, <1>9, <2>2, <3>2 DEF MailAt
  <2> QED
    BY <1>5, <2>1, <2>2
<1> QED
  BY <1>1, <1>7, <1>8, <1>9 DEF MailAt, q2
-------------------------------------------------------------------------------
(***************************************************************************)
(* Steps: after each the calls can be placed again.                        *)
(***************************************************************************)

\* A lone server is the sole one.
LEMMA SoleServer ==
  ASSUME OneServer
  PROVE  Sole \in Servers /\ \A s \in Servers : s = Sole
BY DEF OneServer, Sole

\* The locks a client has been told it has are integers.
LEMMA ToldType ==
  ASSUME IInv, NEW b \in BOOLEAN, NEW c \in Clients
  PROVE  Told(b, c) \subseteq Int
<1>1. holds[c] \subseteq Int
  BY DEF IInv, TypeOK
<1>2. Wants(b, c) \subseteq Int
  <2>1. CASE call[c] = NoCall
    BY <2>1 DEF Wants
  <2>2. CASE call[c] # NoCall
    <3>1. call[c].obj \in Names /\ call[c].lock \in Names
      BY <2>2 DEF IInv, TypeOK, CallSet
    <3>2. LockOf(c, call[c]) \in Int
      BY <3>1 DEF IInv, TypeOK, LockOf
    <3> QED
      BY <3>2 DEF Wants
  <2> QED
    BY <2>1, <2>2
<1> QED
  BY <1>1, <1>2 DEF Told

\* What clients want and have been told depends on them and their mailboxes only.
LEMMA SameClients ==
  ASSUME NEW b, UNCHANGED <<inbox, call, handle, holds>>
  PROVE  Want(b)' = Want(b) /\ Have(b)' = Have(b)
BY DEF Want, Have, Wants, Told, LockOf

\* The message a server reads, and the calls with it in hand.
LEMMA InHand ==
  ASSUME OneServer, IInv, NEW b \in BOOLEAN, NEW W, Placed(b, W), NEW s \in Servers, NEW type, NEW st,
         Receive(s, type, st), NEW W1,
         W1 = IF TwoWay(M(s)) THEN [W EXCEPT ![M(s).client] = Hand] ELSE W
  PROVE  /\ srv[s] \in GoodServer /\ srv[s].loop = NoLoop
         /\ M(s) \in ServerMail /\ M(s).kind = "call" /\ M(s).type = type
         /\ MailFits(M(s), Want(b), Have(b)) /\ Have(b)[M(s).client] \subseteq Int
         /\ Fits(srv[s], W1, Want(b), Have(b))
         /\ TwoWay(M(s)) => Hands(W1, {M(s).client})
         /\ ~TwoWay(M(s)) => Hands(W1, {}) /\ W1[M(s).client] # Out
<1> DEFINE m == M(s)
           c == m.client
           want == Want(b)
           told == Have(b)
<1>1. srv[s] \in GoodServer /\ srv[s].loop = NoLoop /\ m \in ServerMail /\ m.type = type
  BY Received
<1>2. s = Sole /\ Mail # <<>> /\ Mail \in Seq(ServerMail) /\ m = Head(Mail)
  BY SoleServer DEF Receive, IInv, TypeOK, Mail, M
<1>3. 1 \in DOMAIN Mail /\ m = Mail[1]
  BY <1>2
<1>4. c \in Clients
  BY <1>1, MailKinds
<1>5. m.kind = "call" /\ W[c] \in {Idle, Mailed} /\ MailFits(m, want, told)
  BY <1>3 DEF Placed, Outside, MailAt
<1>6. told[c] = Told(b, c)
  BY <1>4 DEF Have
<1>7. told[c] \subseteq Int
  BY <1>4, <1>6, ToldType
<1>8. Fits(srv[s], W, want, told) /\ W \in [Clients -> Place] /\ Hands(W, {})
  BY <1>2 DEF Placed, Outside, Hands, Fits, Located
<1>9. W[c] \in Outer \cup {Hand} /\ Hand \in Outer \cup {Hand} /\ W[c] # Out
  BY <1>5, OuterPlaces, PlacesDiffer
<1>10. \A id \in told[c] : Owns(srv[s], c, id)
  BY <1>4, <1>8 DEF Fits, Held
<1>11. Seen(srv[s])
  BY <1>1, GoodSeen
<1> HIDE DEF c, want, told
<1>12. Fits(srv[s], [W EXCEPT ![c] = Hand], want, told)
  BY <1>4, <1>8, <1>9, <1>10, <1>11, MoveOutside
<1>13. CASE TwoWay(m)
  <2>1. W1 = [W EXCEPT ![c] = Hand]
    BY <1>13 DEF c
  <2>2. Hands(W1, {c})
    BY <1>4, <1>8, <2>1 DEF Hands
  <2> QED
    BY <1>1, <1>5, <1>7, <1>12, <1>13, <2>1, <2>2 DEF c, want, told
<1>14. CASE ~TwoWay(m)
  <2>1. W1 = W
    BY <1>14
  <2> QED
    BY <1>1, <1>5, <1>7, <1>8, <1>9, <1>14, <2>1 DEF c, want, told
<1> QED
  BY <1>13, <1>14

\* The calls are placed as the handler leads them.
LEMMA ReceivePlaced ==
  ASSUME OneServer, IInv, NEW b \in BOOLEAN, NEW W, Placed(b, W), NEW s \in Servers, NEW type, NEW st,
         Receive(s, type, st), NEW W1,
         W1 = IF TwoWay(M(s)) THEN [W EXCEPT ![M(s).client] = Hand] ELSE W,
         Leads(W1, st, {}, Want(b), Have(b))
  PROVE  \E W2 \in [Clients -> Place] : Placed(b, W2)'
<1> DEFINE m == M(s)
<1>1. PICK W2 : Fits(st, W2, Want(b), Have(b)) /\ Inside(W1, W2) /\ Hands(W2, {})
  BY DEF Leads
<1>2. s = Sole /\ srv'[Sole] = st /\ Mail' = Tail(Mail) /\ Mail # <<>> /\ Mail \in Seq(ServerMail)
      /\ m = Head(Mail) /\ inbox' = inbox /\ call' = call
  BY SoleServer DEF Receive, IInv, TypeOK, Mail, M
<1>3. Want(b)' = Want(b) /\ Have(b)' = Have(b)
  BY SameClients DEF Receive
<1>4. W \in [Clients -> Place] /\ W2 \in [Clients -> Place] /\ MailAt(Mail, W)
  BY <1>1 DEF Placed, Outside, Fits, Located
<1>5. MailAt(Tail(Mail), W2)
  BY <1>1, <1>2, <1>4, MailRead
<1>6. m.client \in Clients /\ W[m.client] \in {Idle, Mailed}
  <2>1. 1 \in DOMAIN Mail /\ m = Mail[1] /\ m \in ServerMail
    BY <1>2
  <2> QED
    BY <1>4, <2>1, MailKinds DEF MailAt
<1>7. TwoWay(m) => W[m.client] = Mailed
  <2>1. 1 \in DOMAIN Mail /\ m = Mail[1]
    BY <1>2
  <2> QED
    BY <1>4, <1>6, <2>1 DEF MailAt
<1>8. ASSUME NEW d \in Clients
      PROVE  (W2[d] = Idle <=> W[d] = Idle) /\ (W2[d] = Inbox <=> W[d] = Inbox)
  <2>1. (W2[d] = Idle <=> W1[d] = Idle) /\ (W2[d] = Inbox <=> W1[d] = Inbox)
    BY <1>1, OuterPlaces DEF Inside
  <2>2. W1[d] = IF TwoWay(m) /\ d = m.client THEN Hand ELSE W[d]
    BY <1>4, <1>6
  <2> QED
    BY <1>7, <2>1, <2>2, PlacesDiffer
<1>9. Outside(W2)'
  <2>1. \A d \in Clients : W2[d] # Hand
    BY <1>1 DEF Hands
  <2>2. \A d \in Clients : W2[d] = Idle <=> call'[d] = NoCall
    BY <1>2, <1>8 DEF Placed, Outside
  <2>3. \A d \in Clients : (W2[d] = Inbox <=> inbox'[d] # <<>>) /\ Len(inbox'[d]) <= 1
    BY <1>2, <1>8 DEF Placed, Outside
  <2>4. MailAt(Mail', W2)
    BY <1>2, <1>5
  <2> QED
    BY <2>1, <2>2, <2>3, <2>4 DEF Outside
<1>10. ASSUME NEW j \in DOMAIN Mail' PROVE MailFits(Mail'[j], Want(b), Have(b))
  <2>1. j + 1 \in DOMAIN Mail /\ Mail'[j] = Mail[j + 1]
    BY <1>2
  <2> QED
    BY <2>1 DEF Placed
<1>11. Fits(srv'[Sole], W2, Want(b)', Have(b)')
  BY <1>1, <1>2, <1>3
<1>12. \A j \in DOMAIN Mail' : MailFits(Mail'[j], Want(b)', Have(b)')
  BY <1>3, <1>10
<1>13. Placed(b, W2)'
  BY <1>9, <1>11, <1>12 DEF Placed
<1> QED
  BY <1>4, <1>13

\* What each type of message does.
Handled(st, m) ==
  CASE m.type = "CreateLock" -> serverCreateLock(st, m)
    [] m.type = "Acquire" -> HandleById(st, m, DoAcquireLock)
    [] m.type = "Release" -> HandleById(st, m, DoReleaseLock)
    [] m.type = "DestroyLock" -> serverDestroyLock(st, m)
    [] m.type = "CreateCondition" -> serverCreateCV(st, m)
    [] m.type = "Wait" -> serverWait(st, m)
    [] m.type = "Signal" -> serverSignal(st, m)
    [] m.type = "Broadcast" -> serverBroadcast(st, m)
    [] m.type = "DestroyCondition" -> serverDestroyCV(st, m)
    [] m.type = "CreateMV" -> serverCreateMV(st, m)
    [] m.type = "DestroyMV" -> serverDestroyMV(st, m)
    [] m.type = "Set" -> serverSet(st, m)
    [] m.type = "Get" -> serverGet(st, m)

\* The actions that read a message.
Reads(s) ==
  \/ CreateLock(s) \/ Acquire(s) \/ Release(s) \/ DestroyLock(s)
  \/ CreateCondition(s) \/ Wait(s) \/ Signal(s) \/ Broadcast(s) \/ DestroyCondition(s)
  \/ CreateMV(s) \/ DestroyMV(s) \/ Set(s) \/ Get(s)

\* Each of them does what the message asks for.
LEMMA ReadsHandle ==
  ASSUME NEW s \in Servers, Reads(s)
  PROVE  Receive(s, M(s).type, Handled(srv[s], M(s)))
<1>1. ASSUME NEW type, NEW st, Receive(s, type, st)
      PROVE  M(s).type = type /\ Receive(s, M(s).type, st)
  BY <1>1 DEF Receive, M
<1>2. CASE CreateLock(s)
  BY <1>1, <1>2 DEF CreateLock, Handled
<1>3. CASE Acquire(s)
  BY <1>1, <1>3 DEF Acquire, Handled
<1>4. CASE Release(s)
  BY <1>1, <1>4 DEF Release, Handled
<1>5. CASE DestroyLock(s)
  BY <1>1, <1>5 DEF DestroyLock, Handled
<1>6. CASE CreateCondition(s)
  BY <1>1, <1>6 DEF CreateCondition, Handled
<1>7. CASE Wait(s)
  BY <1>1, <1>7 DEF Wait, Handled
<1>8. CASE Signal(s)
  BY <1>1, <1>8 DEF Signal, Handled
<1>9. CASE Broadcast(s)
  BY <1>1, <1>9 DEF Broadcast, Handled
<1>10. CASE DestroyCondition(s)
  BY <1>1, <1>10 DEF DestroyCondition, Handled
<1>11. CASE CreateMV(s)
  BY <1>1, <1>11 DEF CreateMV, Handled
<1>12. CASE DestroyMV(s)
  BY <1>1, <1>12 DEF DestroyMV, Handled
<1>13. CASE Set(s)
  BY <1>1, <1>13 DEF Set, Handled
<1>14. CASE Get(s)
  BY <1>1, <1>14 DEF Get, Handled
<1> QED
  BY <1>2, <1>3, <1>4, <1>5, <1>6, <1>7, <1>8, <1>9, <1>10, <1>11, <1>12, <1>13, <1>14 DEF Reads

\* What it asks for leads on from the calls with it in hand.
LEMMA HandledLeads ==
  ASSUME OneServer, NEW st \in GoodServer, st.loop = NoLoop, NEW m \in ServerMail, m.kind = "call",
         NEW W, NEW want, NEW told, Fits(st, W, want, told), told[m.client] \subseteq Int,
         MailFits(m, want, told), TwoWay(m) => Hands(W, {m.client}),
         ~TwoWay(m) => Hands(W, {}) /\ W[m.client] # Out
  PROVE  Leads(W, Handled(st, m), {}, want, told)
<1>1. m.type \in Ops
  BY MailKinds
<1>2. CASE TwoWay(m)
  <2>1. /\ m.type = "Acquire" => Leads(W, HandleById(st, m, DoAcquireLock), {}, want, told)
        /\ m.type = "Wait" => Leads(W, HandleById(st, m, DoWait), {}, want, told)
        /\ m.type = "Signal" => Leads(W, HandleById(st, m, DoSignal), {}, want, told)
        /\ m.type = "Broadcast" => Leads(W, HandleById(st, m, DoBroadcast), {}, want, told)
        /\ m.type = "Set" => Leads(W, HandleById(st, m, DoSet), {}, want, told)
        /\ m.type = "Get" => Leads(W, HandleById(st, m, DoGet), {}, want, told)
        /\ m.type = "CreateLock" => Leads(W, HandleCreate(st, m, st.locks, DoCreateLock), {}, want, told)
        /\ m.type = "CreateCondition" => Leads(W, HandleCreate(st, m, st.cvs, DoCreateCV), {}, want, told)
        /\ m.type = "CreateMV" => Leads(W, HandleCreate(st, m, st.mvs, DoCreateMV), {}, want, told)
    BY <1>2, TwoWayHandled
  <2>2. CASE m.type = "Acquire"
    BY <2>1, <2>2 DEF Handled
  <2>3. CASE m.type = "Wait"
    BY <2>1, <2>3 DEF Handled, serverWait
  <2>4. CASE m.type = "Signal"
    BY <2>1, <2>4 DEF Handled, serverSignal
  <2>5. CASE m.type = "Broadcast"
    BY <2>1, <2>5 DEF Handled, serverBroadcast
  <2>6. CASE m.type = "Set"
    BY <2>1, <2>6 DEF Handled, serverSet
  <2>7. CASE m.type = "Get"
    BY <2>1, <2>7 DEF Handled, serverGet
  <2>8. CASE m.type = "CreateLock"
    BY <2>1, <2>8 DEF Handled, serverCreateLock
  <2>9. CASE m.type = "CreateCondition"
    BY <2>1, <2>9 DEF Handled, serverCreateCV
  <2>10. CASE m.type = "CreateMV"
    BY <2>1, <2>10 DEF Handled, serverCreateMV
  <2> QED
    BY <1>1, <1>2, <2>2, <2>3, <2>4, <2>5, <2>6, <2>7, <2>8, <2>9, <2>10
       DEF TwoWay, OneWay, Destroys, Ops, Creates, LockOps, CVOps, MVOps
<1>3. CASE ~TwoWay(m)
  <2>1. /\ m.type = "Release" => Leads(W, HandleById(st, m, DoReleaseLock), {}, want, told)
        /\ m.type = "DestroyLock" => Leads(W, HandleById(st, m, DoDestroyLock), {}, want, told)
        /\ m.type = "DestroyCondition" => Leads(W, HandleById(st, m, DoDestroyCV), {}, want, told)
        /\ m.type = "DestroyMV" => Leads(W, HandleById(st, m, DoDestroyMV), {}, want, told)
    BY <1>3, OneWayHandled
  <2>2. CASE m.type = "Release"
    BY <2>1, <2>2 DEF Handled
  <2>3. CASE m.type = "DestroyLock"
    BY <2>1, <2>3 DEF Handled, serverDestroyLock
  <2>4. CASE m.type = "DestroyCondition"
    BY <2>1, <2>4 DEF Handled, serverDestroyCV
  <2>5. CASE m.type = "DestroyMV"
    BY <2>1, <2>5 DEF Handled, serverDestroyMV
  <2> QED
    BY <1>1, <1>3, <2>2, <2>3, <2>4, <2>5
       DEF TwoWay, OneWay, Destroys, Ops, Creates, LockOps, CVOps, MVOps
<1> QED
  BY <1>2, <1>3

\* Reading a message: the calls are placed again.
LEMMA ReadsPlaced ==
  ASSUME OneServer, IInv, NEW b \in BOOLEAN, NEW W, Placed(b, W), NEW s \in Servers, Reads(s)
  PROVE  \E W2 \in [Clients -> Place] : Placed(b, W2)'
<1> DEFINE m == M(s)
           st == Handled(srv[s], m)
<1>1. Receive(s, m.type, st)
  BY ReadsHandle
<1> HIDE DEF st
<1>2. PICK W1 : W1 = IF TwoWay(m) THEN [W EXCEPT ![m.client] = Hand] ELSE W
  OBVIOUS
<1>3. /\ srv[s] \in GoodServer /\ srv[s].loop = NoLoop /\ m \in ServerMail /\ m.kind = "call"
      /\ MailFits(m, Want(b), Have(b)) /\ Have(b)[m.client] \subseteq Int
      /\ Fits(srv[s], W1, Want(b), Have(b))
      /\ TwoWay(m) => Hands(W1, {m.client})
      /\ ~TwoWay(m) => Hands(W1, {}) /\ W1[m.client] # Out
  BY <1>1, <1>2, InHand
<1>4. Leads(W1, st, {}, Want(b), Have(b))
  BY <1>3, HandledLeads DEF st
<1> QED
  BY <1>1, <1>2, <1>4, ReceivePlaced

\* A round of Broadcast: the calls are placed again, if it names the lock of its waiters
\* where locks matter.
LEMMA RoundPlaced ==
  ASSUME OneServer, IInv, NEW b \in BOOLEAN, NEW W, Placed(b, W), b => BroadcastsMatch,
         NEW s \in Servers, BroadcastLoop(s)
  PROVE  \E W2 \in [Clients -> Place] : Placed(b, W2)'
<1> DEFINE st == srv[s]
           st2 == BroadcastRound(st)
           i == st.loop.cv
<1>1. s = Sole /\ st \in GoodServer /\ st.loop.type = "Broadcast" /\ srv'[Sole] = st2
  BY SoleServer DEF IInv, TypeOK, BroadcastLoop, Round
<1>2. mail' = mail /\ inbox' = inbox /\ call' = call /\ Mail' = Mail /\ Mail \in Seq(ServerMail)
  BY SoleServer DEF BroadcastLoop, Round, Mail, IInv, TypeOK
<1>3. Want(b)' = Want(b) /\ Have(b)' = Have(b)
  BY SameClients DEF BroadcastLoop, Round
<1>4. Fits(st, W, Want(b), Have(b)) /\ W \in [Clients -> Place] /\ Hands(W, {})
  BY <1>1 DEF Placed, Outside, Hands, Fits, Located
<1>5. ASSUME NEW c \in Clients, W[c] = AtCV(i) PROVE Want(b)[c] \subseteq {st.loop.lock}
  <2>1. i \in Index /\ st.cvs.slot[i] # NULL
    BY <1>1 DEF GoodServer, Loop, NoLoop, Creates, Exists
  <2>2. CASE b
    <3>1. Waiting(st, i) \in {-1, st.loop.lock}
      BY <1>1, <2>1, <2>2 DEF BroadcastsMatch, Waiting
    <3>2. CVQ(st, i) # <<>>
      <4>1. PICK j \in DOMAIN CVQ(st, i) : CVQ(st, i)[j] = c
        BY <1>4, <1>5, <2>1 DEF Fits, Located, Queue
      <4>2. CVQ(st, i) \in Seq(Clients)
        BY <1>1, <2>1, GoodSeen DEF Seen
      <4> QED
        BY <4>1, <4>2
    <3>3. Waiting(st, i) # -1
      BY <1>1, <2>1, <3>2, GoodSeen DEF Seen
    <3>4. \A id \in Want(b)[c] : Waiting(st, i) = id
      BY <1>4, <1>5, <2>1 DEF Fits, Held
    <3> QED
      BY <3>1, <3>3, <3>4
  <2>3. CASE ~b
    BY <2>3 DEF Want, Wants
  <2> QED
    BY <2>2, <2>3
<1>6. Leads(W, st2, {}, Want(b), Have(b))
  BY <1>1, <1>4, <1>5, BroadcastRoundLeads
<1> HIDE DEF st2
<1>7. PICK W2 : Fits(st2, W2, Want(b), Have(b)) /\ Inside(W, W2) /\ Hands(W2, {})
  BY <1>6 DEF Leads
<1>8. ASSUME NEW d \in Clients
      PROVE  /\ W2[d] = Idle <=> W[d] = Idle
             /\ W2[d] = Inbox <=> W[d] = Inbox
             /\ W2[d] = Mailed <=> W[d] = Mailed
  BY <1>7, OuterPlaces DEF Inside
<1>9. MailAt(Mail, W2)
  BY <1>2, <1>8, MailKept DEF Placed, Outside
<1>10. Outside(W2)'
  BY <1>2, <1>7, <1>8, <1>9 DEF Placed, Outside, Hands
<1>11. Fits(srv'[Sole], W2, Want(b)', Have(b)')
  BY <1>1, <1>3, <1>7
<1>12. \A j \in DOMAIN Mail' : MailFits(Mail'[j], Want(b)', Have(b)')
  BY <1>2, <1>3 DEF Placed
<1>13. Placed(b, W2)' /\ W2 \in [Clients -> Place]
  BY <1>7, <1>10, <1>11, <1>12 DEF Placed, Fits, Located
<1> QED
  BY <1>13

\* A lone server has no loop of creations.
LEMMA NoCreateLoop ==
  ASSUME OneServer, NEW b, NEW W, Placed(b, W), NEW s \in Servers
  PROVE  ~CreateLockLoop(s) /\ ~CreateConditionLoop(s) /\ ~CreateMVLoop(s)
<1>1. srv[s].loop.type \notin Creates
  BY SoleServer DEF Placed, Fits, Alone
<1> QED
  BY <1>1 DEF CreateLockLoop, CreateConditionLoop, CreateMVLoop, Round, Creates

\* What is left to send after a result.
LEMMA OutRest ==
  ASSUME NEW st \in GoodServer, Alone(st), st.out # <<>>, NEW st2, st2.out = AfterSend(st.out),
         st2.locks = st.locks, st2.cvs = st.cvs, st2.loop = st.loop,
         NEW W, Queue(OutTo(st), W, Out), NEW r, r = Head(st.out).msg, NEW c, c = r.client
  PROVE  /\ c \in Clients /\ Rest(OutTo(st2), OutTo(st)) /\ OutTo(st)[1] = c
         /\ Alone(st2) /\ SameLocks(st, st2) /\ SameCVs(st, st2) /\ SameLoop(st, st2)
         /\ \A d \in Sure(st2) : d \in Sure(st) /\ d # c
         /\ MaySucceed(r.ok) => c \in Sure(st)
<1> DEFINE q == st.out
           q2 == st2.out
           n == Len(q)
<1>1. q \in Seq(OutMail) /\ n \in Nat \ {0} /\ DOMAIN q = 1 .. n /\ Head(q) = q[1] /\ 1 \in 1 .. n
  BY DEF GoodServer
<1>2. q[1].to = {} /\ q[1].msg.kind = "result"
  BY <1>1 DEF Alone
<1>3. AfterSend(q) = Tail(q)
  <2>1. Cardinality({}) = 0
    BY FS_EmptySet
  <2>2. Head(q).to = {}
    BY <1>1, <1>2
  <2>3. Cardinality(Head(q).to) = 0
    BY <2>1, <2>2, Zenon
  <2>4. Cardinality(Head(q).to) <= 1
    BY <2>3
  <2> QED
    BY <2>4 DEF AfterSend
<1>4. q2 = Tail(q)
  BY <1>3
<1> HIDE DEF q2
<1>5. DOMAIN q2 = 1 .. n - 1 /\ \A j \in 1 .. n - 1 : q2[j] = q[j + 1]
  BY <1>1, <1>4
<1>6. c \in Clients
  <2>1. q[1] \in OutMail
    BY <1>1
  <2>2. q[1].msg \in ResultMail
    BY <1>2, <2>1 DEF OutMail, ServerMail, CallMail, RequestMail, ReplyMail, Typed
  <2> QED
    BY <1>1, <2>2 DEF ResultMail
<1> HIDE DEF q, q2, n
<1>7. /\ OutTo(st) = [j \in 1 .. n |-> q[j].msg.client]
      /\ OutTo(st2) = [j \in 1 .. n - 1 |-> q2[j].msg.client]
  BY <1>1, <1>5 DEF OutTo, q, q2
<1>8. Rest(OutTo(st2), OutTo(st)) /\ OutTo(st)[1] = c
  <2>1. DOMAIN OutTo(st) = 1 .. n /\ DOMAIN OutTo(st2) = 1 .. n - 1
    BY <1>7
  <2>2. ASSUME NEW j \in 1 .. n - 1 PROVE OutTo(st2)[j] = OutTo(st)[j + 1]
    <3>1. j + 1 \in 1 .. n /\ q2[j] = q[j + 1]
      BY <1>1, <1>5
    <3> QED
      BY <1>7, <3>1
  <2>3. OutTo(st)[1] = c
    BY <1>1, <1>7 DEF q
  <2> QED
    BY <1>1, <2>1, <2>2, <2>3 DEF Rest
<1>11. Alone(st2)
  <2>1. \A j \in 1 .. n - 1 : j + 1 \in 1 .. n /\ q2[j] = q[j + 1]
    BY <1>1, <1>5
  <2>2. \A j \in 1 .. n : q[j].to = {} /\ q[j].msg.kind = "result"
    BY <1>1 DEF Alone, q
  <2>3. \A j \in DOMAIN q2 : q2[j].to = {} /\ q2[j].msg.kind = "result"
    BY <1>5, <2>1, <2>2
  <2> QED
    BY <2>3 DEF Alone, q2
<1>12. ASSUME NEW d \in Sure(st2) PROVE d \in Sure(st) /\ d # c
  <2>1. PICK j \in 1 .. n - 1 : MaySucceed(q2[j].msg.ok) /\ d = q2[j].msg.client
    BY <1>5 DEF Sure, q2
  <2>2. j + 1 \in 1 .. n /\ q2[j] = q[j + 1] /\ j + 1 # 1
    BY <1>1, <1>5
  <2>3. d \in Sure(st)
    BY <1>1, <2>1, <2>2 DEF Sure, q
  <2>4. OutTo(st)[j + 1] = d /\ OutTo(st)[1] = c
    BY <1>7, <1>8, <2>1, <2>2
  <2>5. \A k, l \in 1 .. n : OutTo(st)[k] = OutTo(st)[l] => k = l
    BY <1>7 DEF Queue
  <2>6. d # c
    BY <1>1, <2>2, <2>4, <2>5
  <2> QED
    BY <2>3, <2>6
<1>13. MaySucceed(r.ok) => c \in Sure(st)
  BY <1>1 DEF Sure, q
<1>14. SameLocks(st, st2) /\ SameCVs(st, st2) /\ SameLoop(st, st2)
  BY DEF SameLocks, SameCVs, SameLoop, LockQ, Owner, CVQ, Waiting, Caller
<1> QED
  BY <1>6, <1>8, <1>11, <1>12, <1>13, <1>14

\* A result goes out: its client has it, and owns the lock it may now read it has.
LEMMA MoveSent ==
  ASSUME NEW st \in GoodServer, st.out # <<>>, NEW st2, st2.out = AfterSend(st.out),
         st2.locks = st.locks, st2.cvs = st.cvs, st2.loop = st.loop,
         NEW W, NEW want, NEW told, Fits(st, W, want, told), NEW r, r = Head(st.out).msg, NEW c, c = r.client,
         NEW told2, \A d \in Clients \ {c} : told2[d] = told[d],
         \A id \in told2[c] : id \in told[c] \/ (MaySucceed(r.ok) /\ id \in want[c]),
         NEW W2, W2 = [W EXCEPT ![c] = Inbox]
  PROVE  c \in Clients /\ W[c] = Out /\ Fits(st2, W2, want, told2)
<1>1. W \in [Clients -> Place] /\ Queue(OutTo(st), W, Out) /\ Alone(st)
  BY DEF Fits, Located
<1>2. /\ c \in Clients /\ Alone(st2) /\ SameLocks(st, st2) /\ SameCVs(st, st2) /\ SameLoop(st, st2)
      /\ Rest(OutTo(st2), OutTo(st)) /\ OutTo(st)[1] = c
      /\ \A d \in Sure(st2) : d \in Sure(st) /\ d # c
      /\ MaySucceed(r.ok) => c \in Sure(st)
  BY <1>1, OutRest
<1>3. W[c] = Out /\ Queue(OutTo(st2), W2, Out)
  <2>1. PICK o : o = OutTo(st)
    OBVIOUS
  <2>2. PICK o2 : o2 = OutTo(st2)
    OBVIOUS
  <2>3. o[1] = c /\ Rest(o2, o) /\ Queue(o, W, Out)
    BY <1>1, <1>2, <2>1, <2>2
  <2>4. Inbox \in Place /\ Out \in Place /\ Inbox # Out
    BY PlaceMembers, PlacesDiffer
  <2>5. W[o[1]] = Out /\ Queue(o2, [W EXCEPT ![o[1]] = Inbox], Out)
    BY <1>1, <1>2, <2>3, <2>4, QueueTail
  <2> QED
    BY <2>2, <2>3, <2>5
<1>4. W2 \in [Clients -> Place] /\ \A d \in Clients : W2[d] = IF d = c THEN Inbox ELSE W[d]
  BY <1>1, <1>2, PlaceMembers
<1>5. Sure(st) \subseteq Clients
  BY GoodSeen DEF Seen
<1>6. \A i \in Index : Queue(LockQ(st2, i), W2, AtLock(i)) /\ Queue(CVQ(st2, i), W2, AtCV(i))
  BY <1>2, <1>3, PlaceMembers, PlacesDiffer, QueuesOther DEF Fits, SameLocks, SameCVs
<1>7. Located(st2, W2)
  <2>1. \A d \in Clients : W2[d] = InLoop <=> Caller(st2) = d
    BY <1>2, <1>3, <1>4, PlacesDiffer DEF Fits, Located, SameLoop
  <2>2. \A d \in Sure(st2) : W2[d] = Out
    BY <1>2, <1>3, <1>4, <1>5 DEF Fits, Located
  <2>3. \A i \in Index : \A d \in Clients : Owner(st2, i) = d => W2[d] # AtLock(i)
    BY <1>2, <1>3, <1>4, PlacesDiffer DEF Fits, Located, SameLocks
  <2> QED
    BY <1>2, <1>3, <1>4, <1>6, <2>1, <2>2, <2>3 DEF Located
<1>8. Held(st2, W2, want, told2)
  <2>1. \A d, id : Owns(st2, d, id) <=> Owns(st, d, id)
    BY <1>2 DEF Owns, SameLocks
  <2>2. \A d \in Clients : \A id \in told2[d] : Owns(st2, d, id)
    BY <1>2, <2>1 DEF Fits, Held
  <2>3. \A d \in Clients : W2[d] # Inbox => W2[d] = W[d]
    BY <1>4
  <2>4. ASSUME NEW d \in Clients, NEW i \in Index, W2[d] = AtLock(i) PROVE \A id \in want[d] : IndexOf(id) = i
    BY <2>3, <2>4, PlacesDiffer DEF Fits, Held
  <2>5. ASSUME NEW d \in Clients, NEW i \in Index, W2[d] = AtCV(i) PROVE \A id \in want[d] : Waiting(st2, i) = id
    BY <1>2, <2>3, <2>5, PlacesDiffer DEF Fits, Held, SameCVs
  <2>6. ASSUME NEW d \in Clients, W2[d] = InLoop PROVE want[d] = {}
    BY <2>3, <2>6, PlacesDiffer DEF Fits, Held
  <2>7. \A d \in Sure(st2) : \A id \in want[d] : Owns(st2, d, id)
    BY <1>2, <2>1 DEF Fits, Held
  <2> QED
    BY <2>2, <2>4, <2>5, <2>6, <2>7 DEF Held
<1> QED
  BY <1>2, <1>3, <1>7, <1>8 DEF Fits

\* A sendMail: the result is in the mailbox of its client.
LEMMA SendPlaced ==
  ASSUME OneServer, IInv, NEW b \in BOOLEAN, NEW W, Placed(b, W), NEW s \in Servers, ServerSend(s)
  PROVE  \E W2 \in [Clients -> Place] : Placed(b, W2)'
<1> DEFINE st == srv[s]
           st2 == srv'[s]
           told2 == Have(b)'
<1>1. PICK r : r = Head(st.out).msg
  OBVIOUS
<1>2. PICK c : c = r.client
  OBVIOUS
<1>3. PICK W2 : W2 = [W EXCEPT ![c] = Inbox]
  OBVIOUS
<1>4. s = Sole /\ st \in GoodServer /\ st.out # <<>>
  BY SoleServer DEF IInv, ServerSend
<1>5. st2.out = AfterSend(st.out) /\ st2.locks = st.locks /\ st2.cvs = st.cvs /\ st2.loop = st.loop
  <2>1. srv' = [srv EXCEPT ![s] = [srv[s] EXCEPT !.out = AfterSend(srv[s].out)]]
    BY DEF ServerSend
  <2>2. st2 = [st EXCEPT !.out = AfterSend(st.out)]
    BY <2>1 DEF IInv, TypeOK
  <2> HIDE DEF st2
  <2> QED
    BY <1>4, <2>2 DEF GoodServer
<1>6. Fits(st, W, Want(b), Have(b)) /\ W \in [Clients -> Place]
  BY <1>4 DEF Placed, Fits, Located
<1>7. r.kind = "result"
  <2>1. 1 \in DOMAIN st.out /\ Head(st.out) = st.out[1]
    BY <1>4 DEF GoodServer
  <2> QED
    BY <1>1, <1>6, <2>1 DEF Fits, Alone
<1>8. inbox' = [inbox EXCEPT ![c] = Append(inbox[c], r)] /\ mail' = mail
  BY <1>1, <1>2, <1>7 DEF ServerSend
<1>9. call' = call /\ handle' = handle /\ holds' = holds
  BY DEF ServerSend
<1>10. c \in Clients /\ W[c] = Out
  <2>1. Alone(st) /\ Queue(OutTo(st), W, Out)
    BY <1>6 DEF Fits, Located
  <2> HIDE DEF st2
  <2>2. c \in Clients /\ OutTo(st)[1] = c /\ Rest(OutTo(st2), OutTo(st))
    <3> HIDE DEF st
    <3> QED
      BY <1>1, <1>2, <1>4, <1>5, <2>1, OutRest
  <2>3. 1 \in DOMAIN OutTo(st)
    BY <2>2 DEF Rest
  <2> QED
    BY <2>1, <2>2, <2>3 DEF Queue
<1>11. inbox[c] = <<>> /\ inbox \in [Clients -> Seq(ResultMail)]
  BY <1>10, PlacesDiffer DEF Placed, Outside, IInv, TypeOK
<1> HIDE DEF st, st2
<1>12. inbox'[c] = <<r>> /\ \A d \in Clients \ {c} : inbox'[d] = inbox[d]
  BY <1>8, <1>10, <1>11
<1>13. Want(b)' = Want(b)
  BY <1>9 DEF Want, Wants, LockOf
<1>14. \A d \in Clients \ {c} : Told(b, d)' = Told(b, d)
  <2>1. ASSUME NEW d \in Clients \ {c} PROVE Wants(b, d)' = Wants(b, d)
    BY <1>9 DEF Wants, LockOf
  <2> QED
    BY <1>9, <1>12, <2>1 DEF Told
<1>15. \A id \in Told(b, c)' : id \in Told(b, c) \/ (MaySucceed(r.ok) /\ id \in Wants(b, c))
  <2>1. Wants(b, c)' = Wants(b, c)
    BY <1>9 DEF Wants, LockOf
  <2>2. ASSUME \E j \in DOMAIN inbox'[c] : MaySucceed(inbox'[c][j].ok) PROVE MaySucceed(r.ok)
    BY <1>12, <2>2
  <2> QED
    BY <1>9, <2>1, <2>2 DEF Told
<1>16. \A d \in Clients : told2[d] = Told(b, d)' /\ Have(b)[d] = Told(b, d) /\ Want(b)[d] = Wants(b, d)
  BY DEF Have, Want
<1> HIDE DEF told2
<1>17. Fits(st2, W2, Want(b), told2)
  <2>1. \A d \in Clients \ {c} : told2[d] = Have(b)[d]
    BY <1>14, <1>16
  <2>2. \A id \in told2[c] : id \in Have(b)[c] \/ (MaySucceed(r.ok) /\ id \in Want(b)[c])
    BY <1>10, <1>15, <1>16
  <2> QED
    BY <1>1, <1>2, <1>3, <1>4, <1>5, <1>6, <2>1, <2>2, MoveSent
<1>18. W2 \in [Clients -> Place] /\ \A d \in Clients : W2[d] = IF d = c THEN Inbox ELSE W[d]
  BY <1>3, <1>6, <1>10, PlaceMembers
<1>19. Mail' = Mail /\ Mail \in Seq(ServerMail)
  BY <1>8, SoleServer DEF Mail, IInv, TypeOK
<1>20. MailAt(Mail, W2)
  BY <1>10, <1>18, <1>19, MailKept, PlacesDiffer DEF Placed, Outside
<1>21. Outside(W2)'
  <2>1. \A d \in Clients : W2[d] # Hand /\ (W2[d] = Idle <=> call'[d] = NoCall)
    BY <1>9, <1>10, <1>18, PlacesDiffer DEF Placed, Outside
  <2>2. W2[c] = Inbox /\ inbox'[c] # <<>> /\ Len(inbox'[c]) <= 1
    BY <1>10, <1>12, <1>18
  <2>3. \A d \in Clients \ {c} : (W2[d] = Inbox <=> inbox'[d] # <<>>) /\ Len(inbox'[d]) <= 1
    BY <1>12, <1>18 DEF Placed, Outside
  <2>4. \A d \in Clients : (W2[d] = Inbox <=> inbox'[d] # <<>>) /\ Len(inbox'[d]) <= 1
    BY <2>2, <2>3
  <2> QED
    BY <1>19, <1>20, <2>1, <2>4 DEF Outside
<1>22. ASSUME NEW j \in DOMAIN Mail PROVE MailFits(Mail[j], Want(b), told2)
  <2>1. MailFits(Mail[j], Want(b), Have(b))
    BY DEF Placed
  <2>2. W[Mail[j].client] \in {Idle, Mailed} /\ Mail[j].client \in Clients
    BY <1>19, MailKinds DEF Placed, Outside, MailAt
  <2>3. told2[Mail[j].client] = Have(b)[Mail[j].client]
    BY <1>10, <1>14, <1>16, <2>2, PlacesDiffer
  <2> QED
    BY <2>1, <2>3 DEF MailFits
<1>23. Placed(b, W2)'
  BY <1>4, <1>13, <1>17, <1>19, <1>21, <1>22 DEF Placed, st2, told2
<1> QED
  BY <1>18, <1>23

\* What a client wants and has been told does not change when its own state does not.
LEMMA OtherClients ==
  ASSUME NEW b, NEW d, inbox'[d] = inbox[d], call'[d] = call[d],
         handle'[d] = handle[d], holds'[d] = holds[d]
  PROVE  Wants(b, d)' = Wants(b, d) /\ Told(b, d)' = Told(b, d)
<1>1. Wants(b, d)' = Wants(b, d)
  BY DEF Wants, LockOf
<1> QED
  BY <1>1 DEF Told

\* A system call: its message is in the mailbox of the server.
LEMMA CallPlaced ==
  ASSUME OneServer, IInv, NEW b \in BOOLEAN, NEW W, Placed(b, W), NEW c \in Clients, NEW k \in Calls,
         ClientCall(c, k)
  PROVE  \E W2 \in [Clients -> Place] : Placed(b, W2)'
<1> DEFINE want2 == Want(b)'
           told2 == Have(b)'
<1>1. PICK m : m = [kind |-> "call", type |-> k.op, client |-> c, arg |-> ArgOf(c, k)]
  OBVIOUS
<1>2. PICK W2 : W2 = [W EXCEPT ![c] = IF TwoWay(m) THEN Mailed ELSE Idle]
  OBVIOUS
<1>3. ArgOf(c, k) \in ArgsOf(k.op) /\ k.op \in Ops /\ k.obj \in Names
  BY ArgOfType DEF ClientCall
<1>4. m \in ServerMail /\ m.kind = "call" /\ m.client = c /\ m.type = k.op /\ m.arg = ArgOf(c, k)
  BY <1>1, <1>3 DEF ServerMail, CallMail, Typed, ArgsOf
<1>5. Mail' = Append(Mail, m) /\ Mail \in Seq(ServerMail)
  <2>1. PICK s \in Servers : mail' = [mail EXCEPT ![s] = Append(mail[s], m)]
    BY <1>1 DEF ClientCall
  <2>2. s = Sole
    BY SoleServer
  <2> QED
    BY <2>1, <2>2 DEF Mail, IInv, TypeOK
<1>6. /\ srv' = srv /\ inbox' = inbox /\ handle' = handle /\ call[c] = NoCall
      /\ call' = [call EXCEPT ![c] = IF k.op \in OneWay THEN NoCall ELSE k]
      /\ holds' = [holds EXCEPT ![c] =
                     IF k.op \in {"Release", "Wait"} THEN holds[c] \ {LockOf(c, k)} ELSE holds[c]]
  BY DEF ClientCall
<1>7. TwoWay(m) <=> k.op \notin OneWay
  BY <1>4 DEF TwoWay
<1>8. /\ \A d \in Clients \ {c} : call'[d] = call[d] /\ holds'[d] = holds[d]
      /\ call'[c] = (IF TwoWay(m) THEN k ELSE NoCall) /\ holds'[c] \subseteq holds[c]
      /\ k.op \in {"Release", "Wait"} => LockOf(c, k) \notin holds'[c]
  BY <1>6, <1>7 DEF IInv, TypeOK
<1>9. W[c] = Idle /\ inbox[c] = <<>> /\ W \in [Clients -> Place]
  BY <1>6, PlacesDiffer DEF Placed, Outside, Fits, Located
<1>10. Wants(b, c)' \subseteq Asked(m)
  <2>1. CASE ~TwoWay(m)
    BY <1>8, <2>1 DEF Wants
  <2>2. CASE TwoWay(m)
    <3>1. Wants(b, c)' \subseteq IF k.op \in {"Acquire", "Wait"} THEN {LockOf(c, k)} ELSE {}
      BY <1>6, <1>8, <2>2 DEF Wants, LockOf
    <3>2. k.op = "Acquire" => m.arg.obj = LockOf(c, k)
      BY <1>4 DEF ArgOf, LockOf, Creates, LockOps
    <3>3. k.op = "Wait" => m.arg.lock = LockOf(c, k)
      BY <1>4 DEF ArgOf, LockOf, CVOps, LockOps
    <3> QED
      BY <1>4, <3>1, <3>2, <3>3 DEF Asked
  <2> QED
    BY <2>1, <2>2
<1>11. Told(b, c)' \subseteq Told(b, c) /\ (b => Told(b, c)' = holds'[c]) /\ (~b => Told(b, c)' = {})
  <2>1. ~ \E j \in DOMAIN inbox'[c] : MaySucceed(inbox'[c][j].ok)
    BY <1>6, <1>9
  <2> QED
    BY <1>8, <2>1 DEF Told
<1>12. \A d \in Clients \ {c} : Wants(b, d)' = Wants(b, d) /\ Told(b, d)' = Told(b, d)
  BY <1>6, <1>8, OtherClients
<1>13. \A d \in Clients : /\ want2[d] = Wants(b, d)' /\ told2[d] = Told(b, d)'
                          /\ Want(b)[d] = Wants(b, d) /\ Have(b)[d] = Told(b, d)
  BY DEF Have, Want
<1> HIDE DEF want2, told2
<1>14. Fits(srv[Sole], W2, want2, told2)
  <2>1. Fits(srv[Sole], W, Want(b), Have(b)) /\ Seen(srv[Sole])
    BY SoleServer, GoodSeen DEF Placed, IInv
  <2>2. PICK p : p = IF TwoWay(m) THEN Mailed ELSE Idle
    OBVIOUS
  <2>3. W[c] \in Outer \cup {Hand} /\ p \in Outer \cup {Hand}
    BY <1>9, <2>2, OuterPlaces
  <2>4. \A d \in Clients \ {c} : want2[d] = Want(b)[d] /\ told2[d] = Have(b)[d]
    BY <1>12, <1>13
  <2>5. \A id \in told2[c] : Owns(srv[Sole], c, id)
    BY <1>11, <1>13, <2>1 DEF Fits, Held
  <2>6. Fits(srv[Sole], [W EXCEPT ![c] = p], want2, told2)
    BY <2>1, <2>3, <2>4, <2>5, MoveOutside
  <2> QED
    BY <1>2, <2>2, <2>6
<1>15. MailAt(Mail', W2)
  <2>1. MailAt(Append(Mail, m), W2)
    <3>1. W2 = [W EXCEPT ![m.client] = IF TwoWay(m) THEN Mailed ELSE Idle] /\ MailAt(Mail, W)
      BY <1>2, <1>4 DEF Placed, Outside
    <3> QED
      BY <1>4, <1>5, <1>9, <3>1, MailSent
  <2> QED
    BY <1>5, <2>1
<1>16. /\ W2 \in [Clients -> Place]
       /\ \A d \in Clients : W2[d] = IF d = c THEN (IF TwoWay(m) THEN Mailed ELSE Idle) ELSE W[d]
  BY <1>2, <1>9, PlaceMembers
<1>17. Outside(W2)'
  <2>1. k # NoCall
    BY CallsAssumption DEF CallSet, NoCall
  <2>2. \A d \in Clients : W2[d] # Hand /\ (W2[d] = Idle <=> call'[d] = NoCall)
    BY <1>8, <1>16, <2>1, PlacesDiffer DEF Placed, Outside
  <2>3. \A d \in Clients : (W2[d] = Inbox <=> inbox'[d] # <<>>) /\ Len(inbox'[d]) <= 1
    BY <1>6, <1>9, <1>16, PlacesDiffer DEF Placed, Outside
  <2> QED
    BY <1>15, <2>2, <2>3 DEF Outside
<1>18. MailFits(m, want2, told2)
  <2>1. m.type = "Release" => m.arg.obj \notin told2[c]
    BY <1>4, <1>8, <1>11, <1>13 DEF ArgOf, LockOf, Creates, LockOps
  <2>2. m.type = "Wait" => m.arg.lock \notin told2[c]
    BY <1>4, <1>8, <1>11, <1>13 DEF ArgOf, LockOf, CVOps, LockOps
  <2> QED
    BY <1>4, <1>10, <1>13, <2>1, <2>2 DEF MailFits
<1>19. ASSUME NEW j \in DOMAIN Mail PROVE MailFits(Mail[j], want2, told2)
  <2> DEFINE x == Mail[j]
  <2>1. MailFits(x, Want(b), Have(b)) /\ x.client \in Clients
    BY <1>5, MailKinds DEF Placed
  <2>2. CASE x.client = c
    <3>1. ~TwoWay(x)
      BY <1>9, <2>2, PlacesDiffer DEF Placed, Outside, MailAt
    <3>2. told2[c] \subseteq Have(b)[c]
      BY <1>11, <1>13
    <3> QED
      BY <2>1, <2>2, <3>1, <3>2 DEF MailFits
  <2>3. CASE x.client # c
    <3>1. want2[x.client] = Want(b)[x.client] /\ told2[x.client] = Have(b)[x.client]
      BY <1>12, <1>13, <2>1, <2>3
    <3> QED
      BY <2>1, <3>1 DEF MailFits
  <2> QED
    BY <2>2, <2>3
<1>20. \A j \in DOMAIN Mail' : MailFits(Mail'[j], want2, told2)
  <2>1. ASSUME NEW j \in DOMAIN Mail' PROVE Mail'[j] = m \/ (j \in DOMAIN Mail /\ Mail'[j] = Mail[j])
    BY <1>4, <1>5
  <2> QED
    BY <1>18, <1>19, <2>1
<1>21. Placed(b, W2)'
  BY <1>6, <1>14, <1>17, <1>20 DEF Placed, want2, told2
<1> QED
  BY <1>16, <1>21

\* A return from a system call: the client has the lock it may have read it has.
LEMMA ReturnPlaced ==
  ASSUME OneServer, IInv, NEW b \in BOOLEAN, NEW W, Placed(b, W), NEW c \in Clients, ClientReturn(c)
  PROVE  \E W2 \in [Clients -> Place] : Placed(b, W2)'
<1> DEFINE want2 == Want(b)'
           told2 == Have(b)'
<1>1. PICK W2 : W2 = [W EXCEPT ![c] = Idle]
  OBVIOUS
<1>2. W[c] = Inbox /\ Len(inbox[c]) <= 1 /\ inbox[c] \in Seq(ResultMail) /\ inbox[c] # <<>>
      /\ W \in [Clients -> Place]
  BY DEF ClientReturn, Placed, Outside, Fits, Located, IInv, TypeOK
<1>3. Tail(inbox[c]) = <<>> /\ 1 \in DOMAIN inbox[c] /\ Head(inbox[c]) = inbox[c][1]
  BY <1>2
<1>4. /\ srv' = srv /\ mail' = mail /\ inbox' = [inbox EXCEPT ![c] = Tail(inbox[c])]
      /\ call' = [call EXCEPT ![c] = NoCall] /\ call[c] # NoCall
  BY DEF ClientReturn
<1>5. /\ inbox'[c] = <<>> /\ call'[c] = NoCall
      /\ \A d \in Clients \ {c} : inbox'[d] = inbox[d] /\ call'[d] = call[d]
  BY <1>3, <1>4 DEF IInv, TypeOK
<1>6. /\ holds'[c] \subseteq holds[c] \cup (IF /\ call[c].op \in {"Acquire", "Wait"}
                                               /\ MaySucceed(inbox[c][1].ok)
                                            THEN {LockOf(c, call[c])} ELSE {})
      /\ \A d \in Clients \ {c} : holds'[d] = holds[d] /\ handle'[d] = handle[d]
  <2>1. PICK ok \in Head(inbox[c]).ok :
        /\ \E id \in IF Head(inbox[c]).val = {} THEN AnyId ELSE Head(inbox[c]).val :
             handle' = IF call[c].op \in Creates
                       THEN [handle EXCEPT ![c][call[c].obj] = IF ok THEN id ELSE -1]
                       ELSE handle
        /\ holds' = [holds EXCEPT ![c] =
             IF call[c].op \in {"Acquire", "Wait"} /\ Head(inbox[c]).ok # {FALSE}
             THEN @ \cup {LockOf(c, call[c])} ELSE @]
    BY DEF ClientReturn
  <2>2. \A d \in Clients \ {c} : handle'[d] = handle[d]
    BY <2>1 DEF IInv, TypeOK
  <2>3. \A d \in Clients \ {c} : holds'[d] = holds[d]
    BY <2>1 DEF IInv, TypeOK
  <2>4. holds'[c] = IF call[c].op \in {"Acquire", "Wait"} /\ Head(inbox[c]).ok # {FALSE}
                    THEN holds[c] \cup {LockOf(c, call[c])} ELSE holds[c]
    BY <2>1 DEF IInv, TypeOK
  <2> QED
    BY <1>3, <2>2, <2>3, <2>4 DEF MaySucceed
<1>7. Told(b, c)' \subseteq Told(b, c)
  <2>1. Told(b, c)' = IF b THEN holds'[c] ELSE {}
    BY <1>5 DEF Told
  <2>2. CASE b
    <3>1. MaySucceed(inbox[c][1].ok) => Wants(b, c) \subseteq Told(b, c)
      BY <1>3, <2>2 DEF Told
    <3>2. call[c].op \in {"Acquire", "Wait"} => Wants(b, c) = {LockOf(c, call[c])}
      BY <1>4, <2>2 DEF Wants
    <3>3. holds[c] \subseteq Told(b, c)
      BY <2>2 DEF Told
    <3> QED
      BY <1>6, <2>1, <2>2, <3>1, <3>2, <3>3
  <2>3. CASE ~b
    BY <2>1, <2>3
  <2> QED
    BY <2>2, <2>3
<1>8. \A d \in Clients \ {c} : Wants(b, d)' = Wants(b, d) /\ Told(b, d)' = Told(b, d)
  BY <1>5, <1>6, OtherClients
<1>9. \A d \in Clients : /\ want2[d] = Wants(b, d)' /\ told2[d] = Told(b, d)'
                         /\ Want(b)[d] = Wants(b, d) /\ Have(b)[d] = Told(b, d)
  BY DEF Have, Want
<1> HIDE DEF want2, told2
<1>10. Fits(srv[Sole], W2, want2, told2)
  <2>1. Fits(srv[Sole], W, Want(b), Have(b)) /\ Seen(srv[Sole])
    BY SoleServer, GoodSeen DEF Placed, IInv
  <2>2. W[c] \in Outer \cup {Hand} /\ Idle \in Outer \cup {Hand}
    BY <1>2, OuterPlaces
  <2>3. \A d \in Clients \ {c} : want2[d] = Want(b)[d] /\ told2[d] = Have(b)[d]
    BY <1>8, <1>9
  <2>4. \A id \in told2[c] : Owns(srv[Sole], c, id)
    BY <1>7, <1>9, <2>1 DEF Fits, Held
  <2>5. Fits(srv[Sole], [W EXCEPT ![c] = Idle], want2, told2)
    BY <2>1, <2>2, <2>3, <2>4, MoveOutside
  <2> QED
    BY <1>1, <2>5
<1>11. W2 \in [Clients -> Place] /\ \A d \in Clients : W2[d] = IF d = c THEN Idle ELSE W[d]
  BY <1>1, <1>2, PlaceMembers
<1>12. Mail' = Mail /\ Mail \in Seq(ServerMail)
  BY <1>4, SoleServer DEF Mail, IInv, TypeOK
<1>13. MailAt(Mail, W2)
  BY <1>2, <1>11, <1>12, MailKept, PlacesDiffer DEF Placed, Outside
<1>14. Outside(W2)'
  <2>1. \A d \in Clients : W2[d] # Hand /\ (W2[d] = Idle <=> call'[d] = NoCall)
    BY <1>5, <1>11, PlacesDiffer DEF Placed, Outside
  <2>2. W2[c] # Inbox /\ inbox'[c] = <<>> /\ Len(inbox'[c]) <= 1
    BY <1>5, <1>11, PlacesDiffer
  <2>3. \A d \in Clients \ {c} : (W2[d] = Inbox <=> inbox'[d] # <<>>) /\ Len(inbox'[d]) <= 1
    BY <1>5, <1>11 DEF Placed, Outside
  <2>4. \A d \in Clients : (W2[d] = Inbox <=> inbox'[d] # <<>>) /\ Len(inbox'[d]) <= 1
    BY <2>2, <2>3
  <2> QED
    BY <1>12, <1>13, <2>1, <2>4 DEF Outside
<1>15. ASSUME NEW j \in DOMAIN Mail PROVE MailFits(Mail[j], want2, told2)
  <2>1. MailFits(Mail[j], Want(b), Have(b))
    BY DEF Placed
  <2>2. W[Mail[j].client] \in {Idle, Mailed} /\ Mail[j].client \in Clients
    BY <1>12, MailKinds DEF Placed, Outside, MailAt
  <2>3. Mail[j].client # c
    BY <1>2, <2>2, PlacesDiffer
  <2>4. /\ told2[Mail[j].client] = Have(b)[Mail[j].client]
        /\ want2[Mail[j].client] = Want(b)[Mail[j].client]
    BY <1>8, <1>9, <2>2, <2>3
  <2> QED
    BY <2>1, <2>4 DEF MailFits
<1>16. Placed(b, W2)'
  BY <1>4, <1>10, <1>12, <1>14, <1>15 DEF Placed, want2, told2
<1> QED
  BY <1>11, <1>16

\* Every step: the calls are placed again.
LEMMA StepPlaced ==
  ASSUME OneServer, IInv, NEW b \in BOOLEAN, NEW W \in [Clients -> Place], Placed(b, W),
         b => BroadcastsMatch, [Next]_vars
  PROVE  \E W2 \in [Clients -> Place] : Placed(b, W2)'
<1>1. ASSUME NEW c \in Clients, ClientReturn(c) PROVE \E W2 \in [Clients -> Place] : Placed(b, W2)'
  BY <1>1, ReturnPlaced
<1>2. ASSUME NEW c \in Clients, NEW k \in Calls, ClientCall(c, k)
      PROVE  \E W2 \in [Clients -> Place] : Placed(b, W2)'
  BY <1>2, CallPlaced
<1>3. ASSUME NEW s \in Servers, ServerStep(s) PROVE \E W2 \in [Clients -> Place] : Placed(b, W2)'
  <2>1. CASE ServerSend(s)
    BY <2>1, SendPlaced
  <2>2. CASE Reads(s)
    BY <2>2, ReadsPlaced
  <2>3. CASE BroadcastLoop(s)
    BY <2>3, RoundPlaced
  <2>4. ~CreateLockLoop(s) /\ ~CreateConditionLoop(s) /\ ~CreateMVLoop(s)
    BY NoCreateLoop
  <2> QED
    BY <1>3, <2>1, <2>2, <2>3, <2>4 DEF ServerStep, LockStep, CVStep, MVStep, Reads
<1>4. CASE UNCHANGED vars
  <2>1. Want(b)' = Want(b) /\ Have(b)' = Have(b)
    BY <1>4, SameClients DEF vars
  <2>2. Outside(W)' /\ Mail' = Mail /\ srv' = srv
    BY <1>4 DEF vars, Placed, Outside, Mail
  <2>3. Placed(b, W)'
    BY <2>1, <2>2 DEF Placed
  <2> QED
    BY <2>3
<1> QED
  BY <1>1, <1>2, <1>3, <1>4 DEF Next

\* At the start every client is idle.
LEMMA InitPlaced ==
  ASSUME OneServer, NEW b \in BOOLEAN, Init
  PROVE  \E W \in [Clients -> Place] : Placed(b, W)
<1> DEFINE W == [c \in Clients |-> Idle]
<1>1. W \in [Clients -> Place] /\ \A c \in Clients : W[c] = Idle
  BY PlaceMembers
<1>2. PICK st : st = srv[Sole]
  OBVIOUS
<1>3. /\ st.out = <<>> /\ st.loop = NoLoop
      /\ \A i \in Index : st.locks.slot[i] = NULL /\ st.cvs.slot[i] = NULL
  BY <1>2, SoleServer DEF Init, NewServer, EmptyTable
<1>4. NoLoop.type \notin Creates /\ NoLoop.type # "Broadcast"
  BY DEF NoLoop, Creates
<1> HIDE DEF W
<1>5. Alone(st) /\ Sure(st) = {} /\ Caller(st) = NoClient /\ DOMAIN OutTo(st) = {}
  BY <1>3, <1>4 DEF Alone, Sure, Caller, OutTo
<1>6. \A i \in Index : Owner(st, i) = NoClient /\ LockQ(st, i) = <<>> /\ CVQ(st, i) = <<>>
  BY <1>3 DEF Owner, LockQ, CVQ
<1>7. ASSUME NEW q, DOMAIN q = {}, NEW p, p # Idle PROVE Queue(q, W, p)
  BY <1>1, <1>7 DEF Queue
<1>8. Located(st, W)
  <2>1. Queue(OutTo(st), W, Out)
    BY <1>5, <1>7, PlacesDiffer
  <2>2. \A i \in Index : Queue(LockQ(st, i), W, AtLock(i)) /\ Queue(CVQ(st, i), W, AtCV(i))
    BY <1>6, <1>7, PlacesDiffer
  <2> QED
    BY <1>1, <1>5, <1>6, <2>1, <2>2, NoClientAssumption, PlacesDiffer DEF Located
<1>9. \A c \in Clients : Want(b)[c] = {} /\ Have(b)[c] = {}
  BY DEF Init, Want, Wants, Have, Told
<1>10. Held(st, W, Want(b), Have(b))
  BY <1>1, <1>5, <1>9, PlacesDiffer DEF Held
<1>11. Mail = <<>>
  BY SoleServer DEF Init, Mail
<1>12. Outside(W)
  BY <1>1, <1>11, PlacesDiffer DEF Init, Outside, MailAt
<1> QED
  BY <1>1, <1>2, <1>5, <1>8, <1>10, <1>11, <1>12 DEF Placed, Fits
-------------------------------------------------------------------------------
(***************************************************************************)
(* What a lone server promises.                                            *)
(***************************************************************************)

\* Every call is in one place at a time.
THEOREM OneServerPlaces ==
  ASSUME OneServer
  PROVE  Spec => []AnsweredOnce
<1>0. PICK b \in BOOLEAN : b = FALSE
  OBVIOUS
<1>1. Init => AnsweredOnce
  <2> SUFFICES ASSUME Init PROVE AnsweredOnce
    OBVIOUS
  <2>1. \E W \in [Clients -> Place] : Placed(b, W)
    BY InitPlaced
  <2> QED
    BY <1>0, <2>1, Zenon DEF AnsweredOnce
<1>2. IInv /\ AnsweredOnce /\ [Next]_vars => AnsweredOnce'
  <2> SUFFICES ASSUME IInv, AnsweredOnce, [Next]_vars PROVE AnsweredOnce'
    OBVIOUS
  <2>1. PICK W \in [Clients -> Place] : Placed(b, W)
    BY <1>0, Zenon DEF AnsweredOnce
  <2>2. b => BroadcastsMatch
    BY <1>0
  <2>3. \E W2 \in [Clients -> Place] : Placed(b, W2)'
    BY <2>1, <2>2, StepPlaced
  <2> QED
    BY <1>0, <2>3, Zenon DEF AnsweredOnce
<1> QED
  BY <1>1, <1>2, Invariance, PTL DEF Spec

\* While the broadcasts name the lock of their waiters, a client owns the lock it has been
\* told it has.
THEOREM OneServerOwners ==
  ASSUME OneServer
  PROVE  Spec /\ []BroadcastsMatch => []Excluded
<1>0. PICK b \in BOOLEAN : b = TRUE
  OBVIOUS
<1>1. Init => Excluded
  <2> SUFFICES ASSUME Init PROVE Excluded
    OBVIOUS
  <2>1. \E W \in [Clients -> Place] : Placed(b, W)
    BY InitPlaced
  <2> QED
    BY <1>0, <2>1, Zenon DEF Excluded
<1>2. IInv /\ BroadcastsMatch /\ Excluded /\ [Next]_vars => Excluded'
  <2> SUFFICES ASSUME IInv, BroadcastsMatch, Excluded, [Next]_vars PROVE Excluded'
    OBVIOUS
  <2>1. PICK W \in [Clients -> Place] : Placed(b, W)
    BY <1>0, Zenon DEF Excluded
  <2>2. \E W2 \in [Clients -> Place] : Placed(b, W2)'
    BY <2>1, StepPlaced
  <2> QED
    BY <1>0, <2>2, Zenon DEF Excluded
<1> QED
  BY <1>1, <1>2, Invariance, PTL DEF Spec

\* Acquire gives a lock of a lone server to one client at a time, while the broadcasts name
\* the lock of their waiters.
THEOREM OneServerExcludes ==
  ASSUME OneServer
  PROVE  Spec /\ []BroadcastsMatch => []MutualExclusion
<1>1. Excluded => MutualExclusion
  <2> SUFFICES ASSUME Excluded, NEW c \in Clients, NEW d \in Clients, c # d,
                      NEW id, id \in holds[c], id \in holds[d]
               PROVE  FALSE
    BY DEF MutualExclusion
  <2>1. PICK b \in BOOLEAN : b = TRUE
    OBVIOUS
  <2>2. PICK W \in [Clients -> Place] : Placed(b, W)
    BY <2>1, Zenon DEF Excluded
  <2>3. id \in Have(b)[c] /\ id \in Have(b)[d]
    BY <2>1 DEF Have, Told
  <2>4. Owns(srv[Sole], c, id) /\ Owns(srv[Sole], d, id)
    BY <2>2, <2>3 DEF Placed, Fits, Held
  <2> QED
    BY <2>4 DEF Owns
<1> QED
  BY <1>1, OneServerOwners, PTL

\* No client is twice in the queue of a lock of a lone server, nor its owner once.
THEOREM OneServerQueuesOnce ==
  ASSUME OneServer
  PROVE  Spec => []QueuedOnce
<1>1. IInv /\ AnsweredOnce => QueuedOnce
  <2> SUFFICES ASSUME IInv, AnsweredOnce, NEW s \in Servers, NEW i \in Used(srv[s].locks)
               PROVE  LET l == srv[s].locks.slot[i]
                      IN  /\ l.state = "BUSY" => l.owner \notin Range(l.q)
                          /\ \A j, k \in DOMAIN l.q : l.q[j] = l.q[k] => j = k
    BY DEF QueuedOnce
  <2> DEFINE st == srv[s]
             l == st.locks.slot[i]
  <2>1. PICK b \in BOOLEAN : b = FALSE
    OBVIOUS
  <2>2. PICK W \in [Clients -> Place] : Placed(b, W)
    BY <2>1, Zenon DEF AnsweredOnce
  <2>3. s = Sole /\ st \in GoodServer /\ i \in Index /\ l # NULL
    BY SoleServer DEF IInv, Used
  <2>4. LockQ(st, i) = l.q /\ (l.state = "BUSY" => Owner(st, i) = l.owner) /\ l.q \in Seq(Clients)
    BY <2>3, GoodSeen DEF LockQ, Owner, Seen
  <2>5. Queue(l.q, W, AtLock(i))
    BY <2>2, <2>3, <2>4 DEF Placed, Fits, Located
  <2>6. \A c \in Clients : Owner(st, i) = c => W[c] # AtLock(i)
    BY <2>2, <2>3 DEF Placed, Fits, Located
  <2>7. ASSUME l.state = "BUSY", NEW j \in DOMAIN l.q, l.q[j] = l.owner PROVE FALSE
    <3>1. l.owner \in Clients
      BY <2>4, <2>7
    <3> QED
      BY <2>4, <2>5, <2>6, <2>7, <3>1 DEF Queue
  <2>8. Range(l.q) = {l.q[j] : j \in DOMAIN l.q}
    BY DEF Range
  <2>9. \A j, k \in DOMAIN l.q : l.q[j] = l.q[k] => j = k
    BY <2>5 DEF Queue
  <2> QED
    BY <2>7, <2>8, <2>9
<1> QED
  BY <1>1, OneServerPlaces, Invariance, PTL

\* What is promised to c is a result the server has queued for sending, a place in the
\* queue of a lock or of a condition variable, the broadcast of c, or a result it has.
LEMMA PromisedParts ==
  ASSUME NEW s, NEW c, NEW x
  PROVE  x \in PromisedBy(s, c) <=>
           \/ \E j \in DOMAIN srv[s].out :
                /\ srv[s].out[j].msg.kind = "result" /\ srv[s].out[j].msg.client = c
                /\ x = <<"out", s, 0, j>>
           \/ \E i \in Used(srv[s].locks) :
                \E j \in Places(srv[s].locks.slot[i].q, c) : x = <<"lock", s, i, j>>
           \/ \E i \in Used(srv[s].cvs) :
                \E j \in Places(srv[s].cvs.slot[i].q, c) : x = <<"cv", s, i, j>>
           \/ /\ srv[s].loop.type = "Broadcast" /\ srv[s].loop.client = c
              /\ x = <<"broadcast", s, 0, 0>>
<1> DEFINE st == srv[s]
           A == {<<"out", s, 0, j>> : j \in {j \in DOMAIN st.out :
                                   st.out[j].msg.kind = "result" /\ st.out[j].msg.client = c}}
           B(i) == {<<"lock", s, i, j>> : j \in Places(st.locks.slot[i].q, c)}
           C(i) == {<<"cv", s, i, j>> : j \in Places(st.cvs.slot[i].q, c)}
           UB == UNION {B(i) : i \in Used(st.locks)}
           UC == UNION {C(i) : i \in Used(st.cvs)}
           D == {<<"broadcast", s, 0, 0>> : b \in {b \in {st.loop} : b.type = "Broadcast" /\ b.client = c}}
<1>1. PromisedBy(s, c) = A \cup UB \cup UC \cup D
  BY DEF PromisedBy
<1>2. x \in A <=> \E j \in DOMAIN st.out :
                     /\ st.out[j].msg.kind = "result" /\ st.out[j].msg.client = c
                     /\ x = <<"out", s, 0, j>>
  OBVIOUS
<1>3. x \in UB <=> \E i \in Used(st.locks) : x \in B(i)
  <2> HIDE DEF B
  <2> QED
    BY Zenon
<1>4. \A i : x \in B(i) <=> \E j \in Places(st.locks.slot[i].q, c) : x = <<"lock", s, i, j>>
  OBVIOUS
<1>5. x \in UC <=> \E i \in Used(st.cvs) : x \in C(i)
  <2> HIDE DEF C
  <2> QED
    BY Zenon
<1>6. \A i : x \in C(i) <=> \E j \in Places(st.cvs.slot[i].q, c) : x = <<"cv", s, i, j>>
  OBVIOUS
<1>7. x \in D <=> st.loop.type = "Broadcast" /\ st.loop.client = c /\ x = <<"broadcast", s, 0, 0>>
  OBVIOUS
<1> HIDE DEF A, B, C, UB, UC, D
<1>8. x \in PromisedBy(s, c) <=> x \in A \/ x \in UB \/ x \in UC \/ x \in D
  BY <1>1
<1> QED
  BY <1>2, <1>3, <1>4, <1>5, <1>6, <1>7, <1>8

\* With one server, what is promised to c is in its mailbox or promised by that server.
LEMMA PromisesParts ==
  ASSUME OneServer, NEW c, NEW x
  PROVE  x \in Promises(c) <=>
           \/ \E j \in DOMAIN inbox[c] : x = <<"inbox", 0, 0, j>>
           \/ x \in PromisedBy(Sole, c)
<1> DEFINE A == {<<"inbox", 0, 0, j>> : j \in DOMAIN inbox[c]}
           UB == UNION {PromisedBy(s, c) : s \in Servers}
<1>1. x \in A <=> \E j \in DOMAIN inbox[c] : x = <<"inbox", 0, 0, j>>
  OBVIOUS
<1>2. x \in UB <=> \E s \in Servers : x \in PromisedBy(s, c)
  BY Zenon
<1>3. x \in UB <=> x \in PromisedBy(Sole, c)
  <2> HIDE DEF UB
  <2> QED
    BY <1>2, SoleServer
<1>4. Promises(c) = A \cup UB
  BY DEF Promises
<1> HIDE DEF A, UB
<1> QED
  BY <1>1, <1>3, <1>4

\* A promise of a result is where the call of its client is.
LEMMA PromisePlace ==
  ASSUME OneServer, IInv, NEW b, NEW W, Placed(b, W), NEW c \in Clients, NEW x \in Promises(c)
  PROVE  \/ W[c] = Inbox /\ x = <<"inbox", 0, 0, 1>>
         \/ W[c] = Out /\ \E j \in DOMAIN OutTo(srv[Sole]) :
                            OutTo(srv[Sole])[j] = c /\ x = <<"out", Sole, 0, j>>
         \/ \E i \in Index : W[c] = AtLock(i) /\ \E j \in DOMAIN LockQ(srv[Sole], i) :
                               LockQ(srv[Sole], i)[j] = c /\ x = <<"lock", Sole, i, j>>
         \/ \E i \in Index : W[c] = AtCV(i) /\ \E j \in DOMAIN CVQ(srv[Sole], i) :
                               CVQ(srv[Sole], i)[j] = c /\ x = <<"cv", Sole, i, j>>
         \/ W[c] = InLoop /\ x = <<"broadcast", Sole, 0, 0>>
<1> DEFINE st == srv[Sole]
<1>0. Located(st, W)
  BY DEF Placed, Fits
<1>1. \/ \E j \in DOMAIN inbox[c] : x = <<"inbox", 0, 0, j>>
      \/ x \in PromisedBy(Sole, c)
  BY PromisesParts
<1>2. CASE \E j \in DOMAIN inbox[c] : x = <<"inbox", 0, 0, j>>
  BY <1>2 DEF Placed, Outside, IInv, TypeOK
<1>3. CASE x \in PromisedBy(Sole, c)
  <2>1. \/ \E j \in DOMAIN st.out : st.out[j].msg.client = c /\ x = <<"out", Sole, 0, j>>
        \/ \E i \in Used(st.locks) : \E j \in Places(st.locks.slot[i].q, c) : x = <<"lock", Sole, i, j>>
        \/ \E i \in Used(st.cvs) : \E j \in Places(st.cvs.slot[i].q, c) : x = <<"cv", Sole, i, j>>
        \/ st.loop.type = "Broadcast" /\ st.loop.client = c /\ x = <<"broadcast", Sole, 0, 0>>
    BY <1>3, PromisedParts
  <2>2. ASSUME NEW j \in DOMAIN st.out, st.out[j].msg.client = c
        PROVE  W[c] = Out /\ j \in DOMAIN OutTo(st) /\ OutTo(st)[j] = c
    <3>1. j \in DOMAIN OutTo(st) /\ OutTo(st)[j] = c
      BY <2>2 DEF OutTo
    <3> QED
      BY <1>0, <3>1 DEF Located, Queue
  <2>3. ASSUME NEW i \in Used(st.locks), NEW j \in Places(st.locks.slot[i].q, c)
        PROVE  i \in Index /\ W[c] = AtLock(i) /\ j \in DOMAIN LockQ(st, i) /\ LockQ(st, i)[j] = c
    <3>1. i \in Index /\ j \in DOMAIN LockQ(st, i) /\ LockQ(st, i)[j] = c
      BY DEF Used, Places, LockQ
    <3> QED
      BY <1>0, <3>1 DEF Located, Queue
  <2>4. ASSUME NEW i \in Used(st.cvs), NEW j \in Places(st.cvs.slot[i].q, c)
        PROVE  i \in Index /\ W[c] = AtCV(i) /\ j \in DOMAIN CVQ(st, i) /\ CVQ(st, i)[j] = c
    <3>1. i \in Index /\ j \in DOMAIN CVQ(st, i) /\ CVQ(st, i)[j] = c
      BY DEF Used, Places, CVQ
    <3> QED
      BY <1>0, <3>1 DEF Located, Queue
  <2>5. st.loop.type = "Broadcast" /\ st.loop.client = c => W[c] = InLoop
    BY <1>0 DEF Located, Caller
  <2> QED
    BY <2>1, <2>2, <2>3, <2>4, <2>5
<1> QED
  BY <1>1, <1>2, <1>3

\* A client has one promise at most, and none when it is idle.
LEMMA OnePromise ==
  ASSUME OneServer, IInv, NEW b, NEW W, Placed(b, W), NEW c \in Clients
  PROVE  /\ \A x, y \in Promises(c) : x = y
         /\ W[c] = Idle => Promises(c) = {}
<1> DEFINE st == srv[Sole]
<1>1. Located(st, W)
  BY DEF Placed, Fits
<1>2. ASSUME NEW x \in Promises(c), NEW y \in Promises(c) PROVE x = y
  <2>1. CASE W[c] = Inbox
    BY <1>2, <2>1, PromisePlace, PlacesDiffer
  <2>2. CASE W[c] = Out
    <3>1. PICK j \in DOMAIN OutTo(st) : OutTo(st)[j] = c /\ x = <<"out", Sole, 0, j>>
      BY <1>2, <2>2, PromisePlace, PlacesDiffer
    <3>2. PICK k \in DOMAIN OutTo(st) : OutTo(st)[k] = c /\ y = <<"out", Sole, 0, k>>
      BY <1>2, <2>2, PromisePlace, PlacesDiffer
    <3>3. j = k
      BY <1>1, <3>1, <3>2 DEF Located, Queue
    <3> QED
      BY <3>1, <3>2, <3>3
  <2>3. CASE \E i \in Index : W[c] = AtLock(i)
    <3>1. PICK i \in Index : W[c] = AtLock(i)
      BY <2>3
    <3>2. PICK j \in DOMAIN LockQ(st, i) : LockQ(st, i)[j] = c /\ x = <<"lock", Sole, i, j>>
      BY <1>2, <3>1, PromisePlace, PlacesDiffer
    <3>3. PICK k \in DOMAIN LockQ(st, i) : LockQ(st, i)[k] = c /\ y = <<"lock", Sole, i, k>>
      BY <1>2, <3>1, PromisePlace, PlacesDiffer
    <3>4. j = k
      BY <1>1, <3>2, <3>3 DEF Located, Queue
    <3> QED
      BY <3>2, <3>3, <3>4
  <2>4. CASE \E i \in Index : W[c] = AtCV(i)
    <3>1. PICK i \in Index : W[c] = AtCV(i)
      BY <2>4
    <3>2. PICK j \in DOMAIN CVQ(st, i) : CVQ(st, i)[j] = c /\ x = <<"cv", Sole, i, j>>
      BY <1>2, <3>1, PromisePlace, PlacesDiffer
    <3>3. PICK k \in DOMAIN CVQ(st, i) : CVQ(st, i)[k] = c /\ y = <<"cv", Sole, i, k>>
      BY <1>2, <3>1, PromisePlace, PlacesDiffer
    <3>4. j = k
      BY <1>1, <3>2, <3>3 DEF Located, Queue
    <3> QED
      BY <3>2, <3>3, <3>4
  <2>5. CASE W[c] = InLoop
    BY <1>2, <2>5, PromisePlace, PlacesDiffer
  <2> QED
    BY <1>2, <2>1, <2>2, <2>3, <2>4, <2>5, PromisePlace
<1>3. ASSUME W[c] = Idle, NEW x \in Promises(c) PROVE FALSE
  BY <1>3, PromisePlace, PlacesDiffer
<1> QED
  BY <1>2, <1>3

\* A lone server answers every call once: no client in a call is owed two results, and none
\* is left for a client that has returned.
THEOREM OneServerAnswersOnce ==
  ASSUME OneServer
  PROVE  Spec => []NoDoubleResult
<1>1. IInv /\ AnsweredOnce => NoDoubleResult
  <2> SUFFICES ASSUME IInv, AnsweredOnce, NEW c \in Clients
               PROVE  Owed(c) <= IF call[c] = NoCall THEN 0 ELSE 1
    BY DEF NoDoubleResult
  <2>1. PICK b \in BOOLEAN : b = FALSE
    OBVIOUS
  <2>2. PICK W \in [Clients -> Place] : Placed(b, W)
    BY <2>1, Zenon DEF AnsweredOnce
  <2>3. PICK P : P = Promises(c)
    OBVIOUS
  <2>4. (\A x, y \in P : x = y) /\ (W[c] = Idle => P = {})
    BY <2>2, <2>3, OnePromise
  <2>5. Owed(c) = Cardinality(P)
    BY <2>3 DEF Owed
  <2>6. CASE call[c] = NoCall
    <3>1. P = {}
      BY <2>2, <2>4, <2>6 DEF Placed, Outside
    <3>2. Cardinality(P) = 0
      BY <3>1, FS_EmptySet
    <3> QED
      BY <2>5, <2>6, <3>2
  <2>7. CASE call[c] # NoCall
    BY <2>4, <2>5, <2>7, AtMostOne
  <2> QED
    BY <2>6, <2>7
<1> QED
  BY <1>1, OneServerPlaces, Invariance, PTL

\* A lone server loses no call: once it has nothing left to do, every client in a call is
\* in one queue, or has its result.
THEOREM OneServerLosesNothing ==
  ASSUME OneServer
  PROVE  Spec => []NoLostCall
<1>1. IInv /\ AnsweredOnce => NoLostCall
  <2> SUFFICES ASSUME IInv, AnsweredOnce, Quiet, NEW c \in Clients, call[c] # NoCall
               PROVE  Owed(c) = 1
    BY DEF NoLostCall
  <2> DEFINE st == srv[Sole]
  <2>1. PICK b \in BOOLEAN : b = FALSE
    OBVIOUS
  <2>2. PICK W \in [Clients -> Place] : Placed(b, W)
    BY <2>1, Zenon DEF AnsweredOnce
  <2>3. Located(st, W) /\ Outside(W) /\ W[c] \in Place /\ Sole \in Servers
    BY <2>2, SoleServer DEF Placed, Fits, Located
  <2>4. Mail = <<>> /\ st.out = <<>> /\ st.loop = NoLoop /\ st \in GoodServer
    BY <2>3 DEF Quiet, Mail, IInv
  <2>5. W[c] # Idle /\ W[c] # Hand /\ W[c] # Mailed
    BY <2>3, <2>4 DEF Outside, MailAt
  <2>6. W[c] # Out
    BY <2>3, <2>4 DEF Located, Queue, OutTo
  <2>7. W[c] # InLoop
    BY <2>3, <2>4, NoClientAssumption DEF Located, Caller, NoLoop
  <2>8. Promises(c) # {}
    <3>1. CASE W[c] = Inbox
      <4>1. 1 \in DOMAIN inbox[c]
        BY <2>3, <3>1 DEF Outside, IInv, TypeOK
      <4> QED
        BY <4>1, PromisesParts
    <3>2. ASSUME NEW x \in PromisedBy(Sole, c) PROVE x \in Promises(c)
      BY PromisesParts
    <3>3. CASE \E i \in Index : W[c] = AtLock(i)
      <4>1. PICK i \in Index : W[c] = AtLock(i)
        BY <3>3
      <4>2. PICK j \in DOMAIN LockQ(st, i) : LockQ(st, i)[j] = c
        BY <2>3, <4>1 DEF Located, Queue
      <4>3. st.locks.slot[i] # NULL
        BY <4>2 DEF LockQ
      <4>4. i \in Used(st.locks) /\ j \in Places(st.locks.slot[i].q, c)
        BY <2>4, <4>2, <4>3 DEF Used, Places, LockQ, GoodServer, GoodTable, TableOf
      <4>5. <<"lock", Sole, i, j>> \in PromisedBy(Sole, c)
        BY <4>4, PromisedParts
      <4> QED
        BY <3>2, <4>5
    <3>4. CASE \E i \in Index : W[c] = AtCV(i)
      <4>1. PICK i \in Index : W[c] = AtCV(i)
        BY <3>4
      <4>2. PICK j \in DOMAIN CVQ(st, i) : CVQ(st, i)[j] = c
        BY <2>3, <4>1 DEF Located, Queue
      <4>3. st.cvs.slot[i] # NULL
        BY <4>2 DEF CVQ
      <4>4. i \in Used(st.cvs) /\ j \in Places(st.cvs.slot[i].q, c)
        BY <2>4, <4>2, <4>3 DEF Used, Places, CVQ, GoodServer, GoodTable, TableOf
      <4>5. <<"cv", Sole, i, j>> \in PromisedBy(Sole, c)
        BY <4>4, PromisedParts
      <4> QED
        BY <3>2, <4>5
    <3> QED
      BY <2>3, <2>5, <2>6, <2>7, <3>1, <3>3, <3>4 DEF Place, Outer
  <2>9. PICK P : P = Promises(c)
    OBVIOUS
  <2>10. \A x, y \in P : x = y
    BY <2>2, <2>9, OnePromise
  <2>11. Cardinality(P) = 1
    BY <2>8, <2>9, <2>10, AtMostOne
  <2> QED
    BY <2>9, <2>11 DEF Owed
<1> QED
  BY <1>1, OneServerPlaces, Invariance, PTL
-------------------------------------------------------------------------------
(***************************************************************************)
(* References.  With machine 0 as the only server ids are indices.  If     *)
(* clients destroy only what they have created, the count of an entry is   *)
(* the number of claims to it: the references clients have, the destroys   *)
(* on their way to the server, and the results of creates on their way     *)
(* back.                                                                   *)
(***************************************************************************)
\* The kind of object a call is about, named by its create.
KindOf(x) ==
  CASE x \in {"CreateLock"} \cup LockOps -> "CreateLock"
    [] x \in {"CreateCondition"} \cup CVOps -> "CreateCondition"
    [] OTHER -> "CreateMV"

\* A name is that of one kind of objects, and its creations as a monitor variable agree
\* on the size.
ObjectsApart ==
  \A k, l \in Calls :
    k.obj = l.obj => KindOf(k.op) = KindOf(l.op) /\ (k.op = "CreateMV" /\ l.op = k.op => k.index = l.index)
OfKind(n, op) == \E k \in Calls : k.obj = n /\ KindOf(k.op) = op

\* Claims: the j-th reference of c to n, the j-th message the server is ever sent, and
\* the result c waits for.
Ref(c, n, j) == <<"ref", c, n, j>>
Sent(j) == <<"mail", 0, 0, j>>
Due(c) == <<"result", c, 0, 0>>
Token ==
  {Ref(c, n, j) : c \in Clients, n \in Names, j \in Nat} \cup {Sent(j) : j \in Nat}
  \cup {Due(c) : c \in Clients}

\* A message destroys entry i of the table of op.
Destroying(m, op, i) == m.type \in Destroys /\ KindOf(m.type) = op /\ m.arg.obj = i

\* c has a j-th reference to n, which is entry i of the table of op.
RefAt(h, r, op, i, c, n, j) == OfKind(n, op) /\ h[c][n] = i /\ 1 <= j /\ j <= r[c][n]
\* The j-th message ever sent is in the mailbox q and does so.
DestroySent(q, b, op, i, j) == \E k \in DOMAIN q : j = b + k /\ Destroying(q[k], op, i)

\* The claims to entry i of the table of op, with handles h, references r, a mailbox q
\* before which b messages have been read, and the entries z[c] that c is to be told.
Claim(h, r, q, z, b, op, i, x) ==
  \/ \E c \in Clients, n \in Names, j \in Nat :
       x = Ref(c, n, j) /\ RefAt(h, r, op, i, c, n, j)
  \/ \E j \in Nat : x = Sent(j) /\ DestroySent(q, b, op, i, j)
  \/ \E c \in Clients : x = Due(c) /\ <<op, i>> \in z[c]
Claims(h, r, q, z, b, op, i) == {x \in Token : Claim(h, r, q, z, b, op, i, x)}

\* Claims are different.
LEMMA TokensDiffer ==
  /\ \A c, n, j, d, m, k : Ref(c, n, j) = Ref(d, m, k) <=> c = d /\ n = m /\ j = k
  /\ \A j, k : Sent(j) = Sent(k) <=> j = k
  /\ \A c, d : Due(c) = Due(d) <=> c = d
  /\ \A c, n, j, k : Ref(c, n, j) # Sent(k)
  /\ \A c, n, j, d : Ref(c, n, j) # Due(d)
  /\ \A j, d : Sent(j) # Due(d)
BY DEF Ref, Sent, Due

LEMMA RefClaims ==
  ASSUME NEW h, NEW r, NEW q, NEW z, NEW b \in Nat, NEW op, NEW i,
         NEW c \in Clients, NEW n \in Names, NEW j \in Nat
  PROVE  Ref(c, n, j) \in Claims(h, r, q, z, b, op, i) <=> RefAt(h, r, op, i, c, n, j)
<1>1. Ref(c, n, j) \in Token
  BY DEF Token
<1>2. Claim(h, r, q, z, b, op, i, Ref(c, n, j)) <=> RefAt(h, r, op, i, c, n, j)
  BY TokensDiffer DEF Claim
<1> QED
  BY <1>1, <1>2 DEF Claims

LEMMA SentClaims ==
  ASSUME NEW h, NEW r, NEW q, NEW z, NEW b \in Nat, NEW op, NEW i, NEW j \in Nat
  PROVE  Sent(j) \in Claims(h, r, q, z, b, op, i) <=> DestroySent(q, b, op, i, j)
<1>1. Sent(j) \in Token
  BY DEF Token
<1>2. Claim(h, r, q, z, b, op, i, Sent(j)) <=> DestroySent(q, b, op, i, j)
  BY TokensDiffer DEF Claim
<1> QED
  BY <1>1, <1>2 DEF Claims

LEMMA DueClaims ==
  ASSUME NEW h, NEW r, NEW q, NEW z, NEW b \in Nat, NEW op, NEW i, NEW c \in Clients
  PROVE  Due(c) \in Claims(h, r, q, z, b, op, i) <=> <<op, i>> \in z[c]
<1>1. Due(c) \in Token
  BY DEF Token
<1>2. Claim(h, r, q, z, b, op, i, Due(c)) <=> <<op, i>> \in z[c]
  BY TokensDiffer DEF Claim
<1> QED
  BY <1>1, <1>2 DEF Claims

\* Sets of claims are compared claim by claim.
LEMMA SameTokens ==
  ASSUME NEW A, NEW B, A \subseteq Token, B \subseteq Token,
         \A c \in Clients, n \in Names, j \in Nat : Ref(c, n, j) \in A <=> Ref(c, n, j) \in B,
         \A j \in Nat : Sent(j) \in A <=> Sent(j) \in B,
         \A c \in Clients : Due(c) \in A <=> Due(c) \in B
  PROVE  A = B
<1>1. \A x \in Token : x \in A <=> x \in B
  BY DEF Token
<1> QED
  BY <1>1

\* With h2, r2, q2, z2 and b2 the claims are without those in D and with those in E.
RefsChange(h, r, h2, r2, op, i, D, E) ==
  \A c \in Clients, n \in Names, j \in Nat :
    RefAt(h2, r2, op, i, c, n, j) <=> (RefAt(h, r, op, i, c, n, j) /\ Ref(c, n, j) \notin D) \/ Ref(c, n, j) \in E
SentChange(q, b, q2, b2, op, i, D, E) ==
  \A j \in Nat :
    DestroySent(q2, b2, op, i, j) <=> (DestroySent(q, b, op, i, j) /\ Sent(j) \notin D) \/ Sent(j) \in E
DueChange(z, z2, op, i, D, E) ==
  \A c \in Clients : <<op, i>> \in z2[c] <=> (<<op, i>> \in z[c] /\ Due(c) \notin D) \/ Due(c) \in E

LEMMA ClaimsChange ==
  ASSUME NEW h, NEW r, NEW q, NEW z, NEW b \in Nat, NEW h2, NEW r2, NEW q2, NEW z2, NEW b2 \in Nat,
         NEW op, NEW i, NEW D, NEW E, E \subseteq Token,
         RefsChange(h, r, h2, r2, op, i, D, E), SentChange(q, b, q2, b2, op, i, D, E), DueChange(z, z2, op, i, D, E)
  PROVE  Claims(h2, r2, q2, z2, b2, op, i) = (Claims(h, r, q, z, b, op, i) \ D) \cup E
<1> DEFINE A == Claims(h2, r2, q2, z2, b2, op, i)
           B == (Claims(h, r, q, z, b, op, i) \ D) \cup E
<1>1. A \subseteq Token /\ B \subseteq Token
  BY DEF Claims
<1>2. ASSUME NEW c \in Clients, NEW n \in Names, NEW j \in Nat
      PROVE  Ref(c, n, j) \in A <=> Ref(c, n, j) \in B
  <2>1. Ref(c, n, j) \in A <=> RefAt(h2, r2, op, i, c, n, j)
    BY RefClaims
  <2>2. Ref(c, n, j) \in Claims(h, r, q, z, b, op, i) <=> RefAt(h, r, op, i, c, n, j)
    BY RefClaims
  <2> QED
    BY <2>1, <2>2, Zenon DEF RefsChange
<1>3. ASSUME NEW j \in Nat
      PROVE  Sent(j) \in A <=> Sent(j) \in B
  <2>1. Sent(j) \in A <=> DestroySent(q2, b2, op, i, j)
    BY SentClaims
  <2>2. Sent(j) \in Claims(h, r, q, z, b, op, i) <=> DestroySent(q, b, op, i, j)
    BY SentClaims
  <2> QED
    BY <2>1, <2>2, Zenon DEF SentChange
<1>4. ASSUME NEW c \in Clients
      PROVE  Due(c) \in A <=> Due(c) \in B
  <2>1. Due(c) \in A <=> <<op, i>> \in z2[c]
    BY DueClaims
  <2>2. Due(c) \in Claims(h, r, q, z, b, op, i) <=> <<op, i>> \in z[c]
    BY DueClaims
  <2> QED
    BY <2>1, <2>2, Zenon DEF DueChange
<1> HIDE DEF A, B
<1>5. A = B
  BY <1>1, <1>2, <1>3, <1>4, SameTokens
<1> QED
  BY <1>5 DEF A, B

\* A set of claims that gains one, loses one, or changes one for another.
LEMMA ClaimsCount ==
  ASSUME NEW S, IsFiniteSet(S), NEW n, Cardinality(S) = n
  PROVE  /\ n \in Nat
         /\ \A x : x \notin S => IsFiniteSet(S \cup {x}) /\ Cardinality(S \cup {x}) = n + 1
         /\ \A x \in S : IsFiniteSet(S \ {x}) /\ Cardinality(S \ {x}) = n - 1 /\ n >= 1
         /\ \A x \in S : \A y : y \notin S =>
              IsFiniteSet((S \ {x}) \cup {y}) /\ Cardinality((S \ {x}) \cup {y}) = n
<1>0. n \in Nat
  BY FS_CardinalityType
<1>1. ASSUME NEW T, IsFiniteSet(T), NEW x, x \notin T
      PROVE  IsFiniteSet(T \cup {x}) /\ Cardinality(T \cup {x}) = Cardinality(T) + 1
  BY <1>1, FS_AddElement
<1>2. ASSUME NEW x \in S
      PROVE  IsFiniteSet(S \ {x}) /\ Cardinality(S \ {x}) = n - 1 /\ n >= 1
  <2>1. IsFiniteSet(S \ {x}) /\ Cardinality(S \ {x}) = n - 1
    BY FS_RemoveElement
  <2>2. Cardinality(S \ {x}) \in Nat
    BY <2>1, FS_CardinalityType
  <2> QED
    BY <1>0, <2>1, <2>2
<1>4. ASSUME NEW x \in S, NEW y, y \notin S
      PROVE  IsFiniteSet((S \ {x}) \cup {y}) /\ Cardinality((S \ {x}) \cup {y}) = n
  <2>1. y \notin S \ {x}
    BY <1>4
  <2>2. Cardinality((S \ {x}) \cup {y}) = n - 1 + 1 /\ IsFiniteSet((S \ {x}) \cup {y})
    BY <1>1, <1>2, <2>1
  <2> QED
    BY <2>2, <1>0
<1> QED
  BY <1>0, <1>1, <1>2, <1>4
\* What a mailbox destroys after a message is sent, and after one is read.
LEMMA SentAppend ==
  ASSUME NEW S, NEW q \in Seq(S), NEW m \in S, NEW b \in Nat, NEW op, NEW i
  PROVE  /\ \A j \in Nat : DestroySent(Append(q, m), b, op, i, j) <=>
              DestroySent(q, b, op, i, j) \/ (j = b + Len(q) + 1 /\ Destroying(m, op, i))
         /\ ~DestroySent(q, b, op, i, b + Len(q) + 1)
         /\ b + Len(q) + 1 \in Nat
<1> DEFINE q2 == Append(q, m)
<1>1. /\ DOMAIN q = 1 .. Len(q) /\ Len(q) \in Nat
      /\ \A k \in DOMAIN q : q2[k] = q[k] /\ k \in DOMAIN q2
      /\ q2[Len(q) + 1] = m /\ Len(q) + 1 \in DOMAIN q2
      /\ \A k \in DOMAIN q2 : k \in DOMAIN q \/ k = Len(q) + 1
  OBVIOUS
<1> HIDE DEF q2
<1>2. \A j \in Nat : DestroySent(q2, b, op, i, j) <=>
        DestroySent(q, b, op, i, j) \/ (j = b + Len(q) + 1 /\ Destroying(m, op, i))
  BY <1>1 DEF DestroySent
<1>3. ~DestroySent(q, b, op, i, b + Len(q) + 1)
  BY <1>1 DEF DestroySent
<1> QED
  BY <1>1, <1>2, <1>3 DEF q2

LEMMA SentTail ==
  ASSUME NEW S, NEW q \in Seq(S), q # <<>>, NEW b \in Nat, NEW op, NEW i
  PROVE  /\ \A j \in Nat : DestroySent(Tail(q), b + 1, op, i, j) <=> DestroySent(q, b, op, i, j) /\ j # b + 1
         /\ DestroySent(q, b, op, i, b + 1) <=> Destroying(Head(q), op, i)
         /\ ~Destroying(Head(q), op, i) =>
              \A j \in Nat : DestroySent(Tail(q), b + 1, op, i, j) <=> DestroySent(q, b, op, i, j)
<1> DEFINE q2 == Tail(q)
<1>1. /\ DOMAIN q = 1 .. Len(q) /\ Len(q) \in Nat /\ 1 \in DOMAIN q /\ Head(q) = q[1]
      /\ \A k \in DOMAIN q2 : q2[k] = q[k + 1] /\ k + 1 \in DOMAIN q /\ k \in Nat /\ k >= 1
      /\ \A k \in DOMAIN q : k # 1 => k - 1 \in DOMAIN q2
  OBVIOUS
<1> HIDE DEF q2
<1>2. ASSUME NEW j \in Nat
      PROVE  DestroySent(q2, b + 1, op, i, j) <=> DestroySent(q, b, op, i, j) /\ j # b + 1
  <2>1. ASSUME NEW k \in DOMAIN q2, j = b + 1 + k, Destroying(q2[k], op, i)
        PROVE  DestroySent(q, b, op, i, j) /\ j # b + 1
    <3>0. q2[k] = q[k + 1] /\ k + 1 \in DOMAIN q /\ k \in Nat /\ k >= 1
      BY <1>1
    <3>1. k \in Nat /\ k >= 1
      BY <3>0
    <3>3. j = b + (k + 1) /\ j # b + 1
      BY <2>1, <3>1
    <3>2. Destroying(q[k + 1], op, i)
      BY <2>1, <3>0, Zenon
    <3> QED
      BY <3>0, <3>2, <3>3 DEF DestroySent
  <2>2. ASSUME NEW k \in DOMAIN q, j = b + k, Destroying(q[k], op, i), j # b + 1
        PROVE  DestroySent(q2, b + 1, op, i, j)
    <3>1. k - 1 \in DOMAIN q2 /\ j = b + 1 + (k - 1) /\ (k - 1) + 1 = k
      BY <1>1, <2>2
    <3>2. Destroying(q2[k - 1], op, i)
      BY <1>1, <2>2, <3>1
    <3> QED
      BY <3>1, <3>2 DEF DestroySent
  <2> QED
    BY <2>1, <2>2 DEF DestroySent
<1>3. DestroySent(q, b, op, i, b + 1) <=> Destroying(Head(q), op, i)
  <2>1. \A k \in DOMAIN q : b + 1 = b + k <=> k = 1
    BY <1>1
  <2> QED
    BY <1>1, <2>1 DEF DestroySent
<1>4. ASSUME ~Destroying(Head(q), op, i), NEW j \in Nat
      PROVE  DestroySent(q2, b + 1, op, i, j) <=> DestroySent(q, b, op, i, j)
  BY <1>2, <1>3, <1>4, Zenon
<1> QED
  BY <1>2, <1>3, <1>4 DEF q2

\* Messages that destroy nothing do not matter, and one that is read is a claim less.
SameRefs(h, r, h2, r2, op, i) ==
  \A c \in Clients, n \in Names, j \in Nat : RefAt(h2, r2, op, i, c, n, j) <=> RefAt(h, r, op, i, c, n, j)
SameSent(q, b, q2, b2, op, i) ==
  \A j \in Nat : DestroySent(q2, b2, op, i, j) <=> DestroySent(q, b, op, i, j)
SentBut(k, q, b, q2, b2, op, i) ==
  \A j \in Nat : DestroySent(q2, b2, op, i, j) <=> DestroySent(q, b, op, i, j) /\ j # k
SameDue(z, z2, op, i) == \A c \in Clients : <<op, i>> \in z2[c] <=> <<op, i>> \in z[c]

LEMMA ClaimsSame ==
  ASSUME NEW h, NEW r, NEW q, NEW z, NEW b, NEW h2, NEW r2, NEW q2, NEW z2, NEW b2, NEW op, NEW i,
         SameRefs(h, r, h2, r2, op, i), SameSent(q, b, q2, b2, op, i), SameDue(z, z2, op, i)
  PROVE  Claims(h2, r2, q2, z2, b2, op, i) = Claims(h, r, q, z, b, op, i)
<1>1. ASSUME NEW x
      PROVE  Claim(h2, r2, q2, z2, b2, op, i, x) <=> Claim(h, r, q, z, b, op, i, x)
  BY Zenon DEF Claim, SameRefs, SameSent, SameDue
<1> QED
  BY <1>1, Zenon DEF Claims

LEMMA ClaimsReflexive ==
  ASSUME NEW h, NEW r, NEW q, NEW z, NEW b, NEW op, NEW i
  PROVE  SameRefs(h, r, h, r, op, i) /\ SameSent(q, b, q, b, op, i) /\ SameDue(z, z, op, i)
BY Zenon DEF SameRefs, SameSent, SameDue

LEMMA ClaimRead ==
  ASSUME NEW h, NEW r, NEW q, NEW z, NEW b, NEW q2, NEW b2, NEW op, NEW i, NEW k \in Nat,
         SentBut(k, q, b, q2, b2, op, i)
  PROVE  Claims(h, r, q2, z, b2, op, i) = Claims(h, r, q, z, b, op, i) \ {Sent(k)}
<1>1. ASSUME NEW x
      PROVE  Claim(h, r, q2, z, b2, op, i, x) <=> Claim(h, r, q, z, b, op, i, x) /\ x # Sent(k)
  <2>1. ASSUME NEW c, NEW n, NEW j, x = Ref(c, n, j)
        PROVE  x # Sent(k)
    BY <2>1, TokensDiffer
  <2>2. ASSUME NEW c, x = Due(c)
        PROVE  x # Sent(k)
    BY <2>2, TokensDiffer, Zenon
  <2>3. \A j \in Nat : x = Sent(j) => (x # Sent(k) <=> j # k)
    BY TokensDiffer, Zenon
  <2> QED
    BY <2>1, <2>2, <2>3, Zenon DEF Claim, SentBut
<1> QED
  BY <1>1, Zenon DEF Claims

\* The counts of the entries are the numbers of claims to them.
Counted(h, r, q, z, b, count) ==
  \A op \in Creates : \A i \in Index :
    /\ IsFiniteSet(Claims(h, r, q, z, b, op, i))
    /\ Cardinality(Claims(h, r, q, z, b, op, i)) = count[op][i]

\* A message is sent that destroys nothing.
LEMMA CountedSent ==
  ASSUME NEW h, NEW r, NEW S, NEW q \in Seq(S), NEW z, NEW b \in Nat, NEW count, Counted(h, r, q, z, b, count),
         NEW m \in S, m.type \notin Destroys
  PROVE  Counted(h, r, Append(q, m), z, b, count)
<1> SUFFICES ASSUME NEW op \in Creates, NEW i \in Index
             PROVE  /\ IsFiniteSet(Claims(h, r, Append(q, m), z, b, op, i))
                    /\ Cardinality(Claims(h, r, Append(q, m), z, b, op, i)) = count[op][i]
  BY DEF Counted
<1>1. ~Destroying(m, op, i)
  BY DEF Destroying
<1>2. SameSent(q, b, Append(q, m), b, op, i)
  BY <1>1, SentAppend DEF SameSent
<1>3. Claims(h, r, Append(q, m), z, b, op, i) = Claims(h, r, q, z, b, op, i)
  BY <1>2, ClaimsSame, ClaimsReflexive
<1> QED
  BY <1>3 DEF Counted

\* A message is read that destroys no entry.
LEMMA CountedRead ==
  ASSUME NEW h, NEW r, NEW S, NEW q \in Seq(S), q # <<>>, NEW z, NEW b \in Nat, NEW count,
         Counted(h, r, q, z, b, count),
         Head(q).type \in Destroys => Head(q).arg.obj \notin Index
  PROVE  Counted(h, r, Tail(q), z, b + 1, count)
<1> SUFFICES ASSUME NEW op \in Creates, NEW i \in Index
             PROVE  /\ IsFiniteSet(Claims(h, r, Tail(q), z, b + 1, op, i))
                    /\ Cardinality(Claims(h, r, Tail(q), z, b + 1, op, i)) = count[op][i]
  BY DEF Counted
<1>1. ~Destroying(Head(q), op, i)
  BY DEF Destroying
<1>2. SameSent(q, b, Tail(q), b + 1, op, i)
  BY <1>1, SentTail DEF SameSent
<1>3. b + 1 \in Nat
  OBVIOUS
<1>4. Claims(h, r, Tail(q), z, b + 1, op, i) = Claims(h, r, q, z, b, op, i)
  BY <1>2, ClaimsSame, ClaimsReflexive
<1> QED
  BY <1>4 DEF Counted

\* A message is read that destroys entry i0 of the table of op0: there is an entry to
\* count down.
LEMMA CountedDestroyed ==
  ASSUME NEW h, NEW r, NEW S, NEW q \in Seq(S), q # <<>>, NEW z, NEW b \in Nat,
         NEW count \in [Creates -> [Index -> Int]], Counted(h, r, q, z, b, count),
         NEW op0 \in Creates, NEW i0 \in Index, Destroying(Head(q), op0, i0)
  PROVE  /\ count[op0][i0] >= 1
         /\ Counted(h, r, Tail(q), z, b + 1, [count EXCEPT ![op0][i0] = @ - 1])
<1> DEFINE x == Sent(b + 1)
           count2 == [count EXCEPT ![op0][i0] = @ - 1]
<1>1. b + 1 \in Nat
  OBVIOUS
<1>2. x \in Claims(h, r, q, z, b, op0, i0)
  BY <1>1, SentTail, SentClaims
<1>3. IsFiniteSet(Claims(h, r, q, z, b, op0, i0)) /\ Cardinality(Claims(h, r, q, z, b, op0, i0)) = count[op0][i0]
  BY DEF Counted
<1>4. count[op0][i0] >= 1
  BY <1>2, <1>3, ClaimsCount
<1>5. ASSUME NEW op \in Creates, NEW i \in Index
      PROVE  /\ IsFiniteSet(Claims(h, r, Tail(q), z, b + 1, op, i))
             /\ Cardinality(Claims(h, r, Tail(q), z, b + 1, op, i)) = count2[op][i]
  <2>1. CASE op = op0 /\ i = i0
    <3>1. SentBut(b + 1, q, b, Tail(q), b + 1, op, i)
      BY SentTail DEF SentBut
    <3>3. Claims(h, r, Tail(q), z, b + 1, op, i) = Claims(h, r, q, z, b, op, i) \ {x}
      BY <1>1, <3>1, ClaimRead
    <3>4. count2[op][i] = count[op][i] - 1
      BY <2>1
    <3> QED
      BY <1>2, <1>3, <2>1, <3>3, <3>4, ClaimsCount
  <2>2. CASE ~(op = op0 /\ i = i0)
    <3>1. ~Destroying(Head(q), op, i)
      BY <2>2 DEF Destroying
    <3>2. SameSent(q, b, Tail(q), b + 1, op, i)
      BY <3>1, SentTail DEF SameSent
    <3>3. Claims(h, r, Tail(q), z, b + 1, op, i) = Claims(h, r, q, z, b, op, i)
      <4>1. SameRefs(h, r, h, r, op, i) /\ SameDue(z, z, op, i)
        BY ClaimsReflexive
      <4> QED
        BY <3>2, <4>1, ClaimsSame
    <3>4. count2[op][i] = count[op][i]
      BY <2>2
    <3> QED
      BY <3>3, <3>4 DEF Counted
  <2> QED
    BY <2>1, <2>2
<1> QED
  BY <1>4, <1>5 DEF Counted
\* A client destroys an object it has a reference to: the message is the claim now.
DestroysAt(m, op0, i0) == \A op, i : Destroying(m, op, i) <=> op = op0 /\ i = i0
GivesUp(h, r, r2, c, n, op, i) ==
  OfKind(n, op) /\ h[c][n] = i /\ r[c][n] > 0 /\ r2 = [r EXCEPT ![c][n] = @ - 1]

LEMMA CountedDestroySent ==
  ASSUME NEW h, NEW r \in [Clients -> [Names -> Int]], NEW q \in Seq(ServerMail), NEW z, NEW b \in Nat, NEW count,
         Counted(h, r, q, z, b, count), ObjectsApart,
         NEW c \in Clients, NEW n \in Names, NEW op0, NEW i0, NEW r2, GivesUp(h, r, r2, c, n, op0, i0),
         NEW m \in ServerMail, DestroysAt(m, op0, i0)
  PROVE  Counted(h, r2, Append(q, m), z, b, count)
<1> DEFINE q2 == Append(q, m)
           k == b + Len(q) + 1
           x == Ref(c, n, r[c][n])
<1>9. OfKind(n, op0) /\ h[c][n] = i0 /\ r[c][n] > 0 /\ r2 = [r EXCEPT ![c][n] = @ - 1]
  BY DEF GivesUp
<1>0. k \in Nat /\ r[c][n] \in Nat
  BY <1>9
<1>1. ASSUME NEW d \in Clients, NEW o \in Names
      PROVE  /\ r2[d][o] = IF d = c /\ o = n THEN r[c][n] - 1 ELSE r[d][o]
             /\ r[d][o] \in Int
  BY <1>9
<1> HIDE DEF q2, k
<1> SUFFICES ASSUME NEW op \in Creates, NEW i \in Index
             PROVE  /\ IsFiniteSet(Claims(h, r2, q2, z, b, op, i))
                    /\ Cardinality(Claims(h, r2, q2, z, b, op, i)) = count[op][i]
  BY DEF Counted, q2
<1>6. Destroying(m, op, i) <=> op = op0 /\ i = i0
  BY DEF DestroysAt
<1>2. IsFiniteSet(Claims(h, r, q, z, b, op, i)) /\ Cardinality(Claims(h, r, q, z, b, op, i)) = count[op][i]
  BY DEF Counted
<1>3. /\ \A j \in Nat : DestroySent(q2, b, op, i, j) <=> DestroySent(q, b, op, i, j) \/ (j = k /\ Destroying(m, op, i))
      /\ ~DestroySent(q, b, op, i, k)
  BY SentAppend DEF q2, k
<1>4. CASE op = op0 /\ i = i0
  <2>1. PICK D, E : D = {x} /\ E = {Sent(k)}
    OBVIOUS
  <2>2. E \subseteq Token
    BY <1>0, <2>1 DEF Token
  <2>3. ASSUME NEW d \in Clients, NEW o \in Names, NEW j \in Nat
        PROVE  RefAt(h, r2, op, i, d, o, j) <=>
                 (RefAt(h, r, op, i, d, o, j) /\ Ref(d, o, j) \notin D) \/ Ref(d, o, j) \in E
    <3>1. Ref(d, o, j) \notin E
      BY <2>1, TokensDiffer
    <3>2. Ref(d, o, j) \in D <=> d = c /\ o = n /\ j = r[c][n]
      BY <2>1, TokensDiffer
    <3>3. CASE d = c /\ o = n
      BY <1>0, <1>1, <1>9, <3>1, <3>2, <3>3 DEF RefAt
    <3>4. CASE ~(d = c /\ o = n)
      BY <1>1, <3>1, <3>2, <3>4 DEF RefAt
    <3> QED
      BY <3>3, <3>4
  <2>4. ASSUME NEW j \in Nat
        PROVE  DestroySent(q2, b, op, i, j) <=>
                 (DestroySent(q, b, op, i, j) /\ Sent(j) \notin D) \/ Sent(j) \in E
    <3>1. Sent(j) \notin D /\ (Sent(j) \in E <=> j = k)
      BY <2>1, TokensDiffer
    <3> QED
      BY <1>3, <1>4, <1>6, <3>1
  <2>5. ASSUME NEW d \in Clients
        PROVE  <<op, i>> \in z[d] <=> (<<op, i>> \in z[d] /\ Due(d) \notin D) \/ Due(d) \in E
    BY <2>1, TokensDiffer
  <2>6. /\ RefsChange(h, r, h, r2, op, i, D, E)
        /\ SentChange(q, b, q2, b, op, i, D, E)
        /\ DueChange(z, z, op, i, D, E)
    BY <2>3, <2>4, <2>5 DEF RefsChange, SentChange, DueChange
  <2>9. Claims(h, r2, q2, z, b, op, i) = (Claims(h, r, q, z, b, op, i) \ D) \cup E
    BY <2>2, <2>6, ClaimsChange
  <2>7. x \in Claims(h, r, q, z, b, op, i)
    <3>1. RefAt(h, r, op, i, c, n, r[c][n])
      BY <1>0, <1>4, <1>9 DEF RefAt
    <3> QED
      BY <1>0, <3>1, RefClaims
  <2>8. Sent(k) \notin Claims(h, r, q, z, b, op, i)
    BY <1>0, <1>3, SentClaims
  <2>10. Claims(h, r2, q2, z, b, op, i) = (Claims(h, r, q, z, b, op, i) \ {x}) \cup {Sent(k)}
    BY <2>1, <2>9
  <2>11. PICK C, y, v : C = Claims(h, r, q, z, b, op, i) /\ y = Sent(k) /\ v = count[op][i]
    OBVIOUS
  <2>12. IsFiniteSet((C \ {x}) \cup {y}) /\ Cardinality((C \ {x}) \cup {y}) = v
    <3> HIDE DEF x
    <3>1. IsFiniteSet(C) /\ Cardinality(C) = v /\ x \in C /\ y \notin C
      BY <1>2, <2>7, <2>8, <2>11
    <3> QED
      BY <3>1, ClaimsCount
  <2> QED
    BY <2>10, <2>11, <2>12
<1>5. CASE ~(op = op0 /\ i = i0)
  <2>1. SameSent(q, b, q2, b, op, i)
    BY <1>3, <1>5, <1>6 DEF SameSent
  <2>2. ASSUME NEW d \in Clients, NEW o \in Names, NEW j \in Nat
        PROVE  RefAt(h, r2, op, i, d, o, j) <=> RefAt(h, r, op, i, d, o, j)
    <3>1. CASE d = c /\ o = n
      <4>1. op = op0 \/ ~OfKind(n, op)
        BY <1>9 DEF OfKind, ObjectsApart
      <4> QED
        BY <1>5, <1>9, <3>1, <4>1 DEF RefAt
    <3>2. CASE ~(d = c /\ o = n)
      BY <1>1, <3>2 DEF RefAt
    <3> QED
      BY <3>1, <3>2
  <2>3. Claims(h, r2, q2, z, b, op, i) = Claims(h, r, q, z, b, op, i)
    <3>1. SameRefs(h, r, h, r2, op, i) /\ SameDue(z, z, op, i)
      BY <2>2, ClaimsReflexive DEF SameRefs
    <3> QED
      BY <2>1, <3>1, ClaimsSame
  <2> QED
    BY <1>2, <2>3
<1> QED
  BY <1>4, <1>5

\* A create is answered with an entry: the answer is a claim.
NewDue(z, z2, c, op, i) ==
  z[c] = {} /\ z2[c] = {<<op, i>>} /\ \A d \in Clients : d # c => z2[d] = z[d]

LEMMA CountedAnswer ==
  ASSUME NEW h, NEW r, NEW q, NEW z, NEW b \in Nat, NEW count \in [Creates -> [Index -> Int]],
         Counted(h, r, q, z, b, count), NEW op0 \in Creates, NEW i0 \in Index,
         NEW c \in Clients, NEW z2, NewDue(z, z2, c, op0, i0),
         NEW count2, count2 = [count EXCEPT ![op0][i0] = @ + 1]
  PROVE  Counted(h, r, q, z2, b, count2)
<1>0. z[c] = {} /\ z2[c] = {<<op0, i0>>} /\ \A d \in Clients : d # c => z2[d] = z[d]
  BY DEF NewDue
<1> SUFFICES ASSUME NEW op \in Creates, NEW i \in Index
             PROVE  /\ IsFiniteSet(Claims(h, r, q, z2, b, op, i))
                    /\ Cardinality(Claims(h, r, q, z2, b, op, i)) = count2[op][i]
  BY DEF Counted
<1>1. IsFiniteSet(Claims(h, r, q, z, b, op, i)) /\ Cardinality(Claims(h, r, q, z, b, op, i)) = count[op][i]
  BY DEF Counted
<1>2. <<op, i>> \in z2[c] <=> op = op0 /\ i = i0
  BY <1>0
<1>3. CASE op = op0 /\ i = i0
  <2>1. PICK D, E : D = {} /\ E = {Due(c)}
    OBVIOUS
  <2>2. E \subseteq Token
    BY <2>1 DEF Token
  <2>3. \A d \in Clients, o \in Names, j \in Nat :
          RefAt(h, r, op, i, d, o, j) <=>
            (RefAt(h, r, op, i, d, o, j) /\ Ref(d, o, j) \notin D) \/ Ref(d, o, j) \in E
    BY <2>1, TokensDiffer
  <2>4. \A j \in Nat :
          DestroySent(q, b, op, i, j) <=> (DestroySent(q, b, op, i, j) /\ Sent(j) \notin D) \/ Sent(j) \in E
    BY <2>1, TokensDiffer
  <2>5. ASSUME NEW d \in Clients
        PROVE  <<op, i>> \in z2[d] <=> (<<op, i>> \in z[d] /\ Due(d) \notin D) \/ Due(d) \in E
    <3>1. Due(d) \notin D /\ (Due(d) \in E <=> d = c)
      BY <2>1, TokensDiffer
    <3> QED
      BY <1>0, <1>2, <1>3, <3>1
  <2>6. /\ RefsChange(h, r, h, r, op, i, D, E)
        /\ SentChange(q, b, q, b, op, i, D, E)
        /\ DueChange(z, z2, op, i, D, E)
    BY <2>3, <2>4, <2>5 DEF RefsChange, SentChange, DueChange
  <2>9. Claims(h, r, q, z2, b, op, i) = (Claims(h, r, q, z, b, op, i) \ D) \cup E
    BY <2>2, <2>6, ClaimsChange
  <2>7. Due(c) \notin Claims(h, r, q, z, b, op, i)
    BY <1>0, DueClaims
  <2>8. Claims(h, r, q, z2, b, op, i) = Claims(h, r, q, z, b, op, i) \cup {Due(c)}
    BY <2>1, <2>9
  <2>10. count2[op][i] = count[op][i] + 1
    BY <1>3
  <2> QED
    BY <1>1, <2>7, <2>8, <2>10, ClaimsCount
<1>4. CASE ~(op = op0 /\ i = i0)
  <2>1. SameDue(z, z2, op, i)
    BY <1>0, <1>2, <1>4 DEF SameDue
  <2>2. Claims(h, r, q, z2, b, op, i) = Claims(h, r, q, z, b, op, i)
    <3>1. SameRefs(h, r, h, r, op, i) /\ SameSent(q, b, q, b, op, i)
      BY ClaimsReflexive
    <3> QED
      BY <2>1, <3>1, ClaimsSame
  <2>3. count2[op][i] = count[op][i]
    BY <1>4
  <2> QED
    BY <1>1, <2>2, <2>3
<1> QED
  BY <1>3, <1>4

\* The client reads such an answer: it has one reference more.
TakesUp(h, r, h2, r2, c, n, op, i) ==
  /\ OfKind(n, op) /\ r[c][n] >= 0 /\ (r[c][n] > 0 => h[c][n] = i)
  /\ h2 = [h EXCEPT ![c][n] = i] /\ r2 = [r EXCEPT ![c][n] = @ + 1]

LEMMA CountedReturn ==
  ASSUME NEW h \in [Clients -> [Names -> Int]], NEW r \in [Clients -> [Names -> Int]], NEW q, NEW z, NEW b \in Nat,
         NEW count, Counted(h, r, q, z, b, count), ObjectsApart, NEW op0, NEW i0 \in Int,
         NEW c \in Clients, NEW n \in Names, NEW h2, NEW r2, TakesUp(h, r, h2, r2, c, n, op0, i0),
         NEW z2, NewDue(z2, z, c, op0, i0)
  PROVE  Counted(h2, r2, q, z2, b, count)
<1> DEFINE y == Ref(c, n, r[c][n] + 1)
<1>9. /\ OfKind(n, op0) /\ r[c][n] >= 0 /\ (r[c][n] > 0 => h[c][n] = i0)
      /\ h2 = [h EXCEPT ![c][n] = i0] /\ r2 = [r EXCEPT ![c][n] = @ + 1]
  BY DEF TakesUp
<1>10. z[c] = {<<op0, i0>>} /\ z2[c] = {} /\ \A d \in Clients : d # c => z2[d] = z[d]
  BY DEF NewDue
<1>0. r[c][n] \in Nat /\ r[c][n] + 1 \in Nat
  BY <1>9
<1>1. ASSUME NEW d \in Clients, NEW o \in Names
      PROVE  /\ r2[d][o] = IF d = c /\ o = n THEN r[c][n] + 1 ELSE r[d][o]
             /\ h2[d][o] = IF d = c /\ o = n THEN i0 ELSE h[d][o]
  BY <1>9
<1> SUFFICES ASSUME NEW op \in Creates, NEW i \in Index
             PROVE  /\ IsFiniteSet(Claims(h2, r2, q, z2, b, op, i))
                    /\ Cardinality(Claims(h2, r2, q, z2, b, op, i)) = count[op][i]
  BY DEF Counted
<1>2. IsFiniteSet(Claims(h, r, q, z, b, op, i)) /\ Cardinality(Claims(h, r, q, z, b, op, i)) = count[op][i]
  BY DEF Counted
<1>3. <<op, i>> \in z[c] <=> op = op0 /\ i = i0
  BY <1>10
<1>4. CASE op = op0 /\ i = i0
  <2>1. PICK D, E : D = {Due(c)} /\ E = {y}
    OBVIOUS
  <2>2. E \subseteq Token
    BY <1>0, <2>1 DEF Token
  <2>3. ASSUME NEW d \in Clients, NEW o \in Names, NEW j \in Nat
        PROVE  RefAt(h2, r2, op, i, d, o, j) <=>
                 (RefAt(h, r, op, i, d, o, j) /\ Ref(d, o, j) \notin D) \/ Ref(d, o, j) \in E
    <3>1. Ref(d, o, j) \notin D
      BY <2>1, TokensDiffer
    <3>2. Ref(d, o, j) \in E <=> d = c /\ o = n /\ j = r[c][n] + 1
      BY <2>1, TokensDiffer
    <3>3. CASE d = c /\ o = n
      <4>1. RefAt(h2, r2, op, i, d, o, j) <=> 1 <= j /\ j <= r[c][n] + 1
        BY <1>1, <1>4, <1>9, <3>3 DEF RefAt
      <4>2. RefAt(h, r, op, i, d, o, j) <=> 1 <= j /\ j <= r[c][n]
        BY <1>0, <1>4, <1>9, <3>3 DEF RefAt
      <4>3. \A v \in Nat : (1 <= j /\ j <= v + 1) <=> ((1 <= j /\ j <= v) \/ j = v + 1)
        OBVIOUS
      <4> QED
        BY <1>0, <3>1, <3>2, <3>3, <4>1, <4>2, <4>3
    <3>4. CASE ~(d = c /\ o = n)
      BY <1>1, <3>1, <3>2, <3>4 DEF RefAt
    <3> QED
      BY <3>3, <3>4
  <2>4. \A j \in Nat :
          DestroySent(q, b, op, i, j) <=> (DestroySent(q, b, op, i, j) /\ Sent(j) \notin D) \/ Sent(j) \in E
    BY <2>1, TokensDiffer
  <2>5. ASSUME NEW d \in Clients
        PROVE  <<op, i>> \in z2[d] <=> (<<op, i>> \in z[d] /\ Due(d) \notin D) \/ Due(d) \in E
    <3>1. Due(d) \notin E /\ (Due(d) \in D <=> d = c)
      BY <2>1, TokensDiffer
    <3> QED
      BY <1>3, <1>4, <1>10, <3>1
  <2>6. /\ RefsChange(h, r, h2, r2, op, i, D, E)
        /\ SentChange(q, b, q, b, op, i, D, E)
        /\ DueChange(z, z2, op, i, D, E)
    BY <2>3, <2>4, <2>5 DEF RefsChange, SentChange, DueChange
  <2>9. Claims(h2, r2, q, z2, b, op, i) = (Claims(h, r, q, z, b, op, i) \ D) \cup E
    BY <2>2, <2>6, ClaimsChange
  <2>7. Due(c) \in Claims(h, r, q, z, b, op, i)
    BY <1>3, <1>4, DueClaims
  <2>8. y \notin Claims(h, r, q, z, b, op, i)
    <3>1. ~RefAt(h, r, op, i, c, n, r[c][n] + 1)
      BY <1>0 DEF RefAt
    <3> QED
      BY <1>0, <3>1, RefClaims
  <2>10. Claims(h2, r2, q, z2, b, op, i) = (Claims(h, r, q, z, b, op, i) \ {Due(c)}) \cup {y}
    BY <2>1, <2>9
  <2> QED
    BY <1>2, <2>7, <2>8, <2>10, ClaimsCount
<1>5. CASE ~(op = op0 /\ i = i0)
  <2>1. SameDue(z, z2, op, i)
    BY <1>3, <1>5, <1>10 DEF SameDue
  <2>2. ASSUME NEW d \in Clients, NEW o \in Names, NEW j \in Nat
        PROVE  RefAt(h2, r2, op, i, d, o, j) <=> RefAt(h, r, op, i, d, o, j)
    <3>1. CASE d = c /\ o = n
      <4>1. op = op0 \/ ~OfKind(n, op)
        BY <1>9 DEF OfKind, ObjectsApart
      <4>2. CASE ~OfKind(n, op)
        BY <3>1, <4>2 DEF RefAt
      <4>3. CASE op = op0
        BY <1>0, <1>1, <1>5, <1>9, <3>1, <4>3 DEF RefAt
      <4> QED
        BY <4>1, <4>2, <4>3
    <3>2. CASE ~(d = c /\ o = n)
      BY <1>1, <3>2 DEF RefAt
    <3> QED
      BY <3>1, <3>2
  <2>3. SameRefs(h, r, h2, r2, op, i) /\ SameSent(q, b, q, b, op, i)
    BY <2>2, ClaimsReflexive DEF SameRefs
  <2>4. Claims(h2, r2, q, z2, b, op, i) = Claims(h, r, q, z, b, op, i)
    BY <2>1, <2>3, ClaimsSame
  <2> QED
    BY <1>2, <2>4
<1> QED
  BY <1>4, <1>5

\* The client reads that its create failed, and has no reference.
LEMMA CountedFailure ==
  ASSUME NEW h \in [Clients -> [Names -> Int]], NEW r \in [Clients -> [Names -> Int]], NEW q, NEW z, NEW b \in Nat,
         NEW count, Counted(h, r, q, z, b, count), NEW c \in Clients, NEW n \in Names, r[c][n] <= 0, NEW id
  PROVE  Counted([h EXCEPT ![c][n] = id], r, q, z, b, count)
<1> DEFINE h2 == [h EXCEPT ![c][n] = id]
<1>1. ASSUME NEW op, NEW i, NEW d \in Clients, NEW o \in Names, NEW j \in Nat
      PROVE  RefAt(h2, r, op, i, d, o, j) <=> RefAt(h, r, op, i, d, o, j)
  <2>1. CASE d = c /\ o = n
    <3>1. r[c][n] \in Int /\ ~(1 <= j /\ j <= r[c][n])
      OBVIOUS
    <3> QED
      BY <2>1, <3>1 DEF RefAt
  <2>2. CASE ~(d = c /\ o = n)
    <3>1. h2[d][o] = h[d][o]
      BY <2>2
    <3> QED
      BY <3>1 DEF RefAt
  <2> QED
    BY <2>1, <2>2
<1> HIDE DEF h2
<1>2. ASSUME NEW op, NEW i
      PROVE  Claims(h2, r, q, z, b, op, i) = Claims(h, r, q, z, b, op, i)
  <2>1. SameRefs(h, r, h2, r, op, i)
    BY <1>1 DEF SameRefs
  <2>2. SameSent(q, b, q, b, op, i) /\ SameDue(z, z, op, i)
    BY ClaimsReflexive
  <2> QED
    BY <2>1, <2>2, ClaimsSame
<1>3. Counted(h2, r, q, z, b, count)
  BY <1>2 DEF Counted
<1> QED
  BY <1>3 DEF h2
-------------------------------------------------------------------------------
(***************************************************************************)
(* What the functions of the server do to the counts and the names.        *)
(***************************************************************************)
\* The count of an entry, 0 when it is not in use, and its name.
CountIn(t, i) == IF t.slot[i] = NULL THEN 0 ELSE t.slot[i].count
NamedIn(t, i, n) == t.slot[i] # NULL /\ t.slot[i].name = n

\* The entries that count in t2 have the names they had in t.
NamesLast(t, t2) ==
  \A i \in Index : \A n : NamedIn(t, i, n) /\ CountIn(t2, i) # 0 => NamedIn(t2, i, n)
\* And they have the same counts; or one of them, at j, has d more.
Lasts(t, t2) == NamesLast(t, t2) /\ \A i \in Index : CountIn(t2, i) = CountIn(t, i)
Recounts(t, t2, j, d) ==
  NamesLast(t, t2) /\ \A i \in Index : CountIn(t2, i) = CountIn(t, i) + (IF i = j THEN d ELSE 0)
\* Monitor variables keep their sizes.
SizesLast(t, t2) ==
  \A i \in Index : t2.slot[i] # NULL =>
    t.slot[i] # NULL /\ t2.slot[i].name = t.slot[i].name /\ t2.slot[i].size = t.slot[i].size

\* A step of the server that creates and destroys nothing.
Keeps(st, st2) ==
  /\ Lasts(st.locks, st2.locks) /\ Lasts(st.cvs, st2.cvs) /\ Lasts(st.mvs, st2.mvs)
  /\ SizesLast(st.mvs, st2.mvs)
SameTables(st, st2) == st2.locks = st.locks /\ st2.cvs = st.cvs /\ st2.mvs = st.mvs

LEMMA LastsSame == \A t : Lasts(t, t) /\ SizesLast(t, t)
BY DEF Lasts, NamesLast, SizesLast

LEMMA LastsTrans ==
  ASSUME NEW t, NEW u, NEW v, Lasts(t, u), Lasts(u, v)
  PROVE  Lasts(t, v)
<1>1. \A i \in Index : CountIn(v, i) = CountIn(t, i) /\ CountIn(u, i) = CountIn(v, i)
  BY DEF Lasts
<1> QED
  BY <1>1 DEF Lasts, NamesLast

LEMMA KeepsTables ==
  ASSUME NEW st, NEW st2, SameTables(st, st2)
  PROVE  Keeps(st, st2)
BY LastsSame DEF Keeps, SameTables

LEMMA KeepsTrans ==
  ASSUME NEW st, NEW st1, NEW st2, Keeps(st, st1), Keeps(st1, st2)
  PROVE  Keeps(st, st2)
<1>1. Lasts(st.locks, st2.locks) /\ Lasts(st.cvs, st2.cvs) /\ Lasts(st.mvs, st2.mvs)
  BY LastsTrans DEF Keeps
<1>2. SizesLast(st.mvs, st2.mvs)
  BY DEF Keeps, SizesLast
<1> QED
  BY <1>1, <1>2 DEF Keeps

\* Sending a result, and making a request that nobody is sent.
LEMMA SendResultTables ==
  ASSUME NEW st \in GoodServer, NEW c, NEW oks, NEW vals
  PROVE  SameTables(st, SendResult(st, c, oks, vals))
BY DEF GoodServer, SendResult, SameTables

LEMMA ResultKeeps ==
  ASSUME NEW st \in GoodServer, NEW c
  PROVE  /\ \A ok : Keeps(st, Status(st, c, ok))
         /\ \A ok, val : Keeps(st, StatusAndValue(st, c, ok, val))
         /\ Keeps(st, StoredReply(st, c))
BY SendResultTables, KeepsTables DEF Status, StatusAndValue, StoredReply

\* An assignment to an entry in use that keeps its name and its count,
LEMMA PutEntryLasts ==
  ASSUME NEW R, NULL \notin R, NEW t \in GoodTable(R), NEW i \in Index, t.slot[i] # NULL,
         NEW x \in R, x.name = t.slot[i].name, x.count = t.slot[i].count
  PROVE  Lasts(t, [t EXCEPT !.slot[i] = x])
<1> DEFINE t2 == [t EXCEPT !.slot[i] = x]
<1>1. \A j \in Index : t2.slot[j] = IF j = i THEN x ELSE t.slot[j]
  BY DEF GoodTable, TableOf
<1> HIDE DEF t2
<1>2. x # NULL
  OBVIOUS
<1>3. \A j \in Index : CountIn(t2, j) = CountIn(t, j)
  BY <1>1, <1>2 DEF CountIn
<1>4. NamesLast(t, t2)
  BY <1>1, <1>2 DEF NamesLast, NamedIn
<1> QED
  BY <1>3, <1>4 DEF Lasts, t2

\* and one that counts one less, or removes the entry at the count of 1.
LEMMA PutEntryRecounts ==
  ASSUME NEW R, NULL \notin R, NEW t \in GoodTable(R), NEW i \in Index, t.slot[i] # NULL, t.slot[i].count \in Int,
         NEW x \in R, x.name = t.slot[i].name, x.count = t.slot[i].count - 1,
         \A j \in Index : CountIn(t, j) \in Int
  PROVE  Recounts(t, [t EXCEPT !.slot[i] = x], i, -1)
<1> DEFINE t2 == [t EXCEPT !.slot[i] = x]
<1>1. \A j \in Index : t2.slot[j] = IF j = i THEN x ELSE t.slot[j]
  BY DEF GoodTable, TableOf
<1> HIDE DEF t2
<1>2. x # NULL
  OBVIOUS
<1>3. \A j \in Index : CountIn(t2, j) = CountIn(t, j) + (IF j = i THEN -1 ELSE 0)
  BY <1>1, <1>2 DEF CountIn
<1>4. NamesLast(t, t2)
  BY <1>1, <1>2 DEF NamesLast, NamedIn
<1> QED
  BY <1>3, <1>4 DEF Recounts, t2

LEMMA RemoveSlots ==
  ASSUME NEW R, NEW t \in GoodTable(R), NEW i \in Index
  PROVE  \A j \in Index : Remove(t, i).slot[j] = IF j = i THEN NULL ELSE t.slot[j]
BY DEF GoodTable, TableOf, Remove

LEMMA RemoveNames ==
  ASSUME NEW R, NEW t \in GoodTable(R), NEW i \in Index
  PROVE  /\ NamesLast(t, Remove(t, i))
         /\ SizesLast(t, Remove(t, i))
         /\ \A j \in Index : CountIn(Remove(t, i), j) = IF j = i THEN 0 ELSE CountIn(t, j)
<1>1. PICK t2 : t2 = Remove(t, i)
  OBVIOUS
<1>2. \A j \in Index : t2.slot[j] = IF j = i THEN NULL ELSE t.slot[j]
  BY <1>1, RemoveSlots
<1>3. \A j \in Index : CountIn(t2, j) = IF j = i THEN 0 ELSE CountIn(t, j)
  BY <1>2 DEF CountIn
<1> QED
  BY <1>1, <1>2, <1>3 DEF NamesLast, NamedIn, SizesLast

LEMMA RemoveLasts ==
  ASSUME NEW R, NEW t \in GoodTable(R), NEW i \in Index, t.slot[i] # NULL, t.slot[i].count = 0
  PROVE  Lasts(t, Remove(t, i))
<1>1. CountIn(t, i) = 0
  BY DEF CountIn
<1> QED
  BY <1>1, RemoveNames DEF Lasts

LEMMA RemoveRecounts ==
  ASSUME NEW R, NEW t \in GoodTable(R), NEW i \in Index, t.slot[i] # NULL, t.slot[i].count = 1,
         \A j \in Index : CountIn(t, j) \in Int
  PROVE  Recounts(t, Remove(t, i), i, -1)
<1>1. CountIn(t, i) = 1
  BY DEF CountIn
<1> QED
  BY <1>1, RemoveNames DEF Recounts

\* Counts are integers.
LEMMA CountType ==
  ASSUME NEW st \in GoodServer, NEW i \in Index
  PROVE  CountIn(st.locks, i) \in Int /\ CountIn(st.cvs, i) \in Int /\ CountIn(st.mvs, i) \in Int
<1>1. /\ st.locks.slot[i] \in ServerLock \cup {NULL}
      /\ st.cvs.slot[i] \in ServerCV \cup {NULL}
      /\ st.mvs.slot[i] \in ServerMV \cup {NULL}
  BY DEF GoodServer, GoodTable, TableOf, GoodLock, GoodCV, GoodMV
<1>2. \A x \in ServerLock \cup ServerCV \cup ServerMV : x.count \in Int
  BY DEF ServerLock, ServerCV, ServerMV
<1> QED
  BY <1>1, <1>2 DEF CountIn

LEMMA PutLockKeeps ==
  ASSUME NEW st \in GoodServer, NEW i \in Index, st.locks.slot[i] # NULL, NEW l \in GoodLock,
         l.name = st.locks.slot[i].name, l.count = st.locks.slot[i].count
  PROVE  Keeps(st, PutLock(st, i, l))
<1> DEFINE t == [st.locks EXCEPT !.slot[i] = l]
<1>1. st.locks \in GoodTable(GoodLock)
  BY DEF GoodServer
<1>2. Lasts(st.locks, t)
  BY <1>1, NullNotGood, PutEntryLasts
<1>3. PutLock(st, i, l) = [st EXCEPT !.locks = t]
  BY DEF PutLock
<1> HIDE DEF t
<1>4. PutLock(st, i, l).locks = t /\ PutLock(st, i, l).cvs = st.cvs /\ PutLock(st, i, l).mvs = st.mvs
  BY <1>3 DEF GoodServer
<1> QED
  BY <1>2, <1>4, LastsSame DEF Keeps

LEMMA PutCVKeeps ==
  ASSUME NEW st \in GoodServer, NEW i \in Index, st.cvs.slot[i] # NULL, NEW cv \in GoodCV,
         cv.name = st.cvs.slot[i].name, cv.count = st.cvs.slot[i].count
  PROVE  Keeps(st, PutCV(st, i, cv))
<1> DEFINE t == [st.cvs EXCEPT !.slot[i] = cv]
<1>1. st.cvs \in GoodTable(GoodCV)
  BY DEF GoodServer
<1>2. Lasts(st.cvs, t)
  BY <1>1, NullNotGood, PutEntryLasts
<1>3. PutCV(st, i, cv) = [st EXCEPT !.cvs = t]
  BY DEF PutCV
<1> HIDE DEF t
<1>4. PutCV(st, i, cv).locks = st.locks /\ PutCV(st, i, cv).cvs = t /\ PutCV(st, i, cv).mvs = st.mvs
  BY <1>3 DEF GoodServer
<1> QED
  BY <1>2, <1>4, LastsSame DEF Keeps

LEMMA CheckLockAndDestroyKeeps ==
  ASSUME NEW st \in GoodServer, NEW i \in Index, st.locks.slot[i] # NULL
  PROVE  Keeps(st, CheckLockAndDestroy(st, i))
<1>1. CASE CheckLockAndDestroy(st, i) = st
  BY <1>1, KeepsTables DEF SameTables
<1>2. CASE st.locks.slot[i].count = 0 /\ CheckLockAndDestroy(st, i) = [st EXCEPT !.locks = Remove(st.locks, i)]
  <2>1. PICK t : t = Remove(st.locks, i)
    OBVIOUS
  <2>2. Lasts(st.locks, t)
    BY <1>2, <2>1, RemoveLasts DEF GoodServer
  <2>3. PICK st2 : st2 = CheckLockAndDestroy(st, i)
    OBVIOUS
  <2>4. st2.locks = t /\ st2.cvs = st.cvs /\ st2.mvs = st.mvs
    BY <1>2, <2>1, <2>3 DEF GoodServer
  <2> QED
    BY <2>2, <2>3, <2>4, LastsSame DEF Keeps
<1> QED
  BY <1>1, <1>2 DEF CheckLockAndDestroy

\* serverDoAcquireLock and serverDoReleaseLock.
LEMMA DoAcquireLockKeeps ==
  ASSUME NEW st \in GoodServer, NEW i \in Int, NEW a, NEW c \in Clients
  PROVE  Keeps(st, DoAcquireLock(st, i, a, c))
<1> DEFINE l == st.locks.slot[i]
<1>1. CASE ~Exists(st.locks, i)
  BY <1>1, ResultKeeps DEF DoAcquireLock
<1>2. CASE Exists(st.locks, i)
  <2>1. i \in Index /\ l # NULL /\ l \in GoodLock
    BY <1>2, ExistsEntry DEF GoodServer
  <2>2. CASE IsOwner(l, c)
    BY <1>2, <2>2, ResultKeeps DEF DoAcquireLock
  <2>3. CASE ~IsOwner(l, c) /\ l.state = "BUSY"
    <3> DEFINE x == [l EXCEPT !.q = Append(@, c)]
    <3>1. x \in GoodLock /\ x.name = l.name /\ x.count = l.count
      <4>1. l \in ServerLock /\ Append(l.q, c) \in Seq(Clients)
        BY <2>1 DEF GoodLock, ServerLock
      <4>2. x \in ServerLock /\ x.state = "BUSY" /\ x.name = l.name /\ x.count = l.count
        BY <2>3, <4>1 DEF ServerLock
      <4> QED
        BY <4>2 DEF GoodLock
    <3>2. DoAcquireLock(st, i, a, c) = PutLock(st, i, x)
      BY <1>2, <2>3 DEF DoAcquireLock
    <3> HIDE DEF x
    <3> QED
      BY <2>1, <3>1, <3>2, PutLockKeeps
  <2>4. CASE ~IsOwner(l, c) /\ l.state # "BUSY"
    <3> DEFINE x == [l EXCEPT !.state = "BUSY", !.owner = c]
               st1 == PutLock(st, i, x)
    <3>1. x \in GoodLock /\ x.name = l.name /\ x.count = l.count
      BY <2>1, <2>4 DEF GoodLock, ServerLock
    <3>2. DoAcquireLock(st, i, a, c) = Status(st1, c, TRUE)
      BY <1>2, <2>4 DEF DoAcquireLock
    <3> HIDE DEF x
    <3>3. st1 \in GoodServer /\ Keeps(st, st1)
      BY <2>1, <3>1, PutLockGood, PutLockKeeps
    <3> HIDE DEF st1
    <3>4. Keeps(st1, Status(st1, c, TRUE))
      BY <3>3, ResultKeeps
    <3> QED
      BY <3>2, <3>3, <3>4, KeepsTrans
  <2> QED
    BY <2>2, <2>3, <2>4
<1> QED
  BY <1>1, <1>2

LEMMA DoReleaseLockKeeps ==
  ASSUME NEW st \in GoodServer, NEW i \in Int, NEW a, NEW c \in Clients
  PROVE  Keeps(st, DoReleaseLock(st, i, a, c))
<1> DEFINE l == st.locks.slot[i]
<1>1. CASE ~Exists(st.locks, i) \/ ~IsOwner(l, c)
  <2>1. DoReleaseLock(st, i, a, c) = st
    BY <1>1 DEF DoReleaseLock
  <2> QED
    BY <2>1, KeepsTables DEF SameTables
<1>2. CASE Exists(st.locks, i) /\ IsOwner(l, c)
  <2>1. i \in Index /\ l # NULL /\ l \in GoodLock
    BY <1>2, ExistsEntry DEF GoodServer
  <2>2. CASE l.q # <<>>
    <3> DEFINE x == [l EXCEPT !.owner = Head(l.q), !.q = Tail(l.q)]
               st1 == PutLock(st, i, x)
    <3>1. Head(l.q) \in Clients /\ Tail(l.q) \in Seq(Clients)
      BY <2>1, <2>2 DEF GoodLock, ServerLock
    <3>2. x \in GoodLock /\ x.name = l.name /\ x.count = l.count
      BY <1>2, <2>1, <3>1 DEF GoodLock, ServerLock, IsOwner
    <3>3. DoReleaseLock(st, i, a, c) = StoredReply(st1, Head(l.q))
      BY <1>2, <2>2 DEF DoReleaseLock
    <3> HIDE DEF x
    <3>4. st1 \in GoodServer /\ Keeps(st, st1)
      BY <2>1, <3>2, PutLockGood, PutLockKeeps
    <3> HIDE DEF st1
    <3>5. Keeps(st1, StoredReply(st1, Head(l.q)))
      BY <3>4, ResultKeeps
    <3> QED
      BY <3>3, <3>4, <3>5, KeepsTrans
  <2>3. CASE l.q = <<>>
    <3> DEFINE x == [l EXCEPT !.state = "FREE"]
               st1 == PutLock(st, i, x)
    <3>1. x \in GoodLock /\ x.name = l.name /\ x.count = l.count
      BY <2>1, <2>3 DEF GoodLock, ServerLock
    <3>2. DoReleaseLock(st, i, a, c) = CheckLockAndDestroy(st1, i)
      BY <1>2, <2>3 DEF DoReleaseLock
    <3> HIDE DEF x
    <3>3. st1 \in GoodServer /\ Keeps(st, st1) /\ st1.locks.slot[i] # NULL
      BY <2>1, <3>1, PutLockGood, PutLockKeeps, NullNotGood
    <3> HIDE DEF st1
    <3>4. Keeps(st1, CheckLockAndDestroy(st1, i))
      BY <2>1, <3>3, CheckLockAndDestroyKeeps
    <3> QED
      BY <3>2, <3>3, <3>4, KeepsTrans
  <2> QED
    BY <2>2, <2>3
<1> QED
  BY <1>1, <1>2

\* A lone server handles every request itself, with the tables as they are.
LEMMA RouteTables ==
  ASSUME OneServer, NEW st \in GoodServer, NEW type, NEW a, NEW c
  PROVE  \E st1 \in GoodServer : /\ RouteById(st, type, a, c) = Here(st1, IndexOf(a.obj))
                                 /\ SameTables(st, st1) /\ st1.loop = st.loop
<1> DEFINE i == IndexOf(a.obj)
<1>1. OwnIndex(st, a.obj) = i /\ Peers(st) = {}
  BY SoleId
<1> HIDE DEF i
<1>2. CASE i # -1
  <2>1. RouteById(st, type, a, c) = Here(st, i)
    BY <1>1, <1>2 DEF RouteById
  <2> QED
    BY <2>1 DEF i, SameTables
<1>3. CASE i = -1
  <2>1. RouteById(st, type, a, c) = Here(Unsent(st), i)
    BY <1>1, <1>3 DEF RouteById
  <2>2. SameTables(st, Unsent(st))
    BY DEF Unsent, SameTables, GoodServer
  <2> QED
    BY <2>1, <2>2, UnsentGood DEF i
<1> QED
  BY <1>2, <1>3

\* serverAcquireLock and serverReleaseLock.
LEMMA ServerLockKeeps ==
  ASSUME OneServer, NEW st \in GoodServer, NEW lk \in Nat, NEW c \in Clients
  PROVE  Keeps(st, ServerAcquireLock(st, lk, c)) /\ Keeps(st, ServerReleaseLock(st, lk, c))
<1> DEFINE a == LockArg(lk)
           i == IndexOf(lk)
<1>1. a.obj = lk
  BY DEF LockArg
<1>2. i \in Int
  BY IndexOfType
<1> HIDE DEF a, i
<1>3. Keeps(st, ServerAcquireLock(st, lk, c))
  <2>1. PICK st1 \in GoodServer : RouteById(st, "Acquire", a, c) = Here(st1, i) /\ SameTables(st, st1)
    BY <1>1, RouteTables DEF i
  <2>2. ServerAcquireLock(st, lk, c) = DoAcquireLock(st1, i, a, c)
    BY <2>1 DEF ServerAcquireLock, Here, a
  <2> QED
    BY <1>2, <2>1, <2>2, DoAcquireLockKeeps, KeepsTables, KeepsTrans
<1>4. Keeps(st, ServerReleaseLock(st, lk, c))
  <2>1. PICK st1 \in GoodServer : RouteById(st, "Release", a, c) = Here(st1, i) /\ SameTables(st, st1)
    BY <1>1, RouteTables DEF i
  <2>2. ServerReleaseLock(st, lk, c) = DoReleaseLock(st1, i, a, c)
    BY <2>1 DEF ServerReleaseLock, Here, a
  <2> QED
    BY <1>2, <2>1, <2>2, DoReleaseLockKeeps, KeepsTables, KeepsTrans
<1> QED
  BY <1>3, <1>4

\* serverDoWait, serverDoSignal and serverDoBroadcast.
LEMMA DoWaitKeeps ==
  ASSUME OneServer, NEW st \in GoodServer, NEW i \in Int, NEW a \in ArgsOf("Wait"), NEW c \in Clients
  PROVE  Keeps(st, DoWait(st, i, a, c))
<1> DEFINE cv == st.cvs.slot[i]
<1>1. CASE ~Exists(st.cvs, i) \/ cv.waitingLock \notin {-1, a.lock}
  BY <1>1, ResultKeeps DEF DoWait
<1>2. CASE Exists(st.cvs, i) /\ cv.waitingLock \in {-1, a.lock}
  <2> DEFINE q == Append(cv.q, c)
             x == [cv EXCEPT !.waitingLock = a.lock, !.q = q]
             st1 == PutCV(st, i, x)
  <2>1. i \in Index /\ cv # NULL /\ cv \in GoodCV
    BY <1>2, ExistsEntry DEF GoodServer
  <2>2. a.lock \in Nat
    BY DEF ArgsOf, ArgOK, Arg
  <2>3. cv \in ServerCV /\ q \in Seq(Clients) /\ q # <<>>
    BY <2>1 DEF GoodCV, ServerCV
  <2>4. x \in GoodCV /\ x.name = cv.name /\ x.count = cv.count
    <3> HIDE DEF q
    <3>1. x \in ServerCV /\ x.waitingLock = a.lock /\ x.q = q /\ x.name = cv.name /\ x.count = cv.count
      <4>1. a.lock \in Int
        BY <2>2
      <4> QED
        BY <2>3, <4>1, Zenon DEF ServerCV
    <3>2. a.lock # -1
      BY <2>2
    <3> QED
      BY <2>3, <3>1, <3>2, Zenon DEF GoodCV
  <2>5. DoWait(st, i, a, c) = ServerReleaseLock(st1, a.lock, c)
    BY <1>2 DEF DoWait
  <2> HIDE DEF x
  <2>6. st1 \in GoodServer /\ Keeps(st, st1)
    BY <2>1, <2>4, PutCVGood, PutCVKeeps
  <2> HIDE DEF st1
  <2> QED
    BY <2>2, <2>5, <2>6, ServerLockKeeps, KeepsTrans
<1> QED
  BY <1>1, <1>2

LEMMA WakeOneKeeps ==
  ASSUME OneServer, NEW st \in GoodServer, NEW i \in Index, st.cvs.slot[i] # NULL,
         st.cvs.slot[i].q # <<>>, NEW id \in Nat
  PROVE  Keeps(st, WakeOne(st, i, id))
<1> DEFINE cv == st.cvs.slot[i]
           w == IF Len(cv.q) = 1 THEN -1 ELSE cv.waitingLock
           x == [cv EXCEPT !.q = Tail(cv.q), !.waitingLock = w]
           st1 == PutCV(st, i, x)
<1>1. cv \in GoodCV
  BY DEF GoodServer, GoodTable, TableOf
<1>2. cv \in ServerCV /\ cv.q \in Seq(Clients) /\ cv.waitingLock \in Int /\ cv.waitingLock # -1
  BY <1>1 DEF GoodCV, ServerCV
<1>3. Head(cv.q) \in Clients /\ Tail(cv.q) \in Seq(Clients)
  BY <1>2
<1>4. Tail(cv.q) = <<>> <=> Len(cv.q) = 1
  <2>1. Len(Tail(cv.q)) = Len(cv.q) - 1 /\ Len(cv.q) \in Nat
    BY <1>2
  <2>2. Tail(cv.q) = <<>> <=> Len(Tail(cv.q)) = 0
    BY <1>3, EmptySeq
  <2> QED
    BY <2>1, <2>2
<1>5. w \in Int /\ (w = -1 <=> Tail(cv.q) = <<>>)
  BY <1>2, <1>4
<1>6. x \in GoodCV /\ x.name = cv.name /\ x.count = cv.count
  <2> HIDE DEF w
  <2>1. x \in ServerCV /\ x.waitingLock = w /\ x.q = Tail(cv.q) /\ x.name = cv.name /\ x.count = cv.count
    BY <1>2, <1>3, <1>5 DEF ServerCV
  <2> QED
    BY <1>5, <2>1 DEF GoodCV
<1>7. WakeOne(st, i, id) = ServerAcquireLock(st1, id, Head(cv.q))
  BY DEF WakeOne
<1> HIDE DEF x
<1>8. st1 \in GoodServer /\ Keeps(st, st1)
  BY <1>6, PutCVGood, PutCVKeeps
<1> HIDE DEF st1
<1> QED
  BY <1>3, <1>7, <1>8, ServerLockKeeps, KeepsTrans

LEMMA DoSignalKeeps ==
  ASSUME OneServer, NEW st \in GoodServer, NEW i \in Int, NEW a \in ArgsOf("Signal"), NEW c \in Clients
  PROVE  Keeps(st, DoSignal(st, i, a, c))
<1> DEFINE cv == st.cvs.slot[i]
           st1 == WakeOne(st, i, a.lock)
<1>1. CASE ~Exists(st.cvs, i) \/ cv.waitingLock = -1 \/ cv.waitingLock # a.lock
  BY <1>1, ResultKeeps DEF DoSignal
<1>2. CASE Exists(st.cvs, i) /\ cv.waitingLock # -1 /\ cv.waitingLock = a.lock
  <2>1. i \in Index /\ cv # NULL /\ cv \in GoodCV
    BY <1>2, ExistsEntry DEF GoodServer
  <2>2. cv.q # <<>> /\ a.lock \in Nat
    BY <1>2, <2>1 DEF GoodCV, ArgsOf, ArgOK, Arg
  <2>3. st1 \in GoodServer /\ Keeps(st, st1)
    BY <2>1, <2>2, WakeOneGood, WakeOneKeeps
  <2>4. DoSignal(st, i, a, c) = Status(st1, c, TRUE)
    BY <1>2 DEF DoSignal
  <2> HIDE DEF st1
  <2>5. Keeps(st1, Status(st1, c, TRUE))
    BY <2>3, ResultKeeps
  <2> QED
    BY <2>3, <2>4, <2>5, KeepsTrans
<1> QED
  BY <1>1, <1>2

LEMMA SetLoopTables ==
  ASSUME NEW st \in GoodServer, NEW x
  PROVE  SameTables(st, [st EXCEPT !.loop = x])
BY DEF GoodServer, SameTables

LEMMA DoBroadcastKeeps ==
  ASSUME NEW st \in GoodServer, NEW i, NEW a, NEW c
  PROVE  Keeps(st, DoBroadcast(st, i, a, c))
BY ResultKeeps, SetLoopTables, KeepsTables DEF DoBroadcast

LEMMA BroadcastRoundKeeps ==
  ASSUME OneServer, NEW st \in GoodServer, st.loop.type = "Broadcast"
  PROVE  Keeps(st, BroadcastRound(st))
<1> DEFINE i == st.loop.cv
           st1 == [st EXCEPT !.loop = NoLoop]
<1>1. st.loop.lock \in Nat /\ i \in Index
  BY DEF GoodServer, Loop, NoLoop, Creates
<1>2. st.cvs.slot[i] # NULL
  BY DEF GoodServer, Exists
<1>3. CASE st.cvs.slot[i].q # <<>>
  BY <1>1, <1>2, <1>3, WakeOneKeeps DEF BroadcastRound
<1>4. CASE st.cvs.slot[i].q = <<>>
  <2>1. BroadcastRound(st) = Status(st1, st.loop.client, TRUE)
    BY <1>4 DEF BroadcastRound
  <2>2. st1 \in GoodServer /\ SameTables(st, st1)
    BY NoLoopGood, SetLoopTables
  <2> HIDE DEF st1
  <2>3. Keeps(st1, Status(st1, st.loop.client, TRUE)) /\ Keeps(st, st1)
    BY <2>2, ResultKeeps, KeepsTables
  <2> QED
    BY <2>1, <2>3, KeepsTrans
<1> QED
  BY <1>3, <1>4

\* serverDoSet and serverDoGet.
LEMMA DoSetKeeps ==
  ASSUME NEW st \in GoodServer, NEW i \in Int, NEW a \in Arg, NEW c \in Clients
  PROVE  Keeps(st, DoSet(st, i, a, c))
<1> DEFINE mv == st.mvs.slot[i]
           w == [mv.v EXCEPT ![a.index + 1] = a.value]
           x == [mv EXCEPT !.v = w]
           t == [st.mvs EXCEPT !.slot[i] = x]
           st1 == PutMV(st, i, x)
<1>1. CASE ~InMV(st, i, a.index)
  BY <1>1, ResultKeeps DEF DoSet
<1>2. CASE InMV(st, i, a.index)
  <2>1. i \in Index /\ mv # NULL /\ mv \in GoodMV /\ st.mvs \in GoodTable(GoodMV)
    BY <1>2, ExistsEntry DEF GoodServer, InMV
  <2>2. x = [mv EXCEPT !.v[a.index + 1] = a.value]
    OBVIOUS
  <2>3. DoSet(st, i, a, c) = Status(st1, c, TRUE)
    BY <1>2, <2>2 DEF DoSet
  <2>4. st1 \in GoodServer
    BY <1>2, <2>2, SetValueGood
  <2>5. x.name = mv.name /\ x.count = mv.count /\ x.size = mv.size
    <3> HIDE DEF w
    <3> QED
      BY <2>1 DEF GoodMV, ServerMV
  <2>6. st1 = [st EXCEPT !.mvs = t]
    BY DEF PutMV
  <2>7. \A j \in Index : t.slot[j] = IF j = i THEN x ELSE st.mvs.slot[j]
    <3> HIDE DEF x
    <3> QED
      BY <2>1 DEF GoodTable, TableOf
  <2> HIDE DEF x, t, w
  <2>8. st1.locks = st.locks /\ st1.cvs = st.cvs /\ st1.mvs = t
    BY <2>6 DEF GoodServer
  <2> HIDE DEF st1
  <2>9. x # NULL
    <3>1. t \in GoodTable(GoodMV)
      BY <2>4, <2>8 DEF GoodServer
    <3>2. st.mvs.bits = t.bits
      BY <2>1 DEF t, GoodTable, TableOf
    <3> QED
      BY <2>1, <2>7, <3>1, <3>2 DEF GoodTable
  <2>10. Lasts(st.mvs, t) /\ SizesLast(st.mvs, t)
    BY <2>1, <2>5, <2>7, <2>9 DEF Lasts, NamesLast, SizesLast, CountIn, NamedIn
  <2>11. Keeps(st, st1)
    BY <2>8, <2>10, LastsSame DEF Keeps
  <2>12. Keeps(st1, Status(st1, c, TRUE))
    BY <2>4, ResultKeeps
  <2> QED
    BY <2>3, <2>11, <2>12, KeepsTrans
<1> QED
  BY <1>1, <1>2

LEMMA DoGetKeeps ==
  ASSUME NEW st \in GoodServer, NEW i, NEW a, NEW c
  PROVE  Keeps(st, DoGet(st, i, a, c))
BY ResultKeeps DEF DoGet

\* An entry that counts exists.
LEMMA CountedExists ==
  ASSUME NEW R, NEW t \in GoodTable(R), NEW i \in Index, CountIn(t, i) # 0
  PROVE  Exists(t, i) /\ t.slot[i] # NULL /\ t.slot[i] \in R /\ CountIn(t, i) = t.slot[i].count
BY TableSizeAssumption DEF CountIn, Exists, GoodTable, TableOf, Index

\* The table of the objects that op creates; all their counts.
Objects(st, op) ==
  CASE op = "CreateLock" -> st.locks
    [] op = "CreateCondition" -> st.cvs
    [] op = "CreateMV" -> st.mvs
Counts(st) == [op \in Creates |-> [i \in Index |-> CountIn(Objects(st, op), i)]]

\* Entry j of the table of op has d more, and nothing else has changed.
Recounted(st, st2, op, j, d) ==
  \A o \in Creates :
    IF o = op THEN Recounts(Objects(st, o), Objects(st2, o), j, d) ELSE Lasts(Objects(st, o), Objects(st2, o))

LEMMA ObjectsOf ==
  ASSUME NEW st
  PROVE  Objects(st, "CreateLock") = st.locks /\ Objects(st, "CreateCondition") = st.cvs
         /\ Objects(st, "CreateMV") = st.mvs
BY DEF Objects

LEMMA CountsType ==
  ASSUME NEW st \in GoodServer
  PROVE  Counts(st) \in [Creates -> [Index -> Int]]
<1>1. ASSUME NEW op \in Creates, NEW i \in Index PROVE CountIn(Objects(st, op), i) \in Int
  BY CountType, ObjectsOf DEF Creates
<1> QED
  BY <1>1 DEF Counts

LEMMA KeepsCounts ==
  ASSUME NEW st, NEW st2, Keeps(st, st2)
  PROVE  /\ Counts(st2) = Counts(st)
         /\ \A op \in Creates : NamesLast(Objects(st, op), Objects(st2, op))
<1>1. ASSUME NEW op \in Creates PROVE Lasts(Objects(st, op), Objects(st2, op))
  BY ObjectsOf DEF Keeps, Creates
<1>2. \A op \in Creates : \A i \in Index : CountIn(Objects(st2, op), i) = CountIn(Objects(st, op), i)
  BY <1>1 DEF Lasts
<1> QED
  BY <1>1, <1>2 DEF Counts, Lasts

LEMMA RecountedCounts ==
  ASSUME NEW st \in GoodServer, NEW st2, NEW op \in Creates, NEW j \in Index, NEW d \in Int,
         Recounted(st, st2, op, j, d)
  PROVE  /\ Counts(st2) = [Counts(st) EXCEPT ![op][j] = @ + d]
         /\ \A o \in Creates : NamesLast(Objects(st, o), Objects(st2, o))
<1>1. ASSUME NEW o \in Creates, NEW i \in Index
      PROVE  /\ CountIn(Objects(st2, o), i) = CountIn(Objects(st, o), i) + (IF o = op /\ i = j THEN d ELSE 0)
             /\ CountIn(Objects(st, o), i) \in Int
  <2>1. CountIn(Objects(st, o), i) \in Int
    BY CountType, ObjectsOf DEF Creates
  <2>2. CASE o = op
    BY <2>1, <2>2 DEF Recounted, Recounts
  <2>3. CASE o # op
    BY <2>1, <2>3 DEF Recounted, Lasts
  <2> QED
    BY <2>1, <2>2, <2>3
<1>2. \A o \in Creates : NamesLast(Objects(st, o), Objects(st2, o))
  BY DEF Recounted, Recounts, Lasts
<1>3. ASSUME NEW o \in Creates, NEW i \in Index
      PROVE  Counts(st2)[o][i] = [Counts(st) EXCEPT ![op][j] = @ + d][o][i]
  BY <1>1 DEF Counts
<1>4. Counts(st2) \in [Creates -> [Index -> Int]] /\ Counts(st) \in [Creates -> [Index -> Int]]
  <2>1. \A o \in Creates, i \in Index : CountIn(Objects(st2, o), i) \in Int
    BY <1>1
  <2> QED
    BY <2>1, CountsType DEF Counts
<1>5. [Counts(st) EXCEPT ![op][j] = @ + d] \in [Creates -> [Index -> Int]]
  BY <1>4
<1>6. Counts(st2) = [Counts(st) EXCEPT ![op][j] = @ + d]
  <2>1. PICK f : f = Counts(st2)
    OBVIOUS
  <2>2. PICK g : g = [Counts(st) EXCEPT ![op][j] = @ + d]
    OBVIOUS
  <2>3. f \in [Creates -> [Index -> Int]] /\ g \in [Creates -> [Index -> Int]]
    BY <1>4, <1>5, <2>1, <2>2
  <2>4. \A o \in Creates : \A i \in Index : f[o][i] = g[o][i]
    BY <1>3, <2>1, <2>2
  <2>5. \A o \in Creates : f[o] = g[o]
    BY <2>3, <2>4
  <2>6. f = g
    BY <2>3, <2>5
  <2> QED
    BY <2>1, <2>2, <2>6
<1> QED
  BY <1>2, <1>6

LEMMA RecountsLasts ==
  ASSUME NEW t, NEW u, NEW v, NEW j, NEW d, Recounts(t, u, j, d), Lasts(u, v)
  PROVE  Recounts(t, v, j, d)
<1>1. \A i \in Index : CountIn(v, i) = CountIn(u, i)
  BY DEF Lasts
<1>2. \A i \in Index : CountIn(v, i) = CountIn(t, i) + (IF i = j THEN d ELSE 0)
  BY <1>1 DEF Recounts
<1>3. NamesLast(t, v)
  BY <1>1 DEF Recounts, Lasts, NamesLast
<1> QED
  BY <1>2, <1>3 DEF Recounts

\* The destroys of an entry that counts.
Destroyed(st, st2, op, j) == Recounted(st, st2, op, j, -1) /\ SizesLast(st.mvs, st2.mvs)

LEMMA DoDestroyLockCounts ==
  ASSUME NEW st \in GoodServer, NEW i \in Index, NEW a, NEW c \in Clients, CountIn(st.locks, i) # 0
  PROVE  Destroyed(st, DoDestroyLock(st, i, a, c), "CreateLock", i)
<1> DEFINE l == st.locks.slot[i]
           x == [l EXCEPT !.isToBeDestroyed = TRUE, !.count = @ - 1]
           t == [st.locks EXCEPT !.slot[i] = x]
           st1 == PutLock(st, i, x)
<1>1. /\ Exists(st.locks, i) /\ l # NULL /\ l \in GoodLock /\ st.locks \in GoodTable(GoodLock)
  BY CountedExists DEF GoodServer
<1>2. x \in GoodLock /\ x.name = l.name
  BY <1>1, DestroyedLock
<1>3. l.count \in Int /\ x.count = l.count - 1
  BY <1>1 DEF GoodLock, ServerLock
<1>4. DoDestroyLock(st, i, a, c) = CheckLockAndDestroy(st1, i)
  BY <1>1 DEF DoDestroyLock
<1> HIDE DEF x
<1>5. Recounts(st.locks, t, i, -1)
  BY <1>1, <1>2, <1>3, CountType, NullNotGood, PutEntryRecounts
<1>6. st1 \in GoodServer /\ st1.locks.slot[i] # NULL
  BY <1>1, <1>2, PutLockGood, NullNotGood
<1>7. st1 = [st EXCEPT !.locks = t]
  BY DEF PutLock
<1> HIDE DEF t
<1>8. st1.locks = t /\ st1.cvs = st.cvs /\ st1.mvs = st.mvs
  BY <1>7 DEF GoodServer
<1> HIDE DEF st1
<1>9. PICK st2 : st2 = CheckLockAndDestroy(st1, i)
  OBVIOUS
<1>10. Keeps(st1, st2)
  BY <1>6, <1>9, CheckLockAndDestroyKeeps
<1>11. /\ Recounts(st.locks, st2.locks, i, -1) /\ Lasts(st.cvs, st2.cvs) /\ Lasts(st.mvs, st2.mvs)
       /\ SizesLast(st.mvs, st2.mvs)
  BY <1>5, <1>8, <1>10, RecountsLasts DEF Keeps
<1>12. Recounted(st, st2, "CreateLock", i, -1)
  BY <1>11, ObjectsOf DEF Recounted, Creates
<1> QED
  BY <1>4, <1>9, <1>11, <1>12 DEF Destroyed

LEMMA DoDestroyCVCounts ==
  ASSUME NEW st \in GoodServer, NEW i \in Index, NEW a, NEW c \in Clients, CountIn(st.cvs, i) # 0
  PROVE  Destroyed(st, DoDestroyCV(st, i, a, c), "CreateCondition", i)
<1> DEFINE cv == st.cvs.slot[i]
           n == cv.count - 1
           x == [cv EXCEPT !.count = n]
<1>1. /\ Exists(st.cvs, i) /\ cv # NULL /\ cv \in GoodCV /\ st.cvs \in GoodTable(GoodCV)
  BY CountedExists DEF GoodServer
<1>2. cv \in ServerCV /\ n \in Int /\ cv.count \in Int /\ (cv.waitingLock = -1 <=> cv.q = <<>>)
  BY <1>1 DEF GoodCV, ServerCV
<1>3. PICK st2 : st2 = DoDestroyCV(st, i, a, c)
  OBVIOUS
<1>4. CASE cv.q = <<>> /\ cv.count = 1
  <2>1. PICK t : t = Remove(st.cvs, i)
    OBVIOUS
  <2>2. st2 = [st EXCEPT !.cvs = t]
    BY <1>1, <1>3, <1>4, <2>1 DEF DoDestroyCV
  <2>3. st2.locks = st.locks /\ st2.cvs = t /\ st2.mvs = st.mvs
    BY <2>2 DEF GoodServer
  <2>4. Recounts(st.cvs, t, i, -1)
    BY <1>1, <1>4, <2>1, CountType, RemoveRecounts
  <2>5. Recounted(st, st2, "CreateCondition", i, -1)
    BY <2>3, <2>4, ObjectsOf, LastsSame DEF Recounted, Creates
  <2> QED
    BY <1>3, <2>3, <2>5, LastsSame DEF Destroyed
<1>5. CASE ~(cv.q = <<>> /\ cv.count = 1)
  <2>1. st2 = PutCV(st, i, x)
    BY <1>1, <1>3, <1>5 DEF DoDestroyCV
  <2>2. x \in GoodCV /\ x.name = cv.name /\ x.count = cv.count - 1
    <3>1. x.count = n
      BY <1>2 DEF ServerCV
    <3>2. n = cv.count - 1
      OBVIOUS
    <3> HIDE DEF n
    <3>3. x \in ServerCV /\ x.waitingLock = cv.waitingLock /\ x.q = cv.q /\ x.name = cv.name
      BY <1>2, Zenon DEF ServerCV
    <3>4. x \in GoodCV /\ x.name = cv.name
      BY <1>2, <3>3, Zenon DEF GoodCV
    <3> QED
      BY <3>1, <3>2, <3>4
  <2> HIDE DEF x, n
  <2>3. PICK t : t = [st.cvs EXCEPT !.slot[i] = x]
    OBVIOUS
  <2>4. st2 = [st EXCEPT !.cvs = t]
    BY <2>1, <2>3 DEF PutCV
  <2>5. st2.locks = st.locks /\ st2.cvs = t /\ st2.mvs = st.mvs
    BY <2>4 DEF GoodServer
  <2>6. Recounts(st.cvs, t, i, -1)
    BY <1>1, <1>2, <2>2, <2>3, CountType, NullNotGood, PutEntryRecounts
  <2>7. Recounted(st, st2, "CreateCondition", i, -1)
    BY <2>5, <2>6, ObjectsOf, LastsSame DEF Recounted, Creates
  <2> QED
    BY <1>3, <2>5, <2>7, LastsSame DEF Destroyed
<1> QED
  BY <1>4, <1>5

LEMMA DoDestroyMVCounts ==
  ASSUME NEW st \in GoodServer, NEW i \in Index, NEW a, NEW c \in Clients, CountIn(st.mvs, i) # 0
  PROVE  Destroyed(st, DoDestroyMV(st, i, a, c), "CreateMV", i)
<1> DEFINE mv == st.mvs.slot[i]
           n == mv.count - 1
           x == [mv EXCEPT !.count = n]
<1>1. /\ Exists(st.mvs, i) /\ mv # NULL /\ mv \in GoodMV /\ st.mvs \in GoodTable(GoodMV)
  BY CountedExists DEF GoodServer
<1>2. mv \in ServerMV /\ n \in Int /\ mv.count \in Int /\ Len(mv.v) = mv.size
  BY <1>1 DEF GoodMV, ServerMV
<1>3. PICK st2 : st2 = DoDestroyMV(st, i, a, c)
  OBVIOUS
<1>4. CASE mv.count = 1
  <2>1. PICK t : t = Remove(st.mvs, i)
    OBVIOUS
  <2>2. st2 = [st EXCEPT !.mvs = t]
    BY <1>1, <1>3, <1>4, <2>1 DEF DoDestroyMV
  <2>3. st2.locks = st.locks /\ st2.cvs = st.cvs /\ st2.mvs = t
    BY <2>2 DEF GoodServer
  <2>4. Recounts(st.mvs, t, i, -1) /\ SizesLast(st.mvs, t)
    BY <1>1, <1>4, <2>1, CountType, RemoveRecounts, RemoveNames
  <2>5. Recounted(st, st2, "CreateMV", i, -1)
    BY <2>3, <2>4, ObjectsOf, LastsSame DEF Recounted, Creates
  <2> QED
    BY <1>3, <2>3, <2>4, <2>5 DEF Destroyed
<1>5. CASE mv.count # 1
  <2>1. st2 = PutMV(st, i, x)
    BY <1>1, <1>3, <1>5 DEF DoDestroyMV
  <2>2. x \in GoodMV /\ x.name = mv.name /\ x.count = mv.count - 1 /\ x.size = mv.size
    <3>1. x.count = n
      BY <1>2 DEF ServerMV
    <3>2. n = mv.count - 1
      OBVIOUS
    <3> HIDE DEF n
    <3>3. x \in ServerMV /\ x.v = mv.v /\ x.size = mv.size /\ x.name = mv.name
      BY <1>2, Zenon DEF ServerMV
    <3>4. x \in GoodMV /\ x.name = mv.name
      BY <1>2, <3>3, Zenon DEF GoodMV
    <3> QED
      BY <3>1, <3>2, <3>3, <3>4
  <2> HIDE DEF x, n
  <2>3. PICK t : t = [st.mvs EXCEPT !.slot[i] = x]
    OBVIOUS
  <2>4. st2 = [st EXCEPT !.mvs = t]
    BY <2>1, <2>3 DEF PutMV
  <2>5. st2.locks = st.locks /\ st2.cvs = st.cvs /\ st2.mvs = t
    BY <2>4 DEF GoodServer
  <2>6. Recounts(st.mvs, t, i, -1)
    BY <1>1, <1>2, <2>2, <2>3, CountType, NullNotGood, PutEntryRecounts
  <2>7. SizesLast(st.mvs, t)
    <3>1. \A j \in Index : t.slot[j] = IF j = i THEN x ELSE st.mvs.slot[j]
      BY <1>1, <2>3 DEF GoodTable, TableOf
    <3> QED
      BY <1>1, <2>2, <3>1 DEF SizesLast
  <2>8. Recounted(st, st2, "CreateMV", i, -1)
    BY <2>5, <2>6, ObjectsOf, LastsSame DEF Recounted, Creates
  <2> QED
    BY <1>3, <2>5, <2>7, <2>8 DEF Destroyed
<1> QED
  BY <1>4, <1>5

\* A destroy of no entry does nothing.
LEMMA DestroysNothing ==
  ASSUME NEW st \in GoodServer, NEW i \in Int, i \notin Index, NEW a, NEW c
  PROVE  DoDestroyLock(st, i, a, c) = st /\ DoDestroyCV(st, i, a, c) = st /\ DoDestroyMV(st, i, a, c) = st
<1>1. ~Exists(st.locks, i) /\ ~Exists(st.cvs, i) /\ ~Exists(st.mvs, i)
  BY ExistsEntry DEF GoodServer
<1> QED
  BY <1>1 DEF DoDestroyLock, DoDestroyCV, DoDestroyMV

\* create...Named counts one more at the index it returns, where the name is; at -1 there
\* is no entry of that name.
LEMMA CreateNamedCounts ==
  ASSUME NEW R, NULL \notin R, \A x \in R : x.count \in Int,
         \A x \in R : /\ [x EXCEPT !.count = @ + 1] \in R
                      /\ [x EXCEPT !.count = @ + 1].name = x.name
                      /\ [x EXCEPT !.count = @ + 1].count = x.count + 1,
         NEW t \in GoodTable(R), NEW n, NEW new \in R, new.name = n, new.count = 1,
         NEW t2, t2 = CreateNamed(t, n, new).table, NEW j, j = CreateNamed(t, n, new).index
  PROVE  /\ j \in Index => Recounts(t, t2, j, 1) /\ NamedIn(t2, j, n)
         /\ j \notin Index => t2 = t /\ j = -1 /\ \A i \in Index : ~NamedIn(t, i, n)
<1> DEFINE f == FindNamed(t, n)
<1>0. t.slot \in [Index -> R \cup {NULL}] /\ t = [size |-> t.size, bits |-> t.bits, slot |-> t.slot]
  BY DEF GoodTable, TableOf
<1>1. \A i \in Index : CountIn(t, i) \in Int
  BY <1>0 DEF CountIn
<1>2. \A i \in Index : NamedIn(t, i, n) => i \in Named(t, n)
  <2>1. \A i \in Index : t.slot[i] # NULL => i \in Used(t)
    BY DEF GoodTable, TableOf, Used, Index
  <2> QED
    BY <2>1 DEF NamedIn, Named
<1>3. Named(t, n) \subseteq Index /\ Index \subseteq Nat
  BY TableSizeAssumption DEF Named, Used, Index
<1>4. CASE f # -1
  <2>1. f \in Named(t, n)
    BY <1>3, <1>4, MinNat DEF FindNamed
  <2>2. f \in Index /\ t.slot[f] \in R /\ t.slot[f].name = n /\ t.slot[f] # NULL
    BY <1>4, <2>1, FindNamedEntry DEF Named
  <2>3. PICK x : x = [t.slot[f] EXCEPT !.count = @ + 1]
    OBVIOUS
  <2>4. x \in R /\ x.name = n /\ x.count = t.slot[f].count + 1 /\ x # NULL
    BY <2>2, <2>3
  <2>5. t2.slot = [t.slot EXCEPT ![f] = x] /\ j = f
    BY <1>0, <1>4, <2>2, <2>3 DEF CreateNamed
  <2>6. \A i \in Index : t2.slot[i] = IF i = f THEN x ELSE t.slot[i]
    BY <1>0, <2>5
  <2> HIDE DEF f
  <2>7. \A i \in Index : CountIn(t2, i) = CountIn(t, i) + (IF i = j THEN 1 ELSE 0)
    BY <1>1, <2>2, <2>4, <2>5, <2>6 DEF CountIn
  <2>8. NamesLast(t, t2) /\ NamedIn(t2, j, n)
    BY <2>2, <2>4, <2>5, <2>6 DEF NamesLast, NamedIn
  <2> QED
    BY <2>2, <2>5, <2>7, <2>8 DEF Recounts
<1>5. CASE f = -1
  <2>1. Named(t, n) = {}
    BY <1>3, <1>5, MinNat DEF FindNamed
  <2>2. \A i \in Index : ~NamedIn(t, i, n)
    BY <1>2, <2>1
  <2>3. CASE FindBit(t) # -1
    <3>1. PICK k : k = FindBit(t)
      OBVIOUS
    <3>2. k \in Index /\ t.slot[k] = NULL
      BY <2>3, <3>1, FindBitBound DEF GoodTable
    <3>3. t2.slot = [t.slot EXCEPT ![k] = new] /\ j = k
      BY <1>5, <2>3, <3>1 DEF CreateNamed, Insert
    <3>4. \A i \in Index : t2.slot[i] = IF i = k THEN new ELSE t.slot[i]
      BY <1>0, <3>3
    <3>5. new # NULL
      OBVIOUS
    <3>6. \A i \in Index : CountIn(t2, i) = CountIn(t, i) + (IF i = j THEN 1 ELSE 0)
      BY <1>1, <3>2, <3>3, <3>4, <3>5 DEF CountIn
    <3>7. NamesLast(t, t2) /\ NamedIn(t2, j, n)
      BY <3>2, <3>3, <3>4, <3>5 DEF NamesLast, NamedIn
    <3> QED
      BY <3>2, <3>3, <3>6, <3>7 DEF Recounts
  <2>4. CASE FindBit(t) = -1
    <3>1. t2 = t /\ j = -1
      BY <1>5, <2>4 DEF CreateNamed
    <3>2. -1 \notin Index
      BY TableSizeAssumption DEF Index
    <3> QED
      BY <2>2, <3>1, <3>2
  <2> QED
    BY <2>3, <2>4
<1> QED
  BY <1>4, <1>5

\* The result of a create: an entry of that name that counts one more, or a failure with
\* no entry of that name, or with a monitor variable of another size.
ResultOf(c, oks, vals) == [kind |-> "result", client |-> c, ok |-> oks, val |-> vals]
Created(st, st2, op, a, c) ==
  /\ \E ok \in BOOLEAN, j \in Index \cup {-1} :
       /\ st2.out = Append(st.out, [to |-> {}, msg |-> ResultOf(c, {ok}, {j})])
       /\ ok => j \in Index /\ Recounted(st, st2, op, j, 1) /\ NamedIn(Objects(st2, op), j, a.obj)
       /\ ~ok => /\ SameTables(st, st2)
                 /\ \A i \in Index : NamedIn(Objects(st, op), i, a.obj) =>
                      op = "CreateMV" /\ st.mvs.slot[i].size # a.index
  /\ \A i \in Index : st2.mvs.slot[i] # NULL =>
       \/ st.mvs.slot[i] # NULL /\ st2.mvs.slot[i].name = st.mvs.slot[i].name
                                /\ st2.mvs.slot[i].size = st.mvs.slot[i].size
       \/ op = "CreateMV" /\ st2.mvs.slot[i].name = a.obj /\ st2.mvs.slot[i].size = a.index

\* st2 is st with that result appended to what it has to send.
Answered(st, st2, c, ok, val) ==
  /\ SameTables(st, st2)
  /\ st2.out = Append(st.out, [to |-> {}, msg |-> ResultOf(c, {ok}, {val})])

LEMMA StatusAndValueOut ==
  ASSUME NEW st \in GoodServer, NEW c, NEW ok, NEW val
  PROVE  Answered(st, StatusAndValue(st, c, ok, val), c, ok, val)
BY DEF GoodServer, StatusAndValue, SendResult, SameTables, ResultOf, Answered

LEMMA CountUp ==
  /\ \A x \in GoodLock : /\ [x EXCEPT !.count = @ + 1] \in GoodLock /\ x.count \in Int
                         /\ [x EXCEPT !.count = @ + 1].name = x.name
                         /\ [x EXCEPT !.count = @ + 1].count = x.count + 1
  /\ \A x \in GoodCV : /\ [x EXCEPT !.count = @ + 1] \in GoodCV /\ x.count \in Int
                       /\ [x EXCEPT !.count = @ + 1].name = x.name
                       /\ [x EXCEPT !.count = @ + 1].count = x.count + 1
  /\ \A x \in GoodMV : /\ [x EXCEPT !.count = @ + 1] \in GoodMV /\ x.count \in Int
                       /\ [x EXCEPT !.count = @ + 1].name = x.name
                       /\ [x EXCEPT !.count = @ + 1].count = x.count + 1
                       /\ [x EXCEPT !.count = @ + 1].size = x.size
<1>1. ASSUME NEW x \in GoodLock, NEW n, n = x.count + 1
      PROVE  /\ [x EXCEPT !.count = n] \in GoodLock /\ x.count \in Int
             /\ [x EXCEPT !.count = n].name = x.name
             /\ [x EXCEPT !.count = n].count = n
  <2>1. x \in ServerLock /\ n \in Int /\ x.count \in Int /\ (x.state = "FREE" => x.q = <<>>)
    BY <1>1 DEF GoodLock, ServerLock
  <2> QED
    BY <2>1, Zenon DEF GoodLock, ServerLock
<1>2. ASSUME NEW x \in GoodCV, NEW n, n = x.count + 1
      PROVE  /\ [x EXCEPT !.count = n] \in GoodCV /\ x.count \in Int
             /\ [x EXCEPT !.count = n].name = x.name
             /\ [x EXCEPT !.count = n].count = n
  <2>1. x \in ServerCV /\ n \in Int /\ x.count \in Int /\ (x.waitingLock = -1 <=> x.q = <<>>)
    BY <1>2 DEF GoodCV, ServerCV
  <2> QED
    BY <2>1, Zenon DEF GoodCV, ServerCV
<1>3. ASSUME NEW x \in GoodMV, NEW n, n = x.count + 1
      PROVE  /\ [x EXCEPT !.count = n] \in GoodMV /\ x.count \in Int
             /\ [x EXCEPT !.count = n].name = x.name
             /\ [x EXCEPT !.count = n].count = n
             /\ [x EXCEPT !.count = n].size = x.size
  <2>1. x \in ServerMV /\ n \in Int /\ x.count \in Int /\ Len(x.v) = x.size
    BY <1>3 DEF GoodMV, ServerMV
  <2> QED
    BY <2>1, Zenon DEF GoodMV, ServerMV
<1> QED
  BY <1>1, <1>2, <1>3

\* serverDoCreateLock and serverDoCreateCV, on machine 0.
LEMMA DoCreateLockCounts ==
  ASSUME NEW st \in GoodServer, st.id = 0, NEW a \in ArgsOf("CreateLock"), NEW c \in Clients
  PROVE  Created(st, DoCreateLock(st, a, c), "CreateLock", a, c)
<1> DEFINE r == CreateNamed(st.locks, a.obj, NewLock(a.obj))
           st1 == [st EXCEPT !.locks = r.table]
<1>1. a.obj \in Names
  BY DEF ArgsOf, ArgOK, Creates
<1>2. NewLock(a.obj) \in GoodLock /\ NewLock(a.obj).name = a.obj /\ NewLock(a.obj).count = 1
  BY <1>1 DEF NewLock, GoodLock, ServerLock
<1>3. r.table \in GoodTable(GoodLock) /\ r.index \in Index \cup {-1} /\ st.locks \in GoodTable(GoodLock)
  BY CreateLockTable DEF GoodServer
<1>4. PICK t, j : t = r.table /\ j = r.index
  OBVIOUS
<1>0. /\ \A x \in GoodLock : x.count \in Int
      /\ \A x \in GoodLock : /\ [x EXCEPT !.count = @ + 1] \in GoodLock
                        /\ [x EXCEPT !.count = @ + 1].name = x.name
                        /\ [x EXCEPT !.count = @ + 1].count = x.count + 1
  BY CountUp, Zenon
<1>5. /\ j \in Index => Recounts(st.locks, t, j, 1) /\ NamedIn(t, j, a.obj)
      /\ j \notin Index => t = st.locks /\ j = -1 /\ \A i \in Index : ~NamedIn(st.locks, i, a.obj)
  BY <1>0, <1>2, <1>3, <1>4, NullNotGood, CreateNamedCounts
<1>6. Id(st, r.index) = j
  BY <1>3, <1>4, TableSizeAssumption DEF Id, Index
<1>7. DoCreateLock(st, a, c) = StatusAndValue(st1, c, j # -1, j)
  BY <1>6 DEF DoCreateLock
<1>8. st1 = [st EXCEPT !.locks = t]
  BY <1>4
<1> HIDE DEF r, st1
<1>9. st1 \in GoodServer
  BY <1>3, <1>4, <1>8, SetLocks
<1>10. st1.locks = t /\ st1.cvs = st.cvs /\ st1.mvs = st.mvs /\ st1.out = st.out
  BY <1>8 DEF GoodServer
<1> DEFINE ok == j # -1
<1>16. DoCreateLock(st, a, c) = StatusAndValue(st1, c, ok, j)
  BY <1>7
<1>13. j \in Index \cup {-1} /\ ok \in BOOLEAN /\ (ok <=> j \in Index)
  BY <1>3, <1>4, TableSizeAssumption DEF Index
<1> HIDE DEF ok
<1>11. PICK st2 : st2 = DoCreateLock(st, a, c)
  OBVIOUS
<1>17. Answered(st1, StatusAndValue(st1, c, ok, j), c, ok, j)
  BY <1>9, StatusAndValueOut, Zenon
<1>18. Answered(st1, st2, c, ok, j)
  BY <1>11, <1>16, <1>17, Zenon
<1>12. /\ st2.locks = t /\ st2.cvs = st.cvs /\ st2.mvs = st.mvs
       /\ st2.out = Append(st.out, [to |-> {}, msg |-> ResultOf(c, {ok}, {j})])
  BY <1>10, <1>18, Zenon DEF SameTables, Answered
<1>14. ok => Recounted(st, st2, "CreateLock", j, 1) /\ NamedIn(Objects(st2, "CreateLock"), j, a.obj)
  BY <1>5, <1>12, <1>13, ObjectsOf, LastsSame DEF Recounted, Creates
<1>15. ~ok => SameTables(st, st2) /\ \A i \in Index : ~NamedIn(Objects(st, "CreateLock"), i, a.obj)
  BY <1>5, <1>12, <1>13, ObjectsOf DEF SameTables
<1> QED
  BY <1>11, <1>12, <1>13, <1>14, <1>15 DEF Created

LEMMA DoCreateCVCounts ==
  ASSUME NEW st \in GoodServer, st.id = 0, st.loop = NoLoop, NEW a \in ArgsOf("CreateCondition"), NEW c \in Clients
  PROVE  Created(st, DoCreateCV(st, a, c), "CreateCondition", a, c)
<1> DEFINE r == CreateNamed(st.cvs, a.obj, NewCV(a.obj))
           st1 == [st EXCEPT !.cvs = r.table]
<1>1. a.obj \in Names
  BY DEF ArgsOf, ArgOK, Creates
<1>2. NewCV(a.obj) \in GoodCV /\ NewCV(a.obj).name = a.obj /\ NewCV(a.obj).count = 1
  BY <1>1 DEF NewCV, GoodCV, ServerCV
<1>3. r.table \in GoodTable(GoodCV) /\ r.index \in Index \cup {-1} /\ st.cvs \in GoodTable(GoodCV)
  BY CreateCVTable DEF GoodServer
<1>4. PICK t, j : t = r.table /\ j = r.index
  OBVIOUS
<1>0. /\ \A x \in GoodCV : x.count \in Int
      /\ \A x \in GoodCV : /\ [x EXCEPT !.count = @ + 1] \in GoodCV
                        /\ [x EXCEPT !.count = @ + 1].name = x.name
                        /\ [x EXCEPT !.count = @ + 1].count = x.count + 1
  BY CountUp, Zenon
<1>5. /\ j \in Index => Recounts(st.cvs, t, j, 1) /\ NamedIn(t, j, a.obj)
      /\ j \notin Index => t = st.cvs /\ j = -1 /\ \A i \in Index : ~NamedIn(st.cvs, i, a.obj)
  BY <1>0, <1>2, <1>3, <1>4, NullNotGood, CreateNamedCounts
<1>6. (IF r.index = -1 THEN -1 ELSE Id(st, r.index)) = j
  BY <1>3, <1>4, TableSizeAssumption DEF Id, Index
<1>7. DoCreateCV(st, a, c) = StatusAndValue(st1, c, j # -1, j)
  BY <1>4, <1>6 DEF DoCreateCV
<1>8. st1 = [st EXCEPT !.cvs = t]
  BY <1>4
<1> HIDE DEF r, st1
<1>9. st1 \in GoodServer
  BY <1>3, <1>4, <1>8, SetCVs DEF NoLoop
<1>10. st1.locks = st.locks /\ st1.cvs = t /\ st1.mvs = st.mvs /\ st1.out = st.out
  BY <1>8 DEF GoodServer
<1> DEFINE ok == j # -1
<1>16. DoCreateCV(st, a, c) = StatusAndValue(st1, c, ok, j)
  BY <1>7
<1>13. j \in Index \cup {-1} /\ ok \in BOOLEAN /\ (ok <=> j \in Index)
  BY <1>3, <1>4, TableSizeAssumption DEF Index
<1> HIDE DEF ok
<1>11. PICK st2 : st2 = DoCreateCV(st, a, c)
  OBVIOUS
<1>17. Answered(st1, StatusAndValue(st1, c, ok, j), c, ok, j)
  BY <1>9, StatusAndValueOut, Zenon
<1>18. Answered(st1, st2, c, ok, j)
  BY <1>11, <1>16, <1>17, Zenon
<1>12. /\ st2.locks = st.locks /\ st2.cvs = t /\ st2.mvs = st.mvs
       /\ st2.out = Append(st.out, [to |-> {}, msg |-> ResultOf(c, {ok}, {j})])
  BY <1>10, <1>18, Zenon DEF SameTables, Answered
<1>14. ok => Recounted(st, st2, "CreateCondition", j, 1) /\ NamedIn(Objects(st2, "CreateCondition"), j, a.obj)
  BY <1>5, <1>12, <1>13, ObjectsOf, LastsSame DEF Recounted, Creates
<1>15. ~ok => SameTables(st, st2) /\ \A i \in Index : ~NamedIn(Objects(st, "CreateCondition"), i, a.obj)
  BY <1>5, <1>12, <1>13, ObjectsOf DEF SameTables
<1> QED
  BY <1>11, <1>12, <1>13, <1>14, <1>15 DEF Created

\* serverDoCreateMV: an entry of another size is not counted.
LEMMA DoCreateMVCounts ==
  ASSUME NEW st \in GoodServer, st.id = 0, NEW a \in ArgsOf("CreateMV"), NEW c \in Clients
  PROVE  Created(st, DoCreateMV(st, a, c), "CreateMV", a, c)
<1> DEFINE f == FindNamed(st.mvs, a.obj)
           new == NewMV(a.obj, a.index)
           r == CreateNamed(st.mvs, a.obj, new)
           st1 == [st EXCEPT !.mvs = r.table]
<1>1. a.obj \in Names /\ a.index \in Nat
  BY DEF ArgsOf, Arg, ArgOK, Creates
<1>2. new \in GoodMV /\ new.name = a.obj /\ new.count = 1 /\ new.size = a.index
  <2>1. [k \in 1 .. a.index |-> 0] \in Seq(Int) /\ Len([k \in 1 .. a.index |-> 0]) = a.index
    BY <1>1
  <2> QED
    BY <1>1, <2>1 DEF NewMV, GoodMV, ServerMV
<1>3. r.table \in GoodTable(GoodMV) /\ r.index \in Index \cup {-1} /\ st.mvs \in GoodTable(GoodMV)
  BY CreateMVTable DEF GoodServer
<1>20. PICK st2 : st2 = DoCreateMV(st, a, c)
  OBVIOUS
<1>21. CASE f # -1 /\ st.mvs.slot[f].size # a.index
  <2>1. DoCreateMV(st, a, c) = StatusAndValue(st, c, FALSE, -1)
    BY <1>21 DEF DoCreateMV
  <2>2. Answered(st, st2, c, FALSE, -1)
    BY <1>20, <2>1, StatusAndValueOut
  <2>3. f \in Named(st.mvs, a.obj)
    <3>1. Named(st.mvs, a.obj) \subseteq Nat
      BY TableSizeAssumption DEF Named, Used, Index
    <3> QED
      BY <1>21, <3>1, MinNat DEF FindNamed
  <2>4. \A i \in Index : NamedIn(st.mvs, i, a.obj) => st.mvs.slot[i].size # a.index
    <3>1. \A i \in Index : NamedIn(st.mvs, i, a.obj) => i = f
      BY <1>3, <2>3 DEF NamedIn, Named, Used, GoodTable
    <3> QED
      BY <1>21, <3>1
  <2>5. FALSE \in BOOLEAN /\ -1 \in Index \cup {-1} /\ st2.mvs = st.mvs
    BY <2>2 DEF Answered, SameTables
  <2> QED
    BY <1>20, <2>2, <2>4, <2>5, ObjectsOf, Zenon DEF Created, Answered
<1>22. CASE ~(f # -1 /\ st.mvs.slot[f].size # a.index)
  <2>4. PICK t, j : t = r.table /\ j = r.index
    OBVIOUS
  <2>0. /\ \A x \in GoodMV : x.count \in Int
        /\ \A x \in GoodMV : /\ [x EXCEPT !.count = @ + 1] \in GoodMV
                          /\ [x EXCEPT !.count = @ + 1].name = x.name
                          /\ [x EXCEPT !.count = @ + 1].count = x.count + 1
    BY CountUp, Zenon
  <2>19. /\ \A x \in GoodMV : /\ [x EXCEPT !.count = @ + 1].name = x.name
                          /\ [x EXCEPT !.count = @ + 1].size = x.size
    BY CountUp, Zenon
  <2> HIDE DEF f, new
  <2>5. /\ j \in Index => Recounts(st.mvs, t, j, 1) /\ NamedIn(t, j, a.obj)
        /\ j \notin Index => t = st.mvs /\ j = -1 /\ \A i \in Index : ~NamedIn(st.mvs, i, a.obj)
    BY <2>0, <1>2, <1>3, <2>4, NullNotGood, CreateNamedCounts
  <2>23. ASSUME NEW i \in Index, t.slot[i] # NULL
         PROVE  \/ st.mvs.slot[i] # NULL /\ t.slot[i].name = st.mvs.slot[i].name
                                         /\ t.slot[i].size = st.mvs.slot[i].size
                \/ t.slot[i].name = a.obj /\ t.slot[i].size = a.index
    <3>1. \/ t.slot[i] = st.mvs.slot[i]
          \/ st.mvs.slot[i] \in GoodMV /\ t.slot[i] = [st.mvs.slot[i] EXCEPT !.count = @ + 1]
          \/ st.mvs.slot[i] = NULL /\ t.slot[i] = new
      BY <1>3, <2>4, NullNotGood, CreateNamedSlots
    <3> QED
      BY <1>2, <2>19, <2>23, <3>1, NullNotGood
  <2>6. (IF r.index = -1 THEN -1 ELSE Id(st, r.index)) = j
    BY <1>3, <2>4, TableSizeAssumption DEF Id, Index
  <2>7. DoCreateMV(st, a, c) = StatusAndValue(st1, c, j # -1, j)
    BY <1>22, <2>4, <2>6 DEF DoCreateMV, f, new
  <2>8. st1 = [st EXCEPT !.mvs = t]
    BY <2>4
  <2> HIDE DEF r, st1
  <2>9. st1 \in GoodServer
    BY <1>3, <2>4, <2>8, SetMVs
  <2>10. st1.locks = st.locks /\ st1.cvs = st.cvs /\ st1.mvs = t /\ st1.out = st.out
    BY <2>8 DEF GoodServer
  <2> DEFINE ok == j # -1
  <2>16. DoCreateMV(st, a, c) = StatusAndValue(st1, c, ok, j)
    BY <2>7
  <2>13. j \in Index \cup {-1} /\ ok \in BOOLEAN /\ (ok <=> j \in Index)
    BY <1>3, <2>4, TableSizeAssumption DEF Index
  <2> HIDE DEF ok
  <2>17. Answered(st1, StatusAndValue(st1, c, ok, j), c, ok, j)
    BY <2>9, StatusAndValueOut, Zenon
  <2>18. Answered(st1, st2, c, ok, j)
    BY <1>20, <2>16, <2>17, Zenon
  <2>12. /\ st2.locks = st.locks /\ st2.cvs = st.cvs /\ st2.mvs = t
         /\ st2.out = Append(st.out, [to |-> {}, msg |-> ResultOf(c, {ok}, {j})])
    BY <2>10, <2>18, Zenon DEF SameTables, Answered
  <2>14. ok => Recounted(st, st2, "CreateMV", j, 1) /\ NamedIn(Objects(st2, "CreateMV"), j, a.obj)
    BY <2>5, <2>12, <2>13, ObjectsOf, LastsSame DEF Recounted, Creates
  <2>15. ~ok => SameTables(st, st2) /\ \A i \in Index : ~NamedIn(Objects(st, "CreateMV"), i, a.obj)
    BY <2>5, <2>12, <2>13, ObjectsOf DEF SameTables
  <2>24. /\ ok => j \in Index
         /\ ~ok => SameTables(st, st2) /\ \A i \in Index : NamedIn(Objects(st, "CreateMV"), i, a.obj) => FALSE
    BY <2>13, <2>15
  <2>25. \A i \in Index : st2.mvs.slot[i] # NULL =>
           \/ st.mvs.slot[i] # NULL /\ st2.mvs.slot[i].name = st.mvs.slot[i].name
                                    /\ st2.mvs.slot[i].size = st.mvs.slot[i].size
           \/ st2.mvs.slot[i].name = a.obj /\ st2.mvs.slot[i].size = a.index
    BY <2>12, <2>23
  <2> QED
    BY <1>20, <2>12, <2>13, <2>14, <2>24, <2>25, Zenon DEF Created
<1> QED
  BY <1>21, <1>22

\* With machine 0 as the only server, the ids it serves are the indices.
LEMMA ZeroIndex ==
  ASSUME Servers = {0}
  PROVE  /\ OneServer /\ Sole = 0 /\ 0 \in Servers
         /\ \A id \in Nat : IndexOf(id) = IF id \in Index THEN id ELSE -1
         /\ \A st \in GoodServer : st.id = 0
<1>1. OneServer /\ Sole = 0 /\ 0 \in Servers
  BY DEF OneServer, Sole
<1>2. ASSUME NEW id \in Nat
      PROVE  IndexOf(id) = IF id \in Index THEN id ELSE -1
  <2>1. /\ id = TableSize * (id \div TableSize) + (id % TableSize)
        /\ id % TableSize \in 0 .. TableSize - 1 /\ id \div TableSize \in Nat
    BY TableSizeAssumption
  <2>2. PICK q \in Nat, p \in 0 .. TableSize - 1 : q = id \div TableSize /\ p = id % TableSize
    BY <2>1
  <2>3. id = TableSize * q + p
    BY <2>1, <2>2
  <2>4. CASE q = 0
    BY <1>1, <2>2, <2>3, <2>4, TableSizeAssumption DEF IndexOf, Index
  <2>5. CASE q # 0
    <3>1. q >= 1
      BY <2>2, <2>5
    <3>2. PICK k \in Nat : q = k + 1
      BY <3>1
    <3>3. TableSize * q = TableSize * k + TableSize /\ TableSize * k \in Nat
      BY <3>2, TableSizeAssumption
    <3>4. id \notin Index
      BY <2>3, <3>3, TableSizeAssumption DEF Index
    <3> QED
      BY <1>1, <2>2, <2>5, <3>4 DEF IndexOf
  <2> QED
    BY <2>4, <2>5
<1>3. \A st \in GoodServer : st.id = 0
  BY DEF GoodServer
<1> QED
  BY <1>1, <1>2, <1>3

\* A create of a lone server, with the tables as they are.
LEMMA ByNameTables ==
  ASSUME OneServer, NEW st \in GoodServer, NEW m, m.kind = "call", NEW t
  PROVE  \E st1 \in GoodServer : /\ ByName(st, m, t) = Here(st1, -1)
                                 /\ SameTables(st, st1) /\ st1.out = st.out /\ st1.loop = st.loop
<1>1. ByName(st, m, t) = RouteCreate(st, m, t)
  BY DEF ByName
<1>2. Peers(st) = {}
  BY SoleId
<1>3. CASE FindNamed(t, m.arg.obj) # -1
  <2>1. RouteCreate(st, m, t) = Here(st, -1)
    BY <1>3 DEF RouteCreate
  <2> QED
    BY <1>1, <2>1 DEF SameTables
<1>4. CASE FindNamed(t, m.arg.obj) = -1
  <2>1. RouteCreate(st, m, t) = Here(Unsent(st), -1)
    BY <1>2, <1>4 DEF RouteCreate
  <2>2. SameTables(st, Unsent(st)) /\ Unsent(st).out = st.out /\ Unsent(st).loop = st.loop
    BY DEF Unsent, SameTables, GoodServer
  <2> QED
    BY <1>1, <2>1, <2>2, UnsentGood
<1> QED
  BY <1>3, <1>4

LEMMA SameObjects ==
  ASSUME NEW st, NEW st1, SameTables(st, st1), NEW op \in Creates
  PROVE  Objects(st1, op) = Objects(st, op)
BY ObjectsOf DEF SameTables, Creates

LEMMA CreatedSame ==
  ASSUME NEW st, NEW st1, SameTables(st, st1), st1.out = st.out, NEW st2, NEW op \in Creates, NEW a, NEW c,
         Created(st1, st2, op, a, c)
  PROVE  Created(st, st2, op, a, c)
<1>1. \A o \in Creates : Objects(st1, o) = Objects(st, o)
  BY SameObjects
<1>2. \A j, d : Recounted(st1, st2, op, j, d) => Recounted(st, st2, op, j, d)
  BY <1>1, Zenon DEF Recounted
<1>3. SameTables(st1, st2) => SameTables(st, st2)
  BY DEF SameTables
<1>4. st1.mvs = st.mvs /\ Objects(st1, op) = Objects(st, op)
  BY <1>1 DEF SameTables
<1> QED
  BY <1>2, <1>3, <1>4, Zenon DEF Created

LEMMA DestroyedSame ==
  ASSUME NEW st, NEW st1, SameTables(st, st1), NEW st2, NEW op, NEW j, Destroyed(st1, st2, op, j)
  PROVE  Destroyed(st, st2, op, j)
<1>1. \A o \in Creates : Objects(st1, o) = Objects(st, o)
  BY SameObjects
<1>2. Recounted(st, st2, op, j, -1)
  BY <1>1, Zenon DEF Recounted, Destroyed
<1>3. SizesLast(st.mvs, st2.mvs)
  BY DEF Destroyed, SameTables
<1> QED
  BY <1>2, <1>3 DEF Destroyed

LEMMA KeepsSame ==
  ASSUME NEW st, NEW st1, SameTables(st, st1), NEW st2, Keeps(st1, st2)
  PROVE  Keeps(st, st2)
BY DEF SameTables, Keeps

\* Every request of another kind,
LEMMA HandledKeeps ==
  ASSUME Servers = {0}, NEW st \in GoodServer, NEW m \in ServerMail, m.kind = "call",
         m.type \notin Creates, m.type \in Destroys => m.arg.obj \notin Index
  PROVE  Keeps(st, Handled(st, m))
<1> DEFINE c == m.client
           a == m.arg
           i == IndexOf(a.obj)
<1>0. OneServer
  BY ZeroIndex
<1>1. c \in Clients /\ a \in ArgsOf(m.type) /\ a \in Arg /\ m.type \in Ops
  BY MailKinds DEF ArgsOf
<1>2. a.obj \in Nat
  BY <1>1 DEF ArgsOf, ArgOK
<1>3. i \in Int /\ (m.type \in Destroys => i \notin Index)
  <2>1. -1 \notin Index
    BY TableSizeAssumption DEF Index
  <2> QED
    BY <1>2, <2>1, ZeroIndex, IndexOfType
<1>4. PICK st1 \in GoodServer : ById(st, m) = Here(st1, i) /\ SameTables(st, st1)
  <2>1. ById(st, m) = RouteById(st, m.type, m.arg, m.client)
    BY DEF ById
  <2> QED
    BY <1>0, <2>1, RouteTables
<1> HIDE DEF c, a, i
<1>5. SUFFICES Keeps(st1, Handled(st, m))
  BY <1>4, KeepsSame
<1>6. CASE m.type = "Acquire"
  <2>1. Handled(st, m) = DoAcquireLock(st1, i, a, c)
    BY <1>4, <1>6 DEF Handled, HandleById, Here, a, c
  <2> QED
    BY <1>1, <1>3, <2>1, DoAcquireLockKeeps
<1>7. CASE m.type = "Release"
  <2>1. Handled(st, m) = DoReleaseLock(st1, i, a, c)
    BY <1>4, <1>7 DEF Handled, HandleById, Here, a, c
  <2> QED
    BY <1>1, <1>3, <2>1, DoReleaseLockKeeps
<1>8. CASE m.type = "Wait"
  <2>1. Handled(st, m) = DoWait(st1, i, a, c)
    BY <1>4, <1>8 DEF Handled, serverWait, HandleById, Here, a, c
  <2> QED
    BY <1>0, <1>1, <1>3, <1>8, <2>1, DoWaitKeeps
<1>9. CASE m.type = "Signal"
  <2>1. Handled(st, m) = DoSignal(st1, i, a, c)
    BY <1>4, <1>9 DEF Handled, serverSignal, HandleById, Here, a, c
  <2> QED
    BY <1>0, <1>1, <1>3, <1>9, <2>1, DoSignalKeeps
<1>10. CASE m.type = "Broadcast"
  <2>1. Handled(st, m) = DoBroadcast(st1, i, a, c)
    BY <1>4, <1>10 DEF Handled, serverBroadcast, HandleById, Here, a, c
  <2> QED
    BY <2>1, DoBroadcastKeeps
<1>11. CASE m.type = "Set"
  <2>1. Handled(st, m) = DoSet(st1, i, a, c)
    BY <1>4, <1>11 DEF Handled, serverSet, HandleById, Here, a, c
  <2> QED
    BY <1>1, <1>3, <2>1, DoSetKeeps
<1>12. CASE m.type = "Get"
  <2>1. Handled(st, m) = DoGet(st1, i, a, c)
    BY <1>4, <1>12 DEF Handled, serverGet, HandleById, Here, a, c
  <2> QED
    BY <2>1, DoGetKeeps
<1>13. CASE m.type \in Destroys
  <2>1. Keeps(st1, st1)
    BY KeepsTables DEF SameTables
  <2>2. DoDestroyLock(st1, i, a, c) = st1 /\ DoDestroyCV(st1, i, a, c) = st1 /\ DoDestroyMV(st1, i, a, c) = st1
    BY <1>3, <1>13, DestroysNothing
  <2>3. CASE m.type = "DestroyLock"
    BY <1>4, <2>1, <2>2, <2>3 DEF Handled, serverDestroyLock, HandleById, Here, a, c
  <2>4. CASE m.type = "DestroyCondition"
    BY <1>4, <2>1, <2>2, <2>4 DEF Handled, serverDestroyCV, HandleById, Here, a, c
  <2>5. CASE m.type = "DestroyMV"
    BY <1>4, <2>1, <2>2, <2>5 DEF Handled, serverDestroyMV, HandleById, Here, a, c
  <2> QED
    BY <1>13, <2>3, <2>4, <2>5 DEF Destroys
<1> QED
  BY <1>1, <1>6, <1>7, <1>8, <1>9, <1>10, <1>11, <1>12, <1>13 DEF Ops, Creates, LockOps, CVOps, MVOps, Destroys

\* a destroy of an entry that counts,
LEMMA HandledDestroys ==
  ASSUME Servers = {0}, NEW st \in GoodServer, NEW m \in ServerMail, m.kind = "call",
         m.type \in Destroys, NEW i \in Index, m.arg.obj = i, CountIn(Objects(st, KindOf(m.type)), i) # 0
  PROVE  Destroyed(st, Handled(st, m), KindOf(m.type), i)
<1> DEFINE c == m.client
           a == m.arg
<1>0. OneServer
  BY ZeroIndex
<1>1. c \in Clients /\ i \in Nat
  BY MailKinds, TableSizeAssumption DEF Index
<1>2. IndexOf(a.obj) = i
  BY <1>1, ZeroIndex
<1>4. PICK st1 \in GoodServer : ById(st, m) = Here(st1, i) /\ SameTables(st, st1)
  <2>1. ById(st, m) = RouteById(st, m.type, m.arg, m.client)
    BY DEF ById
  <2> QED
    BY <1>0, <1>2, <2>1, RouteTables
<1>5. /\ m.type = "DestroyLock" => KindOf(m.type) = "CreateLock"
      /\ m.type = "DestroyCondition" => KindOf(m.type) = "CreateCondition"
      /\ m.type = "DestroyMV" => KindOf(m.type) = "CreateMV"
  BY DEF KindOf, LockOps, CVOps
<1>6. st1.locks = st.locks /\ st1.cvs = st.cvs /\ st1.mvs = st.mvs
  BY <1>4 DEF SameTables
<1> HIDE DEF c, a
<1>9. SUFFICES Destroyed(st1, Handled(st, m), KindOf(m.type), i)
  BY <1>4, DestroyedSame
<1>7. CASE m.type = "DestroyLock"
  <2>1. Handled(st, m) = DoDestroyLock(st1, i, a, c)
    BY <1>4, <1>7 DEF Handled, serverDestroyLock, HandleById, Here, a, c
  <2> QED
    BY <1>1, <1>5, <1>6, <1>7, <2>1, ObjectsOf, DoDestroyLockCounts
<1>8. CASE m.type = "DestroyCondition"
  <2>1. Handled(st, m) = DoDestroyCV(st1, i, a, c)
    BY <1>4, <1>8 DEF Handled, serverDestroyCV, HandleById, Here, a, c
  <2> QED
    BY <1>1, <1>5, <1>6, <1>8, <2>1, ObjectsOf, DoDestroyCVCounts
<1>10. CASE m.type = "DestroyMV"
  <2>1. Handled(st, m) = DoDestroyMV(st1, i, a, c)
    BY <1>4, <1>10 DEF Handled, serverDestroyMV, HandleById, Here, a, c
  <2> QED
    BY <1>1, <1>5, <1>6, <1>10, <2>1, ObjectsOf, DoDestroyMVCounts
<1> QED
  BY <1>7, <1>8, <1>10 DEF Destroys

\* and a create.
LEMMA HandledCreates ==
  ASSUME Servers = {0}, NEW st \in GoodServer, st.loop = NoLoop, NEW m \in ServerMail, m.kind = "call",
         m.type \in Creates
  PROVE  Created(st, Handled(st, m), m.type, m.arg, m.client)
<1> DEFINE c == m.client
           a == m.arg
<1>0. OneServer
  BY ZeroIndex
<1>1. c \in Clients /\ a \in ArgsOf(m.type)
  BY MailKinds
<1>2. ASSUME NEW t
      PROVE  \E st1 \in GoodServer : /\ ByName(st, m, t) = Here(st1, -1) /\ st1.id = 0
                                     /\ SameTables(st, st1) /\ st1.out = st.out /\ st1.loop = NoLoop
  BY <1>0, ByNameTables, ZeroIndex
<1> HIDE DEF c, a
<1>7. CASE m.type = "CreateLock"
  <2>1. PICK st1 \in GoodServer : /\ ByName(st, m, st.locks) = Here(st1, -1) /\ st1.id = 0
                                  /\ SameTables(st, st1) /\ st1.out = st.out
    BY <1>2
  <2>2. Handled(st, m) = DoCreateLock(st1, a, c)
    BY <1>7, <2>1 DEF Handled, serverCreateLock, HandleCreate, Here, a, c
  <2>3. Created(st1, Handled(st, m), m.type, a, c)
    BY <1>1, <1>7, <2>1, <2>2, DoCreateLockCounts
  <2> QED
    BY <2>1, <2>3, CreatedSame DEF a, c
<1>8. CASE m.type = "CreateCondition"
  <2>1. PICK st1 \in GoodServer : /\ ByName(st, m, st.cvs) = Here(st1, -1) /\ st1.id = 0
                                  /\ SameTables(st, st1) /\ st1.out = st.out /\ st1.loop = NoLoop
    BY <1>2
  <2>2. Handled(st, m) = DoCreateCV(st1, a, c)
    BY <1>8, <2>1 DEF Handled, serverCreateCV, HandleCreate, Here, a, c
  <2>3. Created(st1, Handled(st, m), m.type, a, c)
    BY <1>1, <1>8, <2>1, <2>2, DoCreateCVCounts
  <2> QED
    BY <2>1, <2>3, CreatedSame DEF a, c
<1>9. CASE m.type = "CreateMV"
  <2>1. PICK st1 \in GoodServer : /\ ByName(st, m, st.mvs) = Here(st1, -1) /\ st1.id = 0
                                  /\ SameTables(st, st1) /\ st1.out = st.out
    BY <1>2
  <2>2. Handled(st, m) = DoCreateMV(st1, a, c)
    BY <1>9, <2>1 DEF Handled, serverCreateMV, HandleCreate, Here, a, c
  <2>3. Created(st1, Handled(st, m), m.type, a, c)
    BY <1>1, <1>9, <2>1, <2>2, DoCreateMVCounts
  <2> QED
    BY <2>1, <2>3, CreatedSame DEF a, c
<1> QED
  BY <1>7, <1>8, <1>9 DEF Creates
-------------------------------------------------------------------------------
(***************************************************************************)
(* The invariant: the counts are the numbers of claims, and what clients   *)
(* have a claim to is there under its name.                                *)
(***************************************************************************)
\* The results on their way to c, with a mailbox q, from what a server has to send.
ResultsIn(q, out, c) ==
  {q[j] : j \in DOMAIN q} \cup {m \in {out[j].msg : j \in DOMAIN out} : m.client = c}
Results(c) == ResultsIn(inbox[c], srv[Sole].out, c)

\* The entries that a client in call k is told it has created by the results in R.
AwaitedOf(k, R) ==
  {e \in Creates \X Index : e[1] = k.op /\ \E r \in R : r.ok = {TRUE} /\ r.val = {e[2]}}
Awaited == [c \in Clients |-> AwaitedOf(call[c], Results(c))]

\* A client that waits for nothing is sent nothing, and one that waits is sent one
\* result, once its message is read.
OneAnswer ==
  /\ \A c \in Clients : call[c] = NoCall => Results(c) = {}
  /\ \A j \in DOMAIN Mail : TwoWay(Mail[j]) => Results(Mail[j].client) = {}
  /\ \A c \in Clients : inbox[c] # <<>> => Results(c) = {Head(inbox[c])}
  /\ \A j \in DOMAIN Mail : Mail[j].kind = "call"
  /\ Alone(srv[Sole])

\* What is referred to is there, and so is what a client is told it has created; a
\* client that is told of a failure has no reference.
Refers(h, r, st) ==
  \A c \in Clients : \A n \in Names :
    /\ r[c][n] >= 0
    /\ \A op \in Creates : OfKind(n, op) /\ r[c][n] > 0 =>
         h[c][n] \in Index /\ NamedIn(Objects(st, op), h[c][n], n)
Tells(k, R, r, st) ==
  k.op \in Creates => \A x \in R :
    \/ x.ok = {FALSE} /\ r[k.obj] <= 0
    \/ x.ok = {TRUE} /\ \E i \in Index : x.val = {i} /\ NamedIn(Objects(st, k.op), i, k.obj)

\* Monitor variables have the size their creates ask for.
Sized(st) ==
  \A i \in Index : st.mvs.slot[i] # NULL =>
    \A k \in Calls : k.op = "CreateMV" /\ k.obj = st.mvs.slot[i].name => k.index = st.mvs.slot[i].size

\* Messages are those of the calls clients are in, and the create of a client is in the
\* mailbox or answered.
Asks(m, k) == k.op = m.type /\ (m.type \in Creates => k.obj = m.arg.obj /\ k.index = m.arg.index)
InMail(c) == \E j \in DOMAIN Mail : TwoWay(Mail[j]) /\ Mail[j].client = c
Calling ==
  /\ \A c \in Clients : call[c] # NoCall => call[c] \in Calls
  /\ \A j \in DOMAIN Mail : TwoWay(Mail[j]) => Asks(Mail[j], call[Mail[j].client])
  /\ \A c \in Clients : call[c].op \in Creates =>
       Results(c) # {} \/ InMail(c)

References(b) ==
  /\ Counted(handle, refs, Mail, Awaited, b, Counts(srv[Sole]))
  /\ Refers(handle, refs, srv[Sole])
  /\ \A c \in Clients : Tells(call[c], Results(c), refs[c], srv[Sole])
  /\ Sized(srv[Sole])
  /\ Calling
Referred == \E b \in Nat : References(b)

\* Each part of the places says so.
LEMMA PlacedAnswer ==
  ASSUME OneServer, IInv, AnsweredOnce
  PROVE  OneAnswer
<1> DEFINE st == srv[Sole]
<1>1. PICK b \in BOOLEAN : b = FALSE
  OBVIOUS
<1>2. PICK W \in [Clients -> Place] : Placed(b, W)
  BY <1>1, Zenon DEF AnsweredOnce
<1>3. Located(st, W) /\ Outside(W) /\ Alone(st)
  BY <1>2 DEF Placed, Fits
<1>4. /\ \A c \in Clients : inbox[c] \in Seq(ResultMail)
      /\ Mail \in Seq(ServerMail) /\ st.out \in Seq(OutMail)
  BY SoleServer DEF IInv, TypeOK, GoodServer, Mail
<1>5. ASSUME NEW c \in Clients, W[c] # Out
      PROVE  {m \in {st.out[j].msg : j \in DOMAIN st.out} : m.client = c} = {}
  BY <1>3, <1>5 DEF Located, Queue, OutTo
<1>6. ASSUME NEW c \in Clients, W[c] # Inbox
      PROVE  inbox[c] = <<>> /\ {inbox[c][j] : j \in DOMAIN inbox[c]} = {}
  BY <1>3, <1>6 DEF Outside
<1>7. ASSUME NEW c \in Clients, W[c] \in {Idle, Mailed}
      PROVE  Results(c) = {}
  BY <1>5, <1>6, <1>7, PlacesDiffer DEF Results, ResultsIn
<1>8. \A c \in Clients : call[c] = NoCall => Results(c) = {}
  BY <1>3, <1>7 DEF Outside
<1>9. \A j \in DOMAIN Mail : TwoWay(Mail[j]) => Results(Mail[j].client) = {}
  <2> SUFFICES ASSUME NEW j \in DOMAIN Mail, TwoWay(Mail[j]) PROVE Results(Mail[j].client) = {}
    OBVIOUS
  <2>1. Mail[j] \in ServerMail
    BY <1>4
  <2>2. Mail[j].client \in Clients
    BY <2>1, MailKinds DEF ServerMail, CallMail, RequestMail, ReplyMail, Typed
  <2> QED
    BY <1>3, <1>7, <2>2 DEF Outside, MailAt
<1>10. ASSUME NEW c \in Clients, inbox[c] # <<>>
       PROVE  Results(c) = {Head(inbox[c])}
  <2>1. W[c] = Inbox
    BY <1>3, <1>10 DEF Outside
  <2>2. Len(inbox[c]) = 1
    <3>1. Len(inbox[c]) <= 1 /\ inbox[c] \in Seq(ResultMail)
      BY <1>3, <1>4 DEF Outside
    <3>2. Len(inbox[c]) \in Nat \ {0}
      BY <1>10, <3>1, EmptySeq
    <3>3. \A n \in Nat \ {0} : n <= 1 => n = 1
      OBVIOUS
    <3> QED
      BY <3>1, <3>2, <3>3
  <2>3. {inbox[c][j] : j \in DOMAIN inbox[c]} = {Head(inbox[c])}
    BY <1>4, <2>2
  <2>4. W[c] # Out
    BY <2>1, PlacesDiffer
  <2> QED
    BY <1>5, <2>3, <2>4 DEF Results, ResultsIn
<1>11. \A j \in DOMAIN Mail : Mail[j].kind = "call"
  BY <1>3 DEF Outside, MailAt
<1> QED
  BY <1>3, <1>8, <1>9, <1>10, <1>11 DEF OneAnswer

\* A claim to an entry makes it count.
LEMMA ClaimCounts ==
  ASSUME NEW h, NEW r, NEW q, NEW z, NEW b \in Nat, NEW count, Counted(h, r, q, z, b, count),
         NEW op \in Creates, NEW i \in Index, NEW x \in Claims(h, r, q, z, b, op, i)
  PROVE  count[op][i] # 0
<1>1. IsFiniteSet(Claims(h, r, q, z, b, op, i)) /\ Cardinality(Claims(h, r, q, z, b, op, i)) = count[op][i]
  BY DEF Counted
<1>2. count[op][i] >= 1 /\ count[op][i] \in Nat
  BY <1>1, ClaimsCount
<1> QED
  BY <1>2

\* So what clients refer to, and what they are told, lasts.
LEMMA RefersLast ==
  ASSUME NEW h, NEW r \in [Clients -> [Names -> Int]], NEW q, NEW z, NEW b \in Nat, NEW st, NEW st2,
         Counted(h, r, q, z, b, Counts(st2)), \A op \in Creates : NamesLast(Objects(st, op), Objects(st2, op)),
         Refers(h, r, st)
  PROVE  Refers(h, r, st2)
<1> SUFFICES ASSUME NEW c \in Clients, NEW n \in Names, NEW op \in Creates, OfKind(n, op), r[c][n] > 0
             PROVE  h[c][n] \in Index /\ NamedIn(Objects(st2, op), h[c][n], n)
  BY DEF Refers
<1>1. h[c][n] \in Index /\ NamedIn(Objects(st, op), h[c][n], n)
  BY DEF Refers
<1>2. RefAt(h, r, op, h[c][n], c, n, 1)
  BY DEF RefAt
<1>3. Ref(c, n, 1) \in Claims(h, r, q, z, b, op, h[c][n])
  BY <1>2, RefClaims
<1>4. Counts(st2)[op][h[c][n]] # 0
  BY <1>1, <1>3, ClaimCounts
<1>5. CountIn(Objects(st2, op), h[c][n]) # 0
  BY <1>1, <1>4 DEF Counts
<1> QED
  BY <1>1, <1>5 DEF NamesLast

LEMMA TellsLast ==
  ASSUME NEW h, NEW r, NEW q, NEW z, NEW b \in Nat, NEW st, NEW st2,
         Counted(h, r, q, z, b, Counts(st2)), \A op \in Creates : NamesLast(Objects(st, op), Objects(st2, op)),
         NEW c \in Clients, NEW k, NEW R, z[c] = AwaitedOf(k, R), Tells(k, R, r[c], st)
  PROVE  Tells(k, R, r[c], st2)
<1> SUFFICES ASSUME k.op \in Creates, NEW x \in R,
                    ~(x.ok = {FALSE} /\ r[c][k.obj] <= 0)
             PROVE  x.ok = {TRUE} /\ \E i \in Index : x.val = {i} /\ NamedIn(Objects(st2, k.op), i, k.obj)
  BY Zenon DEF Tells
<1>1. x.ok = {TRUE} /\ \E i \in Index : x.val = {i} /\ NamedIn(Objects(st, k.op), i, k.obj)
  BY Zenon DEF Tells
<1>2. PICK i \in Index : x.val = {i} /\ NamedIn(Objects(st, k.op), i, k.obj)
  BY <1>1
<1>3. <<k.op, i>> \in z[c]
  BY <1>1, <1>2 DEF AwaitedOf
<1>4. Due(c) \in Claims(h, r, q, z, b, k.op, i)
  BY <1>3, DueClaims
<1>5. Counts(st2)[k.op][i] # 0
  BY <1>4, ClaimCounts
<1>6. CountIn(Objects(st2, k.op), i) # 0
  BY <1>5 DEF Counts
<1>7. NamedIn(Objects(st2, k.op), i, k.obj)
  BY <1>2, <1>6 DEF NamesLast
<1> QED
  BY <1>1, <1>2, <1>7

\* Nobody is told anything about a call that creates nothing.
LEMMA AwaitedNone ==
  ASSUME NEW k, NEW R, k.op \notin Creates
  PROVE  AwaitedOf(k, R) = {}
BY DEF AwaitedOf

\* A server that has nothing to send: the results are in the mailboxes of the clients, and
\* a client with its result, or with its message still unread, is not sent one.
LEMMA ResultsStay ==
  ASSUME OneAnswer, OneAnswer', srv[Sole].out = <<>>, inbox' = inbox, NEW d \in Clients,
         Results(d) # {} \/ (InMail(d) /\ InMail(d)')
  PROVE  Results(d)' = Results(d)
<1>1. CASE inbox[d] # <<>>
  <2>1. Results(d) = {Head(inbox[d])}
    BY <1>1 DEF OneAnswer
  <2>2. Results(d)' = {Head(inbox'[d])}
    BY <1>1 DEF OneAnswer
  <2> QED
    BY <2>1, <2>2
<1>2. CASE InMail(d) /\ InMail(d)'
  <2>1. Results(d) = {}
    BY <1>2 DEF OneAnswer, InMail
  <2>2. Results(d)' = {}
    BY <1>2 DEF OneAnswer, InMail
  <2> QED
    BY <2>1, <2>2
<1>3. inbox[d] = <<>> => Results(d) = {}
  BY DEF Results, ResultsIn
<1> QED
  BY <1>1, <1>2, <1>3

\* Only the client whose create is read may be sent the result of a create.
LEMMA ReceiveResults ==
  ASSUME OneServer, IInv, OneAnswer, OneAnswer', Calling, NEW s \in Servers, NEW type, NEW st, Receive(s, type, st),
         NEW d \in Clients, call[d].op \in Creates, ~(M(s).type \in Creates /\ M(s).client = d)
  PROVE  Results(d)' = Results(d) /\ (Results(d) # {} \/ InMail(d)')
<1>1. /\ s = Sole /\ srv[Sole].out = <<>> /\ Mail' = Tail(Mail) /\ Mail # <<>> /\ Mail \in Seq(ServerMail)
      /\ M(s) = Mail[1] /\ inbox' = inbox
  BY SoleServer DEF Receive, IInv, TypeOK, Mail, M
<1>2. Results(d) # {} \/ InMail(d)
  BY DEF Calling
<1>3. InMail(d) => InMail(d)'
  <2> SUFFICES ASSUME InMail(d) PROVE InMail(d)'
    OBVIOUS
  <2>1. PICK j \in DOMAIN Mail : TwoWay(Mail[j]) /\ Mail[j].client = d
    BY DEF InMail
  <2>2. Mail[j].type \in Creates
    BY <2>1 DEF Calling, Asks
  <2>3. j # 1
    BY <1>1, <2>1, <2>2
  <2>4. j - 1 \in DOMAIN Mail' /\ Mail'[j - 1] = Mail[j]
    BY <1>1, <2>3
  <2>5. TwoWay(Mail'[j - 1]) /\ Mail'[j - 1].client = d
    BY <2>1, <2>4
  <2> QED
    BY <2>4, <2>5 DEF InMail
<1>4. Results(d)' = Results(d)
  BY <1>1, <1>2, <1>3, ResultsStay
<1> QED
  BY <1>2, <1>3, <1>4

\* The result of the create that is read is the first that its client is sent.
LEMMA CreateResult ==
  ASSUME OneServer, IInv, OneAnswer, NEW s \in Servers, NEW type, NEW st, Receive(s, type, st),
         M(s).type \in Creates, NEW c, c = M(s).client, NEW oks, NEW vals,
         st.out = Append(srv[s].out, [to |-> {}, msg |-> ResultOf(c, oks, vals)])
  PROVE  /\ c \in Clients
         /\ Results(c) = {}
         /\ Results(c)' = {ResultOf(c, oks, vals)}
<1> DEFINE x == [to |-> {}, msg |-> ResultOf(c, oks, vals)]
<1>1. /\ s = Sole /\ srv[Sole].out = <<>> /\ Mail # <<>> /\ Mail \in Seq(ServerMail)
      /\ M(s) = Mail[1] /\ inbox' = inbox /\ srv'[Sole] = st
  BY SoleServer DEF Receive, IInv, TypeOK, Mail, M
<1>2. 1 \in DOMAIN Mail /\ Mail[1] \in ServerMail
  BY <1>1
<1>3. c \in Clients
  BY <1>1, <1>2, MailKinds
<1>4. TwoWay(Mail[1])
  BY <1>1 DEF TwoWay, OneWay, Destroys, Creates
<1>5. Results(c) = {}
  BY <1>1, <1>2, <1>4 DEF OneAnswer
<1>6. inbox[c] = <<>>
  BY <1>3, <1>5 DEF OneAnswer
<1>7. x.msg.client = c /\ x.msg = ResultOf(c, oks, vals)
  BY DEF ResultOf
<1> HIDE DEF x
<1>8. st.out = <<x>>
  BY <1>1 DEF x
<1>9. DOMAIN st.out = {1} /\ st.out[1] = x
  BY <1>8
<1>10. Results(c)' = ResultsIn(inbox'[c], srv'[Sole].out, c)
  BY DEF Results
<1>11. ResultsIn(<<>>, st.out, c) = {x.msg}
  BY <1>7, <1>9 DEF ResultsIn
<1>12. Results(c)' = {ResultOf(c, oks, vals)}
  BY <1>1, <1>6, <1>7, <1>10, <1>11
<1> QED
  BY <1>3, <1>5, <1>12

LEMMA ReceiveCalling ==
  ASSUME OneServer, IInv, OneAnswer, OneAnswer', Calling, NEW s \in Servers, NEW type, NEW st, Receive(s, type, st),
         \A c \in Clients : M(s).type \in Creates /\ M(s).client = c => Results(c)' # {}
  PROVE  Calling'
<1>1. /\ s = Sole /\ Mail' = Tail(Mail) /\ Mail # <<>> /\ Mail \in Seq(ServerMail) /\ call' = call
  BY SoleServer DEF Receive, IInv, TypeOK, Mail
<1>2. \A j \in DOMAIN Mail' : TwoWay(Mail'[j]) => Asks(Mail'[j], call'[Mail'[j].client])
  <2> SUFFICES ASSUME NEW j \in DOMAIN Mail', TwoWay(Mail'[j]) PROVE Asks(Mail'[j], call'[Mail'[j].client])
    OBVIOUS
  <2>1. j + 1 \in DOMAIN Mail /\ Mail'[j] = Mail[j + 1]
    BY <1>1
  <2> QED
    BY <1>1, <2>1 DEF Calling
<1>3. ASSUME NEW d \in Clients, call[d].op \in Creates
      PROVE  Results(d)' # {} \/ InMail(d)'
  <2>1. CASE M(s).type \in Creates /\ M(s).client = d
    BY <2>1
  <2>2. CASE ~(M(s).type \in Creates /\ M(s).client = d)
    BY <1>3, <2>2, ReceiveResults
  <2> QED
    BY <2>1, <2>2
<1> QED
  BY <1>1, <1>2, <1>3 DEF Calling

\* The two results of a create.
CreateDone(st, st2, op, a, c, j) ==
  /\ st2.out = Append(st.out, [to |-> {}, msg |-> ResultOf(c, {TRUE}, {j})])
  /\ Recounted(st, st2, op, j, 1) /\ NamedIn(Objects(st2, op), j, a.obj)
CreateFailed(st, st2, op, a, c, v) ==
  /\ st2.out = Append(st.out, [to |-> {}, msg |-> ResultOf(c, {FALSE}, {v})])
  /\ SameTables(st, st2)
  /\ \A i \in Index : NamedIn(Objects(st, op), i, a.obj) => op = "CreateMV" /\ st.mvs.slot[i].size # a.index

LEMMA CreatedCases ==
  ASSUME NEW st, NEW st2, NEW op, NEW a, NEW c, Created(st, st2, op, a, c)
  PROVE  \/ \E j \in Index : CreateDone(st, st2, op, a, c, j)
         \/ \E v : CreateFailed(st, st2, op, a, c, v)
<1> DEFINE Good(ok, j) ==
             /\ st2.out = Append(st.out, [to |-> {}, msg |-> ResultOf(c, {ok}, {j})])
             /\ ok => j \in Index /\ Recounted(st, st2, op, j, 1) /\ NamedIn(Objects(st2, op), j, a.obj)
             /\ ~ok => /\ SameTables(st, st2)
                       /\ \A i \in Index : NamedIn(Objects(st, op), i, a.obj) =>
                            op = "CreateMV" /\ st.mvs.slot[i].size # a.index
<1>1. \E ok \in BOOLEAN : \E j : Good(ok, j)
  BY Zenon DEF Created
<1> HIDE DEF Good
<1>2. (\E j : Good(TRUE, j)) \/ (\E j : Good(FALSE, j))
  BY <1>1, Zenon
<1> QED
  BY <1>2, Zenon DEF Good, CreateDone, CreateFailed

LEMMA SizedLast ==
  ASSUME NEW st, NEW st2, Sized(st), SizesLast(st.mvs, st2.mvs)
  PROVE  Sized(st2)
BY DEF Sized, SizesLast

\* A client's own call, and the names its claims are to.
LEMMA KindOfCreate == \A op \in Creates : KindOf(op) = op
BY DEF KindOf, Creates, LockOps, CVOps

\* A create that is read: what the server knows of its client.
LEMMA CreateOf ==
  ASSUME OneServer, IInv, Calling, NEW j \in DOMAIN Mail, Mail[j].type \in Creates
  PROVE  LET k == call[Mail[j].client]
         IN  /\ k \in Calls /\ k.op = Mail[j].type /\ k.obj = Mail[j].arg.obj /\ k.index = Mail[j].arg.index
             /\ k.obj \in Names /\ OfKind(k.obj, k.op)
<1> DEFINE m == Mail[j]
           k == call[m.client]
<1>1. TwoWay(m)
  BY DEF TwoWay, OneWay, Destroys, Creates
<1>2. k.op = m.type /\ k.obj = m.arg.obj /\ k.index = m.arg.index
  BY <1>1 DEF Calling, Asks
<1>3. m \in ServerMail
  BY SoleServer DEF IInv, TypeOK, Mail
<1>4. m.client \in Clients
  BY <1>3 DEF ServerMail, CallMail, RequestMail, ReplyMail, Typed
<1>5. k # NoCall
  BY <1>2 DEF NoCall, Creates
<1>6. k \in Calls
  BY <1>4, <1>5 DEF Calling
<1>7. k.obj \in Names /\ OfKind(k.obj, k.op)
  BY <1>2, <1>6, CallsAssumption, KindOfCreate DEF OfKind, CallSet
<1> QED
  BY <1>2, <1>6, <1>7

\* Reading a message that creates nothing.
LEMMA ReadReferences ==
  ASSUME Servers = {0}, IInv, OneAnswer, OneAnswer', NEW b \in Nat, References(b), NEW s \in Servers,
         Reads(s), M(s).type \notin Creates
  PROVE  References(b + 1)'
<1> DEFINE m == M(s)
           st == srv[s]
           st2 == Handled(st, m)
<1>0. OneServer
  BY ZeroIndex
<1>1. Receive(s, m.type, st2)
  BY ReadsHandle
<1>2. /\ s = Sole /\ st \in GoodServer
      /\ Mail' = Tail(Mail) /\ Mail # <<>> /\ Mail \in Seq(ServerMail) /\ m = Head(Mail)
      /\ handle' = handle /\ refs' = refs /\ call' = call /\ srv'[Sole] = st2
      /\ refs \in [Clients -> [Names -> Int]]
  BY <1>0, <1>1, SoleServer DEF Receive, IInv, TypeOK, Mail, M
<1>3. m = Mail[1] /\ 1 \in DOMAIN Mail /\ m \in ServerMail
  BY <1>2
<1>4. m.kind = "call"
  BY <1>3 DEF OneAnswer
<1>5. ASSUME NEW d \in Clients, call[d].op \in Creates
      PROVE  Results(d)' = Results(d)
  BY <1>0, <1>1, <1>5, ReceiveResults DEF References
<1>6. ASSUME NEW d \in Clients
      PROVE  AwaitedOf(call'[d], Results(d)') = AwaitedOf(call[d], Results(d))
  BY <1>2, <1>5, AwaitedNone
<1>7. Awaited' = Awaited
  BY <1>6 DEF Awaited
<1>8. Calling'
  BY <1>0, <1>1, ReceiveCalling DEF References
<1> HIDE DEF st2
<1>9. /\ Counted(handle, refs, Tail(Mail), Awaited, b + 1, Counts(st2))
      /\ \A op \in Creates : NamesLast(Objects(st, op), Objects(st2, op))
      /\ SizesLast(st.mvs, st2.mvs)
  <2>1. Counted(handle, refs, Mail, Awaited, b, Counts(st))
    BY <1>2 DEF References
  <2>2. CASE m.type \in Destroys => m.arg.obj \notin Index
    <3>1. Keeps(st, st2)
      BY <1>2, <1>3, <1>4, <2>2, HandledKeeps DEF st2
    <3>2. Counted(handle, refs, Tail(Mail), Awaited, b + 1, Counts(st))
      BY <1>2, <2>1, <2>2, CountedRead
    <3> QED
      BY <3>1, <3>2, KeepsCounts DEF Keeps
  <2>3. CASE m.type \in Destroys /\ m.arg.obj \in Index
    <3>0. PICK op : op = KindOf(m.type)
      OBVIOUS
    <3>1. PICK i \in Index : i = m.arg.obj
      BY <2>3
    <3>2. op \in Creates /\ Destroying(m, op, i)
      BY <2>3, <3>0, <3>1 DEF KindOf, Creates, Destroying
    <3>3. Counts(st) \in [Creates -> [Index -> Int]]
      BY <1>2, CountsType
    <3>4. /\ Counts(st)[op][i] >= 1
          /\ Counted(handle, refs, Tail(Mail), Awaited, b + 1, [Counts(st) EXCEPT ![op][i] = @ - 1])
      <4>1. Destroying(Head(Mail), op, i) /\ Mail \in Seq(ServerMail) /\ Mail # <<>>
        BY <1>2, <3>2
      <4>2. PICK f : f = Counts(st)
        OBVIOUS
      <4>3. f \in [Creates -> [Index -> Int]] /\ Counted(handle, refs, Mail, Awaited, b, f)
        BY <2>1, <3>3, <4>2
      <4>4. /\ f[op][i] >= 1
            /\ Counted(handle, refs, Tail(Mail), Awaited, b + 1, [f EXCEPT ![op][i] = @ - 1])
        BY <3>2, <4>1, <4>3, CountedDestroyed
      <4> QED
        BY <4>2, <4>4, Zenon
    <3>5. CountIn(Objects(st, op), i) # 0
      BY <3>2, <3>4 DEF Counts
    <3>6. Destroyed(st, st2, op, i)
      BY <1>2, <1>3, <1>4, <2>3, <3>0, <3>1, <3>5, HandledDestroys DEF st2
    <3>7. Recounted(st, st2, op, i, -1) /\ SizesLast(st.mvs, st2.mvs)
      BY <3>6 DEF Destroyed
    <3>8. PICK d \in Int : d = -1
      OBVIOUS
    <3>9. Recounted(st, st2, op, i, d) /\ st \in GoodServer
      BY <1>2, <3>7, <3>8
    <3>10. /\ Counts(st2) = [Counts(st) EXCEPT ![op][i] = @ + d]
           /\ \A o \in Creates : NamesLast(Objects(st, o), Objects(st2, o))
      <4> HIDE DEF st
      <4> QED
        BY <3>2, <3>9, RecountedCounts
    <3>11. [Counts(st) EXCEPT ![op][i] = @ + d] = [Counts(st) EXCEPT ![op][i] = @ - 1]
      BY <3>2, <3>3, <3>8
    <3> QED
      BY <3>4, <3>7, <3>10, <3>11
  <2> QED
    BY <2>2, <2>3
<1>10. Refers(handle, refs, st2)
  BY <1>2, <1>9, RefersLast DEF References
<1>11. \A d \in Clients : Tells(call[d], Results(d)', refs[d], st2)
  <2> SUFFICES ASSUME NEW d \in Clients, call[d].op \in Creates
               PROVE  Tells(call[d], Results(d)', refs[d], st2)
    BY DEF Tells
  <2>1. Tells(call[d], Results(d), refs[d], st) /\ Awaited[d] = AwaitedOf(call[d], Results(d))
    BY <1>2 DEF References, Awaited
  <2>2. Tells(call[d], Results(d), refs[d], st2)
    <3>1. b + 1 \in Nat
      OBVIOUS
    <3> QED
      BY <1>9, <2>1, <3>1, TellsLast, Zenon
  <2> QED
    BY <1>5, <2>2
<1>12. Sized(st2)
  BY <1>2, <1>9, SizedLast DEF References
<1> QED
  BY <1>2, <1>7, <1>8, <1>9, <1>10, <1>11, <1>12 DEF References

\* What the result of a create says.
LEMMA AwaitedThat ==
  ASSUME NEW k, k.op \in Creates, NEW v \in Index, NEW x, x.ok = {TRUE}, x.val = {v}
  PROVE  AwaitedOf(k, {x}) = {<<k.op, v>>}
<1>1. \A e \in Creates \X Index : e \in AwaitedOf(k, {x}) <=> e[1] = k.op /\ {v} = {e[2]}
  BY DEF AwaitedOf
<1>2. \A e \in Creates \X Index : {v} = {e[2]} <=> e[2] = v
  OBVIOUS
<1>3. \A e \in Creates \X Index : e[1] = k.op /\ e[2] = v <=> e = <<k.op, v>>
  OBVIOUS
<1>4. AwaitedOf(k, {x}) \subseteq Creates \X Index /\ <<k.op, v>> \in Creates \X Index
  BY DEF AwaitedOf
<1> QED
  BY <1>1, <1>2, <1>3, <1>4

LEMMA AwaitedResult ==
  ASSUME NEW k, k.op \in Creates, NEW c, NEW v
  PROVE  /\ AwaitedOf(k, {}) = {}
         /\ AwaitedOf(k, {ResultOf(c, {FALSE}, {v})}) = {}
         /\ v \in Index => AwaitedOf(k, {ResultOf(c, {TRUE}, {v})}) = {<<k.op, v>>}
<1>1. AwaitedOf(k, {}) = {}
  BY DEF AwaitedOf
<1>2. {FALSE} # {TRUE}
  OBVIOUS
<1>3. /\ ResultOf(c, {FALSE}, {v}).ok = {FALSE}
      /\ ResultOf(c, {TRUE}, {v}).ok = {TRUE} /\ ResultOf(c, {TRUE}, {v}).val = {v}
  BY DEF ResultOf
<1>4. AwaitedOf(k, {ResultOf(c, {FALSE}, {v})}) = {}
  BY <1>2, <1>3, Zenon DEF AwaitedOf
<1> QED
  BY <1>1, <1>3, <1>4, AwaitedThat

\* Reading a create.
LEMMA CreateReferences ==
  ASSUME Servers = {0}, ObjectsApart, IInv, OneAnswer, OneAnswer', NEW b \in Nat, References(b),
         NEW s \in Servers, Reads(s), M(s).type \in Creates
  PROVE  References(b + 1)'
<1> DEFINE m == M(s)
           st == srv[s]
           st2 == Handled(st, m)
           k == call[m.client]
<1>0. OneServer
  BY ZeroIndex
<1>1. Receive(s, m.type, st2)
  BY ReadsHandle
<1>2. /\ s = Sole /\ st \in GoodServer /\ st.loop = NoLoop
      /\ Mail' = Tail(Mail) /\ Mail # <<>> /\ Mail \in Seq(ServerMail) /\ m = Head(Mail)
      /\ handle' = handle /\ refs' = refs /\ call' = call /\ srv'[Sole] = st2
      /\ refs \in [Clients -> [Names -> Int]]
  BY <1>0, <1>1, SoleServer DEF Receive, IInv, TypeOK, Mail, M
<1>3. m = Mail[1] /\ 1 \in DOMAIN Mail /\ m \in ServerMail
  BY <1>2
<1>4. m.kind = "call"
  BY <1>3 DEF OneAnswer
<1>5. Calling /\ Refers(handle, refs, st) /\ Sized(st)
  BY <1>2 DEF References
<1>6. /\ k \in Calls /\ k.op = m.type /\ k.obj = m.arg.obj /\ k.index = m.arg.index
      /\ k.obj \in Names /\ OfKind(k.obj, k.op)
  BY <1>0, <1>3, <1>5, CreateOf
<1>7. PICK c : c = m.client
  OBVIOUS
<1>8. PICK op \in Creates : op = m.type
  OBVIOUS
<1>9. Created(st, st2, op, m.arg, c)
  BY <1>2, <1>3, <1>4, <1>7, <1>8, HandledCreates
<1>10. ASSUME NEW d \in Clients, d # c, call[d].op \in Creates
       PROVE  Results(d)' = Results(d)
  BY <1>0, <1>1, <1>5, <1>7, <1>10, ReceiveResults
<1>11. ASSUME NEW d \in Clients, d # c
       PROVE  AwaitedOf(call'[d], Results(d)') = AwaitedOf(call[d], Results(d))
  BY <1>2, <1>10, <1>11, AwaitedNone
<1> HIDE DEF st2
<1>12. ASSUME NEW oks, NEW vals, st2.out = Append(st.out, [to |-> {}, msg |-> ResultOf(c, oks, vals)])
       PROVE  c \in Clients /\ Results(c) = {} /\ Results(c)' = {ResultOf(c, oks, vals)}
  BY <1>0, <1>1, <1>7, <1>12, CreateResult
<1>13. Counted(handle, refs, Tail(Mail), Awaited, b + 1, Counts(st))
  <2>1. Head(Mail).type \notin Destroys
    BY <1>2, <1>8 DEF Creates, Destroys
  <2> QED
    BY <1>2, <2>1, CountedRead DEF References
<1>14. Sized(st2)
  <2> SUFFICES ASSUME NEW i \in Index, st2.mvs.slot[i] # NULL, NEW l \in Calls, l.op = "CreateMV",
                      l.obj = st2.mvs.slot[i].name
               PROVE  l.index = st2.mvs.slot[i].size
    BY DEF Sized
  <2>1. \/ st.mvs.slot[i] # NULL /\ st2.mvs.slot[i].name = st.mvs.slot[i].name
                                 /\ st2.mvs.slot[i].size = st.mvs.slot[i].size
        \/ op = "CreateMV" /\ st2.mvs.slot[i].name = m.arg.obj /\ st2.mvs.slot[i].size = m.arg.index
    BY <1>9 DEF Created
  <2>2. CASE st.mvs.slot[i] # NULL /\ st2.mvs.slot[i].name = st.mvs.slot[i].name
             /\ st2.mvs.slot[i].size = st.mvs.slot[i].size
    BY <1>5, <2>2 DEF Sized
  <2>3. CASE op = "CreateMV" /\ st2.mvs.slot[i].name = m.arg.obj /\ st2.mvs.slot[i].size = m.arg.index
    <3>1. k.op = "CreateMV" /\ l.obj = k.obj
      BY <1>6, <1>8, <2>3
    <3>2. l.index = k.index
      BY <1>6, <3>1 DEF ObjectsApart
    <3> QED
      BY <1>6, <2>3, <3>2
  <2> QED
    BY <2>1, <2>2, <2>3
<1>25. \/ \E j \in Index : CreateDone(st, st2, op, m.arg, c, j)
       \/ \E v : CreateFailed(st, st2, op, m.arg, c, v)
  BY <1>9, CreatedCases, Zenon
<1>15. c \in Clients /\ Results(c)' # {} /\ Results(c) = {}
  <2>1. \E oks, vals : st2.out = Append(st.out, [to |-> {}, msg |-> ResultOf(c, oks, vals)])
    BY <1>25, Zenon DEF CreateDone, CreateFailed
  <2> QED
    BY <1>12, <2>1
<1>16. Calling'
  <2>1. \A d \in Clients : m.type \in Creates /\ m.client = d => Results(d)' # {}
    BY <1>7, <1>15
  <2> QED
    BY <1>0, <1>1, <1>5, <2>1, ReceiveCalling
<1>17. b + 1 \in Nat /\ call[c].op = op /\ call[c].obj = m.arg.obj
  BY <1>6, <1>7, <1>8
<1>18. /\ \A d \in Clients : Awaited[d] = AwaitedOf(call[d], Results(d))
       /\ \A d \in Clients : Awaited'[d] = AwaitedOf(call[d], Results(d)')
  BY <1>2 DEF Awaited
<1>19. Awaited[c] = {}
  BY <1>15, <1>17, <1>18, AwaitedResult
<1>20. \A d \in Clients : d # c => Awaited'[d] = Awaited[d]
  BY <1>2, <1>11, <1>18
<1>21. \A d \in Clients : Tells(call[d], Results(d), refs[d], st)
  BY <1>2 DEF References
<1>22. SUFFICES /\ Counted(handle, refs, Tail(Mail), Awaited', b + 1, Counts(st2))
                /\ \A o \in Creates : NamesLast(Objects(st, o), Objects(st2, o))
                /\ Tells(call[c], Results(c)', refs[c], st2)
  <2>1. Counted(handle, refs, Tail(Mail), Awaited', b + 1, Counts(st2))
    BY <1>22
  <2>2. Refers(handle, refs, st2)
    BY <1>2, <1>5, <1>17, <1>22, RefersLast
  <2>3. ASSUME NEW d \in Clients, d # c, call[d].op \in Creates
        PROVE  Tells(call[d], Results(d)', refs[d], st2)
    <3>1. Results(d)' = Results(d)
      BY <1>10, <2>3
    <3>2. Tells(call[d], Results(d)', refs[d], st) /\ Awaited'[d] = AwaitedOf(call[d], Results(d)')
      BY <1>18, <1>21, <3>1
    <3> QED
      BY <1>17, <1>22, <3>2, TellsLast, Zenon
  <2>4. ASSUME NEW d \in Clients PROVE Tells(call[d], Results(d)', refs[d], st2)
    <3>1. CASE call[d].op \notin Creates
      BY <3>1 DEF Tells
    <3> QED
      BY <1>22, <2>3, <3>1
  <2> QED
    BY <1>2, <1>14, <1>16, <2>1, <2>2, <2>4 DEF References
<1>23. ASSUME NEW j \in Index, CreateDone(st, st2, op, m.arg, c, j)
       PROVE  /\ Counted(handle, refs, Tail(Mail), Awaited', b + 1, Counts(st2))
              /\ \A o \in Creates : NamesLast(Objects(st, o), Objects(st2, o))
              /\ Tells(call[c], Results(c)', refs[c], st2)
  <2>1. /\ st2.out = Append(st.out, [to |-> {}, msg |-> ResultOf(c, {TRUE}, {j})])
        /\ Recounted(st, st2, op, j, 1) /\ NamedIn(Objects(st2, op), j, m.arg.obj)
    BY <1>23 DEF CreateDone
  <2>2. Results(c)' = {ResultOf(c, {TRUE}, {j})}
    BY <1>12, <2>1
  <2>3. Awaited'[c] = {<<op, j>>}
    <3>0. call[c].op \in Creates /\ j \in Index
      BY <1>17
    <3>1. AwaitedOf(call[c], {ResultOf(c, {TRUE}, {j})}) = {<<call[c].op, j>>}
      BY <3>0, AwaitedResult, Zenon
    <3> QED
      BY <1>15, <1>17, <1>18, <2>2, <3>1, Zenon
  <2>4. /\ Counts(st2) = [Counts(st) EXCEPT ![op][j] = @ + 1]
        /\ \A o \in Creates : NamesLast(Objects(st, o), Objects(st2, o))
    <3> HIDE DEF st
    <3> QED
      BY <1>2, <2>1, RecountedCounts
  <2>5. Counts(st) \in [Creates -> [Index -> Int]]
    BY <1>2, CountsType
  <2>6. Counted(handle, refs, Tail(Mail), Awaited', b + 1, [Counts(st) EXCEPT ![op][j] = @ + 1])
    <3>1. PICK f : f = Counts(st)
      OBVIOUS
    <3>2. f \in [Creates -> [Index -> Int]] /\ Counted(handle, refs, Tail(Mail), Awaited, b + 1, f)
      BY <1>13, <2>5, <3>1
    <3>3. PICK z : z = Awaited
      OBVIOUS
    <3>4. PICK z2 : z2 = Awaited'
      OBVIOUS
    <3>5. NewDue(z, z2, c, op, j) /\ Counted(handle, refs, Tail(Mail), z, b + 1, f)
      BY <1>19, <1>20, <2>3, <3>2, <3>3, <3>4 DEF NewDue
    <3>7. PICK g : g = [f EXCEPT ![op][j] = @ + 1]
      OBVIOUS
    <3>6. Counted(handle, refs, Tail(Mail), z2, b + 1, g)
      <4>1. c \in Clients /\ b + 1 \in Nat /\ op \in Creates /\ j \in Index
        BY <1>15, <1>17
      <4> QED
        BY <3>2, <3>5, <3>7, <4>1, CountedAnswer
    <3> QED
      BY <3>1, <3>4, <3>6, <3>7, Zenon
  <2>7. Tells(call[c], Results(c)', refs[c], st2)
    <3>1. ResultOf(c, {TRUE}, {j}).ok = {TRUE} /\ ResultOf(c, {TRUE}, {j}).val = {j}
      BY DEF ResultOf
    <3> QED
      BY <1>17, <2>1, <2>2, <3>1, Zenon DEF Tells
  <2> QED
    BY <2>4, <2>6, <2>7
<1>24. ASSUME NEW v, CreateFailed(st, st2, op, m.arg, c, v)
       PROVE  /\ Counted(handle, refs, Tail(Mail), Awaited', b + 1, Counts(st2))
              /\ \A o \in Creates : NamesLast(Objects(st, o), Objects(st2, o))
              /\ Tells(call[c], Results(c)', refs[c], st2)
  <2>1. /\ st2.out = Append(st.out, [to |-> {}, msg |-> ResultOf(c, {FALSE}, {v})])
        /\ SameTables(st, st2)
        /\ \A i \in Index : NamedIn(Objects(st, op), i, m.arg.obj) =>
             op = "CreateMV" /\ st.mvs.slot[i].size # m.arg.index
    BY <1>24 DEF CreateFailed
  <2>2. Results(c)' = {ResultOf(c, {FALSE}, {v})}
    BY <1>12, <2>1
  <2>3. Awaited'[c] = {}
    <3>1. AwaitedOf(call[c], {ResultOf(c, {FALSE}, {v})}) = {}
      BY <1>17, AwaitedResult, Zenon
    <3> QED
      BY <1>15, <1>17, <1>18, <2>2, <3>1, Zenon
  <2>4. Awaited' = Awaited
    <3>1. \A d \in Clients : AwaitedOf(call'[d], Results(d)') = AwaitedOf(call[d], Results(d))
      BY <1>2, <1>11, <1>15, <1>18, <1>19, <2>3
    <3> QED
      BY <3>1 DEF Awaited
  <2>5. Keeps(st, st2)
    BY <2>1, KeepsTables
  <2>6. Counts(st2) = Counts(st) /\ \A o \in Creates : NamesLast(Objects(st, o), Objects(st2, o))
    BY <2>5, KeepsCounts
  <2>7. ~(refs[c][m.arg.obj] > 0)
    <3> SUFFICES ASSUME refs[c][m.arg.obj] > 0 PROVE FALSE
      OBVIOUS
    <3>1. PICK i : i = handle[c][m.arg.obj]
      OBVIOUS
    <3>2. i \in Index /\ NamedIn(Objects(st, op), i, m.arg.obj)
      BY <1>5, <1>6, <1>8, <1>15, <3>1 DEF Refers
    <3>3. op = "CreateMV" /\ st.mvs.slot[i].size # m.arg.index
      BY <2>1, <3>2
    <3>4. st.mvs.slot[i] # NULL /\ st.mvs.slot[i].name = k.obj /\ k.op = "CreateMV"
      BY <1>6, <1>8, <3>2, <3>3, ObjectsOf DEF NamedIn
    <3>5. k.index = st.mvs.slot[i].size
      BY <1>5, <1>6, <3>2, <3>4 DEF Sized
    <3> QED
      BY <1>6, <3>3, <3>5
  <2>8. refs[c][m.arg.obj] <= 0
    BY <1>2, <1>6, <1>15, <2>7
  <2>9. Tells(call[c], Results(c)', refs[c], st2)
    <3>1. ResultOf(c, {FALSE}, {v}).ok = {FALSE}
      BY DEF ResultOf
    <3> QED
      BY <1>17, <2>2, <2>8, <3>1, Zenon DEF Tells
  <2> QED
    BY <1>13, <2>4, <2>6, <2>9
<1> QED
  BY <1>23, <1>24, <1>25, Zenon

\* A step of the server that creates and destroys nothing, reads nothing, and tells nobody
\* in a create anything new.
LEMMA KeptReferences ==
  ASSUME IInv, NEW b \in Nat, References(b), Keeps(srv[Sole], srv'[Sole]), mail' = mail, handle' = handle,
         refs' = refs, call' = call, \A d \in Clients : call[d].op \in Creates => Results(d)' = Results(d)
  PROVE  References(b)'
<1> DEFINE st == srv[Sole]
           st2 == srv'[Sole]
<1>1. Mail' = Mail /\ refs \in [Clients -> [Names -> Int]]
  BY DEF Mail, IInv, TypeOK
<1>2. ASSUME NEW d \in Clients
      PROVE  AwaitedOf(call'[d], Results(d)') = AwaitedOf(call[d], Results(d))
  BY AwaitedNone
<1>3. Awaited' = Awaited
  BY <1>2 DEF Awaited
<1>4. Counts(st2) = Counts(st) /\ \A op \in Creates : NamesLast(Objects(st, op), Objects(st2, op))
  BY KeepsCounts
<1>5. SizesLast(st.mvs, st2.mvs)
  BY DEF Keeps
<1>6. Counted(handle, refs, Mail, Awaited, b, Counts(st2)) /\ Refers(handle, refs, st) /\ Sized(st) /\ Calling
  BY <1>4 DEF References
<1>7. Refers(handle, refs, st2)
  BY <1>1, <1>4, <1>6, RefersLast
<1>8. \A d \in Clients : Tells(call[d], Results(d)', refs[d], st2)
  <2> SUFFICES ASSUME NEW d \in Clients, call[d].op \in Creates
               PROVE  Tells(call[d], Results(d)', refs[d], st2)
    BY DEF Tells
  <2>1. Tells(call[d], Results(d), refs[d], st) /\ Awaited[d] = AwaitedOf(call[d], Results(d))
    BY DEF References, Awaited
  <2>2. Tells(call[d], Results(d), refs[d], st2)
    BY <1>4, <1>6, <2>1, TellsLast, Zenon
  <2> QED
    BY <2>2
<1>9. Sized(st2)
  BY <1>5, <1>6, SizedLast
<1>10. Calling'
  <2>1. \A d \in Clients : InMail(d)' <=> InMail(d)
    BY <1>1 DEF InMail
  <2>2. ASSUME NEW d \in Clients, call[d].op \in Creates
        PROVE  Results(d)' # {} \/ InMail(d)'
    BY <1>6, <2>1, <2>2 DEF Calling
  <2> QED
    BY <1>1, <1>6, <2>2 DEF Calling
<1> QED
  BY <1>1, <1>3, <1>6, <1>7, <1>8, <1>9, <1>10 DEF References

\* A round of Broadcast,
LEMMA RoundReferences ==
  ASSUME OneServer, IInv, OneAnswer, OneAnswer', NEW b \in Nat, References(b), NEW s \in Servers, BroadcastLoop(s)
  PROVE  References(b)'
<1> DEFINE st == srv[s]
<1>1. /\ s = Sole /\ st \in GoodServer /\ st.out = <<>> /\ st.loop.type = "Broadcast"
      /\ srv'[s] = BroadcastRound(st)
      /\ mail' = mail /\ inbox' = inbox /\ handle' = handle /\ refs' = refs /\ call' = call
  BY SoleServer DEF BroadcastLoop, Round, IInv, TypeOK
<1>2. Keeps(srv[Sole], srv'[Sole])
  BY <1>1, BroadcastRoundKeeps
<1>3. ASSUME NEW d \in Clients, call[d].op \in Creates
      PROVE  Results(d)' = Results(d)
  <2>1. Results(d) # {} \/ InMail(d)
    BY <1>3 DEF References, Calling
  <2>2. InMail(d) => InMail(d)'
    BY <1>1 DEF InMail, Mail
  <2> QED
    BY <1>1, <2>1, <2>2, ResultsStay
<1> QED
  BY <1>1, <1>2, <1>3, KeptReferences

\* and the sending of a result, which is still on its way.
LEMMA SendReferences ==
  ASSUME OneServer, IInv, OneAnswer, NEW b \in Nat, References(b), NEW s \in Servers, ServerSend(s)
  PROVE  References(b)'
<1> DEFINE st == srv[s]
           x == Head(st.out)
           q == Tail(st.out)
<1>1. /\ s = Sole /\ st \in GoodServer /\ st.out # <<>> /\ st.out \in Seq(OutMail)
      /\ handle' = handle /\ refs' = refs /\ call' = call
      /\ \A d \in Clients : inbox[d] \in Seq(ResultMail)
  BY SoleServer DEF ServerSend, IInv, TypeOK, GoodServer
<1>2. x.to = {} /\ x.msg.kind = "result" /\ x \in OutMail
  <2>1. 1 \in DOMAIN st.out /\ x = st.out[1] /\ x \in OutMail
    BY <1>1
  <2> QED
    BY <1>1, <2>1 DEF OneAnswer, Alone
<1>3. x.msg \in ResultMail /\ x.msg.client \in Clients
  <2>1. \A m \in ServerMail : m.kind # "result"
    BY DEF ServerMail, CallMail, RequestMail, ReplyMail, Typed
  <2>2. x.msg \in ResultMail
    BY <1>2, <2>1 DEF OutMail
  <2> QED
    BY <2>2 DEF ResultMail
<1>4. AfterSend(st.out) = q
  <2>1. Cardinality(x.to) <= 1
    BY <1>2, FS_EmptySet
  <2> QED
    BY <2>1 DEF AfterSend
<1>5. PICK c \in Clients : c = x.msg.client
  BY <1>3
<1>6. inbox' = [inbox EXCEPT ![c] = Append(inbox[c], x.msg)] /\ mail' = mail
  BY <1>2, <1>5 DEF ServerSend
<1>7. srv'[Sole].out = q /\ SameTables(st, srv'[Sole])
  <2>1. srv' = [srv EXCEPT ![s] = [srv[s] EXCEPT !.out = AfterSend(srv[s].out)]]
    BY DEF ServerSend
  <2>2. srv'[Sole] = [st EXCEPT !.out = q]
    BY <1>1, <1>4, <2>1 DEF IInv, TypeOK
  <2> QED
    BY <1>1, <2>2 DEF GoodServer, SameTables
<1>8. Keeps(srv[Sole], srv'[Sole])
  BY <1>1, <1>7, KeepsTables
<1>9. {st.out[j].msg : j \in DOMAIN st.out} = {x.msg} \cup {q[j].msg : j \in DOMAIN q}
  <2>1. /\ \A j \in DOMAIN q : q[j] = st.out[j + 1] /\ j + 1 \in DOMAIN st.out
        /\ \A j \in DOMAIN st.out : st.out[j] = x \/ (j - 1 \in DOMAIN q /\ q[j - 1] = st.out[j])
        /\ 1 \in DOMAIN st.out /\ st.out[1] = x
    BY <1>1
  <2> HIDE DEF q, x
  <2> QED
    BY <2>1
<1>10. ASSUME NEW d \in Clients
       PROVE  Results(d)' = Results(d)
  <2>1. Results(d)' = ResultsIn(inbox'[d], q, d) /\ Results(d) = ResultsIn(inbox[d], st.out, d)
    BY <1>1, <1>7 DEF Results
  <2>2. CASE d = c
    <3>1. inbox'[d] = Append(inbox[d], x.msg)
      BY <1>6, <2>2 DEF IInv, TypeOK
    <3>2. {inbox'[d][j] : j \in DOMAIN inbox'[d]} = {inbox[d][j] : j \in DOMAIN inbox[d]} \cup {x.msg}
      <4>1. PICK p \in Seq(ResultMail) : p = inbox[d]
        BY <1>1
      <4>2. PICK y \in ResultMail : y = x.msg
        BY <1>3
      <4>3. PICK p2 : p2 = Append(p, y)
        OBVIOUS
      <4>4. /\ \A j \in DOMAIN p : j \in DOMAIN p2 /\ p2[j] = p[j]
            /\ \A j \in DOMAIN p2 : (j \in DOMAIN p /\ p2[j] = p[j]) \/ p2[j] = y
            /\ Len(p) + 1 \in DOMAIN p2 /\ p2[Len(p) + 1] = y
        BY <4>3
      <4>5. {p2[j] : j \in DOMAIN p2} = {p[j] : j \in DOMAIN p} \cup {y}
        BY <4>4
      <4> QED
        BY <3>1, <4>1, <4>2, <4>3, <4>5
    <3> HIDE DEF x, q
    <3> QED
      BY <1>5, <1>9, <2>1, <2>2, <3>2 DEF ResultsIn
  <2>3. CASE d # c
    <3>1. inbox'[d] = inbox[d]
      BY <1>6, <2>3 DEF IInv, TypeOK
    <3>2. PICK A, B : A = {st.out[j].msg : j \in DOMAIN st.out} /\ B = {q[j].msg : j \in DOMAIN q}
      OBVIOUS
    <3>3. A = {x.msg} \cup B /\ x.msg.client # d
      BY <1>5, <1>9, <2>3, <3>2
    <3>4. {m \in A : m.client = d} = {m \in B : m.client = d}
      BY <3>3
    <3> QED
      BY <2>1, <3>1, <3>2, <3>4 DEF ResultsIn
  <2> QED
    BY <2>2, <2>3
<1> QED
  BY <1>1, <1>6, <1>8, <1>10, KeptReferences

\* A system call: a destroy takes one of the caller's references with it.
LEMMA CallReferences ==
  ASSUME OneServer, Disciplined, ObjectsApart, IInv, IInv', OneAnswer, NEW b \in Nat, References(b),
         NEW c \in Clients, NEW k \in Calls, ClientCall(c, k)
  PROVE  References(b)'
<1>1. PICK m : m = [kind |-> "call", type |-> k.op, client |-> c, arg |-> ArgOf(c, k)]
  OBVIOUS
<1>2. /\ call[c] = NoCall /\ Proper(c, k) /\ srv' = srv /\ inbox' = inbox /\ handle' = handle
      /\ call' = [call EXCEPT ![c] = IF k.op \in OneWay THEN NoCall ELSE k]
      /\ refs' = [refs EXCEPT ![c][k.obj] = IF k.op \in Destroys THEN @ - 1 ELSE @]
      /\ call \in [Clients -> CallSet \cup {NoCall}] /\ refs \in [Clients -> [Names -> Int]]
  BY DEF ClientCall, IInv, TypeOK
<1>3. Mail' = Append(Mail, m) /\ Mail \in Seq(ServerMail)
  <2>1. PICK s \in Servers : mail' = [mail EXCEPT ![s] = Append(mail[s], m)]
    BY <1>1 DEF ClientCall
  <2> QED
    BY <2>1, SoleServer DEF Mail, IInv, TypeOK
<1>4. m \in ServerMail
  <2>1. Mail' \in Seq(ServerMail)
    BY SoleServer DEF IInv, TypeOK, Mail
  <2>2. Append(Mail, m) \in Seq(ServerMail) /\ Append(Mail, m)[Len(Mail) + 1] = m
        /\ Len(Mail) + 1 \in DOMAIN Append(Mail, m)
    BY <1>3, <2>1
  <2> QED
    BY <2>2
<1>5. k \in CallSet /\ k.op \in Ops /\ k.obj \in Names
  BY CallsAssumption DEF CallSet
<1>6. \A d \in Clients : Results(d)' = Results(d)
  BY <1>2 DEF Results
<1>7. Results(c) = {}
  BY <1>2 DEF OneAnswer
<1>8. \A d \in Clients : call'[d] = IF d = c THEN (IF k.op \in OneWay THEN NoCall ELSE k) ELSE call[d]
  BY <1>2
<1>9. Awaited' = Awaited
  <2>1. \A l : AwaitedOf(l, {}) = {}
    BY DEF AwaitedOf
  <2>2. ASSUME NEW d \in Clients
        PROVE  AwaitedOf(call'[d], Results(d)') = AwaitedOf(call[d], Results(d))
    BY <1>6, <1>7, <1>8, <2>1
  <2> QED
    BY <2>2 DEF Awaited
<1>10. /\ m.type = k.op /\ m.client = c
       /\ m.arg.obj = (IF k.op \in Creates THEN k.obj ELSE handle[c][k.obj]) /\ m.arg.index = k.index
  BY <1>1 DEF ArgOf
<1>11. /\ \A j \in DOMAIN Mail : j \in DOMAIN Mail' /\ Mail'[j] = Mail[j]
       /\ \A j \in DOMAIN Mail' : j \in DOMAIN Mail \/ Mail'[j] = m
       /\ Len(Mail) + 1 \in DOMAIN Mail' /\ Mail'[Len(Mail) + 1] = m
  BY <1>3, <1>4
<1>12. Calling'
  <2>0. Calling
    BY DEF References
  <2>1. \A d \in Clients : call'[d] # NoCall => call'[d] \in Calls
    BY <1>8, <2>0 DEF Calling
  <2>2. ASSUME NEW j \in DOMAIN Mail', TwoWay(Mail'[j])
        PROVE  Asks(Mail'[j], call'[Mail'[j].client])
    <3>1. CASE j \in DOMAIN Mail
      <4>1. Mail'[j] = Mail[j] /\ Mail[j] \in ServerMail
        BY <1>3, <1>11, <3>1
      <4>2. Asks(Mail[j], call[Mail[j].client])
        BY <2>0, <2>2, <3>1, <4>1 DEF Calling
      <4>3. Mail[j].client \in Clients /\ Mail[j].type \in Ops
        BY <4>1 DEF ServerMail, CallMail, RequestMail, ReplyMail, Typed
      <4>4. Mail[j].client # c
        BY <1>2, <4>2, <4>3 DEF Asks, NoCall, Ops, Creates, LockOps, CVOps, MVOps
      <4> QED
        BY <1>8, <4>1, <4>2, <4>3, <4>4
    <3>2. CASE Mail'[j] = m
      <4>1. call'[c] = k
        BY <1>8, <1>10, <2>2, <3>2 DEF TwoWay
      <4>2. Asks(m, k)
        BY <1>10 DEF Asks
      <4> QED
        BY <1>10, <3>2, <4>1, <4>2
    <3> QED
      BY <1>11, <3>1, <3>2
  <2>3. ASSUME NEW d \in Clients, call'[d].op \in Creates
        PROVE  Results(d)' # {} \/ InMail(d)'
    <3>1. CASE d = c
      <4>1. k.op \notin OneWay
        BY <1>8, <2>3, <3>1 DEF NoCall, Creates
      <4>2. TwoWay(Mail'[Len(Mail) + 1]) /\ Mail'[Len(Mail) + 1].client = d
        BY <1>10, <1>11, <3>1, <4>1 DEF TwoWay
      <4> QED
        BY <1>11, <4>2 DEF InMail
    <3>2. CASE d # c
      <4>1. Results(d) # {} \/ InMail(d)
        BY <1>8, <2>0, <2>3, <3>2 DEF Calling
      <4>2. InMail(d) => InMail(d)'
        BY <1>11 DEF InMail
      <4> QED
        BY <1>6, <4>1, <4>2
    <3> QED
      BY <3>1, <3>2
  <2> QED
    BY <2>1, <2>2, <2>3 DEF Calling
<1>13. /\ Counted(handle, refs, Mail, Awaited, b, Counts(srv[Sole])) /\ Refers(handle, refs, srv[Sole])
       /\ \A d \in Clients : Tells(call[d], Results(d), refs[d], srv[Sole])
       /\ Sized(srv[Sole])
  BY DEF References
<1>14. \A d \in Clients : Tells(call'[d], Results(d), refs'[d], srv[Sole])
  <2>1. \A d \in Clients : d # c => refs'[d] = refs[d]
    BY <1>2
  <2>2. Tells(call'[c], Results(c), refs'[c], srv[Sole])
    BY <1>7 DEF Tells
  <2> QED
    BY <1>8, <1>13, <2>1, <2>2
<1>15. Counted(handle, refs', Mail', Awaited, b, Counts(srv[Sole])) /\ Refers(handle, refs', srv[Sole])
  <2>1. CASE k.op \notin Destroys
    <3>1. refs' = refs
      BY <1>2, <1>5, <2>1
    <3>2. Counted(handle, refs, Append(Mail, m), Awaited, b, Counts(srv[Sole]))
      BY <1>3, <1>4, <1>10, <1>13, <2>1, CountedSent
    <3> QED
      BY <1>3, <1>13, <3>1, <3>2
  <2>2. CASE k.op \in Destroys
    <3>1. refs' = [refs EXCEPT ![c][k.obj] = @ - 1]
      BY <1>2, <2>2
    <3>2. PICK n \in Names : n = k.obj
      BY <1>5
    <3>3. PICK op0 : op0 = KindOf(k.op)
      OBVIOUS
    <3>4. PICK i0 : i0 = handle[c][n]
      OBVIOUS
    <3>5. k.op \notin Creates
      BY <2>2 DEF Creates, Destroys
    <3>6. refs[c][n] > 0 /\ OfKind(n, op0)
      BY <1>2, <3>2, <3>3, <3>5 DEF Proper, OfKind
    <3>7. DestroysAt(m, op0, i0)
      BY <1>10, <2>2, <3>2, <3>3, <3>4, <3>5 DEF Destroying, DestroysAt
    <3>8. Counted(handle, refs', Append(Mail, m), Awaited, b, Counts(srv[Sole]))
      <4>1. PICK h, r, r2, q, z, f : /\ h = handle /\ r = refs /\ r2 = refs' /\ q = Mail /\ z = Awaited
                                     /\ f = Counts(srv[Sole])
        OBVIOUS
      <4>2. GivesUp(h, r, r2, c, n, op0, i0)
        BY <3>1, <3>2, <3>4, <3>6, <4>1 DEF GivesUp
      <4>3. r \in [Clients -> [Names -> Int]] /\ q \in Seq(ServerMail) /\ Counted(h, r, q, z, b, f)
        BY <1>2, <1>3, <1>13, <4>1
      <4>4. Counted(h, r2, Append(q, m), z, b, f)
        BY <1>4, <3>7, <4>2, <4>3, CountedDestroySent
      <4> QED
        BY <4>1, <4>4
    <3>9. \A d \in Clients, o \in Names : refs'[d][o] = IF d = c /\ o = n THEN refs[c][n] - 1 ELSE refs[d][o]
      BY <1>2, <3>1, <3>2
    <3>10. \A d \in Clients, o \in Names : refs'[d][o] >= 0 /\ (refs'[d][o] > 0 => refs[d][o] > 0)
      BY <1>2, <1>13, <3>6, <3>9 DEF Refers
    <3>11. Refers(handle, refs', srv[Sole])
      BY <1>13, <3>10 DEF Refers
    <3> QED
      BY <1>3, <3>8, <3>11
  <2> QED
    BY <2>1, <2>2
<1> QED
  BY <1>2, <1>6, <1>9, <1>12, <1>13, <1>14, <1>15 DEF References

\* A name is that of one entry.
LEMMA OneNamed ==
  ASSUME NEW st \in GoodServer, NEW op \in Creates, NEW n, NEW i \in Index, NEW j \in Index,
         NamedIn(Objects(st, op), i, n), NamedIn(Objects(st, op), j, n)
  PROVE  i = j
<1>1. PICK t : t = Objects(st, op)
  OBVIOUS
<1>2. /\ t.bits = {e \in Index : t.slot[e] # NULL}
      /\ \A e, f \in t.bits : t.slot[e].name = t.slot[f].name => e = f
  BY <1>1, ObjectsOf DEF Creates, GoodServer, GoodTable
<1> QED
  BY <1>1, <1>2 DEF NamedIn

\* A result is read: that of a create becomes a reference.
LEMMA ReturnReferences ==
  ASSUME OneServer, ObjectsApart, IInv, OneAnswer, OneAnswer', NEW b \in Nat, References(b),
         NEW c \in Clients, ClientReturn(c)
  PROVE  References(b)'
<1> DEFINE st == srv[Sole]
<1>1. PICK k, x : k = call[c] /\ x = Head(inbox[c])
  OBVIOUS
<1>2. /\ k # NoCall /\ inbox[c] # <<>> /\ srv' = srv /\ mail' = mail
      /\ call' = [call EXCEPT ![c] = NoCall] /\ inbox' = [inbox EXCEPT ![c] = Tail(inbox[c])]
  BY <1>1 DEF ClientReturn
<1>3. /\ handle \in [Clients -> [Names -> Int]] /\ refs \in [Clients -> [Names -> Int]]
      /\ call \in [Clients -> CallSet \cup {NoCall}] /\ inbox \in [Clients -> Seq(ResultMail)]
      /\ Mail \in Seq(ServerMail) /\ Mail' = Mail /\ st \in GoodServer
  BY <1>2, SoleServer DEF IInv, TypeOK, Mail
<1>4. /\ call'[c] = NoCall /\ \A d \in Clients : d # c => call'[d] = call[d] /\ inbox'[d] = inbox[d]
  BY <1>2, <1>3
<1>5. /\ Counted(handle, refs, Mail, Awaited, b, Counts(st)) /\ Refers(handle, refs, st) /\ Calling
      /\ \A d \in Clients : Tells(call[d], Results(d), refs[d], st)
      /\ Sized(st)
  BY DEF References
<1>6. k \in Calls /\ k.obj \in Names
  BY <1>1, <1>2, <1>5, CallsAssumption DEF Calling, CallSet
<1>7. Results(c) = {x}
  BY <1>1, <1>2 DEF OneAnswer
<1>8. Results(c)' = {}
  BY <1>4 DEF OneAnswer
<1>9. \A d \in Clients : d # c => Results(d)' = Results(d)
  BY <1>2, <1>4 DEF Results
<1>10. Calling'
  <2>1. \A d \in Clients : call'[d] # NoCall => call'[d] \in Calls
    BY <1>4, <1>5 DEF Calling
  <2>2. ASSUME NEW j \in DOMAIN Mail, TwoWay(Mail[j])
        PROVE  Asks(Mail[j], call'[Mail[j].client])
    <3>1. Mail[j] \in ServerMail
      BY <1>3
    <3>2. Mail[j].client \in Clients
      BY <3>1, MailKinds DEF ServerMail, CallMail, RequestMail, ReplyMail, Typed
    <3>3. Mail[j].client # c
      BY <1>7, <2>2 DEF OneAnswer
    <3> QED
      BY <1>4, <1>5, <2>2, <3>2, <3>3 DEF Calling
  <2>3. ASSUME NEW d \in Clients, call'[d].op \in Creates
        PROVE  Results(d)' # {} \/ InMail(d)'
    <3>1. d # c
      BY <1>4, <2>3 DEF NoCall, Creates
    <3>2. Results(d) # {} \/ InMail(d)
      BY <1>4, <1>5, <2>3, <3>1 DEF Calling
    <3>3. InMail(d)' <=> InMail(d)
      BY <1>3 DEF InMail
    <3> QED
      BY <1>9, <3>1, <3>2, <3>3
  <2> QED
    BY <1>3, <2>1, <2>2, <2>3 DEF Calling
<1>11. /\ Awaited[c] = AwaitedOf(k, {x}) /\ Awaited'[c] = {}
       /\ \A d \in Clients : d # c => Awaited'[d] = Awaited[d]
  <2>1. Awaited[c] = AwaitedOf(k, {x})
    BY <1>1, <1>7 DEF Awaited
  <2>2. Awaited'[c] = AwaitedOf(call'[c], {})
    BY <1>8 DEF Awaited
  <2>3. \A d \in Clients : d # c => Awaited'[d] = Awaited[d]
    BY <1>4, <1>9 DEF Awaited
  <2> QED
    BY <2>1, <2>2, <2>3 DEF AwaitedOf
<1>12. ASSUME AwaitedOf(k, {x}) = {} PROVE Awaited' = Awaited
  <2>1. \A d \in Clients : Awaited'[d] = Awaited[d]
    BY <1>11, <1>12
  <2> QED
    BY <2>1 DEF Awaited
<1>13. PICK ok \in x.ok :
         /\ \E id \in IF x.val = {} THEN AnyId ELSE x.val :
              handle' = IF k.op \in Creates THEN [handle EXCEPT ![c][k.obj] = IF ok THEN id ELSE -1] ELSE handle
         /\ refs' = [refs EXCEPT ![c][k.obj] = IF k.op \in Creates /\ ok THEN @ + 1 ELSE @]
  BY <1>1, Zenon DEF ClientReturn
<1>14. \A d \in Clients : d # c => refs'[d] = refs[d]
  BY <1>3, <1>13
<1>15. SUFFICES Counted(handle', refs', Mail, Awaited', b, Counts(st)) /\ Refers(handle', refs', st)
  <2>1. ASSUME NEW d \in Clients PROVE Tells(call'[d], Results(d)', refs'[d], st)
    <3>1. CASE d = c
      BY <1>8, <3>1 DEF Tells
    <3>2. CASE d # c
      BY <1>4, <1>5, <1>9, <1>14, <3>2
    <3> QED
      BY <3>1, <3>2
  <2> QED
    BY <1>2, <1>3, <1>5, <1>10, <1>15, <2>1 DEF References
<1>16. CASE k.op \notin Creates
  <2>1. handle' = handle /\ refs' = refs
    <3>1. handle' = handle /\ refs' = [refs EXCEPT ![c][k.obj] = refs[c][k.obj]]
      BY <1>13, <1>16, Zenon
    <3> QED
      BY <1>3, <1>6, <3>1
  <2>2. Awaited' = Awaited
    BY <1>12, <1>16, AwaitedNone
  <2> QED
    BY <1>5, <2>1, <2>2
<1>17. CASE k.op \in Creates
  <2>0. OfKind(k.obj, k.op)
    BY <1>6, <1>17, KindOfCreate DEF OfKind
  <2>1. PICK n \in Names : n = k.obj
    BY <1>6
  <2>2. Tells(k, {x}, refs[c], st)
    BY <1>1, <1>5, <1>7
  <2>3. CASE x.ok = {FALSE} /\ refs[c][n] <= 0
    <3>1. ok = FALSE
      BY <1>13, <2>3
    <3>2. handle' = [handle EXCEPT ![c][n] = -1]
      BY <1>13, <1>17, <2>1, <3>1, Zenon
    <3>3. refs' = refs
      <4>1. refs' = [refs EXCEPT ![c][n] = refs[c][n]]
        BY <1>13, <2>1, <3>1, Zenon
      <4> QED
        BY <1>3, <4>1
    <3>4. AwaitedOf(k, {x}) = {}
      <4>1. {FALSE} # {TRUE}
        OBVIOUS
      <4> QED
        BY <2>3, <4>1, Zenon DEF AwaitedOf
    <3>5. Counted(handle', refs', Mail, Awaited', b, Counts(st))
      <4>1. PICK q, z, f : q = Mail /\ z = Awaited /\ f = Counts(st)
        OBVIOUS
      <4>2. Counted(handle, refs, q, z, b, f)
        BY <1>5, <4>1
      <4>3. PICK id : id = -1
        OBVIOUS
      <4>4. Counted([handle EXCEPT ![c][n] = id], refs, q, z, b, f)
        BY <1>3, <2>3, <4>2, CountedFailure
      <4> QED
        BY <1>12, <3>2, <3>3, <3>4, <4>1, <4>3, <4>4
    <3>6. ASSUME NEW d \in Clients, NEW o \in Names, refs[d][o] > 0
          PROVE  handle'[d][o] = handle[d][o]
      BY <1>3, <2>3, <3>2, <3>6
    <3>7. Refers(handle', refs', st)
      BY <1>5, <3>3, <3>6 DEF Refers
    <3> QED
      BY <3>5, <3>7
  <2>4. CASE x.ok = {TRUE} /\ \E i \in Index : x.val = {i} /\ NamedIn(Objects(st, k.op), i, k.obj)
    <3>1. PICK i \in Index : x.val = {i} /\ NamedIn(Objects(st, k.op), i, k.obj)
      BY <2>4
    <3>2. ok = TRUE
      BY <1>13, <2>4
    <3>3. handle' = [handle EXCEPT ![c][n] = i] /\ refs' = [refs EXCEPT ![c][n] = @ + 1]
      <4>1. \A id \in IF x.val = {} THEN AnyId ELSE x.val : id = i
        BY <3>1
      <4> QED
        BY <1>13, <1>17, <2>1, <3>2, <4>1, Zenon
    <3>4. AwaitedOf(k, {x}) = {<<k.op, i>>}
      BY <1>17, <2>4, <3>1, AwaitedThat
    <3>5. refs[c][n] >= 0 /\ (refs[c][n] > 0 => handle[c][n] = i)
      <4>1. refs[c][n] >= 0
        BY <1>5 DEF Refers
      <4>2. ASSUME refs[c][n] > 0 PROVE handle[c][n] = i
        <5>1. handle[c][n] \in Index /\ NamedIn(Objects(st, k.op), handle[c][n], n)
          BY <1>5, <1>17, <2>0, <2>1, <4>2 DEF Refers
        <5> QED
          BY <1>3, <1>17, <2>1, <3>1, <5>1, OneNamed
      <4> QED
        BY <4>1, <4>2
    <3>6. Counted(handle', refs', Mail, Awaited', b, Counts(st))
      <4>1. PICK h, h2, r, r2, q, z, z2, f :
              /\ h = handle /\ h2 = handle' /\ r = refs /\ r2 = refs' /\ q = Mail /\ z = Awaited
              /\ z2 = Awaited' /\ f = Counts(st)
        OBVIOUS
      <4>2. PICK op0 : op0 = k.op
        OBVIOUS
      <4>3. TakesUp(h, r, h2, r2, c, n, op0, i)
        BY <2>0, <2>1, <3>3, <3>5, <4>1, <4>2 DEF TakesUp
      <4>4. NewDue(z2, z, c, op0, i)
        BY <1>11, <3>4, <4>1, <4>2 DEF NewDue
      <4>5. /\ h \in [Clients -> [Names -> Int]] /\ r \in [Clients -> [Names -> Int]]
            /\ Counted(h, r, q, z, b, f) /\ i \in Int
        BY <1>3, <1>5, <4>1, TableSizeAssumption DEF Index
      <4>6. Counted(h2, r2, q, z2, b, f)
        BY <4>3, <4>4, <4>5, CountedReturn
      <4> QED
        BY <4>1, <4>6
    <3>7. Refers(handle', refs', st)
      <4>1. ASSUME NEW d \in Clients, NEW o \in Names, ~(d = c /\ o = n)
            PROVE  handle'[d][o] = handle[d][o] /\ refs'[d][o] = refs[d][o]
        BY <1>3, <3>3, <4>1
      <4>2. handle'[c][n] = i /\ refs'[c][n] = refs[c][n] + 1 /\ refs'[c][n] >= 0
        BY <1>3, <3>3, <3>5
      <4>3. ASSUME NEW op \in Creates, OfKind(n, op) PROVE op = k.op
        BY <1>17, <2>0, <2>1, <4>3 DEF OfKind, ObjectsApart
      <4>4. ASSUME NEW d \in Clients, NEW o \in Names
            PROVE  /\ refs'[d][o] >= 0
                   /\ \A op \in Creates : OfKind(o, op) /\ refs'[d][o] > 0 =>
                        handle'[d][o] \in Index /\ NamedIn(Objects(st, op), handle'[d][o], o)
        <5>1. CASE d = c /\ o = n
          BY <2>1, <3>1, <4>2, <4>3, <5>1
        <5>2. CASE ~(d = c /\ o = n)
          BY <1>5, <4>1, <5>2 DEF Refers
        <5> QED
          BY <5>1, <5>2
      <4> QED
        BY <4>4 DEF Refers
    <3> QED
      BY <3>6, <3>7
  <2> QED
    BY <1>17, <2>1, <2>2, <2>3, <2>4, Zenon DEF Tells
<1> QED
  BY <1>16, <1>17

\* At the start nobody has a claim to anything.
LEMMA InitReferences ==
  ASSUME OneServer, Init
  PROVE  References(0)
<1> DEFINE st == srv[Sole]
<1>1. /\ st.locks = EmptyTable /\ st.cvs = EmptyTable /\ st.mvs = EmptyTable /\ st.out = <<>> /\ Mail = <<>>
      /\ \A c \in Clients : inbox[c] = <<>> /\ call[c] = NoCall
      /\ \A c \in Clients : \A n \in Names : refs[c][n] = 0
  BY SoleServer DEF Init, NewServer, Mail
<1>2. \A i \in Index : EmptyTable.slot[i] = NULL
  BY DEF EmptyTable
<1>3. \A op \in Creates : Objects(st, op) = EmptyTable
  BY <1>1, ObjectsOf DEF Creates
<1>4. ASSUME NEW c \in Clients PROVE Results(c) = {} /\ Awaited[c] = {} /\ call[c].op \notin Creates
  <2>1. Results(c) = {}
    BY <1>1 DEF Results, ResultsIn
  <2>2. Awaited[c] = {}
    BY <2>1 DEF Awaited, AwaitedOf
  <2> QED
    BY <1>1, <2>1, <2>2 DEF NoCall, Creates
<1>5. ASSUME NEW op \in Creates, NEW i \in Index
      PROVE  /\ IsFiniteSet(Claims(handle, refs, Mail, Awaited, 0, op, i))
             /\ Cardinality(Claims(handle, refs, Mail, Awaited, 0, op, i)) = Counts(st)[op][i]
  <2>1. PICK S : S = Claims(handle, refs, Mail, Awaited, 0, op, i)
    OBVIOUS
  <2>2. S \subseteq Token
    BY <2>1 DEF Claims
  <2>3. \A c \in Clients, n \in Names, j \in Nat : Ref(c, n, j) \notin S
    <3> SUFFICES ASSUME NEW c \in Clients, NEW n \in Names, NEW j \in Nat PROVE Ref(c, n, j) \notin S
      OBVIOUS
    <3>1. ~RefAt(handle, refs, op, i, c, n, j)
      BY <1>1 DEF RefAt
    <3> QED
      BY <2>1, <3>1, RefClaims
  <2>4. \A j \in Nat : Sent(j) \notin S
    <3> SUFFICES ASSUME NEW j \in Nat PROVE Sent(j) \notin S
      OBVIOUS
    <3>1. ~DestroySent(Mail, 0, op, i, j)
      BY <1>1 DEF DestroySent
    <3> QED
      BY <2>1, <3>1, SentClaims
  <2>5. \A c \in Clients : Due(c) \notin S
    BY <1>4, <2>1, DueClaims
  <2>6. S = {}
    BY <2>2, <2>3, <2>4, <2>5 DEF Token
  <2>7. Counts(st)[op][i] = 0
    BY <1>2, <1>3 DEF Counts, CountIn
  <2> QED
    BY <2>1, <2>6, <2>7, FS_EmptySet
<1>6. Counted(handle, refs, Mail, Awaited, 0, Counts(st))
  BY <1>5 DEF Counted
<1>7. Refers(handle, refs, st)
  BY <1>1 DEF Refers
<1>8. \A c \in Clients : Tells(call[c], Results(c), refs[c], st)
  BY <1>4 DEF Tells
<1>9. Sized(st)
  BY <1>1, <1>2 DEF Sized
<1>10. Calling
  BY <1>1, <1>4 DEF Calling
<1> QED
  BY <1>6, <1>7, <1>8, <1>9, <1>10 DEF References

\* Every step: reading a message moves the mailbox on by one.
LEMMA StepReferences ==
  ASSUME Servers = {0}, Disciplined, ObjectsApart, IInv, IInv', OneAnswer, OneAnswer', NEW b \in Nat,
         References(b), [Next]_vars
  PROVE  \E b2 \in Nat : References(b2)'
<1>0. OneServer /\ b + 1 \in Nat
  BY ZeroIndex
<1>1. ASSUME NEW c \in Clients, ClientReturn(c) PROVE References(b)'
  BY <1>0, <1>1, ReturnReferences
<1>2. ASSUME NEW c \in Clients, NEW k \in Calls, ClientCall(c, k) PROVE References(b)'
  BY <1>0, <1>2, CallReferences
<1>3. ASSUME NEW s \in Servers, ServerStep(s) PROVE References(b)' \/ References(b + 1)'
  <2>1. CASE ServerSend(s)
    BY <1>0, <2>1, SendReferences
  <2>2. CASE Reads(s)
    <3>1. CASE M(s).type \in Creates
      BY <2>2, <3>1, CreateReferences
    <3>2. CASE M(s).type \notin Creates
      BY <2>2, <3>2, ReadReferences
    <3> QED
      BY <3>1, <3>2
  <2>3. CASE BroadcastLoop(s)
    BY <1>0, <2>3, RoundReferences
  <2>4. ~CreateLockLoop(s) /\ ~CreateConditionLoop(s) /\ ~CreateMVLoop(s)
    <3>1. srv[s].loop.type \notin Creates
      BY <1>0, SoleServer DEF OneAnswer, Alone
    <3> QED
      BY <3>1 DEF CreateLockLoop, CreateConditionLoop, CreateMVLoop, Round, Creates
  <2> QED
    BY <1>3, <2>1, <2>2, <2>3, <2>4 DEF ServerStep, LockStep, CVStep, MVStep, Reads
<1>4. CASE UNCHANGED vars
  <2>1. /\ srv' = srv /\ mail' = mail /\ inbox' = inbox /\ call' = call /\ handle' = handle /\ refs' = refs
    BY <1>4 DEF vars
  <2>2. Keeps(srv[Sole], srv'[Sole])
    BY <2>1, KeepsTables DEF SameTables
  <2>3. \A d \in Clients : Results(d)' = Results(d)
    BY <2>1 DEF Results
  <2> QED
    BY <2>1, <2>2, <2>3, KeptReferences
<1> QED
  BY <1>0, <1>1, <1>2, <1>3, <1>4 DEF Next

\* What clients refer to exists.
LEMMA ReferredExist ==
  ASSUME Servers = {0}, IInv, NEW b \in Nat, References(b)
  PROVE  ReferencedObjectsExist
<1> SUFFICES ASSUME NEW c \in Clients, NEW k \in Calls, k.op \in Creates, refs[c][k.obj] > 0
             PROVE  /\ handle[c][k.obj] \div TableSize \in Servers
                    /\ handle[c][k.obj] % TableSize
                         \in Named(TableFor(handle[c][k.obj] \div TableSize, k.op), k.obj)
  BY DEF ReferencedObjectsExist
<1>1. Sole = 0 /\ srv[0] \in GoodServer /\ Refers(handle, refs, srv[0])
  BY ZeroIndex DEF IInv, References
<1>2. k.obj \in Names /\ OfKind(k.obj, k.op)
  BY CallsAssumption, KindOfCreate DEF OfKind, CallSet
<1>3. PICK id \in Index : id = handle[c][k.obj] /\ NamedIn(Objects(srv[0], k.op), id, k.obj)
  BY <1>1, <1>2 DEF Refers
<1>4. id \div TableSize = 0 /\ id % TableSize = id
  <2>1. id \in Nat /\ id # -1
    BY TableSizeAssumption DEF Index
  <2>2. IndexOf(id) = id
    BY <2>1, ZeroIndex
  <2> QED
    BY <1>1, <2>1, <2>2 DEF IndexOf
<1>5. TableFor(0, k.op) = Objects(srv[0], k.op)
  BY DEF TableFor, Objects
<1>6. id \in Named(Objects(srv[0], k.op), k.obj)
  <2>1. PICK t : t = Objects(srv[0], k.op)
    OBVIOUS
  <2>2. /\ t.bits = {e \in Index : t.slot[e] # NULL} /\ t.bits \subseteq 0 .. t.size - 1
        /\ t.size \in Nat
    BY <1>1, <2>1, ObjectsOf DEF Creates, GoodServer, GoodTable, TableOf
  <2>3. id \in Used(t)
    BY <1>3, <2>1, <2>2 DEF NamedIn, Used
  <2> QED
    BY <1>3, <2>1, <2>3 DEF Named, NamedIn
<1> QED
  BY <1>3, <1>4, <1>5, <1>6

\* Machine 0 is the only server, clients are disciplined and names are those of one kind of
\* objects each: what a client has created and not destroyed exists, under the id it was
\* given and with its name.  The server destroys an object only when the last claim to it
\* has been given up.
THEOREM ReferencesLast ==
  ASSUME Servers = {0}, Disciplined, ObjectsApart
  PROVE  Spec => []ReferencedObjectsExist
<1>0. OneServer
  BY ZeroIndex
<1>1. Init => Referred
  BY <1>0, InitReferences DEF Referred
<1>2. IInv /\ AnsweredOnce => OneAnswer
  BY <1>0, PlacedAnswer
<1>3. IInv /\ IInv' /\ OneAnswer /\ OneAnswer' /\ Referred /\ [Next]_vars => Referred'
  <2> SUFFICES ASSUME IInv, IInv', OneAnswer, OneAnswer', Referred, [Next]_vars PROVE Referred'
    OBVIOUS
  <2>1. PICK b \in Nat : References(b)
    BY DEF Referred
  <2>2. \E b2 \in Nat : References(b2)'
    BY <2>1, StepReferences
  <2> QED
    BY <2>2 DEF Referred
<1>4. IInv /\ Referred => ReferencedObjectsExist
  <2> SUFFICES ASSUME IInv, Referred PROVE ReferencedObjectsExist
    OBVIOUS
  <2>1. PICK b \in Nat : References(b)
    BY DEF Referred
  <2> QED
    BY <2>1, ReferredExist
<1>5. Spec => []AnsweredOnce
  BY <1>0, OneServerPlaces
<1> QED
  BY <1>1, <1>2, <1>3, <1>4, <1>5, Invariance, PTL DEF Spec
================================================================================
