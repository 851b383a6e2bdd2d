---------------------------- MODULE PostOfficeProofs ----------------------------
(***************************************************************************)
(* Proofs about the post office, for any machines, threads, routes and     *)
(* numbers of messages, with or without loss: the sends of a machine take  *)
(* turns, so that nobody takes another's interrupt for its own; the        *)
(* one-packet buffer of the device, the semaphore of its interrupt and the *)
(* postal worker agree; and mailboxes are queues.                          *)
(***************************************************************************)
EXTENDS PostOffice, TLAPS, FiniteSetTheorems

Everyone == Users \cup Workers
AllLocks == {sendLock(m) : m \in Machines} \cup {listLock(u) : u \in Users}

\* The lemmas about the kernel, for the objects of the post offices.
K == INSTANCE SynchPrimsProofs WITH
  Threads <- Everyone, Locks <- AllLocks, Conds <- Users, Sems <- Sem

Pc ==
  [at : {"idle", "send", "await", "unlock", "test", "woken", "wait", "take", "put", "append"},
   msg : Message \cup {NULL}]

Shape ==
  /\ pc \in [Everyone -> Pc]
  /\ list \in [Users -> Seq(Message)]
  /\ socket \in [Machines -> Seq(Message)]
  /\ inbox \in [Machines -> Message \cup {NULL}]
  /\ due \in [Machines -> Nat]
  /\ sent \in [Users -> 0..MaxSends]

\* Packets are on their way to the machine of the mailbox they are for.
AllFor(m, q) == \A i \in 1 .. Len(q) : Host[q[i].to] = m
SocketsRight == \A m \in Machines : AllFor(m, socket[m])
InboxRight == \A m \in Machines : inbox[m] # NULL => Host[inbox[m].to] = m

\* A thread that sends has something to send, and a worker at a mailbox a message
\* for a mailbox of its machine.
HasMail(t, p) ==
  /\ t \in Users /\ p.at = "send" => p.msg \in Message
  /\ t \in Workers /\ p.at \in {"put", "append", "unlock"} =>
       p.msg \in Message /\ t = worker(Host[p.msg.to])
HandlersHaveMail == \A t \in Everyone : HasMail(t, pc[t])

\* Where a thread sleeps if it is blocked.
PlaceOf(t, p) ==
  IF t \in Users
  THEN IF p.at = "send" THEN K!InAcquire(sendLock(Host[t]))
       ELSE IF p.at = "await" THEN K!InP(messageSent(Host[t]))
       ELSE IF p.at = "test" THEN K!InAcquire(listLock(t))
       ELSE IF p.at = "woken" THEN K!InWait(t, listLock(t))
       ELSE K!Run
  ELSE IF p.at = "wait" THEN K!InP(messageAvailable(t[2]))
       ELSE IF p.at = "append" THEN K!InAcquire(listLock(p.msg.to))
       ELSE K!Run
place == [t \in Everyone |-> PlaceOf(t, pc[t])]

\* Send keeps its lock from NetworkSend on.
SendersOwn == \A u \in Users : pc[u].at \in {"await", "unlock"} => k.lock[sendLock(Host[u])].owner = u

\* The interrupt of a packet is due or counted exactly as long as its sender awaits it.
Awaits(u, m) == Host[u] = m /\ pc[u].at = "await"
SendsCounted ==
  \A m \in Machines :
    due[m] + k.sem[messageSent(m)].value = IF \E u \in Users : Awaits(u, m) THEN 1 ELSE 0

IInv ==
  /\ Shape /\ SocketsRight /\ InboxRight /\ HandlersHaveMail
  /\ K!Sound(k, place) /\ SendersOwn /\ SendsCounted /\ WorkerFindsPacket
-------------------------------------------------------------------------------
(***************************************************************************)
(* Names and places.                                                       *)
(***************************************************************************)
LEMMA Names ==
  /\ \A m \in Machines : worker(m) \in Workers /\ worker(m) \in Everyone
  /\ \A m \in Machines : worker(m) \notin Users /\ worker(m)[2] = m
  /\ \A m, n \in Machines : worker(m) = worker(n) => m = n
  /\ \A u \in Users : u \in Everyone /\ u \notin Workers
  /\ \A m \in Machines : messageAvailable(m) \in Sem /\ messageSent(m) \in Sem
  /\ \A m, n \in Machines : messageAvailable(m) # messageSent(n)
  /\ \A m, n \in Machines : messageAvailable(m) = messageAvailable(n) => m = n
  /\ \A m, n \in Machines : messageSent(m) = messageSent(n) => m = n
  /\ \A m \in Machines : sendLock(m) \in AllLocks
  /\ \A u \in Users : listLock(u) \in AllLocks
<1>1. /\ \A m \in Machines : worker(m) \in Workers /\ worker(m) \in Everyone
      /\ \A m \in Machines : worker(m) \notin Users /\ worker(m)[2] = m
      /\ \A m, n \in Machines : worker(m) = worker(n) => m = n
      /\ \A u \in Users : u \in Everyone /\ u \notin Workers
  BY UsersAreNoWorkers DEF worker, Workers, Everyone
<1>2. /\ \A m \in Machines : messageAvailable(m) \in Sem /\ messageSent(m) \in Sem
      /\ \A m, n \in Machines : messageAvailable(m) # messageSent(n)
      /\ \A m, n \in Machines : messageAvailable(m) = messageAvailable(n) => m = n
      /\ \A m, n \in Machines : messageSent(m) = messageSent(n) => m = n
  BY DEF Sem, messageAvailable, messageSent
<1>3. /\ \A m \in Machines : sendLock(m) \in AllLocks
      /\ \A u \in Users : listLock(u) \in AllLocks
  BY DEF AllLocks
<1> QED BY <1>1, <1>2, <1>3

\* The assumptions of the lemmas about the kernel.
LEMMA NoNulls == NULL \notin AllLocks /\ NULL \notin Everyone
BY NullIsNoObject DEF AllLocks, Everyone

LEMMA UserPlaces ==
  ASSUME NEW u \in Users, NEW p
  PROVE  /\ p.at = "send" => PlaceOf(u, p) = K!InAcquire(sendLock(Host[u]))
         /\ p.at = "await" => PlaceOf(u, p) = K!InP(messageSent(Host[u]))
         /\ p.at = "test" => PlaceOf(u, p) = K!InAcquire(listLock(u))
         /\ p.at = "woken" => PlaceOf(u, p) = K!InWait(u, listLock(u))
         /\ p.at \in {"idle", "unlock"} => PlaceOf(u, p) = K!Run
BY DEF PlaceOf

LEMMA WorkerPlaces ==
  ASSUME NEW m \in Machines, NEW p
  PROVE  /\ p.at = "wait" => PlaceOf(worker(m), p) = K!InP(messageAvailable(m))
         /\ p.at = "append" => PlaceOf(worker(m), p) = K!InAcquire(listLock(p.msg.to))
         /\ p.at \in {"take", "put", "unlock"} => PlaceOf(worker(m), p) = K!Run
BY Names DEF PlaceOf

\* The operations are those of the lemmas.
LEMMA SameOperations ==
  ASSUME NEW kk, NEW t, NEW l, NEW c, NEW s
  PROVE  /\ Acquire(kk, t, l) = K!Acquire(kk, t, l) /\ Release(kk, t, l) = K!Release(kk, t, l)
         /\ Wait(kk, t, c, l) = K!Wait(kk, t, c, l) /\ Signal(kk, c, l) = K!Signal(kk, c, l)
         /\ P(kk, t, s) = K!P(kk, t, s) /\ V(kk, s) = K!V(kk, s)
BY DEF Acquire, Release, Wait, MayWait, Signal, P, V, isHeldBy, Sleep, ReadyToRun,
       K!Acquire, K!Release, K!Wait, K!MayWait, K!Signal, K!P, K!V, K!isHeldBy, K!Sleep, K!ReadyToRun
-------------------------------------------------------------------------------
(***************************************************************************)
(* Steps in which thread t alone moves.                                    *)
(***************************************************************************)
Moves(t) ==
  /\ pc' \in [Everyone -> Pc]
  /\ \A x \in Everyone \ {t} : pc'[x] = pc[x]
  /\ HasMail(t, pc'[t])

LEMMA MovePlaces ==
  ASSUME NEW t \in Everyone, Moves(t), HandlersHaveMail
  PROVE  /\ K!OnlyMoves(t, place, place') /\ HandlersHaveMail'
         /\ place[t] = PlaceOf(t, pc[t]) /\ place'[t] = PlaceOf(t, pc'[t])
BY DEF Moves, HandlersHaveMail, place, K!OnlyMoves

LEMMA OwnStep ==
  ASSUME NEW t \in Everyone, Moves(t), SendersOwn, K!KeepOwners(t, k, k'),
         t \in Users /\ pc'[t].at \in {"await", "unlock"} => k'.lock[sendLock(Host[t])].owner = t
  PROVE  SendersOwn'
<1>1. ASSUME NEW u \in Users, pc'[u].at \in {"await", "unlock"}
      PROVE  k'.lock[sendLock(Host[u])].owner = u
  <2>1. u \in Everyone /\ sendLock(Host[u]) \in AllLocks
    BY Names, HostAssumption
  <2>2. CASE u # t
    BY <1>1, <2>1, <2>2 DEF Moves, SendersOwn, K!KeepOwners
  <2> QED BY <1>1, <2>2
<1> QED BY <1>1 DEF SendersOwn

LEMMA CountStep ==
  ASSUME NEW t \in Everyone, Moves(t), SendsCounted, UNCHANGED due,
         \A m \in Machines : k'.sem[messageSent(m)].value = k.sem[messageSent(m)].value,
         t \in Users => pc[t].at # "await" /\ pc'[t].at # "await"
  PROVE  SendsCounted'
<1>1. ASSUME NEW u \in Users, NEW m PROVE Awaits(u, m)' <=> Awaits(u, m)
  BY Names DEF Moves, Awaits
<1> QED BY <1>1 DEF SendsCounted

LEMMA PacketStep ==
  ASSUME NEW t \in Everyone, Moves(t), WorkerFindsPacket, UNCHANGED inbox,
         \A m \in Machines : k'.sem[messageAvailable(m)].value = k.sem[messageAvailable(m)].value,
         t \in Users \/ (pc[t].at # "take" /\ pc'[t].at # "take")
  PROVE  WorkerFindsPacket'
<1>1. \A m \in Machines : pc'[worker(m)].at = "take" <=> pc[worker(m)].at = "take"
  BY Names DEF Moves
<1> QED BY <1>1 DEF WorkerFindsPacket

\* A step with a lock or a condition variable: the semaphores and the network are
\* left alone, and thread t neither comes to wait for an interrupt nor stops to.
LocksOnly(t) ==
  /\ Moves(t) /\ K!Sound(k', place') /\ K!KeepOwners(t, k, k') /\ k'.sem = k.sem
  /\ UNCHANGED <<socket, inbox, due>>
  /\ list' \in [Users -> Seq(Message)] /\ sent' \in [Users -> 0..MaxSends]
  /\ t \in Users => pc[t].at # "await" /\ pc'[t].at \notin {"await", "unlock"}
  /\ t \notin Users => pc[t].at # "take" /\ pc'[t].at # "take"

LEMMA LockStep ==
  ASSUME IInv, NEW t \in Everyone, LocksOnly(t)
  PROVE  IInv'
<1>1. Moves(t) /\ K!Sound(k', place') /\ k'.sem = k.sem /\ K!KeepOwners(t, k, k')
  BY DEF LocksOnly
<1>2. UNCHANGED socket /\ UNCHANGED inbox /\ UNCHANGED due
  BY DEF LocksOnly
<1>3. Shape' /\ SocketsRight' /\ InboxRight'
  BY <1>1, <1>2 DEF IInv, Shape, SocketsRight, InboxRight, Moves, LocksOnly
<1>4. HandlersHaveMail'
  BY <1>1, MovePlaces DEF IInv
<1>5. SendersOwn'
  <2>1. ~(t \in Users /\ pc'[t].at \in {"await", "unlock"})
    BY DEF LocksOnly
  <2> QED BY <1>1, <2>1, OwnStep DEF IInv
<1>6. SendsCounted'
  <2>1. t \in Users => pc[t].at # "await" /\ pc'[t].at # "await"
    BY DEF LocksOnly
  <2> QED BY <1>1, <1>2, <2>1, CountStep DEF IInv
<1>7. WorkerFindsPacket'
  <2>1. t \in Users \/ (pc[t].at # "take" /\ pc'[t].at # "take")
    BY DEF LocksOnly
  <2> QED BY <1>1, <1>2, <2>1, PacketStep DEF IInv
<1> QED BY <1>1, <1>3, <1>4, <1>5, <1>6, <1>7 DEF IInv

\* Where the threads go.
LEMMA GoesTo ==
  ASSUME Shape, NEW t \in Everyone,
         NEW p \in {"idle", "await", "unlock", "test", "woken", "wait", "take", "put", "append"},
         Goes(t, p), HasMail(t, [at |-> p, msg |-> pc[t].msg])
  PROVE  Moves(t) /\ pc'[t].at = p /\ pc'[t].msg = pc[t].msg
<1> DEFINE x == With(p, pc[t].msg)
<1>1. x \in Pc /\ x.at = p /\ x.msg = pc[t].msg /\ HasMail(t, x)
  BY DEF With, Shape, Pc
<1>2. pc' = [pc EXCEPT ![t] = x]
  BY DEF Goes
<1> HIDE DEF x
<1> QED BY <1>1, <1>2 DEF Shape, Moves

LEMMA GoesBack ==
  ASSUME Shape, NEW t \in Everyone, NEW p \in {"idle", "test", "wait"}, pc' = [pc EXCEPT ![t] = At(p)]
  PROVE  Moves(t) /\ pc'[t].at = p
<1>1. At(p) \in Pc /\ At(p).at = p /\ HasMail(t, At(p))
  BY DEF At, Pc, HasMail
<1> QED BY <1>1 DEF Shape, Moves

LEMMA UserMail ==
  ASSUME NEW u \in Users, NEW p \in {"idle", "await", "unlock", "test", "woken"}, NEW m
  PROVE  HasMail(u, [at |-> p, msg |-> m])
BY Names DEF HasMail
-------------------------------------------------------------------------------
(***************************************************************************)
(* The steps with locks.                                                   *)
(***************************************************************************)
\* Acquire on the way into place InAcquire(l).
LEMMA AcquireStep ==
  ASSUME IInv, NEW t \in Everyone, NEW l \in AllLocks, t \notin k.blocked, Moves(t),
         k' = Acquire(k, t, l), PlaceOf(t, pc'[t]) = K!InAcquire(l)
  PROVE  K!Sound(k', place') /\ K!KeepOwners(t, k, k') /\ k'.sem = k.sem
<1>1. k' = K!Acquire(k, t, l)
  BY SameOperations
<1>2. K!OnlyMoves(t, place, place') /\ place'[t] = K!InAcquire(l)
  BY MovePlaces DEF IInv
<1>3. \A m \in AllLocks : place'[t] = K!InAcquire(m) => m = l
  BY <1>2, NoNulls, K!Places
<1>4. K!IntoAcquire(t, l, k', place, place')
  BY <1>2, <1>3 DEF K!IntoAcquire
<1>5. K!Sound(k, place)
  BY DEF IInv
<1>6. K!Sound(k', place') /\ K!AcquireDone(t, l, k, k')
  BY <1>1, <1>4, <1>5, NoNulls, K!AcquireSound
<1> QED BY <1>6 DEF K!AcquireDone

\* Release on the way to a place outside every Acquire.
LEMMA ReleaseStep ==
  ASSUME IInv, NEW t \in Everyone, NEW l \in AllLocks, t \notin k.blocked, Moves(t),
         k' = Release(k, t, l), \A m \in AllLocks : PlaceOf(t, pc'[t]) # K!InAcquire(m)
  PROVE  K!Sound(k', place') /\ K!KeepOwners(t, k, k') /\ k'.sem = k.sem
<1>1. k' = K!Release(k, t, l)
  BY SameOperations
<1>2. K!MovesOut(t, place, place')
  BY MovePlaces DEF IInv, K!MovesOut
<1>3. K!Sound(k, place)
  BY DEF IInv
<1>4. K!Sound(k', place') /\ K!ReleaseDone(t, l, k, k', place)
  BY <1>1, <1>2, <1>3, NoNulls, K!ReleaseSound
<1> QED BY <1>4 DEF K!ReleaseDone

LEMMA SendCallStep ==
  ASSUME IInv, NEW u \in Users, NEW v \in Users, SendCall(u, v)
  PROVE  IInv'
<1> DEFINE msg == [from |-> u, to |-> v, n |-> sent[u] + 1]
           x == With("send", msg)
           l == sendLock(Host[u])
<1>1. Shape /\ u \in Everyone /\ u \notin k.blocked /\ pc[u].at = "idle" /\ sent[u] \in 0..MaxSends
  BY Names DEF IInv, SendCall, Runs, Shape
<1>2. msg \in Message
  BY <1>1, MaxSendsAssumption DEF SendCall, Message
<1> HIDE DEF msg
<1>3. x \in Pc /\ HasMail(u, x) /\ x.at = "send"
  BY <1>2, Names DEF With, Pc, HasMail
<1>4. pc' = [pc EXCEPT ![u] = x]
  BY DEF SendCall, msg
<1> HIDE DEF x
<1>5. Moves(u) /\ pc'[u].at = "send"
  BY <1>1, <1>3, <1>4 DEF Shape, Moves
<1>6. k' = Acquire(k, u, l) /\ l \in AllLocks /\ PlaceOf(u, pc'[u]) = K!InAcquire(l)
  BY <1>5, HostAssumption, Names, UserPlaces DEF SendCall
<1> HIDE DEF l
<1>7. K!Sound(k', place') /\ K!KeepOwners(u, k, k') /\ k'.sem = k.sem
  BY <1>1, <1>5, <1>6, AcquireStep
<1>8. /\ UNCHANGED <<socket, inbox, due>> /\ list' \in [Users -> Seq(Message)]
      /\ sent' \in [Users -> 0..MaxSends]
  BY <1>1, MaxSendsAssumption DEF SendCall, Shape
<1>9. LocksOnly(u)
  BY <1>1, <1>5, <1>7, <1>8 DEF LocksOnly
<1> QED BY <1>1, <1>9, LockStep

LEMMA SendReturnStep ==
  ASSUME IInv, NEW u \in Users, SendReturn(u)
  PROVE  IInv'
<1> DEFINE l == sendLock(Host[u])
<1>1. Shape /\ u \in Everyone /\ u \notin k.blocked /\ pc[u].at = "unlock"
  BY Names DEF IInv, SendReturn, Runs
<1>2. Moves(u) /\ pc'[u].at = "idle"
  BY <1>1, GoesBack DEF SendReturn
<1>3. k' = Release(k, u, l) /\ l \in AllLocks /\ \A m \in AllLocks : PlaceOf(u, pc'[u]) # K!InAcquire(m)
  BY <1>2, HostAssumption, Names, UserPlaces, NoNulls, K!Places DEF SendReturn
<1> HIDE DEF l
<1>4. K!Sound(k', place') /\ K!KeepOwners(u, k, k') /\ k'.sem = k.sem
  BY <1>1, <1>2, <1>3, ReleaseStep
<1>5. LocksOnly(u)
  BY <1>1, <1>2, <1>4 DEF LocksOnly, SendReturn, Shape
<1> QED BY <1>1, <1>5, LockStep

\* Receive acquires the lock of its list, at the beginning and at the end of Wait.
LEMMA ReceiveAcquireStep ==
  ASSUME IInv, NEW u \in Users, ReceiveCall(u) \/ ReceiveWoken(u)
  PROVE  IInv'
<1> DEFINE l == listLock(u)
<1>1. Shape /\ u \in Everyone /\ u \notin k.blocked /\ pc[u].at \in {"idle", "woken"}
  BY Names DEF IInv, ReceiveCall, ReceiveWoken, Runs
<1>2. Moves(u) /\ pc'[u].at = "test"
  <2>1. CASE ReceiveCall(u)
    BY <1>1, <2>1, GoesBack DEF ReceiveCall
  <2>2. CASE ReceiveWoken(u)
    <3>1. HasMail(u, [at |-> "test", msg |-> pc[u].msg]) /\ Goes(u, "test")
      BY <2>2, UserMail DEF ReceiveWoken
    <3> QED BY <1>1, <3>1, GoesTo
  <2> QED BY <2>1, <2>2
<1>3. k' = Acquire(k, u, l) /\ l \in AllLocks /\ PlaceOf(u, pc'[u]) = K!InAcquire(l)
  BY <1>2, Names, UserPlaces DEF ReceiveCall, ReceiveWoken
<1> HIDE DEF l
<1>4. K!Sound(k', place') /\ K!KeepOwners(u, k, k') /\ k'.sem = k.sem
  BY <1>1, <1>2, <1>3, AcquireStep
<1>5. LocksOnly(u)
  BY <1>1, <1>2, <1>4 DEF LocksOnly, ReceiveCall, ReceiveWoken, Shape
<1> QED BY <1>1, <1>5, LockStep

LEMMA ReceiveTakeStep ==
  ASSUME IInv, NEW u \in Users, ReceiveTake(u)
  PROVE  IInv'
<1> DEFINE l == listLock(u)
<1>1. Shape /\ u \in Everyone /\ u \notin k.blocked /\ pc[u].at = "test"
  BY Names DEF IInv, ReceiveTake, Runs
<1>2. Moves(u) /\ pc'[u].at = "idle"
  <2>1. HasMail(u, [at |-> "idle", msg |-> pc[u].msg]) /\ Goes(u, "idle")
    BY UserMail DEF ReceiveTake
  <2> QED BY <1>1, <2>1, GoesTo
<1>3. k' = Release(k, u, l) /\ l \in AllLocks /\ \A m \in AllLocks : PlaceOf(u, pc'[u]) # K!InAcquire(m)
  BY <1>2, Names, UserPlaces, NoNulls, K!Places DEF ReceiveTake
<1> HIDE DEF l
<1>4. K!Sound(k', place') /\ K!KeepOwners(u, k, k') /\ k'.sem = k.sem
  BY <1>1, <1>2, <1>3, ReleaseStep
<1>5. list' \in [Users -> Seq(Message)]
  <2>1. Tail(list[u]) \in Seq(Message)
    BY <1>1 DEF Shape, ReceiveTake
  <2> QED BY <1>1, <2>1 DEF Shape, ReceiveTake
<1>6. LocksOnly(u)
  BY <1>1, <1>2, <1>4, <1>5 DEF LocksOnly, ReceiveTake, Shape
<1> QED BY <1>1, <1>6, LockStep

\* Only its own thread waits for a mailbox, so nobody does when that thread tests it.
LEMMA NobodyElseWaits ==
  ASSUME IInv, NEW u \in Users, u \notin k.blocked
  PROVE  k.cond[u].waitingLock = NULL
<1>1. K!Sound(k, place) /\ k \in K!Kernel
  BY DEF IInv, K!Sound
<1>2. CASE k.cond[u].queue # <<>>
  <2> DEFINE h == Head(k.cond[u].queue)
  <2>1. h \in Everyone /\ h \in k.blocked /\ place[h] = K!InWait(u, k.cond[u].waitingLock)
    BY <1>1, <1>2, NoNulls, K!FirstSleeps DEF K!Sound
  <2> HIDE DEF h
  <2>2. PlaceOf(h, pc[h]) = K!InWait(u, k.cond[u].waitingLock)
    BY <2>1 DEF place
  <2>3. h = u
    BY <2>2, NoNulls, K!Places DEF PlaceOf
  <2> QED BY <2>1, <2>3
<1>3. CASE k.cond[u].queue = <<>>
  BY <1>1, <1>3 DEF K!Sound, K!CondsSound
<1> QED BY <1>2, <1>3

LEMMA ReceiveWaitStep ==
  ASSUME IInv, NEW u \in Users, ReceiveWait(u)
  PROVE  IInv'
<1> DEFINE l == listLock(u)
<1>1. Shape /\ u \in Everyone /\ u \notin k.blocked /\ pc[u].at = "test"
  BY Names DEF IInv, ReceiveWait, Runs
<1>2. Moves(u) /\ pc'[u].at = "woken"
  <2>1. HasMail(u, [at |-> "woken", msg |-> pc[u].msg]) /\ Goes(u, "woken")
    BY UserMail DEF ReceiveWait
  <2> QED BY <1>1, <2>1, GoesTo
<1>3. k' = K!Wait(k, u, u, l) /\ l \in AllLocks /\ PlaceOf(u, pc'[u]) = K!InWait(u, l)
  BY <1>2, Names, UserPlaces, SameOperations DEF ReceiveWait
<1>4. K!MayWait(k, u, l)
  BY <1>1, NobodyElseWaits DEF K!MayWait
<1> HIDE DEF l
<1>5. K!Sound(k, place) /\ K!IntoWait(u, u, l, place, place')
  BY <1>1, <1>2, <1>3, MovePlaces DEF IInv, K!IntoWait
<1>6. K!Sound(k', place') /\ K!WaitDone(u, l, k, k', place)
  BY <1>1, <1>3, <1>4, <1>5, NoNulls, K!WaitSound
<1>7. LocksOnly(u)
  BY <1>1, <1>2, <1>6 DEF LocksOnly, ReceiveWait, Shape, K!WaitDone
<1> QED BY <1>1, <1>7, LockStep

\* The worker at a mailbox has a message for it.
LEMMA AtMailbox ==
  ASSUME IInv, NEW m \in Machines, NEW p \in {"put", "append", "unlock"}, Runs(worker(m), p)
  PROVE  /\ Shape /\ worker(m) \in Everyone /\ worker(m) \notin Users /\ worker(m) \notin k.blocked
         /\ pc[worker(m)].at = p /\ pc[worker(m)].msg \in Message /\ pc[worker(m)].msg.to \in Users
         /\ Host[pc[worker(m)].msg.to] = m
         /\ \A q : HasMail(worker(m), [at |-> q, msg |-> pc[worker(m)].msg])
<1> DEFINE w == worker(m)
<1>1. w \in Everyone /\ w \in Workers /\ w \notin Users
  BY Names
<1>2. HasMail(w, pc[w]) /\ pc[w].at = p
  BY <1>1 DEF IInv, HandlersHaveMail, Runs
<1>3. pc[w].msg \in Message /\ w = worker(Host[pc[w].msg.to])
  BY <1>1, <1>2 DEF HasMail
<1>4. pc[w].msg.to \in Users
  BY <1>3 DEF Message
<1>5. Host[pc[w].msg.to] = m
  BY <1>3, <1>4, HostAssumption, Names
<1>6. \A q : HasMail(w, [at |-> q, msg |-> pc[w].msg])
  BY <1>1, <1>3 DEF HasMail
<1> QED BY <1>1, <1>2, <1>3, <1>4, <1>5, <1>6 DEF IInv, Runs

LEMMA PutLockStep ==
  ASSUME IInv, NEW m \in Machines, PutLock(m)
  PROVE  IInv'
<1> DEFINE w == worker(m)
           l == listLock(pc[w].msg.to)
<1>1. /\ Shape /\ w \in Everyone /\ w \notin Users /\ w \notin k.blocked /\ pc[w].at = "put"
      /\ l \in AllLocks /\ HasMail(w, [at |-> "append", msg |-> pc[w].msg])
  BY AtMailbox, Names DEF PutLock
<1>2. k' = Acquire(k, w, l) /\ Goes(w, "append")
  BY DEF PutLock
<1>3. \A p : p.at = "append" => PlaceOf(w, p) = K!InAcquire(listLock(p.msg.to))
  BY WorkerPlaces
<1> HIDE DEF w
<1>4. Moves(w) /\ pc'[w].at = "append" /\ pc'[w].msg = pc[w].msg
  BY <1>1, <1>2, GoesTo
<1>5. PlaceOf(w, pc'[w]) = K!InAcquire(l)
  BY <1>3, <1>4
<1> HIDE DEF l
<1>6. K!Sound(k', place') /\ K!KeepOwners(w, k, k') /\ k'.sem = k.sem
  BY <1>1, <1>2, <1>4, <1>5, AcquireStep
<1>7. LocksOnly(w)
  BY <1>1, <1>4, <1>6 DEF LocksOnly, PutLock, Shape
<1> QED BY <1>1, <1>7, LockStep

LEMMA PutAppendStep ==
  ASSUME IInv, NEW m \in Machines, PutAppend(m)
  PROVE  IInv'
<1> DEFINE w == worker(m)
           msg == pc[w].msg
           l == listLock(msg.to)
<1>1. /\ Shape /\ w \in Everyone /\ w \notin Users /\ w \notin k.blocked /\ pc[w].at = "append"
      /\ l \in AllLocks /\ HasMail(w, [at |-> "unlock", msg |-> msg])
      /\ msg \in Message /\ msg.to \in Users
  BY AtMailbox, Names DEF PutAppend
<1>2. /\ k' = K!Signal(k, msg.to, l) /\ Goes(w, "unlock")
      /\ list' = [list EXCEPT ![msg.to] = Append(list[msg.to], msg)]
  BY SameOperations DEF PutAppend
<1>3. \A p : p.at = "unlock" => PlaceOf(w, p) = K!Run
  BY WorkerPlaces
<1> HIDE DEF w
<1>4. Moves(w) /\ pc'[w].at = "unlock"
  BY <1>1, <1>2, GoesTo
<1>5. K!OnlyMoves(w, place, place') /\ place'[w] = K!Run
  BY <1>1, <1>3, <1>4, MovePlaces DEF IInv
<1>6. K!Sound(k, place) /\ K!MovesOwning(w, k, place, place')
  BY <1>5, NoNulls, K!Places DEF IInv, K!MovesOwning
<1>7. list' \in [Users -> Seq(Message)]
  <2> HIDE DEF msg
  <2>1. Append(list[msg.to], msg) \in Seq(Message)
    BY <1>1 DEF Shape
  <2> QED BY <1>1, <1>2, <2>1 DEF Shape
<1> HIDE DEF msg, l
<1>8. K!Sound(k', place') /\ K!SignalDone(msg.to, l, k, k', place)
  BY <1>1, <1>2, <1>6, NoNulls, K!SignalSound
<1>9. K!KeepOwners(w, k, k') /\ k'.sem = k.sem
  BY <1>8 DEF K!SignalDone, K!KeepOwners
<1>10. LocksOnly(w)
  BY <1>1, <1>4, <1>7, <1>8, <1>9 DEF LocksOnly, PutAppend, Shape
<1> QED BY <1>1, <1>10, LockStep

LEMMA PutReturnStep ==
  ASSUME IInv, NEW m \in Machines, PutReturn(m)
  PROVE  IInv'
<1> DEFINE w == worker(m)
           l == listLock(pc[w].msg.to)
<1>1. /\ Shape /\ w \in Everyone /\ w \notin Users /\ w \notin k.blocked /\ pc[w].at = "unlock"
      /\ l \in AllLocks
  BY AtMailbox, Names DEF PutReturn
<1>2. k' = Release(k, w, l) /\ pc' = [pc EXCEPT ![w] = At("wait")]
  BY DEF PutReturn
<1>3. \A p : p.at = "wait" => PlaceOf(w, p) = K!InP(messageAvailable(m))
  BY WorkerPlaces
<1> HIDE DEF w
<1>4. Moves(w) /\ pc'[w].at = "wait"
  BY <1>1, <1>2, GoesBack
<1>5. \A n \in AllLocks : PlaceOf(w, pc'[w]) # K!InAcquire(n)
  BY <1>3, <1>4, NoNulls, K!Places
<1> HIDE DEF l
<1>6. K!Sound(k', place') /\ K!KeepOwners(w, k, k') /\ k'.sem = k.sem
  BY <1>1, <1>2, <1>4, <1>5, ReleaseStep
<1>7. LocksOnly(w)
  BY <1>1, <1>4, <1>6 DEF LocksOnly, PutReturn, Shape
<1> QED BY <1>1, <1>7, LockStep
-------------------------------------------------------------------------------
(***************************************************************************)
(* Sending: the machine's lock, the interrupt and its semaphore.           *)
(***************************************************************************)
\* A thread that awaits its interrupt is the only one of its machine.
LEMMA OneAwaits ==
  ASSUME SendersOwn, NEW u \in Users, k.lock[sendLock(Host[u])].owner = u
  PROVE  \A v \in Users : Awaits(v, Host[u]) => v = u
BY DEF SendersOwn, Awaits

\* Steps that leave locks alone, by a thread of which the invariant asks nothing
\* more than that it is at its place.
LEMMA SameLocks ==
  ASSUME k'.lock = k.lock, NEW t
  PROVE  K!KeepOwners(t, k, k')
BY DEF K!KeepOwners

LEMMA NetworkSendStep ==
  ASSUME IInv, NEW u \in Users, NetworkSend(u)
  PROVE  IInv'
<1> DEFINE msg == pc[u].msg
           h == Host[msg.to]
           m == Host[u]
<1>1. Shape /\ u \in Everyone /\ m \in Machines /\ sendLock(m) \in AllLocks
  BY HostAssumption, Names DEF IInv
<1>2. HandlersHaveMail /\ SendersOwn /\ K!Sound(k, place) /\ u \notin k.blocked /\ pc[u].at = "send"
  BY DEF IInv, NetworkSend, Runs
<1>3. msg \in Message
  BY <1>1, <1>2 DEF HandlersHaveMail, HasMail
<1>4. h \in Machines
  BY <1>3, HostAssumption DEF Message
<1>5. k.lock[sendLock(m)].owner = u
  <2>1. place[u] = K!InAcquire(sendLock(m))
    BY <1>1, <1>2, UserPlaces DEF place
  <2> QED BY <1>1, <1>2, <2>1 DEF K!Sound, K!OwnersSound
<1>6. Moves(u) /\ pc'[u].at = "await"
  <2>1. HasMail(u, [at |-> "await", msg |-> pc[u].msg]) /\ Goes(u, "await")
    BY UserMail DEF NetworkSend
  <2> QED BY <1>1, <2>1, GoesTo
<1>7. /\ UNCHANGED k /\ UNCHANGED list /\ UNCHANGED inbox /\ UNCHANGED sent
      /\ due' = [due EXCEPT ![m] = @ + 1]
  BY DEF NetworkSend
<1>8. Shape' /\ SocketsRight'
  <2>1. socket' = [socket EXCEPT ![h] = Append(socket[h], msg)] \/ socket' = socket
    BY DEF NetworkSend
  <2>2. SocketsRight
    BY DEF IInv
  <2> HIDE DEF msg
  <2>3. socket[h] \in Seq(Message) /\ Append(socket[h], msg) \in Seq(Message)
    BY <1>1, <1>3, <1>4 DEF Shape
  <2>4. socket' \in [Machines -> Seq(Message)]
    BY <1>1, <2>1, <2>3 DEF Shape
  <2>5. AllFor(h, Append(socket[h], msg))
    BY <1>4, <2>2, <2>3 DEF SocketsRight, AllFor
  <2>6. SocketsRight'
    <3>1. CASE socket' = socket
      BY <2>2, <3>1 DEF SocketsRight
    <3>2. CASE socket' = [socket EXCEPT ![h] = Append(socket[h], msg)]
      <4>1. socket'[h] = Append(socket[h], msg) /\ \A n \in Machines \ {h} : socket'[n] = socket[n]
        BY <1>1, <1>4, <3>2 DEF Shape
      <4> HIDE DEF h
      <4> QED BY <2>2, <2>5, <4>1 DEF SocketsRight
    <3> QED BY <2>1, <3>1, <3>2
  <2>7. due' \in [Machines -> Nat]
    BY <1>1, <1>7 DEF Shape
  <2> QED BY <1>1, <1>6, <1>7, <2>4, <2>6, <2>7 DEF Shape, Moves
<1> HIDE DEF msg, h
<1>9. HandlersHaveMail' /\ InboxRight'
  BY <1>1, <1>2, <1>6, <1>7, MovePlaces DEF IInv, InboxRight
<1>10. K!Sound(k', place')
  <2>1. K!OnlyMoves(u, place, place') /\ place'[u] = K!InP(messageSent(m))
    BY <1>1, <1>2, <1>6, MovePlaces, UserPlaces
  <2>2. K!MovesOwning(u, k, place, place')
    BY <2>1, NoNulls, K!Places DEF K!MovesOwning
  <2> QED BY <1>1, <1>2, <1>7, <2>2, NoNulls, K!MoveSound
<1>11. SendersOwn'
  BY <1>1, <1>2, <1>5, <1>6, <1>7, OwnStep, SameLocks
<1>12. SendsCounted'
  <2>1. SUFFICES ASSUME NEW n \in Machines
                 PROVE  due'[n] + k'.sem[messageSent(n)].value
                          = IF \E v \in Users : Awaits(v, n)' THEN 1 ELSE 0
    BY DEF SendsCounted
  <2>2. due[n] + k.sem[messageSent(n)].value = IF \E v \in Users : Awaits(v, n) THEN 1 ELSE 0
    BY DEF IInv, SendsCounted
  <2>3. due[n] \in Nat /\ k.sem[messageSent(n)].value \in Nat
    BY <1>1, <1>2, NoNulls, K!KernelFields, Names DEF Shape, K!Sound
  <2>4. \A v \in Users \ {u} : Awaits(v, n)' <=> Awaits(v, n)
    BY <1>1, <1>6, Names DEF Moves, Awaits
  <2>5. CASE n = m
    <3>1. \A v \in Users : ~Awaits(v, n)
      BY <1>2, <1>5, <2>5, OneAwaits DEF Awaits
    <3>2. Awaits(u, n)'
      BY <1>6, <2>5 DEF Awaits
    <3>3. due'[n] = due[n] + 1
      BY <1>1, <1>7, <2>5 DEF Shape
    <3> QED BY <1>7, <2>2, <2>3, <3>1, <3>2, <3>3
  <2>6. CASE n # m
    <3>1. due'[n] = due[n] /\ ~Awaits(u, n) /\ ~Awaits(u, n)'
      BY <1>1, <1>7, <2>6 DEF Shape, Awaits
    <3> QED BY <1>7, <2>2, <2>4, <3>1
  <2> QED BY <2>5, <2>6
<1>13. WorkerFindsPacket'
  BY <1>1, <1>6, <1>7, PacketStep DEF IInv
<1> QED BY <1>8, <1>9, <1>10, <1>11, <1>12, <1>13 DEF IInv

LEMMA AwaitSentStep ==
  ASSUME IInv, NEW u \in Users, AwaitSent(u)
  PROVE  IInv'
<1> DEFINE m == Host[u]
           s == messageSent(m)
<1>1. Shape /\ u \in Everyone /\ m \in Machines /\ s \in Sem
  BY HostAssumption, Names DEF IInv
<1>2. HandlersHaveMail /\ SendersOwn /\ K!Sound(k, place) /\ u \notin k.blocked /\ pc[u].at = "await"
  BY DEF IInv, AwaitSent, Runs
<1>3. k.lock[sendLock(m)].owner = u
  BY <1>2 DEF SendersOwn
<1>4. k' = K!P(k, u, s)
  BY SameOperations DEF AwaitSent
<1>5. /\ UNCHANGED list /\ UNCHANGED socket /\ UNCHANGED inbox /\ UNCHANGED due /\ UNCHANGED sent
      /\ IF u \in k'.blocked THEN pc' = pc ELSE Goes(u, "unlock")
  BY DEF AwaitSent
<1>6. Moves(u) /\ pc'[u].at = IF u \in k'.blocked THEN "await" ELSE "unlock"
  <2>1. CASE u \in k'.blocked
    BY <1>1, <1>2, <1>5, <2>1 DEF Moves, Shape, HandlersHaveMail
  <2>2. CASE u \notin k'.blocked
    <3>1. HasMail(u, [at |-> "unlock", msg |-> pc[u].msg]) /\ Goes(u, "unlock")
      BY <1>5, <2>2, UserMail
    <3> QED BY <1>1, <2>2, <3>1, GoesTo
  <2> QED BY <2>1, <2>2
<1>7. K!IntoP(u, s, k', place, place')
  <2>1. K!OnlyMoves(u, place, place') /\ place'[u] = IF u \in k'.blocked THEN K!InP(s) ELSE K!Run
    BY <1>1, <1>2, <1>6, MovePlaces, UserPlaces
  <2> QED BY <2>1, NoNulls, K!Places DEF K!IntoP
<1>8. \A n \in Machines : messageAvailable(n) \in Sem \ {s} /\ (n # m => messageSent(n) \in Sem \ {s})
  BY <1>1, Names
<1> HIDE DEF s
<1>9. K!Sound(k', place') /\ K!PDone(u, s, k, k')
  BY <1>1, <1>2, <1>4, <1>7, NoNulls, K!PSound
<1>10. k'.lock = k.lock /\ \A n \in Machines : /\ k'.sem[messageAvailable(n)] = k.sem[messageAvailable(n)]
                                               /\ n # m => k'.sem[messageSent(n)] = k.sem[messageSent(n)]
  BY <1>8, <1>9 DEF K!PDone
<1>11. Shape' /\ SocketsRight' /\ InboxRight' /\ HandlersHaveMail'
  BY <1>1, <1>2, <1>5, <1>6, MovePlaces DEF IInv, Shape, SocketsRight, InboxRight, Moves
<1>12. SendersOwn'
  BY <1>1, <1>2, <1>3, <1>6, <1>10, OwnStep, SameLocks
<1>13. SendsCounted'
  <2>1. SUFFICES ASSUME NEW n \in Machines
                 PROVE  due'[n] + k'.sem[messageSent(n)].value
                          = IF \E v \in Users : Awaits(v, n)' THEN 1 ELSE 0
    BY DEF SendsCounted
  <2>2. due[n] + k.sem[messageSent(n)].value = IF \E v \in Users : Awaits(v, n) THEN 1 ELSE 0
    BY DEF IInv, SendsCounted
  <2>3. due[n] \in Nat /\ k.sem[messageSent(n)].value \in Nat
    BY <1>1, <1>2, NoNulls, K!KernelFields, Names DEF Shape, K!Sound
  <2>4. \A v \in Users \ {u} : Awaits(v, n)' <=> Awaits(v, n)
    BY <1>1, <1>6, Names DEF Moves, Awaits
  <2>5. CASE n = m
    <3>1. \A v \in Users : Awaits(v, n) <=> v = u
      BY <1>2, <1>3, <2>5, OneAwaits DEF Awaits
    <3>2. CASE u \in k'.blocked
      <4>1. Awaits(u, n)'
        BY <1>6, <2>5, <3>2 DEF Awaits
      <4>2. k'.sem[messageSent(n)].value = k.sem[messageSent(n)].value
        BY <1>2, <1>9, <2>5, <3>2 DEF K!PDone, s
      <4> QED BY <1>5, <2>2, <3>1, <4>1, <4>2
    <3>3. CASE u \notin k'.blocked
      <4>1. ~Awaits(u, n)'
        BY <1>6, <3>3 DEF Awaits
      <4>2. k'.sem[messageSent(n)].value = k.sem[messageSent(n)].value - 1
        BY <1>9, <2>5, <3>3 DEF K!PDone, s
      <4>3. ~\E v \in Users : Awaits(v, n)'
        BY <2>4, <3>1, <4>1
      <4>4. due[n] + k.sem[messageSent(n)].value = 1
        BY <2>2, <3>1
      <4> QED BY <1>5, <2>3, <4>2, <4>3, <4>4
    <3> QED BY <3>2, <3>3
  <2>6. CASE n # m
    <3>1. ~Awaits(u, n) /\ ~Awaits(u, n)'
      BY <2>6 DEF Awaits
    <3> QED BY <1>5, <1>10, <2>2, <2>4, <2>6, <3>1
  <2> QED BY <2>5, <2>6
<1>14. WorkerFindsPacket'
  BY <1>1, <1>5, <1>6, <1>10, PacketStep DEF IInv
<1> QED BY <1>9, <1>11, <1>12, <1>13, <1>14 DEF IInv
-------------------------------------------------------------------------------
(***************************************************************************)
(* The interrupts and the worker at the device.                            *)
(***************************************************************************)
\* An interrupt moves nobody: it calls V(s).
LEMMA InterruptStep ==
  ASSUME IInv, NEW s \in Sem, k' = V(k, s), UNCHANGED pc
  PROVE  /\ K!Sound(k', place') /\ HandlersHaveMail' /\ SendersOwn'
         /\ k'.sem[s].value = k.sem[s].value + 1
         /\ \A r \in Sem \ {s} : k'.sem[r] = k.sem[r]
         /\ \A r \in Sem : k.sem[r].value \in Nat
<1>1. K!Sound(k, place) /\ k' = K!V(k, s) /\ place' = place
  BY SameOperations DEF IInv, place
<1>2. K!Sound(k', place) /\ K!VDone(s, k, k', place)
  BY <1>1, NoNulls, K!VSound
<1>3. \A r \in Sem : k.sem[r].value \in Nat
  BY <1>1, NoNulls, K!KernelFields DEF K!Sound
<1>4. k'.lock = k.lock /\ k'.sem[s].value = k.sem[s].value + 1 /\ \A r \in Sem \ {s} : k'.sem[r] = k.sem[r]
  BY <1>2 DEF K!VDone
<1>5. HandlersHaveMail' /\ SendersOwn'
  BY <1>4 DEF IInv, HandlersHaveMail, SendersOwn
<1> QED BY <1>1, <1>2, <1>3, <1>4, <1>5

LEMMA SendDoneStep ==
  ASSUME IInv, NEW m \in Machines, SendDone(m)
  PROVE  IInv'
<1> DEFINE s == messageSent(m)
<1>1. Shape /\ UNCHANGED pc /\ UNCHANGED list /\ UNCHANGED socket /\ UNCHANGED inbox /\ UNCHANGED sent
  BY DEF IInv, SendDone
<1>2. k' = V(k, s) /\ s \in Sem /\ due[m] \in Nat /\ due[m] > 0 /\ due' = [due EXCEPT ![m] = @ - 1]
  BY <1>1, Names DEF SendDone, Shape
<1>3. \A n \in Machines : messageAvailable(n) \in Sem \ {s} /\ (n # m => messageSent(n) \in Sem \ {s})
  BY Names
<1> HIDE DEF s
<1>4. /\ K!Sound(k', place') /\ HandlersHaveMail' /\ SendersOwn'
      /\ k'.sem[s].value = k.sem[s].value + 1 /\ k.sem[s].value \in Nat
      /\ \A r \in Sem \ {s} : k'.sem[r] = k.sem[r]
  BY <1>1, <1>2, InterruptStep
<1>5. due' \in [Machines -> Nat] /\ due'[m] = due[m] - 1 /\ \A n \in Machines \ {m} : due'[n] = due[n]
  BY <1>1, <1>2 DEF Shape
<1>6. Shape' /\ SocketsRight' /\ InboxRight'
  BY <1>1, <1>5 DEF IInv, Shape, SocketsRight, InboxRight
<1>7. SendsCounted'
  <2>1. SUFFICES ASSUME NEW n \in Machines
                 PROVE  due'[n] + k'.sem[messageSent(n)].value
                          = IF \E v \in Users : Awaits(v, n)' THEN 1 ELSE 0
    BY DEF SendsCounted
  <2>2. due[n] + k.sem[messageSent(n)].value = IF \E v \in Users : Awaits(v, n) THEN 1 ELSE 0
    BY DEF IInv, SendsCounted
  <2>3. \A v \in Users : Awaits(v, n)' <=> Awaits(v, n)
    BY <1>1 DEF Awaits
  <2>4. due'[n] + k'.sem[messageSent(n)].value = due[n] + k.sem[messageSent(n)].value
    <3>1. CASE n = m
      BY <1>2, <1>4, <1>5, <3>1 DEF s
    <3>2. CASE n # m
      BY <1>3, <1>4, <1>5, <3>2
    <3> QED BY <3>1, <3>2
  <2> QED BY <2>2, <2>3, <2>4
<1>8. WorkerFindsPacket'
  BY <1>1, <1>3, <1>4 DEF IInv, WorkerFindsPacket
<1> QED BY <1>4, <1>6, <1>7, <1>8 DEF IInv

\* Taking the first of a machine's packets.
LEMMA FirstPacket ==
  ASSUME NEW m, NEW q \in Seq(Message), q # <<>>, AllFor(m, q)
  PROVE  Head(q) \in Message /\ Host[Head(q).to] = m /\ Tail(q) \in Seq(Message) /\ AllFor(m, Tail(q))
<1>1. Head(q) = q[1] /\ Len(q) \in Nat /\ Len(q) >= 1 /\ Head(q) \in Message
  OBVIOUS
<1>2. /\ Tail(q) \in Seq(Message) /\ Len(Tail(q)) = Len(q) - 1
      /\ \A i \in 1 .. Len(q) - 1 : Tail(q)[i] = q[i + 1]
  OBVIOUS
<1> QED BY <1>1, <1>2 DEF AllFor

\* The interrupt of a packet: the buffer was empty, so the semaphore was at 0 and
\* the worker not at the device.
LEMMA CheckPktAvailStep ==
  ASSUME IInv, NEW m \in Machines, CheckPktAvail(m)
  PROVE  IInv'
<1> DEFINE s == messageAvailable(m)
           h == Head(socket[m])
           q == Tail(socket[m])
<1>1. Shape /\ UNCHANGED pc /\ UNCHANGED list /\ UNCHANGED due /\ UNCHANGED sent
  BY DEF IInv, CheckPktAvail
<1>2. k' = V(k, s) /\ s \in Sem
  BY Names DEF CheckPktAvail
<1>3. \A n \in Machines : messageSent(n) \in Sem \ {s} /\ (n # m => messageAvailable(n) \in Sem \ {s})
  BY Names
<1>4. h \in Message /\ Host[h.to] = m /\ q \in Seq(Message) /\ AllFor(m, q)
  BY <1>1, FirstPacket DEF IInv, Shape, SocketsRight, CheckPktAvail
<1>5. inbox[m] = NULL /\ inbox' = [inbox EXCEPT ![m] = h] /\ socket' = [socket EXCEPT ![m] = q]
  BY DEF CheckPktAvail
<1> HIDE DEF s, h, q
<1>6. /\ K!Sound(k', place') /\ HandlersHaveMail' /\ SendersOwn'
      /\ k'.sem[s].value = k.sem[s].value + 1 /\ k.sem[s].value \in Nat
      /\ \A r \in Sem \ {s} : k'.sem[r] = k.sem[r]
  BY <1>1, <1>2, InterruptStep
<1>7. inbox' \in [Machines -> Message \cup {NULL}] /\ socket' \in [Machines -> Seq(Message)]
  BY <1>1, <1>4, <1>5 DEF Shape
<1>8. /\ inbox'[m] = h /\ h # NULL /\ \A n \in Machines \ {m} : inbox'[n] = inbox[n]
      /\ socket'[m] = q /\ \A n \in Machines \ {m} : socket'[n] = socket[n]
  BY <1>1, <1>4, <1>5, NullIsNoMessage DEF Shape
<1>9. Shape' /\ SocketsRight' /\ InboxRight'
  <2>1. Shape'
    BY <1>1, <1>7 DEF Shape
  <2>2. SocketsRight'
    BY <1>4, <1>8 DEF IInv, SocketsRight
  <2>3. InboxRight'
    BY <1>4, <1>8 DEF IInv, InboxRight
  <2> QED BY <2>1, <2>2, <2>3
<1>10. SendsCounted'
  <2>1. \A v \in Users, n \in Machines : Awaits(v, n)' <=> Awaits(v, n)
    BY <1>1 DEF Awaits
  <2> QED BY <1>1, <1>3, <1>6, <2>1 DEF IInv, SendsCounted
<1>11. WorkerFindsPacket'
  <2>1. SUFFICES ASSUME NEW n \in Machines
                 PROVE  k'.sem[messageAvailable(n)].value + (IF pc'[worker(n)].at = "take" THEN 1 ELSE 0)
                          = IF inbox'[n] = NULL THEN 0 ELSE 1
    BY DEF WorkerFindsPacket
  <2>2. k.sem[messageAvailable(n)].value + (IF pc[worker(n)].at = "take" THEN 1 ELSE 0)
          = IF inbox[n] = NULL THEN 0 ELSE 1
    BY DEF IInv, WorkerFindsPacket
  <2>3. CASE n = m
    BY <1>1, <1>5, <1>6, <1>8, <2>2, <2>3 DEF s
  <2>4. CASE n # m
    BY <1>1, <1>3, <1>6, <1>8, <2>2, <2>4
  <2> QED BY <2>3, <2>4
<1> QED BY <1>6, <1>9, <1>10, <1>11 DEF IInv

\* The worker goes to the device with one from the semaphore, or sleeps.
LEMMA AwaitPacketStep ==
  ASSUME IInv, NEW m \in Machines, AwaitPacket(m)
  PROVE  IInv'
<1> DEFINE s == messageAvailable(m)
           w == worker(m)
<1>1. Shape /\ HandlersHaveMail /\ SendersOwn /\ K!Sound(k, place)
  BY DEF IInv
<1>2. /\ w \in Everyone /\ w \notin Users /\ s \in Sem
      /\ \A n \in Machines : messageSent(n) \in Sem \ {s} /\ (n # m => messageAvailable(n) \in Sem \ {s})
  BY Names
<1>3. k' = K!P(k, w, s) /\ pc[w].at = "wait" /\ w \notin k.blocked
  BY SameOperations DEF AwaitPacket, Runs
<1>4. /\ UNCHANGED list /\ UNCHANGED socket /\ UNCHANGED inbox /\ UNCHANGED due /\ UNCHANGED sent
      /\ IF w \in k'.blocked THEN pc' = pc ELSE Goes(w, "take")
  BY DEF AwaitPacket
<1>5. \A n \in Machines \ {m} : worker(n) # w /\ worker(n) \in Everyone
  BY Names
<1>6. Moves(w) /\ pc'[w].at = IF w \in k'.blocked THEN "wait" ELSE "take"
  <2> HIDE DEF w
  <2>1. CASE w \in k'.blocked
    BY <1>1, <1>2, <1>3, <1>4, <2>1 DEF Moves, Shape, HandlersHaveMail
  <2>2. CASE w \notin k'.blocked
    <3>1. HasMail(w, [at |-> "take", msg |-> pc[w].msg]) /\ Goes(w, "take")
      BY <1>2, <1>4, <2>2 DEF HasMail
    <3> QED BY <1>1, <1>2, <2>2, <3>1, GoesTo
  <2> QED BY <2>1, <2>2
<1>7. K!IntoP(w, s, k', place, place')
  <2>1. \A p : /\ p.at = "wait" => PlaceOf(w, p) = K!InP(s)
               /\ p.at = "take" => PlaceOf(w, p) = K!Run
    BY WorkerPlaces
  <2> HIDE DEF w, s
  <2>2. K!OnlyMoves(w, place, place') /\ place'[w] = IF w \in k'.blocked THEN K!InP(s) ELSE K!Run
    BY <1>1, <1>2, <1>6, <2>1, MovePlaces
  <2> QED BY <2>2, NoNulls, K!Places DEF K!IntoP
<1> HIDE DEF s, w
<1>8. K!Sound(k', place') /\ K!PDone(w, s, k, k')
  BY <1>1, <1>2, <1>3, <1>7, NoNulls, K!PSound
<1>9. k'.lock = k.lock /\ \A n \in Machines : /\ k'.sem[messageSent(n)] = k.sem[messageSent(n)]
                                              /\ n # m => k'.sem[messageAvailable(n)] = k.sem[messageAvailable(n)]
  BY <1>2, <1>8 DEF K!PDone
<1>10. Shape' /\ SocketsRight' /\ InboxRight' /\ HandlersHaveMail'
  BY <1>1, <1>2, <1>4, <1>6, MovePlaces DEF IInv, Shape, SocketsRight, InboxRight, Moves
<1>11. SendersOwn'
  BY <1>1, <1>2, <1>6, <1>9, OwnStep, SameLocks
<1>12. SendsCounted'
  BY <1>2, <1>4, <1>6, <1>9, CountStep DEF IInv
<1>13. WorkerFindsPacket'
  <2>1. SUFFICES ASSUME NEW n \in Machines
                 PROVE  k'.sem[messageAvailable(n)].value + (IF pc'[worker(n)].at = "take" THEN 1 ELSE 0)
                          = IF inbox'[n] = NULL THEN 0 ELSE 1
    BY DEF WorkerFindsPacket
  <2>2. k.sem[messageAvailable(n)].value + (IF pc[worker(n)].at = "take" THEN 1 ELSE 0)
          = IF inbox[n] = NULL THEN 0 ELSE 1
    BY DEF IInv, WorkerFindsPacket
  <2>3. k.sem[s].value \in Nat
    BY <1>1, <1>2, NoNulls, K!KernelFields DEF K!Sound
  <2>4. CASE n # m
    BY <1>4, <1>5, <1>6, <1>9, <2>2, <2>4 DEF Moves
  <2>5. CASE n = m /\ w \in k'.blocked
    <3>1. k'.sem[s].value = k.sem[s].value
      BY <1>3, <1>8, <2>5 DEF K!PDone
    <3> QED BY <1>3, <1>4, <1>6, <2>2, <2>5, <3>1 DEF s, w
  <2>6. CASE n = m /\ w \notin k'.blocked
    <3>1. k'.sem[s].value = k.sem[s].value - 1
      BY <1>8, <2>6 DEF K!PDone
    <3> QED BY <1>3, <1>4, <1>6, <2>2, <2>3, <2>6, <3>1 DEF s, w
  <2> QED BY <2>4, <2>5, <2>6
<1> QED BY <1>8, <1>10, <1>11, <1>12, <1>13 DEF IInv

\* The worker takes the packet, which is there.
LEMMA TakePacketStep ==
  ASSUME IInv, NEW m \in Machines, TakePacket(m)
  PROVE  IInv'
<1> DEFINE w == worker(m)
           x == With("put", inbox[m])
<1>1. Shape /\ HandlersHaveMail /\ SendersOwn /\ K!Sound(k, place)
  BY DEF IInv
<1>2. w \in Everyone /\ w \notin Users /\ \A n \in Machines \ {m} : worker(n) # w /\ worker(n) \in Everyone
  BY Names
<1>3. pc' = [pc EXCEPT ![w] = x] /\ pc[w].at = "take" /\ w \notin k.blocked
  BY DEF TakePacket, Runs
<1>4. /\ UNCHANGED k /\ UNCHANGED list /\ UNCHANGED socket /\ UNCHANGED due /\ UNCHANGED sent
      /\ inbox' = [inbox EXCEPT ![m] = NULL]
  BY DEF TakePacket
<1>5. \A n \in Machines :
        /\ k.sem[messageAvailable(n)].value + (IF pc[worker(n)].at = "take" THEN 1 ELSE 0)
             = IF inbox[n] = NULL THEN 0 ELSE 1
        /\ k.sem[messageAvailable(n)].value \in Nat
  BY <1>1, NoNulls, Names, K!KernelFields DEF IInv, WorkerFindsPacket, K!Sound
<1>6. inbox[m] \in Message /\ Host[inbox[m].to] = m
  <2>1. inbox[m] # NULL
    BY <1>3, <1>5
  <2> QED BY <1>1, <2>1 DEF IInv, Shape, InboxRight
<1>7. x \in Pc /\ x.at = "put" /\ HasMail(w, x)
  BY <1>2, <1>6 DEF With, Pc, HasMail
<1>8. \A p : p.at = "put" => PlaceOf(w, p) = K!Run
  BY WorkerPlaces
<1> HIDE DEF x, w
<1>9. Moves(w) /\ pc'[w].at = "put"
  BY <1>1, <1>2, <1>3, <1>7 DEF Moves, Shape
<1>10. inbox'[m] = NULL /\ inbox' \in [Machines -> Message \cup {NULL}] /\ \A n \in Machines \ {m} : inbox'[n] = inbox[n]
  BY <1>1, <1>4 DEF Shape
<1>11. Shape' /\ SocketsRight' /\ InboxRight' /\ HandlersHaveMail'
  BY <1>1, <1>2, <1>4, <1>9, <1>10, MovePlaces DEF IInv, Shape, SocketsRight, InboxRight, Moves
<1>12. K!Sound(k', place')
  <2>1. K!OnlyMoves(w, place, place') /\ place'[w] = K!Run
    BY <1>1, <1>2, <1>8, <1>9, MovePlaces
  <2>2. K!MovesOwning(w, k, place, place')
    BY <2>1, NoNulls, K!Places DEF K!MovesOwning
  <2> QED BY <1>1, <1>2, <1>3, <1>4, <2>2, NoNulls, K!MoveSound
<1>13. SendersOwn'
  BY <1>1, <1>2, <1>4, <1>9, OwnStep, SameLocks
<1>14. SendsCounted'
  BY <1>2, <1>4, <1>9, CountStep DEF IInv
<1>15. ASSUME NEW n \in Machines
       PROVE  k'.sem[messageAvailable(n)].value + (IF pc'[worker(n)].at = "take" THEN 1 ELSE 0)
                = IF inbox'[n] = NULL THEN 0 ELSE 1
  <2>1. CASE n = m
    <3>1. pc[worker(n)].at = "take" /\ pc'[worker(n)].at = "put"
      BY <1>3, <1>9, <2>1 DEF w
    <3>2. k.sem[messageAvailable(n)].value + 1 = 1 /\ k.sem[messageAvailable(n)].value \in Nat
      BY <1>5, <1>6, <2>1, <3>1, NullIsNoMessage
    <3> QED BY <1>4, <1>10, <2>1, <3>1, <3>2
  <2>2. CASE n # m
    BY <1>2, <1>4, <1>5, <1>9, <1>10, <2>2 DEF Moves
  <2> QED BY <2>1, <2>2
<1> QED BY <1>11, <1>12, <1>13, <1>14, <1>15 DEF IInv, WorkerFindsPacket
-------------------------------------------------------------------------------
LEMMA InitIInv ==
  ASSUME Init
  PROVE  IInv
<1>1. /\ pc \in [Everyone -> Pc]
      /\ \A u \in Users : pc[u].at = "idle"
      /\ \A w \in Workers : pc[w].at = "wait"
  BY UsersAreNoWorkers DEF Init, At, Pc, Everyone
<1>2. Shape
  BY <1>1, MaxSendsAssumption DEF Init, Shape
<1>3. SocketsRight /\ InboxRight
  BY DEF Init, SocketsRight, InboxRight, AllFor
<1>4. HandlersHaveMail /\ SendersOwn
  BY <1>1 DEF HandlersHaveMail, HasMail, SendersOwn
<1>5. K!Sound(k, place) /\ \A s \in Sem : k.sem[s].value = 0
  <2> DEFINE zero == [s \in Sem |-> 0]
  <2>1. k = K!NewKernel(zero)
    BY DEF Init, NewKernel, NewLock, NewCondition, NewSemaphore, AllLocks,
           K!NewKernel, K!NewLock, K!NewCondition, K!NewSemaphore
  <2>2. zero \in [Sem -> Nat] /\ \A s \in Sem : zero[s] = 0
    OBVIOUS
  <2> HIDE DEF zero
  <2>3. \A t \in Everyone : \A l \in AllLocks : place[t] # K!InAcquire(l)
    BY <1>1, NoNulls, K!Places DEF place, PlaceOf, Everyone
  <2>4. K!Sound(K!NewKernel(zero), place) /\ \A s \in Sem : K!NewKernel(zero).sem[s].value = zero[s]
    BY <2>2, <2>3, NoNulls, K!NewSound
  <2> QED BY <2>1, <2>2, <2>4
<1>6. SendsCounted
  BY <1>1, <1>5, Names DEF Init, SendsCounted, Awaits
<1>7. WorkerFindsPacket
  BY <1>1, <1>5, Names DEF Init, WorkerFindsPacket
<1> QED BY <1>2, <1>3, <1>4, <1>5, <1>6, <1>7 DEF IInv

LEMMA NextIInv ==
  ASSUME IInv, [Next]_vars
  PROVE  IInv'
<1>1. ASSUME NEW u \in Users, ReceiveCall(u) \/ SendStep(u) \/ ReceiveStep(u)
      PROVE  IInv'
  BY <1>1, NetworkSendStep, AwaitSentStep, SendReturnStep, ReceiveAcquireStep, ReceiveWaitStep,
     ReceiveTakeStep DEF SendStep, ReceiveStep
<1>2. ASSUME NEW u \in Users, NEW v \in Users, SendCall(u, v)
      PROVE  IInv'
  BY <1>2, SendCallStep
<1>3. ASSUME NEW m \in Machines, SendDone(m) \/ CheckPktAvail(m) \/ WorkerStep(m)
      PROVE  IInv'
  BY <1>3, SendDoneStep, CheckPktAvailStep, AwaitPacketStep, TakePacketStep, PutLockStep,
     PutAppendStep, PutReturnStep DEF WorkerStep
<1>4. CASE UNCHANGED vars
  BY <1>4 DEF vars, IInv, Shape, SocketsRight, InboxRight, HandlersHaveMail, place, SendersOwn,
              SendsCounted, Awaits, WorkerFindsPacket
<1> QED BY <1>1, <1>2, <1>3, <1>4 DEF Next

\* The inductive invariant: the kernel is sound with every thread at its place, a
\* sender keeps the send lock of its machine until its interrupt has come, handlers of
\* messages have one, and buffer, semaphore and worker agree.
THEOREM PostOfficeInvariance == Spec => []IInv
<1>1. Init => IInv
  BY InitIInv
<1>2. IInv /\ [Next]_vars => IInv'
  BY NextIInv
<1> QED BY <1>1, <1>2, PTL DEF Spec

\* For any machines and traffic, the worker that messageAvailable lets through finds a
\* packet in the one-packet buffer, and no packet is read over another: CheckPktAvail
\* fills only an empty buffer and Network::Receive empties it once per V.
THEOREM WorkerAlwaysFindsPacket == Spec => []WorkerFindsPacket
<1>1. IInv => WorkerFindsPacket
  BY DEF IInv
<1> QED BY <1>1, PostOfficeInvariance, PTL

\* For any machines and traffic, at most one thread of a machine is between
\* Network::Send and the interrupt of its packet, and exactly then one interrupt is due
\* or counted by messageSent: nobody returns from Send on the interrupt of another's packet.
THEOREM SendsTakeTurns == Spec => []OneSendAtATime
<1>1. ASSUME IInv, NEW m \in Machines
      PROVE  LET await == {u \in Users : Host[u] = m /\ pc[u].at = "await"}
             IN  due[m] + k.sem[messageSent(m)].value = Cardinality(await) /\ Cardinality(await) <= 1
  <2> DEFINE await == {u \in Users : Host[u] = m /\ pc[u].at = "await"}
  <2>1. SendersOwn /\ due[m] + k.sem[messageSent(m)].value = IF \E u \in Users : Awaits(u, m) THEN 1 ELSE 0
    BY <1>1 DEF IInv, SendsCounted
  <2>2. CASE \E u \in Users : Awaits(u, m)
    <3>1. PICK u \in Users : Awaits(u, m)
      BY <2>2
    <3>2. k.lock[sendLock(Host[u])].owner = u /\ Host[u] = m
      BY <2>1, <3>1 DEF SendersOwn, Awaits
    <3>3. await = {u}
      BY <2>1, <3>1, <3>2, OneAwaits DEF Awaits
    <3>4. Cardinality(await) = 1
      BY <3>3, FS_Singleton
    <3> QED BY <2>1, <2>2, <3>4
  <2>3. CASE ~\E u \in Users : Awaits(u, m)
    <3>1. await = {}
      BY <2>3 DEF Awaits
    <3>2. Cardinality(await) = 0
      BY <3>1, FS_EmptySet
    <3> QED BY <2>1, <2>3, <3>2
  <2> QED BY <2>2, <2>3
<1>2. IInv => OneSendAtATime
  BY <1>1 DEF OneSendAtATime
<1> QED BY <1>2, PostOfficeInvariance, PTL
=============================================================================
