-------------------------- MODULE PassportOfficeProofs --------------------------
(***************************************************************************)
(* Proofs about the passport office, for any customers, senators, kinds    *)
(* and numbers of clerks: a line of each kind is always open, papers are   *)
(* always in order, and everything has its type, above all the counts of   *)
(* the lines and the money.  Senators are never inside together with       *)
(* customers in lines or at counters, and each clerk has one customer at   *)
(* its counter, the one it takes it to be.                                 *)
(***************************************************************************)
EXTENDS PassportOffice, FiniteSetTheorems, NaturalsInduction, WellFoundedInduction, TLAPS

\* What the proofs need of the types.  Counts may be any integer here, and the
\* variables of customers and senators are left open.
SomeCounter ==
  [state : CLERKSTATE, count : [BOOLEAN -> Int], queue : [BOOLEAN -> Seq(Persons)],
   cv : Seq(Persons \cup Clerks), SSN : Persons \cup {NoOne}, picture : {0, 1},
   owner : Persons \cup {NoOne}]

Papers == SUBSET (Persons \cup {NoOne})

Documents ==
  [application : Papers, picture : Papers, passport : Papers,
   punishment : Papers, rejection : Papers, done : Papers]

Shape ==
  /\ counter \in [Clerks -> SomeCounter]
  /\ clerk \in [Clerks -> Clerk]
  /\ filed \in Documents

\* The cashier that has asked for money asked somebody whose passport is certified.
CashierKnows ==
  \A c \in Clerks :
    (clerk[c].pc \in {"charging", "charged"}) => clerk[c].customerSSN \in filed.passport

IInv == Shape /\ ALineIsOpen /\ CashierKnows /\ DocumentsInOrder

Charging == {"charging", "charged"}

\* Nobody goes on break, and no clerk starts to charge or changes its customer.
KeepsOpen ==
  \A c \in Clerks : counter'[c].state = "ONBREAK" => counter[c].state = "ONBREAK"

KeepsCustomer ==
  \A c \in Clerks :
    clerk'[c].pc \in Charging => clerk[c].pc \in Charging /\ clerk'[c].customerSSN = clerk[c].customerSSN

\* What most steps do to IInv: nothing.
Harmless ==
  /\ counter' \in [Clerks -> SomeCounter]
  /\ clerk' \in [Clerks -> Clerk]
  /\ KeepsOpen
  /\ KeepsCustomer
-----------------------------------------------------------------------------
LEMMA ClerksDef ==
  \A c : c \in Clerks <=> \E k \in Kinds : \E i \in Lines(k) : c = <<k, i>>
BY DEF Clerks

\* A step in which nobody new goes on break leaves a line of each kind open.
LEMMA OpenPreserved ==
  ASSUME ALineIsOpen,
         \A c \in Clerks : counter'[c].state = "ONBREAK" => counter[c].state = "ONBREAK"
  PROVE  ALineIsOpen'
<1>1. SUFFICES ASSUME NEW k \in Kinds PROVE \E i \in Lines(k) : counter'[<<k, i>>].state # "ONBREAK"
  BY DEF ALineIsOpen
<1>2. PICK i \in Lines(k) : counter[<<k, i>>].state # "ONBREAK"
  BY DEF ALineIsOpen
<1>3. <<k, i>> \in Clerks
  BY ClerksDef
<1> QED BY <1>2, <1>3

\* A step of clerk c, that goes on break while another clerk of its kind works.
LEMMA OpenOnBreak ==
  ASSUME ALineIsOpen, Shape, NEW c \in Clerks, AnotherWorks(c),
         counter' = [counter EXCEPT ![c].state = "ONBREAK"]
  PROVE  ALineIsOpen'
<1>1. SUFFICES ASSUME NEW k \in Kinds PROVE \E i \in Lines(k) : counter'[<<k, i>>].state # "ONBREAK"
  BY DEF ALineIsOpen
<1>2. PICK j \in Lines(c[1]) : <<c[1], j>> # c /\ counter[<<c[1], j>>].state \in {"AVAILABLE", "BUSY"}
  BY DEF AnotherWorks
<1>3. \A d \in Clerks : d # c => counter'[d] = counter[d]
  BY DEF Shape
<1>4. CASE c[1] = k
  <2>1. <<k, j>> \in Clerks
    BY <1>2, <1>4, ClerksDef
  <2> QED BY <1>2, <1>3, <1>4, <2>1
<1>5. CASE c[1] # k
  <2>1. PICK i \in Lines(k) : counter[<<k, i>>].state # "ONBREAK"
    BY DEF ALineIsOpen
  <2>2. <<k, i>> \in Clerks /\ <<k, i>> # c
    BY <1>5, ClerksDef
  <2> QED BY <1>3, <2>1, <2>2
<1> QED BY <1>4, <1>5

LEMMA HarmlessStep ==
  ASSUME IInv, Harmless, UNCHANGED filed
  PROVE  IInv'
<1>1. Shape'
  BY DEF IInv, Shape, Harmless
<1>2. ALineIsOpen'
  BY OpenPreserved DEF IInv, Harmless, KeepsOpen
<1>3. CashierKnows'
  BY DEF IInv, CashierKnows, Harmless, KeepsCustomer, Charging
<1>4. DocumentsInOrder'
  BY DEF IInv, DocumentsInOrder
<1> QED BY <1>1, <1>2, <1>3, <1>4 DEF IInv
-----------------------------------------------------------------------------
(***************************************************************************)
(* What is done at a counter.                                              *)
(***************************************************************************)
\* A wake-up lets nobody start to charge who has not, and changes no customer.
LEMMA WakeClerks ==
  ASSUME NEW cs \in [Clerks -> Clerk], NEW q
  PROVE  /\ WakeFirst(cs, q) \in [Clerks -> Clerk]
         /\ \A d \in Clerks : /\ WakeFirst(cs, q)[d].customerSSN = cs[d].customerSSN
                              /\ WakeFirst(cs, q)[d].pc \in Charging => cs[d].pc \in Charging
<1>1. CASE q # <<>> /\ Head(q) \in Clerks
  <2> DEFINE h == Head(q)
  <2>1. WakeFirst(cs, q) = [cs EXCEPT ![h] = [cs[h] EXCEPT !.pc = Woken(cs[h].pc)]]
    BY <1>1 DEF WakeFirst
  <2>2. cs[h] \in Clerk
    BY <1>1
  <2>3. /\ [cs[h] EXCEPT !.pc = Woken(cs[h].pc)] \in Clerk
        /\ [cs[h] EXCEPT !.pc = Woken(cs[h].pc)].customerSSN = cs[h].customerSSN
        /\ [cs[h] EXCEPT !.pc = Woken(cs[h].pc)].pc \in Charging => cs[h].pc \in Charging
    BY <2>2 DEF Clerk, Woken, Charging
  <2> HIDE DEF h
  <2> QED BY <1>1, <2>1, <2>3 DEF h
<1>2. CASE ~(q # <<>> /\ Head(q) \in Clerks)
  <2>1. WakeFirst(cs, q) = cs
    BY <1>2 DEF WakeFirst
  <2> QED BY <2>1
<1> QED BY <1>1, <1>2

LEMMA SignalledSeq ==
  ASSUME NEW n \in SomeCounter, NEW t \in Persons \cup Clerks
  PROVE  /\ [n EXCEPT !.cv = Signalled(@)] \in SomeCounter
         /\ [n EXCEPT !.cv = Append(Signalled(@), t)] \in SomeCounter
<1>1. n.cv \in Seq(Persons \cup Clerks)
  BY DEF SomeCounter
<1>2. Signalled(n.cv) \in Seq(Persons \cup Clerks)
  BY <1>1 DEF Signalled
<1>3. Append(Signalled(n.cv), t) \in Seq(Persons \cup Clerks)
  BY <1>2
<1> QED BY <1>2, <1>3 DEF SomeCounter

\* The counter that a thread leaves in state n.
GoodCounter(c, n) ==
  c \in Clerks => n \in SomeCounter /\ (n.state = "ONBREAK" => counter[c].state = "ONBREAK")

\* The clerks with the step of a thread that does not begin to charge.
GoodClerks(cs) ==
  /\ cs \in [Clerks -> Clerk]
  /\ \A d \in Clerks :
       cs[d].pc \in Charging => clerk[d].pc \in Charging /\ cs[d].customerSSN = clerk[d].customerSSN

LEMMA SetCounter ==
  ASSUME Shape, NEW c, NEW n, GoodCounter(c, n), counter' = [counter EXCEPT ![c] = n]
  PROVE  counter' \in [Clerks -> SomeCounter] /\ KeepsOpen
BY DEF Shape, GoodCounter, KeepsOpen

LEMMA SignalCounter ==
  ASSUME Shape, NEW c, NEW n, GoodCounter(c, n), NEW ps, NEW cs \in [Clerks -> Clerk],
         NEW t \in Persons \cup Clerks,
         SignalAt(c, n, ps, cs) \/ SignalAndWaitAt(c, n, ps, cs, t)
  PROVE  /\ counter' \in [Clerks -> SomeCounter]
         /\ KeepsOpen
         /\ clerk' \in [Clerks -> Clerk]
         /\ \A d \in Clerks : /\ clerk'[d].customerSSN = cs[d].customerSSN
                              /\ clerk'[d].pc \in Charging => cs[d].pc \in Charging
<1>1. clerk' = WakeFirst(cs, n.cv)
  BY DEF SignalAt, SignalAndWaitAt
<1>2. PICK m \in {[n EXCEPT !.cv = Signalled(@)], [n EXCEPT !.cv = Append(Signalled(@), t)]} :
        counter' = [counter EXCEPT ![c] = m]
  BY DEF SignalAt, SignalAndWaitAt
<1>3. GoodCounter(c, m)
  <2>1. SUFFICES ASSUME c \in Clerks
                 PROVE  m \in SomeCounter /\ (m.state = "ONBREAK" => counter[c].state = "ONBREAK")
    BY DEF GoodCounter
  <2>2. n \in SomeCounter /\ (n.state = "ONBREAK" => counter[c].state = "ONBREAK")
    BY <2>1 DEF GoodCounter
  <2>3. m \in SomeCounter
    BY <2>2, SignalledSeq
  <2>4. m.state = n.state
    BY <2>2 DEF SomeCounter
  <2> QED BY <2>2, <2>3, <2>4
<1>4. counter' \in [Clerks -> SomeCounter] /\ KeepsOpen
  BY <1>2, <1>3, SetCounter
<1> QED BY <1>1, <1>4, WakeClerks

LEMMA SignalHarmless ==
  ASSUME Shape, NEW c, NEW n, GoodCounter(c, n), NEW ps, NEW cs, GoodClerks(cs),
         NEW t \in Persons \cup Clerks,
         SignalAt(c, n, ps, cs) \/ SignalAndWaitAt(c, n, ps, cs, t)
  PROVE  Harmless
<1>1. cs \in [Clerks -> Clerk]
  BY DEF GoodClerks
<1>2. /\ counter' \in [Clerks -> SomeCounter]
      /\ KeepsOpen
      /\ clerk' \in [Clerks -> Clerk]
      /\ \A d \in Clerks : /\ clerk'[d].customerSSN = cs[d].customerSSN
                           /\ clerk'[d].pc \in Charging => cs[d].pc \in Charging
  BY <1>1, SignalCounter
<1> QED BY <1>2 DEF Harmless, KeepsCustomer, GoodClerks

LEMMA SameClerks ==
  ASSUME Shape
  PROVE  GoodClerks(clerk)
BY DEF Shape, GoodClerks

\* A step that only replaces counters, none of which goes on break.
LEMMA CounterHarmless ==
  ASSUME Shape, NEW c, NEW n, GoodCounter(c, n), counter' = [counter EXCEPT ![c] = n], UNCHANGED clerk
  PROVE  Harmless
BY SetCounter DEF Shape, Harmless, KeepsCustomer

LEMMA NothingHarmless ==
  ASSUME Shape, UNCHANGED counter, UNCHANGED clerk
  PROVE  Harmless
BY DEF Shape, Harmless, KeepsOpen, KeepsCustomer
-----------------------------------------------------------------------------
(***************************************************************************)
(* Customers and senators.                                                 *)
(***************************************************************************)
LEMMA GetInLineHarmless ==
  ASSUME Shape, NEW p \in Persons, NEW k, GetInLine(p, k)
  PROVE  Harmless
<1> DEFINE at(b) == <<k, pickShortestLine(k, b)>>
           left(b) == IF counter[at(b)].state # "AVAILABLE"
                      THEN [counter[at(b)] EXCEPT !.count[b] = @ + 1, !.queue[b] = Append(@, p)]
                      ELSE [counter[at(b)] EXCEPT !.state = "BUSY"]
<1>1. PICK bribe \in BOOLEAN : counter' = [counter EXCEPT ![at(bribe)] = left(bribe)]
  BY DEF GetInLine
<1> DEFINE c == at(bribe)
           n == left(bribe)
           joined == [counter[c] EXCEPT !.count[bribe] = @ + 1, !.queue[bribe] = Append(@, p)]
           taken == [counter[c] EXCEPT !.state = "BUSY"]
<1>2. counter' = [counter EXCEPT ![c] = n]
  BY <1>1
<1>3. GoodCounter(c, n)
  <2>1. SUFFICES ASSUME c \in Clerks
                 PROVE  n \in SomeCounter /\ (n.state = "ONBREAK" => counter[c].state = "ONBREAK")
    BY DEF GoodCounter
  <2>2. counter[c] \in SomeCounter
    BY <2>1 DEF Shape
  <2>9. n = joined \/ n = taken
    OBVIOUS
  <2> HIDE DEF c, n
  <2>3. taken \in SomeCounter /\ taken.state = "BUSY"
    BY <2>2 DEF SomeCounter, CLERKSTATE
  <2>4. counter[c].count \in [BOOLEAN -> Int] /\ counter[c].queue \in [BOOLEAN -> Seq(Persons)]
    BY <2>2 DEF SomeCounter
  <2>5. [counter[c].count EXCEPT ![bribe] = @ + 1] \in [BOOLEAN -> Int]
    BY <2>4
  <2>6. Append(counter[c].queue[bribe], p) \in Seq(Persons)
    BY <2>4
  <2>7. [counter[c].queue EXCEPT ![bribe] = Append(@, p)] \in [BOOLEAN -> Seq(Persons)]
    BY <2>4, <2>6
  <2>8. joined \in SomeCounter /\ joined.state = counter[c].state
    BY <2>2, <2>5, <2>7 DEF SomeCounter
  <2> QED BY <2>9, <2>3, <2>8
<1>4. UNCHANGED clerk
  BY DEF GetInLine
<1> HIDE DEF c, n
<1> QED BY <1>2, <1>3, <1>4, CounterHarmless

LEMMA WokenInLineHarmless ==
  ASSUME Shape, NEW p \in Persons, NEW k, WokenInLine(p, k)
  PROVE  Harmless
<1> DEFINE c == ClerkOf(p)
           b == person[p].bribe
           s == IF counter[c].state = "SIGNALEDCUSTOMER" THEN "BUSY" ELSE counter[c].state
           n == [counter[c] EXCEPT !.count[b] = @ - 1, !.state = s]
<1>1. counter' = [counter EXCEPT ![c] = n] /\ UNCHANGED clerk
  BY DEF WokenInLine, Shape, SomeCounter
<1>2. GoodCounter(c, n)
  <2>1. SUFFICES ASSUME c \in Clerks
                 PROVE  n \in SomeCounter /\ (n.state = "ONBREAK" => counter[c].state = "ONBREAK")
    BY DEF GoodCounter
  <2>2. counter[c] \in SomeCounter
    BY <2>1 DEF Shape
  <2> HIDE DEF c, b
  <2>3. counter[c].count \in [BOOLEAN -> Int] /\ counter[c].state \in CLERKSTATE
    BY <2>2 DEF SomeCounter
  <2>4. [counter[c].count EXCEPT ![b] = @ - 1] \in [BOOLEAN -> Int]
    <3> DEFINE f == counter[c].count
    <3>1. f \in [BOOLEAN -> Int]
      BY <2>3
    <3> HIDE DEF f
    <3>2. [f EXCEPT ![b] = f[b] - 1] \in [BOOLEAN -> Int]
      <4>1. CASE b \in BOOLEAN
        BY <3>1, <4>1
      <4>2. CASE b \notin BOOLEAN
        BY <3>1, <4>2
      <4> QED BY <4>1, <4>2
    <3> QED BY <3>2 DEF f
  <2>5. s \in CLERKSTATE /\ (s = "ONBREAK" => counter[c].state = "ONBREAK")
    BY <2>3 DEF CLERKSTATE
  <2> HIDE DEF s
  <2> QED BY <2>2, <2>4, <2>5 DEF SomeCounter
<1> HIDE DEF c, n
<1> QED BY <1>1, <1>2, CounterHarmless

LEMMA GiveSSNHarmless ==
  ASSUME Shape, NEW p \in Persons, NEW k, GiveSSN(p, k)
  PROVE  Harmless
<1> DEFINE c == ClerkOf(p)
           n == [counter[c] EXCEPT !.SSN = p]
<1>1. SignalAndWaitAt(c, n, [person EXCEPT ![p].pc = "atCounter"], clerk, p)
  BY DEF GiveSSN
<1>2. GoodCounter(c, n)
  BY DEF GoodCounter, Shape, SomeCounter
<1> HIDE DEF c, n
<1> QED BY <1>1, <1>2, SameClerks, SignalHarmless

LEMMA LeaveCounterHarmless ==
  ASSUME Shape, NEW p \in Persons, NEW ok, LeaveCounter(p, ok)
  PROVE  Harmless
<1> DEFINE c == ClerkOf(p)
           n == [counter[c] EXCEPT !.owner = NoOne]
<1>1. counter' = [counter EXCEPT ![c] = n] /\ UNCHANGED clerk
  BY DEF LeaveCounter
<1>2. GoodCounter(c, n)
  BY DEF GoodCounter, Shape, SomeCounter
<1> HIDE DEF c, n
<1> QED BY <1>1, <1>2, CounterHarmless

LEMMA ReviewHarmless ==
  ASSUME Shape, NEW p \in Persons, NEW like \in {0, 1}, Review(p, like)
  PROVE  Harmless
<1> DEFINE c == ClerkOf(p)
           n == [counter[c] EXCEPT !.picture = like, !.owner = NoOne]
<1>1. SignalAndWaitAt(c, n, [person EXCEPT ![p].pc = "atCounter"], clerk, p)
  BY DEF Review
<1>2. GoodCounter(c, n)
  BY DEF GoodCounter, Shape, SomeCounter
<1> HIDE DEF c, n
<1> QED BY <1>1, <1>2, SameClerks, SignalHarmless

LEMMA PayHarmless ==
  ASSUME Shape, NEW p \in Persons, Pay(p)
  PROVE  Harmless
<1> DEFINE c == ClerkOf(p)
           ps == [person EXCEPT ![p] = [person[p] EXCEPT !.pc = "paid", !.money = @ - 100]]
<1>1. SignalAndWaitAt(c, counter[c], ps, clerk, p)
  BY DEF Pay
<1>2. GoodCounter(c, counter[c])
  BY DEF GoodCounter, Shape
<1> HIDE DEF c, ps
<1> QED BY <1>1, <1>2, SameClerks, SignalHarmless

LEMMA InteractionStep ==
  ASSUME IInv, NEW p \in Persons, Interaction(p)
  PROVE  IInv'
<1>1. Shape
  BY DEF IInv
<1>2. UNCHANGED filed
  BY DEF Interaction, customerApplicationClerkInteraction, customerPictureClerkInteraction,
         customerPassportClerkInteraction, customerCashierInteraction, LikePicture,
         GetInLine, WokenInLine, GiveSSN, LeaveCounter, Review, Pay
<1>3. \/ \E k : GetInLine(p, k) \/ WokenInLine(p, k) \/ GiveSSN(p, k)
      \/ \E ok : LeaveCounter(p, ok)
      \/ Review(p, 0) \/ Review(p, 1) \/ Pay(p)
  BY DEF Interaction, customerApplicationClerkInteraction, customerPictureClerkInteraction,
         customerPassportClerkInteraction, customerCashierInteraction, LikePicture
<1>4. Harmless
  BY <1>1, <1>3, GetInLineHarmless, WokenInLineHarmless, GiveSSNHarmless, LeaveCounterHarmless,
     ReviewHarmless, PayHarmless
<1> QED BY <1>2, <1>4, HarmlessStep

LEMMA CheckSenatorHarmless ==
  ASSUME Shape, NEW p \in Persons, customerCheckSenator(p)
  PROVE  Harmless
<1> DEFINE c == ClerkOf(p)
           n == [counter[c] EXCEPT !.state = "BUSY"]
<1>1. UNCHANGED clerk /\ (UNCHANGED counter \/ counter' = [counter EXCEPT ![c] = n])
  BY DEF customerCheckSenator, customerSenatorPresentWaitOutside
<1>2. GoodCounter(c, n)
  BY DEF GoodCounter, Shape, SomeCounter, CLERKSTATE
<1> HIDE DEF c, n
<1> QED BY <1>1, <1>2, CounterHarmless, NothingHarmless

LEMMA EnterLeaveStep ==
  ASSUME IInv, NEW p \in Persons, Customer(p) \/ Senator(p)
  PROVE  IInv'
<1>1. Shape
  BY DEF IInv
<1>2. UNCHANGED filed
  BY DEF Customer, Senator, customerCheckIn, customerCheckSenator, customerComeBackIn,
         customerCheckOut, senatorArriveAtPassportOffice, senatorLeavePassportOffice
<1>3. customerCheckSenator(p) \/ UNCHANGED <<counter, clerk>>
  BY DEF Customer, Senator, customerCheckIn, customerComeBackIn,
         customerCheckOut, senatorArriveAtPassportOffice, senatorLeavePassportOffice
<1>4. Harmless
  BY <1>1, <1>3, CheckSenatorHarmless, NothingHarmless
<1> QED BY <1>2, <1>4, HarmlessStep
-----------------------------------------------------------------------------
(***************************************************************************)
(* Clerks.                                                                 *)
(***************************************************************************)
\* A clerk that goes to a place where it does not charge.
LEMMA MoveClerk ==
  ASSUME Shape, NEW c \in Clerks,
         NEW pc \in {"check", "line", "poll", "onBreak", "offBreak", "calling", "hasSSN", "showing",
                     "shown", "filing", "finished"}
  PROVE  /\ GoodClerks([clerk EXCEPT ![c].pc = pc])
         /\ GoodClerks(ClerkTo(c, pc))
         /\ GoodClerks(ClerkDone(c))
BY DEF Shape, GoodClerks, Charging, Clerk, ClerkTo, ClerkDone, SomeCounter

LEMMA ClerkHarmless ==
  ASSUME Shape, GoodClerks(clerk'), counter' \in [Clerks -> SomeCounter], KeepsOpen
  PROVE  Harmless
BY DEF GoodClerks, Harmless, KeepsCustomer

LEMMA SameCounters ==
  ASSUME Shape, UNCHANGED counter
  PROVE  counter' \in [Clerks -> SomeCounter] /\ KeepsOpen
BY DEF Shape, KeepsOpen

LEMMA CallCustomerHarmless ==
  ASSUME Shape, NEW c \in Clerks, NEW k, CallCustomer(c, k)
  PROVE  Harmless
<1> DEFINE rest(b) == Signalled(counter[c].queue[b])
           left(b) == [counter[c] EXCEPT !.queue[b] = rest(b), !.state = "SIGNALEDCUSTOMER",
                                         !.cv = Append(@, c)]
<1>1. PICK bribe \in BOOLEAN : counter' = [counter EXCEPT ![c] = left(bribe)]
  BY DEF CallCustomer
<1>2. GoodClerks(clerk')
  BY MoveClerk DEF CallCustomer
<1>3. counter[c] \in SomeCounter
  BY DEF Shape
<1>4. counter[c].queue \in [BOOLEAN -> Seq(Persons)] /\ counter[c].cv \in Seq(Persons \cup Clerks)
  BY <1>3 DEF SomeCounter
<1>5. rest(bribe) \in Seq(Persons)
  BY <1>4 DEF Signalled
<1> HIDE DEF rest
<1>6. [counter[c].queue EXCEPT ![bribe] = rest(bribe)] \in [BOOLEAN -> Seq(Persons)]
  BY <1>4, <1>5
<1>7. Append(counter[c].cv, c) \in Seq(Persons \cup Clerks)
  BY <1>4
<1>8. left(bribe) \in SomeCounter /\ left(bribe).state = "SIGNALEDCUSTOMER"
  BY <1>3, <1>6, <1>7 DEF SomeCounter, CLERKSTATE
<1> HIDE DEF left
<1>9. GoodCounter(c, left(bribe))
  BY <1>8 DEF GoodCounter
<1> QED BY <1>1, <1>2, <1>9, SetCounter, ClerkHarmless

LEMMA BreakStep ==
  ASSUME IInv, NEW c \in Clerks, NEW k, CheckAndGoOnBreak(c, k)
  PROVE  IInv'
<1>1. Shape /\ ALineIsOpen
  BY DEF IInv
<1>2. UNCHANGED filed
  BY DEF CheckAndGoOnBreak
<1>3. GoodClerks(clerk')
  BY <1>1, MoveClerk DEF CheckAndGoOnBreak
<1>4. CASE AnotherWorks(c)
  <2>1. counter' = [counter EXCEPT ![c].state = "ONBREAK"]
    BY <1>4 DEF CheckAndGoOnBreak
  <2>2. ALineIsOpen'
    BY <1>1, <1>4, <2>1, OpenOnBreak
  <2>3. counter' \in [Clerks -> SomeCounter]
    BY <1>1, <2>1 DEF Shape, SomeCounter, CLERKSTATE
  <2>4. Shape'
    BY <1>1, <1>2, <1>3, <2>3 DEF Shape, GoodClerks
  <2>5. CashierKnows'
    BY <1>2, <1>3 DEF IInv, CashierKnows, GoodClerks, Charging
  <2>6. DocumentsInOrder'
    BY <1>2 DEF IInv, DocumentsInOrder
  <2> QED BY <2>2, <2>4, <2>5, <2>6 DEF IInv
<1>5. CASE ~AnotherWorks(c)
  <2>1. UNCHANGED counter
    BY <1>5 DEF CheckAndGoOnBreak
  <2> QED BY <1>1, <1>2, <1>3, <2>1, SameCounters, ClerkHarmless, HarmlessStep
<1> QED BY <1>4, <1>5

LEMMA ComeOffBreakHarmless ==
  ASSUME Shape, NEW c \in Clerks, NEW k, ComeOffBreak(c, k)
  PROVE  Harmless
<1> DEFINE n == [counter[c] EXCEPT !.state = "BUSY"]
<1>1. counter' = [counter EXCEPT ![c] = n] /\ GoodClerks(clerk')
  BY MoveClerk DEF ComeOffBreak
<1>2. GoodCounter(c, n)
  BY DEF GoodCounter, Shape, SomeCounter, CLERKSTATE
<1> HIDE DEF n
<1> QED BY <1>1, <1>2, SetCounter, ClerkHarmless

LEMMA PollHarmless ==
  ASSUME Shape, NEW c \in Clerks, NEW k, PollEndOfDay(c, k) \/ StartOver(c)
  PROVE  Harmless
<1>1. UNCHANGED counter /\ GoodClerks(clerk')
  BY MoveClerk DEF PollEndOfDay, StartOver, clerkCheckForSenator
<1> QED BY <1>1, SameCounters, ClerkHarmless

\* The clerk's answer to a customer, unless it asks for money.
LEMMA AnswerHarmless ==
  ASSUME Shape, NEW c \in Clerks, NEW n, GoodCounter(c, n),
         NEW pc \in {"filing", "showing"},
         \/ Answer(c, n, pc)
         \/ AnswerAndWait(c, n, pc)
         \/ SignalAt(c, n, person, ClerkDone(c))
  PROVE  Harmless
<1>1. GoodClerks(ClerkTo(c, pc)) /\ GoodClerks(ClerkDone(c))
  BY MoveClerk
<1>2. CASE Answer(c, n, pc)
  BY <1>1, <1>2, SignalHarmless DEF Answer
<1>3. CASE AnswerAndWait(c, n, pc)
  BY <1>1, <1>3, SignalHarmless DEF AnswerAndWait
<1>4. CASE SignalAt(c, n, person, ClerkDone(c))
  BY <1>1, <1>4, SignalHarmless
<1> QED BY <1>2, <1>3, <1>4

LEMMA HandOverHarmless ==
  ASSUME Shape, NEW c \in Clerks, HandOverCounter(c)
  PROVE  Harmless
<1> DEFINE n == [counter[c] EXCEPT !.owner = clerk[c].customerSSN]
<1>1. counter' = [counter EXCEPT ![c] = n] /\ GoodClerks(clerk')
  BY MoveClerk DEF HandOverCounter
<1>2. GoodCounter(c, n)
  BY DEF GoodCounter, Shape, SomeCounter, Clerk
<1> HIDE DEF n
<1> QED BY <1>1, <1>2, SetCounter, ClerkHarmless

\* A step that files papers and takes no certificate back.
LEMMA FilingStep ==
  ASSUME IInv, Harmless, filed' \in Documents, filed.passport \subseteq filed'.passport, DocumentsInOrder'
  PROVE  IInv'
<1>1. Shape'
  BY DEF Shape, Harmless
<1>2. ALineIsOpen'
  BY OpenPreserved DEF IInv, Harmless, KeepsOpen
<1>3. CashierKnows'
  BY DEF IInv, CashierKnows, Harmless, KeepsCustomer, Charging
<1> QED BY <1>1, <1>2, <1>3 DEF IInv

LEMMA IInvFacts ==
  ASSUME IInv, NEW c \in Clerks
  PROVE  /\ Shape
         /\ GoodCounter(c, counter[c])
         /\ filed \in Documents
         /\ clerk[c].customerSSN \in Persons \cup {NoOne}
         /\ counter[c].SSN \in Persons \cup {NoOne}
         /\ DocumentsInOrder
BY DEF IInv, Shape, GoodCounter, Clerk, SomeCounter

\* The steps that every clerk has.
ClerkRounds(c, k) ==
  CallCustomer(c, k) \/ CheckAndGoOnBreak(c, k) \/ ComeOffBreak(c, k) \/ PollEndOfDay(c, k)

LEMMA RoundsStep ==
  ASSUME IInv, NEW c \in Clerks, NEW k, ClerkRounds(c, k)
  PROVE  IInv'
<1>1. Shape
  BY DEF IInv
<1>2. CASE CallCustomer(c, k)
  <2>1. UNCHANGED filed
    BY <1>2 DEF CallCustomer
  <2> QED BY <1>1, <1>2, <2>1, CallCustomerHarmless, HarmlessStep
<1>3. CASE CheckAndGoOnBreak(c, k)
  BY <1>3, BreakStep
<1>4. CASE ComeOffBreak(c, k)
  <2>1. UNCHANGED filed
    BY <1>4 DEF ComeOffBreak
  <2> QED BY <1>1, <1>4, <2>1, ComeOffBreakHarmless, HarmlessStep
<1>5. CASE PollEndOfDay(c, k)
  <2>1. UNCHANGED filed
    BY <1>5 DEF PollEndOfDay
  <2> QED BY <1>1, <1>5, <2>1, PollHarmless, HarmlessStep
<1> QED BY <1>2, <1>3, <1>4, <1>5 DEF ClerkRounds

LEMMA ApplicationClerkStep ==
  ASSUME IInv, NEW c \in Clerks, ApplicationClerk(c)
  PROVE  IInv'
<1> DEFINE p == clerk[c].customerSSN
<1>1. CASE ClerkRounds(c, "application")
  BY <1>1, RoundsStep
<1>2. CASE Answer(c, counter[c], "filing") /\ UNCHANGED filed
  BY <1>2, IInvFacts, AnswerHarmless, HarmlessStep
<1>3. CASE /\ filed' = [filed EXCEPT !.application = @ \cup {p}]
           /\ clerk' = ClerkDone(c)
           /\ UNCHANGED counter
  <2>1. Harmless
    BY <1>3, IInvFacts, MoveClerk, SameCounters, ClerkHarmless
  <2>2. /\ filed' \in Documents
        /\ filed.passport \subseteq filed'.passport
        /\ DocumentsInOrder'
    BY <1>3, IInvFacts DEF Documents, Papers, DocumentsInOrder
  <2> QED BY <2>1, <2>2, FilingStep
<1> QED BY <1>1, <1>2, <1>3 DEF ApplicationClerk, applicationClerkcheckAndGoOnBreak, ClerkRounds

LEMMA PictureClerkStep ==
  ASSUME IInv, NEW c \in Clerks, PictureClerk(c)
  PROVE  IInv'
<1> DEFINE p == clerk[c].customerSSN
           blank == [counter[c] EXCEPT !.picture = 0]
<1>1. CASE ClerkRounds(c, "picture")
  BY <1>1, RoundsStep
<1>2. CASE AnswerAndWait(c, blank, "showing") /\ UNCHANGED filed
  <2>1. GoodCounter(c, blank)
    BY IInvFacts DEF GoodCounter, SomeCounter
  <2> HIDE DEF blank
  <2> QED BY <1>2, <2>1, IInvFacts, AnswerHarmless, HarmlessStep
<1>3. CASE /\ AnswerAndWait(c, counter[c], "showing") \/ Answer(c, counter[c], "filing")
           /\ UNCHANGED filed
  BY <1>3, IInvFacts, AnswerHarmless, HarmlessStep
<1>4. CASE filed' = [filed EXCEPT !.picture = @ \cup {p}] /\ HandOverCounter(c)
  <2>1. Harmless
    BY <1>4, IInvFacts, HandOverHarmless
  <2>2. /\ filed' \in Documents
        /\ filed.passport \subseteq filed'.passport
        /\ DocumentsInOrder'
    BY <1>4, IInvFacts DEF Documents, Papers, DocumentsInOrder
  <2> QED BY <2>1, <2>2, FilingStep
<1> QED BY <1>1, <1>2, <1>3, <1>4 DEF PictureClerk, pictureClerkcheckAndGoOnBreak, ClerkRounds

LEMMA PassportClerkStep ==
  ASSUME IInv, NEW c \in Clerks, PassportClerk(c)
  PROVE  IInv'
<1> DEFINE p == counter[c].SSN
<1>1. CASE ClerkRounds(c, "passport")
  BY <1>1, RoundsStep
<1>2. CASE /\ HasDocuments(p)
           /\ filed' = [filed EXCEPT !.punishment = @ \ {p}, !.passport = @ \cup {p}]
           /\ Answer(c, counter[c], "filing")
  <2>1. Harmless
    BY <1>2, IInvFacts, AnswerHarmless
  <2>2. /\ filed' \in Documents
        /\ filed.passport \subseteq filed'.passport
        /\ DocumentsInOrder'
    BY <1>2, IInvFacts DEF Documents, Papers, DocumentsInOrder, HasDocuments
  <2> QED BY <2>1, <2>2, FilingStep
<1>3. CASE /\ filed' = [filed EXCEPT !.punishment = @ \cup {p}]
           /\ SignalAt(c, counter[c], person, ClerkDone(c))
  <2>1. Harmless
    BY <1>3, IInvFacts, AnswerHarmless
  <2>2. /\ filed' \in Documents
        /\ filed.passport \subseteq filed'.passport
        /\ DocumentsInOrder'
    BY <1>3, IInvFacts DEF Documents, Papers, DocumentsInOrder
  <2> QED BY <2>1, <2>2, FilingStep
<1>4. CASE HandOverCounter(c) /\ UNCHANGED filed
  BY <1>4, IInvFacts, HandOverHarmless, HarmlessStep
<1> QED BY <1>1, <1>2, <1>3, <1>4 DEF PassportClerk, passportClerkcheckAndGoOnBreak, ClerkRounds

\* The one step that begins to charge, which the clerk does to a certified customer.
LEMMA ChargeStep ==
  ASSUME IInv, NEW c \in Clerks, counter[c].SSN \in filed.passport,
         filed' = [filed EXCEPT !.rejection = @ \ {counter[c].SSN}],
         AnswerAndWait(c, counter[c], "charging")
  PROVE  IInv'
<1> DEFINE cs == ClerkTo(c, "charging")
<1>1. cs \in [Clerks -> Clerk]
  BY IInvFacts DEF ClerkTo, Shape, Clerk
<1>2. SignalAndWaitAt(c, counter[c], person, cs, c)
  BY DEF AnswerAndWait
<1>3. cs[c].customerSSN \in filed.passport /\ \A d \in Clerks : d # c => cs[d] = clerk[d]
  BY IInvFacts DEF ClerkTo, Shape
<1> HIDE DEF cs
<1>4. /\ counter' \in [Clerks -> SomeCounter]
      /\ KeepsOpen
      /\ clerk' \in [Clerks -> Clerk]
      /\ \A d \in Clerks : /\ clerk'[d].customerSSN = cs[d].customerSSN
                           /\ clerk'[d].pc \in Charging => cs[d].pc \in Charging
  BY <1>1, <1>2, IInvFacts, SignalCounter
<1>5. /\ filed' \in Documents
      /\ filed'.passport = filed.passport
      /\ DocumentsInOrder'
  BY IInvFacts DEF Documents, Papers, DocumentsInOrder
<1>6. Shape'
  BY <1>4, <1>5 DEF Shape
<1>7. ALineIsOpen'
  BY <1>4, OpenPreserved DEF IInv, KeepsOpen
<1>8. CashierKnows'
  BY <1>3, <1>4, <1>5 DEF IInv, CashierKnows, Charging
<1> QED BY <1>5, <1>6, <1>7, <1>8 DEF IInv

LEMMA CashierStep ==
  ASSUME IInv, NEW c \in Clerks, Cashier(c)
  PROVE  IInv'
<1> DEFINE p == counter[c].SSN
           q == clerk[c].customerSSN
<1>1. CASE ClerkRounds(c, "cashier")
  BY <1>1, RoundsStep
<1>2. CASE /\ p \in filed.passport
           /\ filed' = [filed EXCEPT !.rejection = @ \ {p}]
           /\ AnswerAndWait(c, counter[c], "charging")
  BY <1>2, ChargeStep
<1>3. CASE /\ filed' = [filed EXCEPT !.rejection = @ \cup {p}]
           /\ clerk' = ClerkDone(c)
           /\ UNCHANGED counter
  <2>1. Harmless
    BY <1>3, IInvFacts, MoveClerk, SameCounters, ClerkHarmless
  <2>2. /\ filed' \in Documents
        /\ filed.passport \subseteq filed'.passport
        /\ DocumentsInOrder'
    BY <1>3, IInvFacts DEF Documents, Papers, DocumentsInOrder
  <2> QED BY <2>1, <2>2, FilingStep
<1>4. CASE /\ clerk[c].pc = "charged"
           /\ filed' = [filed EXCEPT !.done = @ \cup {q}]
           /\ SignalAt(c, counter[c], person, ClerkDone(c))
  <2>1. q \in filed.passport
    BY <1>4 DEF IInv, CashierKnows
  <2>2. Harmless
    BY <1>4, IInvFacts, AnswerHarmless
  <2>3. /\ filed' \in Documents
        /\ filed.passport \subseteq filed'.passport
        /\ DocumentsInOrder'
    BY <1>4, <2>1, IInvFacts DEF Documents, Papers, DocumentsInOrder
  <2> QED BY <2>2, <2>3, FilingStep
<1> QED BY <1>1, <1>2, <1>3, <1>4 DEF Cashier, cashiercheckAndGoOnBreak, ClerkRounds, AtPc

LEMMA ClerkStepStep ==
  ASSUME IInv, NEW c \in Clerks, ClerkStep(c)
  PROVE  IInv'
<1>1. CASE StartOver(c)
  <2>1. UNCHANGED filed
    BY <1>1 DEF StartOver
  <2> QED BY <1>1, <2>1, IInvFacts, PollHarmless, HarmlessStep
<1> QED BY <1>1, ApplicationClerkStep, PictureClerkStep, PassportClerkStep, CashierStep DEF ClerkStep
-----------------------------------------------------------------------------
(***************************************************************************)
(* The manager, and the theorems.                                          *)
(***************************************************************************)
LEMMA BroadcastHarmless ==
  ASSUME Shape, managerBroacastLine
  PROVE  Harmless
<1> DEFINE k == KindOrder[manager.kind]
           emptied(c) == [counter[c] EXCEPT !.queue = [b \in BOOLEAN |-> <<>>]]
<1>1. counter' = [c \in Clerks |-> IF c[1] = k THEN emptied(c) ELSE counter[c]] /\ UNCHANGED clerk
  BY DEF managerBroacastLine
<1>2. \A c \in Clerks : emptied(c) \in SomeCounter /\ emptied(c).state = counter[c].state
  <2>1. [b \in BOOLEAN |-> <<>>] \in [BOOLEAN -> Seq(Persons)]
    OBVIOUS
  <2> QED BY <2>1 DEF Shape, SomeCounter
<1> HIDE DEF emptied, k
<1>3. \A c \in Clerks : counter'[c] \in SomeCounter /\ counter'[c].state = counter[c].state
  BY <1>1, <1>2 DEF Shape
<1> QED BY <1>1, <1>3 DEF Shape, Harmless, KeepsOpen, KeepsCustomer

LEMMA WakeupHarmless ==
  ASSUME Shape, managerCheckandWakupClerks
  PROVE  Harmless
<1>1. /\ UNCHANGED counter
      /\ clerk' \in [Clerks -> Clerk]
      /\ \A c \in Clerks : clerk'[c].pc \in Charging => clerk'[c] = clerk[c]
  BY DEF managerCheckandWakupClerks, Shape, Clerk, Charging
<1> QED BY <1>1, SameCounters DEF Harmless, KeepsCustomer

LEMMA ManagerStepStep ==
  ASSUME IInv, ManagerStep
  PROVE  IInv'
<1>1. Shape
  BY DEF IInv
<1>2. UNCHANGED filed
  BY DEF ManagerStep, managerBroacastLine, managerCheckandWakupClerks, checkEndOfDay
<1>3. CASE managerBroacastLine
  BY <1>1, <1>2, <1>3, BroadcastHarmless, HarmlessStep
<1>4. CASE managerCheckandWakupClerks
  BY <1>1, <1>2, <1>4, WakeupHarmless, HarmlessStep
<1>5. CASE checkEndOfDay
  <2>1. UNCHANGED <<clerk, counter>>
    BY <1>5 DEF checkEndOfDay
  <2> QED BY <1>1, <1>2, <2>1, NothingHarmless, HarmlessStep
<1> QED BY <1>3, <1>4, <1>5 DEF ManagerStep

LEMMA InitIInv ==
  ASSUME Init
  PROVE  IInv
<1>1. counter \in [Clerks -> SomeCounter] /\ \A c \in Clerks : counter[c].state = "BUSY"
  <2> DEFINE n == [state |-> "BUSY", count |-> [b \in BOOLEAN |-> 0],
                   queue |-> [b \in BOOLEAN |-> <<>>], cv |-> <<>>, SSN |-> NoOne,
                   picture |-> 0, owner |-> NoOne]
  <2>1. counter = [c \in Clerks |-> n]
    BY DEF Init, InitCounters
  <2>2. n \in SomeCounter /\ n.state = "BUSY"
    BY DEF SomeCounter, CLERKSTATE
  <2> HIDE DEF n
  <2> QED BY <2>1, <2>2
<1>2. clerk \in [Clerks -> Clerk] /\ \A c \in Clerks : clerk[c].pc = "check"
  BY DEF Init, InitCounters, Clerk
<1>3. Shape /\ DocumentsInOrder
  BY <1>1, <1>2 DEF Init, InitDocuments, Shape, Documents, Papers, DocumentsInOrder
<1>4. ALineIsOpen
  <2>1. SUFFICES ASSUME NEW k \in Kinds PROVE \E i \in Lines(k) : counter[<<k, i>>].state # "ONBREAK"
    BY DEF ALineIsOpen
  <2>2. 1 \in Lines(k)
    BY ClerkCountAssumption DEF Lines
  <2>3. <<k, 1>> \in Clerks
    BY <2>2, ClerksDef
  <2> QED BY <1>1, <2>2, <2>3
<1>5. CashierKnows
  BY <1>2 DEF CashierKnows
<1> QED BY <1>3, <1>4, <1>5 DEF IInv

LEMMA NextIInv ==
  ASSUME IInv, [Next]_vars
  PROVE  IInv'
<1>1. CASE Next
  BY <1>1, InteractionStep, EnterLeaveStep, ClerkStepStep, ManagerStepStep DEF Next
<1>2. CASE UNCHANGED vars
  <2>1. UNCHANGED counter /\ UNCHANGED clerk /\ UNCHANGED filed /\ Shape
    BY <1>2 DEF vars, IInv
  <2> QED BY <2>1, NothingHarmless, HarmlessStep
<1> QED BY <1>1, <1>2

\* The inductive invariant: shapes, an open line of each kind, and papers in order
\* together with what a cashier knows of the customer it charges.
THEOREM OfficeInvariance == Spec => []IInv
<1>1. Init => IInv
  BY InitIInv
<1>2. IInv /\ [Next]_vars => IInv'
  BY NextIInv
<1> QED BY <1>1, <1>2, PTL DEF Spec

\* However many clerks there are of a kind, they are never all on break, so that
\* pickShortestLine finds a line: a clerk goes on break under the line lock of its
\* kind and only when it sees another at work.
THEOREM ALineStaysOpen == Spec => []ALineIsOpen
<1>1. IInv => ALineIsOpen
  BY DEF IInv
<1> QED BY <1>1, OfficeInvariance, PTL

\* Whatever customers, senators and clerks there are, a passport is handed out only
\* to who is certified and only who has both documents filed is certified: the
\* cashier charges in one visit of the counter's monitor whom it checked in another.
THEOREM PapersInOrder == Spec => []DocumentsInOrder
<1>1. IInv => DocumentsInOrder
  BY DEF IInv
<1> QED BY <1>1, OfficeInvariance, PTL
-----------------------------------------------------------------------------
(***************************************************************************)
(* Persons: what they have in hand covers what they still have to pay.     *)
(***************************************************************************)
PcOfPerson ==
  {"arriving", "loop", "errand", "inLine", "woken", "unsignalled", "outside", "letIn",
   "called", "atCounter", "answered", "paid", "served", "senatorLine", "admitted", "gone"}

InLinePc == {"inLine", "woken"}
Owing == InLinePc \cup {"unsignalled"}
Paid == {"paid", "served"}
AtCounterPc == {"atCounter", "answered", "paid", "served"}
WithClerkPc == Owing \cup {"called"} \cup AtCounterPc

\* $100 and some times $500.
Purses == {100 + 500 * j : j \in 0 .. MaxBribes}

\* Who has errands left and has not paid the cashier has the cashier's $100 and no
\* odd sum, who owes a bribe has more than $500, and the cashier comes last.  Who is
\* with a clerk is in a line that there is.
Solvent(r) ==
  /\ r.todo # <<>> /\ r.pc \notin Paid => r.money \in Purses
  /\ r.pc \in Owing /\ r.bribe => r.todo # <<>> /\ r.money > 500
  /\ r.pc \in Paid => r.todo = <<"cashier">>
  /\ r.pc \in WithClerkPc => r.todo # <<>> /\ r.line \in Lines(Head(r.todo))
  /\ \A j \in DOMAIN r.todo : r.todo[j] = "cashier" => j = Len(r.todo)

GoodPerson == {r \in Person : Solvent(r)}

\* A purse that holds more than $500 holds $600.
LEMMA PurseBribe ==
  ASSUME NEW m \in Purses
  PROVE  m \in Nat /\ m >= 100 /\ (m > 500 => m - 500 \in Purses)
<1>1. PICK j \in 0 .. MaxBribes : m = 100 + 500 * j
  BY DEF Purses
<1>2. m \in Nat /\ m >= 100
  BY <1>1, BoundsAssumption
<1>3. ASSUME m > 500 PROVE m - 500 \in Purses
  <2>1. j - 1 \in 0 .. MaxBribes /\ m - 500 = 100 + 500 * (j - 1)
    BY <1>1, <1>3, BoundsAssumption
  <2> QED
    BY <2>1 DEF Purses
<1> QED
  BY <1>2, <1>3

\* The ways in which a thread changes its variables.
LEMMA SetPc ==
  ASSUME NEW r \in GoodPerson, NEW x \in PcOfPerson,
         x \in Paid <=> r.pc \in Paid, x \in Owing => r.pc \in Owing,
         x \in WithClerkPc => r.pc \in WithClerkPc
  PROVE  [r EXCEPT !.pc = x] \in GoodPerson
<1> DEFINE r2 == [r EXCEPT !.pc = x]
<1>1. r \in Person /\ Solvent(r)
  BY DEF GoodPerson
<1>2. /\ r2 \in Person /\ r2.pc = x /\ r2.todo = r.todo /\ r2.money = r.money /\ r2.bribe = r.bribe
      /\ r2.line = r.line
  BY <1>1 DEF Person, PcOfPerson
<1> HIDE DEF r2
<1>3. Solvent(r2)
  BY <1>1, <1>2 DEF Solvent
<1> QED
  BY <1>2, <1>3 DEF GoodPerson, r2

LEMMA GoodToCounter ==
  ASSUME NEW r \in GoodPerson, r.pc \in Owing
  PROVE  [r EXCEPT !.pc = "called", !.money = IF r.bribe THEN @ - 500 ELSE @] \in GoodPerson
<1> DEFINE m == IF r.bribe THEN r.money - 500 ELSE r.money
           r2 == [r EXCEPT !.pc = "called", !.money = m]
<1>1. r \in Person /\ Solvent(r) /\ r.money \in Nat /\ r.pc \notin Paid
  BY DEF GoodPerson, Person, Owing, InLinePc, Paid
<1>2. m \in Nat /\ (r.todo # <<>> => m \in Purses)
  BY <1>1, PurseBribe DEF Solvent
<1>3. r2 \in Person /\ r2.pc = "called" /\ r2.todo = r.todo /\ r2.money = m /\ r2.line = r.line
  <2> HIDE DEF m
  <2> QED
    BY <1>1, <1>2 DEF Person
<1> HIDE DEF r2, m
<1>4. Solvent(r2)
  BY <1>1, <1>2, <1>3 DEF Solvent, Owing, InLinePc, Paid, WithClerkPc, AtCounterPc
<1>5. r2 \in GoodPerson
  BY <1>3, <1>4 DEF GoodPerson
<1> QED
  BY <1>5 DEF r2, m

LEMMA GoodInLine ==
  ASSUME NEW r \in GoodPerson, r.pc = "errand", r.todo # <<>>, NEW x \in {"inLine", "called"},
         NEW i \in Nat, i \in Lines(Head(r.todo)), NEW b \in BOOLEAN, b => r.money > 500
  PROVE  [r EXCEPT !.pc = x, !.line = i, !.bribe = b] \in GoodPerson
<1> DEFINE r2 == [r EXCEPT !.pc = x, !.line = i, !.bribe = b]
<1>1. r \in Person /\ Solvent(r)
  BY DEF GoodPerson
<1>2. r2 \in Person /\ r2.pc = x /\ r2.todo = r.todo /\ r2.money = r.money /\ r2.bribe = b /\ r2.line = i
  BY <1>1 DEF Person
<1> HIDE DEF r2
<1>3. Solvent(r2)
  BY <1>1, <1>2 DEF Solvent, Paid
<1> QED
  BY <1>2, <1>3 DEF GoodPerson, r2

LEMMA GoodReturn ==
  ASSUME NEW p, person[p] \in GoodPerson, NEW ok \in BOOLEAN, ok => person[p].todo # <<>>,
         person[p].pc \in Paid => ok
  PROVE  Return(p, ok) \in GoodPerson
<1> DEFINE r == person[p]
           x == IF p \in Customers THEN "loop" ELSE "errand"
           t == IF ok THEN Tail(r.todo) ELSE r.todo
           r2 == [r EXCEPT !.pc = x, !.line = 0, !.bribe = FALSE, !.todo = t]
<1>1. r \in Person /\ Solvent(r) /\ r.todo \in Seq(Kinds) /\ (ok => r.todo # <<>>)
  BY DEF GoodPerson, Person
<1>2. t \in Seq(Kinds) /\ \A j \in DOMAIN t : t[j] = "cashier" => j = Len(t)
  <2>1. CASE ok
    <3> DEFINE u == r.todo
    <3>1. u \in Seq(Kinds) /\ u # <<>> /\ \A j \in DOMAIN u : u[j] = "cashier" => j = Len(u)
      BY <1>1, <2>1 DEF Solvent
    <3> HIDE DEF u
    <3>2. Tail(u) \in Seq(Kinds) /\ \A j \in DOMAIN Tail(u) : Tail(u)[j] = "cashier" => j = Len(Tail(u))
      BY <3>1
    <3> QED
      BY <2>1, <3>2 DEF u
  <2>2. CASE ~ok
    BY <1>1, <2>2 DEF Solvent
  <2> QED
    BY <2>1, <2>2
<1>3. t # <<>> => r.money \in Purses
  <2>1. Tail(<<"cashier">>) = <<>>
    OBVIOUS
  <2>2. t # <<>> => r.todo # <<>>
    BY <1>1
  <2>3. t # <<>> => r.pc \notin Paid
    BY <1>1, <2>1 DEF Solvent
  <2> QED
    BY <1>1, <2>2, <2>3 DEF Solvent
<1>4. Return(p, ok) = r2
  BY DEF Return
<1> HIDE DEF t
<1>5. x \in {"loop", "errand"}
  OBVIOUS
<1> HIDE DEF x
<1>6. r2 \in Person /\ r2.pc = x /\ r2.todo = t /\ r2.money = r.money /\ r2.bribe = FALSE
  BY <1>1, <1>2, <1>5 DEF Person
<1> HIDE DEF r2
<1>7. Solvent(r2)
  BY <1>1, <1>2, <1>3, <1>5, <1>6 DEF Solvent, Owing, InLinePc, Paid, WithClerkPc, AtCounterPc
<1> QED
  BY <1>4, <1>6, <1>7 DEF GoodPerson

LEMMA GoodPay ==
  ASSUME NEW r \in GoodPerson, r.pc = "answered", r.todo # <<>>, Head(r.todo) = "cashier"
  PROVE  [r EXCEPT !.pc = "paid", !.money = @ - 100] \in GoodPerson
<1> DEFINE m == r.money - 100
           r2 == [r EXCEPT !.pc = "paid", !.money = m]
<1>1. r \in Person /\ Solvent(r) /\ r.todo \in Seq(Kinds)
  BY DEF GoodPerson, Person
<1>2. m \in Nat
  <2>1. r.money \in Purses
    BY <1>1 DEF Solvent, Paid
  <2>2. r.money \in Nat /\ r.money >= 100
    BY <2>1, PurseBribe
  <2> QED
    BY <2>2
<1>3. r.todo = <<"cashier">>
  BY <1>1 DEF Solvent
<1>4. r2 \in Person /\ r2.pc = "paid" /\ r2.todo = r.todo /\ r2.line = r.line
  <2> HIDE DEF m
  <2> QED
    BY <1>1, <1>2 DEF Person
<1> HIDE DEF r2
<1>5. Solvent(r2)
  BY <1>1, <1>3, <1>4 DEF Solvent, Owing, InLinePc, Paid, WithClerkPc, AtCounterPc
<1> QED
  BY <1>4, <1>5 DEF GoodPerson, r2

LEMMA GoodOutside ==
  ASSUME NEW r \in GoodPerson, r.pc \in {"loop", "errand"}
  PROVE  [r EXCEPT !.back = r.pc, !.pc = "outside"] \in GoodPerson
<1> DEFINE r2 == [r EXCEPT !.back = r.pc, !.pc = "outside"]
<1>1. r \in Person /\ Solvent(r)
  BY DEF GoodPerson
<1>2. r2 \in Person /\ r2.pc = "outside" /\ r2.todo = r.todo /\ r2.money = r.money
  BY <1>1 DEF Person
<1> HIDE DEF r2
<1>3. Solvent(r2)
  BY <1>1, <1>2 DEF Solvent, Owing, InLinePc, Paid, WithClerkPc, AtCounterPc
<1> QED
  BY <1>2, <1>3 DEF GoodPerson, r2

LEMMA GoodGone == [NoLocals EXCEPT !.pc = "gone"] \in GoodPerson
<1> DEFINE r == [NoLocals EXCEPT !.pc = "gone"]
<1>1. NoLocals \in Person
  BY DEF NoLocals, Person
<1>2. NoLocals.todo = <<>>
  BY DEF NoLocals
<1>3. r \in Person /\ r.pc = "gone" /\ r.todo = NoLocals.todo
  BY <1>1 DEF Person
<1> HIDE DEF r
<1>4. Solvent(r)
  BY <1>2, <1>3 DEF Solvent, Owing, InLinePc, Paid, WithClerkPc, AtCounterPc
<1>5. r \in GoodPerson
  BY <1>3, <1>4 DEF GoodPerson
<1> QED
  BY <1>5 DEF r
-----------------------------------------------------------------------------
(***************************************************************************)
(* What a step does to the persons.                                        *)
(***************************************************************************)
PersonsInOrder == person \in [Persons -> GoodPerson]

InsidePc ==
  {"loop", "errand", "inLine", "woken", "unsignalled", "called", "atCounter", "answered", "paid", "served"}
EngagedPc == InsidePc \ {"loop"}

\* Person p, with variables r and then r2, neither enters nor leaves the office; only
\* customers are back in their loop, and only from an errand.
StaysInside(p, r, r2) ==
  /\ r.pc \notin InsidePc => r2 = r
  /\ r.pc \in InsidePc => r2.pc \in InsidePc
  /\ r2.pc \in EngagedPc => r.pc \in EngagedPc
  /\ p \notin Customers /\ r.pc \in EngagedPc => r2.pc \in EngagedPc

\* It neither gets in a line nor leaves one.
KeepsLine(r, r2) ==
  /\ r2.pc \in InLinePc <=> r.pc \in InLinePc
  /\ r.pc \in InLinePc => r2 = r

\* It comes to no counter.
KeepsVisit(r, r2) ==
  r2.pc \in AtCounterPc => r.pc \in AtCounterPc /\ r2.todo = r.todo /\ r2.line = r.line

PersonsStay == \A p \in Persons : StaysInside(p, person[p], person'[p])
LinesKept ==
  /\ \A p \in Persons : KeepsLine(person[p], person'[p])
  /\ \A c \in Clerks : counter'[c].count = counter[c].count /\ counter'[c].queue = counter[c].queue
VisitsKept == \A p \in Persons : KeepsVisit(person[p], person'[p])

\* A thread with variables r2 is, or is not, woken by a signal.
MayWake(r2, r3) == r3 \in {r2, [r2 EXCEPT !.pc = Woken(r2.pc)]}

LEMMA WokenPc ==
  ASSUME NEW x \in PcOfPerson
  PROVE  /\ Woken(x) \in PcOfPerson
         /\ Woken(x) \in Paid <=> x \in Paid
         /\ Woken(x) \in InLinePc <=> x \in InLinePc
         /\ x \in InLinePc \cup {"unsignalled"} => Woken(x) = x
         /\ Woken(x) \in Owing => x \in Owing
         /\ Woken(x) \in AtCounterPc => x \in AtCounterPc
         /\ Woken(x) \in WithClerkPc => x \in WithClerkPc
         /\ x \notin InsidePc => Woken(x) = x
         /\ x \in InsidePc => Woken(x) \in InsidePc
         /\ Woken(x) \in EngagedPc <=> x \in EngagedPc
BY DEF PcOfPerson, Woken, Paid, InLinePc, Owing, AtCounterPc, WithClerkPc, InsidePc, EngagedPc

\* A wake-up does not interfere.
LEMMA WokenPerson ==
  ASSUME NEW p, NEW r \in GoodPerson, NEW r2 \in GoodPerson, NEW r3, MayWake(r2, r3)
  PROVE  /\ r3 \in GoodPerson
         /\ StaysInside(p, r, r2) => StaysInside(p, r, r3)
         /\ KeepsLine(r, r2) => KeepsLine(r, r3)
         /\ KeepsVisit(r, r2) => KeepsVisit(r, r3)
         /\ r3.todo = r2.todo /\ r3.line = r2.line
         /\ r3.pc \in AtCounterPc => r2.pc \in AtCounterPc
<1>1. CASE r3 = r2
  BY <1>1
<1>2. CASE r3 = [r2 EXCEPT !.pc = Woken(r2.pc)]
  <2>1. r2 \in Person /\ r2.pc \in PcOfPerson /\ r.pc \in PcOfPerson
    BY DEF GoodPerson, Person, PcOfPerson
  <2>2. r3 \in GoodPerson
    BY <1>2, <2>1, WokenPc, SetPc
  <2>3. r3.pc = Woken(r2.pc) /\ r3.todo = r2.todo /\ r3.line = r2.line
    BY <1>2, <2>1 DEF Person
  <2>4. Woken(r2.pc) = r2.pc => r3 = r2
    <3>1. [r2 EXCEPT !.pc = r2.pc] = r2
      BY <2>1 DEF Person
    <3> QED
      BY <1>2, <3>1
  <2>5. StaysInside(p, r, r2) => StaysInside(p, r, r3)
    BY <2>1, <2>3, <2>4, WokenPc DEF StaysInside
  <2>6. KeepsLine(r, r2) => KeepsLine(r, r3)
    BY <2>1, <2>3, <2>4, WokenPc DEF KeepsLine
  <2>7. KeepsVisit(r, r2) => KeepsVisit(r, r3)
    BY <2>1, <2>3, WokenPc DEF KeepsVisit
  <2> QED
    BY <2>1, <2>2, <2>3, <2>5, <2>6, <2>7, WokenPc
<1> QED
  BY <1>1, <1>2 DEF MayWake

LEMMA NothingMoves ==
  ASSUME NEW p, NEW r
  PROVE  StaysInside(p, r, r) /\ KeepsLine(r, r) /\ KeepsVisit(r, r)
BY DEF StaysInside, KeepsLine, KeepsVisit

\* A signal at the condition variable of a counter.
LEMMA WakePersons ==
  ASSUME NEW ps \in [Persons -> GoodPerson], NEW q
  PROVE  /\ WakeFirst(ps, q) \in [Persons -> GoodPerson]
         /\ \A p \in Persons : MayWake(ps[p], WakeFirst(ps, q)[p])
<1>1. CASE q # <<>> /\ Head(q) \in Persons
  <2> DEFINE h == Head(q)
  <2>1. WakeFirst(ps, q) = [ps EXCEPT ![h] = [ps[h] EXCEPT !.pc = Woken(ps[h].pc)]]
    BY <1>1 DEF WakeFirst
  <2>2. MayWake(ps[h], [ps[h] EXCEPT !.pc = Woken(ps[h].pc)]) /\ \A p : MayWake(ps[p], ps[p])
    BY DEF MayWake
  <2>3. [ps[h] EXCEPT !.pc = Woken(ps[h].pc)] \in GoodPerson
    BY <1>1, <2>2, WokenPerson
  <2> HIDE DEF h
  <2> QED
    BY <1>1, <2>1, <2>2, <2>3 DEF h
<1>2. CASE ~(q # <<>> /\ Head(q) \in Persons)
  <2>1. WakeFirst(ps, q) = ps
    BY <1>2 DEF WakeFirst
  <2> QED
    BY <2>1 DEF MayWake
<1> QED
  BY <1>1, <1>2

\* The counter that a thread leaves in state n, with its lines as they were.
SameLine(c, n) ==
  c \in Clerks => n \in SomeCounter /\ n.count = counter[c].count /\ n.queue = counter[c].queue

\* What a signal at a counter does to the persons, with ps as the thread's own step
\* leaves them, and to the lines.
LEMMA SignalEffect ==
  ASSUME Shape, PersonsInOrder, NEW c, NEW n, SameLine(c, n),
         NEW ps \in [Persons -> GoodPerson], NEW cs, NEW t \in Persons \cup Clerks,
         SignalAt(c, n, ps, cs) \/ SignalAndWaitAt(c, n, ps, cs, t)
  PROVE  /\ PersonsInOrder'
         /\ \A p \in Persons : MayWake(ps[p], person'[p])
         /\ \A d \in Clerks : counter'[d].count = counter[d].count /\ counter'[d].queue = counter[d].queue
<1>1. person' = WakeFirst(ps, n.cv)
  BY DEF SignalAt, SignalAndWaitAt
<1>2. PersonsInOrder' /\ \A p \in Persons : MayWake(ps[p], person'[p])
  BY <1>1, WakePersons DEF PersonsInOrder
<1>3. PICK v : counter' = [counter EXCEPT ![c] = [n EXCEPT !.cv = v]]
  BY DEF SignalAt, SignalAndWaitAt
<1>4. ASSUME NEW d \in Clerks
      PROVE  counter'[d].count = counter[d].count /\ counter'[d].queue = counter[d].queue
  <2>1. CASE d = c
    <3>1. n \in SomeCounter /\ n.count = counter[c].count /\ n.queue = counter[c].queue
      BY <2>1 DEF SameLine
    <3>2. counter'[d] = [n EXCEPT !.cv = v]
      BY <1>3, <2>1 DEF Shape
    <3> QED
      BY <2>1, <3>1, <3>2 DEF SomeCounter
  <2>2. CASE d # c
    BY <1>3, <2>2 DEF Shape
  <2> QED
    BY <2>1, <2>2
<1> QED
  BY <1>2, <1>4
-----------------------------------------------------------------------------
(***************************************************************************)
(* What customers and senators do.                                         *)
(***************************************************************************)
\* A step of p that signals at a counter.
LEMMA PersonSignals ==
  ASSUME Shape, PersonsInOrder, NEW c, NEW n, SameLine(c, n), NEW p \in Persons,
         NEW r2 \in GoodPerson, StaysInside(p, person[p], r2), KeepsLine(person[p], r2),
         SignalAndWaitAt(c, n, [person EXCEPT ![p] = r2], clerk, p)
  PROVE  /\ PersonsInOrder' /\ PersonsStay /\ LinesKept
         /\ \A q \in Persons : q # p \/ KeepsVisit(person[p], r2) => KeepsVisit(person[q], person'[q])
<1> DEFINE ps == [person EXCEPT ![p] = r2]
<1>1. ps \in [Persons -> GoodPerson] /\ \A q \in Persons : ps[q] = IF q = p THEN r2 ELSE person[q]
  BY DEF PersonsInOrder
<1>2. SignalAndWaitAt(c, n, ps, clerk, p)
  OBVIOUS
<1> HIDE DEF ps
<1>3. /\ PersonsInOrder'
      /\ \A q \in Persons : MayWake(ps[q], person'[q])
      /\ \A d \in Clerks : counter'[d].count = counter[d].count /\ counter'[d].queue = counter[d].queue
  BY <1>1, <1>2, SignalEffect
<1>4. ASSUME NEW q \in Persons
      PROVE  /\ StaysInside(q, person[q], person'[q]) /\ KeepsLine(person[q], person'[q])
             /\ q # p \/ KeepsVisit(person[p], r2) => KeepsVisit(person[q], person'[q])
  <2>1. person[q] \in GoodPerson /\ ps[q] \in GoodPerson
    BY <1>1 DEF PersonsInOrder
  <2>2. StaysInside(q, person[q], ps[q]) /\ KeepsLine(person[q], ps[q])
    BY <1>1, NothingMoves
  <2>3. q # p \/ KeepsVisit(person[p], r2) => KeepsVisit(person[q], ps[q])
    BY <1>1, NothingMoves
  <2> QED
    BY <1>3, <2>1, <2>2, <2>3, WokenPerson
<1> QED
  BY <1>3, <1>4 DEF PersonsStay, LinesKept

\* A person with an errand of a kind has it in hand.
LEMMA HasErrand ==
  ASSUME PersonsInOrder, NEW p \in Persons, Errand(p) # "leave"
  PROVE  /\ person[p] \in GoodPerson /\ person[p] \in Person /\ person[p].todo \in Seq(Kinds)
         /\ person[p].todo # <<>> /\ Head(person[p].todo) = Errand(p) /\ Errand(p) \in Kinds
<1>1. person[p] \in GoodPerson /\ person[p] \in Person
  BY DEF PersonsInOrder, GoodPerson
<1>2. person[p].todo \in Seq(Kinds)
  BY <1>1 DEF Person
<1>3. person[p].todo # <<>> /\ Head(person[p].todo) = Errand(p)
  BY DEF Errand
<1> QED
  BY <1>1, <1>2, <1>3

LEMMA GiveSSNEffect ==
  ASSUME Shape, PersonsInOrder, NEW p \in Persons, NEW k, k # "leave", GiveSSN(p, k)
  PROVE  /\ PersonsInOrder' /\ PersonsStay /\ LinesKept
         /\ \A q \in Persons : q # p => KeepsVisit(person[q], person'[q])
<1> DEFINE c == ClerkOf(p)
           n == [counter[c] EXCEPT !.SSN = p]
           r == person[p]
           r2 == [r EXCEPT !.pc = "atCounter"]
<1>1. r \in GoodPerson /\ r \in Person /\ r.pc = "called"
  BY HasErrand DEF GiveSSN
<1>2. r2.pc = "atCounter"
  BY <1>1 DEF Person
<1>3. r2 \in GoodPerson
  BY <1>1, SetPc DEF PcOfPerson, Paid, Owing, InLinePc, WithClerkPc, AtCounterPc
<1>4. SameLine(c, n)
  BY DEF SameLine, Shape, SomeCounter
<1>5. SignalAndWaitAt(c, n, [person EXCEPT ![p] = r2], clerk, p)
  BY DEF GiveSSN
<1>6. StaysInside(p, r, r2) /\ KeepsLine(r, r2)
  BY <1>1, <1>2 DEF StaysInside, KeepsLine, InsidePc, EngagedPc, InLinePc
<1> HIDE DEF c, n, r2
<1> QED
  BY <1>3, <1>4, <1>5, <1>6, PersonSignals

LEMMA ReviewEffect ==
  ASSUME Shape, PersonsInOrder, NEW p \in Persons, NEW like \in {0, 1},
         BackAtCounter(p, "picture", "answered"), Review(p, like)
  PROVE  PersonsInOrder' /\ PersonsStay /\ LinesKept /\ VisitsKept
<1> DEFINE c == ClerkOf(p)
           n == [counter[c] EXCEPT !.picture = like, !.owner = NoOne]
           r == person[p]
           r2 == [r EXCEPT !.pc = "atCounter"]
<1>1. r \in GoodPerson /\ r \in Person /\ r.pc = "answered"
  BY HasErrand DEF BackAtCounter
<1>2. r2.pc = "atCounter" /\ r2.todo = r.todo /\ r2.line = r.line
  BY <1>1 DEF Person
<1>3. r2 \in GoodPerson
  BY <1>1, SetPc DEF PcOfPerson, Paid, Owing, InLinePc, WithClerkPc, AtCounterPc
<1>4. SameLine(c, n)
  BY DEF SameLine, Shape, SomeCounter
<1>5. SignalAndWaitAt(c, n, [person EXCEPT ![p] = r2], clerk, p)
  BY DEF Review
<1>6. StaysInside(p, r, r2) /\ KeepsLine(r, r2) /\ KeepsVisit(r, r2)
  BY <1>1, <1>2 DEF StaysInside, KeepsLine, KeepsVisit, InsidePc, EngagedPc, InLinePc, AtCounterPc
<1> HIDE DEF c, n, r2
<1> QED
  BY <1>3, <1>4, <1>5, <1>6, PersonSignals DEF VisitsKept

LEMMA PayEffect ==
  ASSUME Shape, PersonsInOrder, NEW p \in Persons, BackAtCounter(p, "cashier", "answered"), Pay(p)
  PROVE  PersonsInOrder' /\ PersonsStay /\ LinesKept /\ VisitsKept
<1> DEFINE c == ClerkOf(p)
           r == person[p]
           r2 == [r EXCEPT !.pc = "paid", !.money = @ - 100]
<1>1. /\ r \in GoodPerson /\ r \in Person /\ r.pc = "answered"
      /\ r.todo # <<>> /\ Head(r.todo) = "cashier"
  BY HasErrand DEF BackAtCounter
<1>2. r2.pc = "paid" /\ r2.todo = r.todo /\ r2.line = r.line
  BY <1>1 DEF Person
<1>3. r2 \in GoodPerson
  BY <1>1, GoodPay
<1>4. SameLine(c, counter[c])
  BY DEF SameLine, Shape
<1>5. SignalAndWaitAt(c, counter[c], [person EXCEPT ![p] = r2], clerk, p)
  BY DEF Pay
<1>6. StaysInside(p, r, r2) /\ KeepsLine(r, r2) /\ KeepsVisit(r, r2)
  BY <1>1, <1>2 DEF StaysInside, KeepsLine, KeepsVisit, InsidePc, EngagedPc, InLinePc, AtCounterPc
<1> HIDE DEF c, r2
<1> QED
  BY <1>3, <1>4, <1>5, <1>6, PersonSignals DEF VisitsKept

\* A step of p alone, that changes nothing about the lines.
LEMMA PersonMoves ==
  ASSUME PersonsInOrder, NEW p \in Persons, NEW r2 \in GoodPerson, person' = [person EXCEPT ![p] = r2]
  PROVE  /\ PersonsInOrder' /\ \A q \in Persons : person'[q] = IF q = p THEN r2 ELSE person[q]
         /\ StaysInside(p, person[p], r2) => PersonsStay
         /\ KeepsVisit(person[p], r2) => VisitsKept
         /\ KeepsLine(person[p], r2) => \A q \in Persons : KeepsLine(person[q], person'[q])
<1>1. PersonsInOrder' /\ \A q \in Persons : person'[q] = IF q = p THEN r2 ELSE person[q]
  BY DEF PersonsInOrder
<1> QED
  BY <1>1, NothingMoves DEF PersonsStay, VisitsKept

LEMMA LeaveCounterEffect ==
  ASSUME Shape, PersonsInOrder, NEW p \in Persons, NEW ok \in BOOLEAN, NEW k, k # "leave",
         NEW pc \in {"answered", "served"}, pc = "served" => ok, BackAtCounter(p, k, pc), LeaveCounter(p, ok)
  PROVE  PersonsInOrder' /\ PersonsStay /\ LinesKept /\ VisitsKept
<1> DEFINE r == person[p]
           r2 == Return(p, ok)
<1>1. r \in GoodPerson /\ r \in Person /\ r.pc = pc /\ r.todo # <<>>
  BY HasErrand DEF BackAtCounter
<1>2. r2.pc = IF p \in Customers THEN "loop" ELSE "errand"
  BY <1>1 DEF Person, Return
<1>3. r2 \in GoodPerson
  BY <1>1, GoodReturn DEF Paid
<1>4. StaysInside(p, r, r2) /\ KeepsLine(r, r2) /\ KeepsVisit(r, r2)
  BY <1>1, <1>2 DEF StaysInside, KeepsLine, KeepsVisit, InsidePc, EngagedPc, InLinePc, AtCounterPc
<1>5. \A d \in Clerks : counter'[d].count = counter[d].count /\ counter'[d].queue = counter[d].queue
  BY DEF LeaveCounter, Shape, SomeCounter
<1>6. person' = [person EXCEPT ![p] = r2]
  BY DEF LeaveCounter
<1> HIDE DEF r2
<1> QED
  BY <1>3, <1>4, <1>5, <1>6, PersonMoves DEF LinesKept
-----------------------------------------------------------------------------
(***************************************************************************)
(* The lines: a count is the number of persons in line, asleep or woken,   *)
(* and whoever is in a queue is asleep in that line, once.                 *)
(***************************************************************************)
InLine(c, b) ==
  {p \in Persons : person[p].pc \in InLinePc /\ ClerkOf(p) = c /\ person[p].bribe = b}

LineInOrder(c, b) ==
  LET q == counter[c].queue[b]
  IN  /\ counter[c].count[b] = Cardinality(InLine(c, b))
      /\ \A j, k \in DOMAIN q : q[j] = q[k] => j = k
      /\ \A j \in DOMAIN q : q[j] \in InLine(c, b) /\ person[q[j]].pc = "inLine"

LinesInOrder == \A c \in Clerks : \A b \in BOOLEAN : LineInOrder(c, b)

LEMMA InLineFinite ==
  ASSUME NEW c, NEW b
  PROVE  IsFiniteSet(InLine(c, b)) /\ Cardinality(InLine(c, b)) \in Nat
<1>1. InLine(c, b) \subseteq Persons
  BY DEF InLine
<1>2. IsFiniteSet(InLine(c, b))
  BY <1>1, PersonsAssumption, FS_Subset
<1> QED
  BY <1>2, FS_CardinalityType

\* Who is in line does not change if nobody gets in line or leaves one.
LEMMA SameInLine ==
  ASSUME NEW c, NEW b,
         \A p \in Persons : /\ person'[p].pc \in InLinePc <=> person[p].pc \in InLinePc
                            /\ person[p].pc \in InLinePc => /\ person'[p].todo = person[p].todo
                                                            /\ person'[p].line = person[p].line
                                                            /\ person'[p].bribe = person[p].bribe
  PROVE  InLine(c, b)' = InLine(c, b)
BY DEF InLine, ClerkOf, Errand

\* One line from another state with the same persons in it and the same count.
LEMMA LineKept ==
  ASSUME NEW c, NEW b, LineInOrder(c, b), InLine(c, b)' = InLine(c, b),
         counter'[c].count[b] = counter[c].count[b], counter'[c].queue[b] = counter[c].queue[b],
         \A j \in DOMAIN counter[c].queue[b] : person'[counter[c].queue[b][j]].pc = "inLine"
  PROVE  LineInOrder(c, b)'
BY DEF LineInOrder

LEMMA LinesKeptStep ==
  ASSUME LinesInOrder, LinesKept
  PROVE  LinesInOrder'
<1>1. ASSUME NEW c \in Clerks, NEW b \in BOOLEAN PROVE LineInOrder(c, b)'
  <2>1. LineInOrder(c, b)
    BY DEF LinesInOrder
  <2>2. InLine(c, b)' = InLine(c, b)
    BY SameInLine DEF LinesKept, KeepsLine
  <2>3. counter'[c].count[b] = counter[c].count[b] /\ counter'[c].queue[b] = counter[c].queue[b]
    BY DEF LinesKept
  <2>4. ASSUME NEW j \in DOMAIN counter[c].queue[b] PROVE person'[counter[c].queue[b][j]].pc = "inLine"
    <3>1. counter[c].queue[b][j] \in Persons /\ person[counter[c].queue[b][j]].pc = "inLine"
      BY <2>1 DEF LineInOrder, InLine
    <3> QED
      BY <3>1 DEF LinesKept, KeepsLine, InLinePc
  <2> QED
    BY <2>1, <2>2, <2>3, <2>4, LineKept
<1> QED
  BY <1>1 DEF LinesInOrder

\* A nonempty set of numbers has a least one.
LEMMA LeastNat ==
  ASSUME NEW S \in SUBSET Nat, S # {}
  PROVE  \E x \in S : \A y \in S : x <= y
<1>1. \E x \in S : \A y \in S : ~(<<y, x>> \in OpToRel(<, Nat))
  BY NatLessThanWellFounded, WFMin
<1>2. PICK x \in S : \A y \in S : ~(<<y, x>> \in OpToRel(<, Nat))
  BY <1>1
<1>3. \A y \in S : ~(y < x)
  BY <1>2 DEF OpToRel
<1> QED
  BY <1>3

\* pickShortestLine finds a line of its kind: one is open.
LEMMA ShortestLine ==
  ASSUME Shape, ALineIsOpen, LinesInOrder, NEW k \in Kinds, NEW b \in BOOLEAN
  PROVE  pickShortestLine(k, b) \in Lines(k)
<1> DEFINE open == {i \in Lines(k) : counter[<<k, i>>].state # "ONBREAK"}
           length(i) == counter[<<k, i>>].count[b]
           S == {length(i) : i \in open}
<1>1. open # {} /\ open \in SUBSET Nat
  BY ClerkCountAssumption DEF ALineIsOpen, Lines
<1>2. \A i \in open : length(i) \in Nat
  <2>1. ASSUME NEW i \in open PROVE length(i) \in Nat
    <3>1. <<k, i>> \in Clerks
      BY ClerksDef
    <3>2. length(i) = Cardinality(InLine(<<k, i>>, b))
      BY <3>1 DEF LinesInOrder, LineInOrder
    <3> QED
      BY <3>2, InLineFinite
  <2> QED
    BY <2>1
<1> HIDE DEF open, length
<1>3. PICK m \in S : \A y \in S : m <= y
  <2>1. S \in SUBSET Nat /\ S # {}
    BY <1>1, <1>2
  <2> HIDE DEF S
  <2> QED
    BY <2>1, LeastNat
<1> DEFINE T == {i \in open : length(i) = m}
<1>4. PICK i \in T : \A j \in T : i <= j
  <2>1. T \in SUBSET Nat /\ T # {}
    BY <1>1, <1>3
  <2> HIDE DEF T
  <2> QED
    BY <2>1, LeastNat
<1>5. i \in open /\ \A j \in open : length(i) < length(j) \/ (length(i) = length(j) /\ i <= j)
  <2>1. m \in Nat /\ i \in open /\ length(i) = m
    BY <1>2, <1>3, <1>4
  <2>2. ASSUME NEW j \in open PROVE length(i) < length(j) \/ (length(i) = length(j) /\ i <= j)
    <3>1. length(j) \in S /\ length(j) \in Nat
      BY <1>2
    <3>2. m <= length(j)
      BY <1>3, <3>1
    <3>3. CASE length(j) = m
      BY <1>4, <2>1, <3>3
    <3>4. CASE length(j) # m
      BY <2>1, <3>1, <3>2, <3>4
    <3> QED
      BY <3>3, <3>4
  <2> QED
    BY <2>1, <2>2
<1>6. pickShortestLine(k, b) =
        CHOOSE x \in open : \A j \in open : length(x) < length(j) \/ (length(x) = length(j) /\ x <= j)
  BY DEF pickShortestLine, open, length
<1>7. pickShortestLine(k, b) \in open
  BY <1>5, <1>6
<1> QED
  BY <1>7 DEF open

\* One person more, or one fewer, in a line.
LEMMA OneMore ==
  ASSUME NEW S, IsFiniteSet(S), NEW p, p \notin S
  PROVE  Cardinality(S \cup {p}) = Cardinality(S) + 1
BY FS_AddElement, FS_CardinalityType

LEMMA OneFewer ==
  ASSUME NEW S, IsFiniteSet(S), NEW p \in S
  PROVE  Cardinality(S \ {p}) = Cardinality(S) - 1
BY FS_RemoveElement, FS_CardinalityType

\* What it takes for a line to be in order after a step.
LEMMA LineShown ==
  ASSUME NEW c, NEW b, NEW q, q = counter'[c].queue[b], counter'[c].count[b] = Cardinality(InLine(c, b)'),
         \A j \in DOMAIN q : q[j] \in InLine(c, b)' /\ person'[q[j]].pc = "inLine",
         \A j, l \in DOMAIN q : q[j] = q[l] => j = l
  PROVE  LineInOrder(c, b)'
BY DEF LineInOrder

\* p, who is in no line, gets in line b of clerk c.
LEMMA LineJoined ==
  ASSUME Shape, PersonsInOrder, LinesInOrder, NEW p \in Persons, person[p].pc = "errand",
         NEW c \in Clerks, NEW b \in BOOLEAN, NEW r2 \in GoodPerson,
         r2.pc = "inLine", r2.bribe = b, <<Errand(p), r2.line>> = c, r2.todo = person[p].todo,
         person' = [person EXCEPT ![p] = r2],
         counter' = [counter EXCEPT ![c] = [counter[c] EXCEPT !.count[b] = @ + 1, !.queue[b] = Append(@, p)]]
  PROVE  LinesInOrder'
<1>1. \A q \in Persons : person'[q] = IF q = p THEN r2 ELSE person[q]
  BY DEF PersonsInOrder
<1>2. ClerkOf(p)' = c
  BY <1>1 DEF ClerkOf, Errand
<1>3. \A d, e : InLine(d, e)' = IF d = c /\ e = b THEN InLine(d, e) \cup {p} ELSE InLine(d, e)
  <2>1. ASSUME NEW q \in Persons, q # p PROVE ClerkOf(q)' = ClerkOf(q)
    BY <1>1, <2>1 DEF ClerkOf, Errand
  <2>2. p \notin {q \in Persons : person[q].pc \in InLinePc}
    BY DEF InLinePc
  <2> QED
    BY <1>1, <1>2, <2>1, <2>2 DEF InLine, InLinePc
<1>4. p \notin InLine(c, b)
  BY DEF InLine, InLinePc
<1>5. /\ counter[c] \in SomeCounter
      /\ counter[c].count \in [BOOLEAN -> Int] /\ counter[c].queue \in [BOOLEAN -> Seq(Persons)]
  BY DEF Shape, SomeCounter
<1> DEFINE cnt == [counter[c].count EXCEPT ![b] = @ + 1]
           que == [counter[c].queue EXCEPT ![b] = Append(@, p)]
<1>6. counter'[c].count = cnt /\ counter'[c].queue = que
  BY <1>5 DEF Shape, SomeCounter
<1>7. \A d \in Clerks : d # c => counter'[d] = counter[d]
  BY DEF Shape
<1>8. \A e \in BOOLEAN : /\ cnt[e] = IF e = b THEN counter[c].count[b] + 1 ELSE counter[c].count[e]
                         /\ que[e] = IF e = b THEN Append(counter[c].queue[b], p) ELSE counter[c].queue[e]
  BY <1>5
<1> HIDE DEF cnt, que
<1>9. ASSUME NEW d \in Clerks, NEW e \in BOOLEAN PROVE LineInOrder(d, e)'
  <2>1. LineInOrder(d, e)
    BY DEF LinesInOrder
  <2>2. ASSUME NEW j \in DOMAIN counter[d].queue[e]
        PROVE  /\ counter[d].queue[e][j] # p
               /\ counter[d].queue[e][j] \in InLine(d, e) /\ counter[d].queue[e][j] \in Persons
               /\ person'[counter[d].queue[e][j]].pc = "inLine"
    BY <1>1, <2>1 DEF LineInOrder, InLine
  <2>3. CASE ~(d = c /\ e = b)
    <3>1. counter'[d].count[e] = counter[d].count[e] /\ counter'[d].queue[e] = counter[d].queue[e]
      BY <1>6, <1>7, <1>8, <2>3
    <3>2. InLine(d, e)' = InLine(d, e)
      BY <1>3, <2>3
    <3> QED
      BY <2>1, <2>2, <3>1, <3>2, LineKept
  <2>4. CASE d = c /\ e = b
    <3> DEFINE q == counter[c].queue[b]
               q2 == counter'[c].queue[b]
    <3>1. q \in Seq(Persons) /\ q2 = Append(q, p) /\ counter'[c].count[b] = counter[c].count[b] + 1
      BY <1>5, <1>6, <1>8
    <3>2. counter'[c].count[b] = Cardinality(InLine(c, b)')
      <4>1. counter[c].count[b] = Cardinality(InLine(c, b)) /\ InLine(c, b)' = InLine(c, b) \cup {p}
        BY <1>3, <2>1, <2>4 DEF LineInOrder
      <4>2. PICK S : S = InLine(c, b)
        OBVIOUS
      <4>3. Cardinality(S \cup {p}) = Cardinality(S) + 1
        BY <1>4, <4>2, InLineFinite, OneMore
      <4> QED
        BY <3>1, <4>1, <4>2, <4>3
    <3>3. \A j, l \in DOMAIN q : q[j] = q[l] => j = l
      BY <2>1, <2>4 DEF LineInOrder
    <3>4. \A j \in DOMAIN q : q[j] # p /\ q[j] \in InLine(c, b) /\ person'[q[j]].pc = "inLine"
      BY <2>2, <2>4
    <3> HIDE DEF q, q2
    <3>5. /\ DOMAIN q = 1 .. Len(q) /\ Len(q) \in Nat /\ DOMAIN q2 = 1 .. Len(q) + 1
          /\ \A j \in 1 .. Len(q) + 1 : q2[j] = IF j \in DOMAIN q THEN q[j] ELSE p
      BY <3>1
    <3>6. \A j, l \in DOMAIN q2 : q2[j] = q2[l] => j = l
      BY <3>3, <3>4, <3>5
    <3>7. \A j \in DOMAIN q2 : q2[j] \in InLine(c, b)' /\ person'[q2[j]].pc = "inLine"
      BY <1>1, <1>3, <3>4, <3>5
    <3> QED
      BY <2>4, <3>2, <3>6, <3>7 DEF LineInOrder, q2
  <2> QED
    BY <2>3, <2>4
<1> QED
  BY <1>9 DEF LinesInOrder

\* p, who was woken in line, leaves it.
LEMMA LineLeft ==
  ASSUME Shape, PersonsInOrder, LinesInOrder, NEW p \in Persons, person[p].pc = "woken",
         NEW c, c = ClerkOf(p), NEW b, b = person[p].bribe,
         NEW r2, r2.pc \notin InLinePc, person' = [person EXCEPT ![p] = r2],
         NEW s, counter' = [counter EXCEPT ![c] = [counter[c] EXCEPT !.count[b] = @ - 1, !.state = s]]
  PROVE  LinesInOrder'
<1>1. \A q \in Persons : person'[q] = IF q = p THEN r2 ELSE person[q]
  BY DEF PersonsInOrder
<1>2. b \in BOOLEAN
  BY DEF PersonsInOrder, GoodPerson, Person
<1>3. \A d, e : InLine(d, e)' = IF d = c /\ e = b THEN InLine(d, e) \ {p} ELSE InLine(d, e)
  <2>1. ASSUME NEW q \in Persons, q # p PROVE ClerkOf(q)' = ClerkOf(q)
    BY <1>1, <2>1 DEF ClerkOf, Errand
  <2> QED
    BY <1>1, <2>1 DEF InLine
<1>4. p \in InLine(c, b)
  BY DEF InLine, InLinePc
<1>5. \A d \in Clerks : d # c => counter'[d] = counter[d]
  BY DEF Shape
<1>6. ASSUME c \in Clerks
      PROVE  /\ counter'[c].queue = counter[c].queue
             /\ \A e \in BOOLEAN : counter'[c].count[e] =
                                     IF e = b THEN counter[c].count[b] - 1 ELSE counter[c].count[e]
  <2>1. counter[c] \in SomeCounter /\ counter[c].count \in [BOOLEAN -> Int]
    BY <1>6 DEF Shape, SomeCounter
  <2> DEFINE cnt == [counter[c].count EXCEPT ![b] = @ - 1]
  <2>2. counter'[c].count = cnt /\ counter'[c].queue = counter[c].queue
    BY <1>6, <2>1 DEF Shape, SomeCounter
  <2>3. \A e \in BOOLEAN : cnt[e] = IF e = b THEN counter[c].count[b] - 1 ELSE counter[c].count[e]
    BY <1>2, <2>1
  <2> QED
    BY <2>2, <2>3
<1>7. ASSUME NEW d \in Clerks, NEW e \in BOOLEAN PROVE LineInOrder(d, e)'
  <2>1. LineInOrder(d, e) /\ counter'[d].queue[e] = counter[d].queue[e]
    BY <1>5, <1>6 DEF LinesInOrder
  <2>2. ASSUME NEW j \in DOMAIN counter[d].queue[e]
        PROVE  /\ counter[d].queue[e][j] # p
               /\ counter[d].queue[e][j] \in InLine(d, e)
               /\ person'[counter[d].queue[e][j]].pc = "inLine"
    BY <1>1, <2>1 DEF LineInOrder, InLine
  <2>3. CASE ~(d = c /\ e = b)
    <3>1. counter'[d].count[e] = counter[d].count[e]
      BY <1>5, <1>6, <2>3
    <3>2. InLine(d, e)' = InLine(d, e)
      BY <1>3, <2>3
    <3> QED
      BY <2>1, <2>2, <3>1, <3>2, LineKept
  <2>4. CASE d = c /\ e = b
    <3>1. counter[c].count[b] = Cardinality(InLine(c, b)) /\ InLine(c, b)' = InLine(c, b) \ {p}
      BY <1>3, <2>1, <2>4 DEF LineInOrder
    <3>2. counter'[c].count[b] = counter[c].count[b] - 1
      BY <1>2, <1>6, <2>4
    <3>3. PICK S : S = InLine(c, b)
      OBVIOUS
    <3>4. Cardinality(S \ {p}) = Cardinality(S) - 1
      BY <1>4, <3>3, InLineFinite, OneFewer
    <3>5. counter'[c].count[b] = Cardinality(InLine(c, b)')
      BY <3>1, <3>2, <3>3, <3>4
    <3>6. \A j \in DOMAIN counter[c].queue[b] : counter[c].queue[b][j] \in InLine(c, b)'
      BY <2>2, <2>4, <3>1
    <3>7. \A j, l \in DOMAIN counter[c].queue[b] : counter[c].queue[b][j] = counter[c].queue[b][l] => j = l
      BY <2>1, <2>4 DEF LineInOrder
    <3>8. \A j \in DOMAIN counter[c].queue[b] : person'[counter[c].queue[b][j]].pc = "inLine"
      BY <2>2, <2>4
    <3>9. counter'[c].queue[b] = counter[c].queue[b]
      BY <2>1, <2>4
    <3>10. LineInOrder(c, b)'
      <4>1. PICK q : q = counter[c].queue[b] /\ q = counter'[c].queue[b]
        BY <3>9
      <4>2. (\A j \in DOMAIN q : q[j] \in InLine(c, b)' /\ person'[q[j]].pc = "inLine")
             /\ \A j, l \in DOMAIN q : q[j] = q[l] => j = l
        BY <3>6, <3>7, <3>8, <4>1
      <4> QED
        BY <3>5, <4>1, <4>2, LineShown, Zenon
    <3> QED
      BY <2>4, <3>10
  <2> QED
    BY <2>3, <2>4
<1> QED
  BY <1>7 DEF LinesInOrder

LEMMA GetInLineEffect ==
  ASSUME Shape, ALineIsOpen, PersonsInOrder, LinesInOrder, NEW p \in Persons,
         NEW k, k # "leave", GetInLine(p, k)
  PROVE  PersonsInOrder' /\ PersonsStay /\ VisitsKept /\ LinesInOrder'
<1> DEFINE r == person[p]
           at(b) == <<k, pickShortestLine(k, b)>>
           waits(b) == counter[at(b)].state # "AVAILABLE"
           x(b) == IF waits(b) THEN "inLine" ELSE "called"
<1>1. /\ r \in GoodPerson /\ r \in Person /\ r.pc = "errand" /\ r.todo # <<>>
      /\ k \in Kinds /\ Errand(p) = k /\ Head(r.todo) = k
  BY HasErrand DEF GetInLine
<1>2. PICK b \in BOOLEAN :
        /\ b => r.money > 500
        /\ person' = [person EXCEPT ![p] = [r EXCEPT !.pc = x(b), !.line = at(b)[2], !.bribe = b]]
        /\ counter' = [counter EXCEPT ![at(b)] =
                         IF waits(b)
                         THEN [counter[at(b)] EXCEPT !.count[b] = @ + 1, !.queue[b] = Append(@, p)]
                         ELSE [counter[at(b)] EXCEPT !.state = "BUSY"]]
  BY DEF GetInLine
<1> DEFINE c == at(b)
           i == pickShortestLine(k, b)
           r2 == [r EXCEPT !.pc = x(b), !.line = i, !.bribe = b]
<1>3. i \in Lines(k) /\ i \in Nat /\ c = <<k, i>> /\ c \in Clerks
  <2>1. i \in Lines(k)
    BY <1>1, ShortestLine
  <2> QED
    BY <1>1, <2>1, ClerksDef, ClerkCountAssumption DEF Lines
<1>4. person' = [person EXCEPT ![p] = r2]
  BY <1>2
<1>5. x(b) \in {"inLine", "called"} /\ (x(b) = "inLine" <=> waits(b))
  OBVIOUS
<1> HIDE DEF x, i
<1>6. r2.pc = x(b) /\ r2.bribe = b /\ r2.line = i /\ r2.todo = r.todo
  BY <1>1 DEF Person
<1>7. r2 \in GoodPerson
  BY <1>1, <1>2, <1>3, <1>5, GoodInLine
<1>8. StaysInside(p, r, r2) /\ KeepsVisit(r, r2)
  BY <1>1, <1>5, <1>6 DEF StaysInside, KeepsVisit, InsidePc, EngagedPc, AtCounterPc
<1> HIDE DEF r2
<1>9. PersonsInOrder' /\ PersonsStay /\ VisitsKept
  BY <1>4, <1>7, <1>8, PersonMoves
<1>10. CASE waits(b)
  <2>1. counter' = [counter EXCEPT ![c] =
                      [counter[c] EXCEPT !.count[b] = @ + 1, !.queue[b] = Append(@, p)]]
    BY <1>2, <1>10
  <2>2. <<Errand(p), r2.line>> = c
    BY <1>1, <1>3, <1>6
  <2> HIDE DEF c
  <2>3. LinesInOrder'
    BY <1>1, <1>3, <1>4, <1>5, <1>6, <1>7, <1>10, <2>1, <2>2, LineJoined
  <2> QED
    BY <1>9, <2>3
<1>11. CASE ~waits(b)
  <2>1. counter' = [counter EXCEPT ![c] = [counter[c] EXCEPT !.state = "BUSY"]]
    BY <1>2, <1>11
  <2> HIDE DEF c
  <2>2. \A d \in Clerks : counter'[d].count = counter[d].count /\ counter'[d].queue = counter[d].queue
    BY <2>1 DEF Shape, SomeCounter
  <2>3. KeepsLine(r, r2)
    BY <1>1, <1>5, <1>6, <1>11 DEF KeepsLine, InLinePc
  <2>4. LinesKept
    BY <1>4, <1>7, <2>2, <2>3, PersonMoves DEF LinesKept
  <2> QED
    BY <1>9, <2>4, LinesKeptStep
<1> QED
  BY <1>10, <1>11

LEMMA WokenInLineEffect ==
  ASSUME Shape, PersonsInOrder, LinesInOrder, NEW p \in Persons, NEW k, k # "leave", WokenInLine(p, k)
  PROVE  PersonsInOrder' /\ PersonsStay /\ VisitsKept /\ LinesInOrder'
<1> DEFINE r == person[p]
           c == ClerkOf(p)
           b == r.bribe
           signalled == counter[c].state = "SIGNALEDCUSTOMER"
           s == IF signalled THEN "BUSY" ELSE counter[c].state
           r2 == IF signalled THEN ToCounter(p) ELSE [r EXCEPT !.pc = "unsignalled"]
<1>1. r \in GoodPerson /\ r \in Person /\ r.pc = "woken"
  BY HasErrand DEF WokenInLine
<1>2. counter' = [counter EXCEPT ![c] = [counter[c] EXCEPT !.count[b] = @ - 1, !.state = s]]
  BY DEF WokenInLine, Shape, SomeCounter
<1>3. person' = [person EXCEPT ![p] = r2]
  BY DEF WokenInLine
<1>4. ToCounter(p) \in GoodPerson /\ ToCounter(p).pc = "called"
  BY <1>1, GoodToCounter DEF ToCounter, Owing, InLinePc, Person
<1>5. [r EXCEPT !.pc = "unsignalled"] \in GoodPerson /\ [r EXCEPT !.pc = "unsignalled"].pc = "unsignalled"
  BY <1>1, SetPc DEF PcOfPerson, Paid, Owing, InLinePc, WithClerkPc, Person
<1>6. r2 \in GoodPerson /\ r2.pc \in {"called", "unsignalled"}
  BY <1>4, <1>5
<1> HIDE DEF r2, s
<1>7. StaysInside(p, r, r2) /\ KeepsVisit(r, r2) /\ r2.pc \notin InLinePc
  BY <1>1, <1>6 DEF StaysInside, KeepsVisit, InsidePc, EngagedPc, AtCounterPc, InLinePc
<1>8. PersonsInOrder' /\ PersonsStay /\ VisitsKept
  BY <1>3, <1>6, <1>7, PersonMoves
<1> HIDE DEF c, b
<1>9. LinesInOrder'
  BY <1>1, <1>2, <1>3, <1>7, LineLeft DEF c, b
<1> QED
  BY <1>8, <1>9

\* When a person leaves the counter of a clerk of kind k: with a picture it likes, and
\* with no errand at the passport clerks done unless it was not punished.
MayLeave(p, k, ok, pc) ==
  /\ k = "picture" => counter[ClerkOf(p)].picture # 0
  /\ k = "passport" /\ ok => p \notin filed.punishment
  /\ k = "cashier" /\ pc = "answered" => p \in filed.rejection
  /\ pc = "served" => ok /\ k = "cashier"

\* The steps of the persons' interactions with the clerks.
LEMMA InteractionCases ==
  ASSUME NEW p \in Persons, Interaction(p)
  PROVE  \/ \E k : k # "leave" /\ (GetInLine(p, k) \/ WokenInLine(p, k) \/ GiveSSN(p, k))
         \/ \E like \in {0, 1} : BackAtCounter(p, "picture", "answered") /\ Review(p, like)
         \/ BackAtCounter(p, "cashier", "answered") /\ Pay(p)
         \/ \E k : \E ok \in BOOLEAN : \E pc \in {"answered", "served"} :
              k # "leave" /\ MayLeave(p, k, ok, pc) /\ BackAtCounter(p, k, pc) /\ LeaveCounter(p, ok)
<1> DEFINE Leaves(k, ok, pc) ==
             k # "leave" /\ MayLeave(p, k, ok, pc) /\ BackAtCounter(p, k, pc) /\ LeaveCounter(p, ok)
           Left == \E k : \E ok \in BOOLEAN : \E pc \in {"answered", "served"} : Leaves(k, ok, pc)
           Line(k) == GetInLine(p, k) \/ WokenInLine(p, k) \/ GiveSSN(p, k)
           Reviews == \E like \in {0, 1} : BackAtCounter(p, "picture", "answered") /\ Review(p, like)
<1>1. ASSUME NEW k, k # "leave", NEW ok \in BOOLEAN, MayLeave(p, k, ok, "answered"),
             BackAtCounter(p, k, "answered"), LeaveCounter(p, ok)
      PROVE  Left
  BY <1>1
<1>2. ASSUME BackAtCounter(p, "cashier", "served"), LeaveCounter(p, TRUE) PROVE Left
  <2>1. PICK ok \in BOOLEAN : ok = TRUE
    OBVIOUS
  <2>2. LeaveCounter(p, ok)
    BY <1>2, <2>1, Zenon
  <2>3. MayLeave(p, "cashier", ok, "served")
    BY <2>1 DEF MayLeave
  <2> QED
    BY <1>2, <2>2, <2>3
<1>3. PICK yes \in BOOLEAN : yes = TRUE
  OBVIOUS
<1>4. PICK no \in BOOLEAN : no = FALSE
  OBVIOUS
<1>5. PICK ok \in BOOLEAN : ok = (p \notin filed.punishment)
  OBVIOUS
<1>6. CASE customerApplicationClerkInteraction(p)
  <2>1. Line("application") \/ (BackAtCounter(p, "application", "answered") /\ LeaveCounter(p, yes))
    BY <1>3, <1>6, Zenon DEF customerApplicationClerkInteraction
  <2>2. MayLeave(p, "application", yes, "answered")
    BY DEF MayLeave
  <2> QED
    BY <1>1, <2>1, <2>2
<1>7. CASE customerPictureClerkInteraction(p)
  <2>1. \/ Line("picture")
        \/ Reviews
        \/ /\ BackAtCounter(p, "picture", "answered") /\ LeaveCounter(p, yes)
           /\ counter[ClerkOf(p)].picture # 0
    BY <1>3, <1>7, Zenon DEF customerPictureClerkInteraction, LikePicture
  <2>2. counter[ClerkOf(p)].picture # 0 => MayLeave(p, "picture", yes, "answered")
    BY DEF MayLeave
  <2> QED
    BY <1>1, <2>1, <2>2
<1>8. CASE customerPassportClerkInteraction(p)
  <2>1. Line("passport") \/ (BackAtCounter(p, "passport", "answered") /\ LeaveCounter(p, ok))
    BY <1>5, <1>8, Zenon DEF customerPassportClerkInteraction
  <2>2. MayLeave(p, "passport", ok, "answered")
    BY <1>5 DEF MayLeave
  <2> QED
    BY <1>1, <2>1, <2>2
<1>9. CASE customerCashierInteraction(p)
  <2>1. \/ Line("cashier")
        \/ BackAtCounter(p, "cashier", "answered") /\ p \in filed.rejection /\ LeaveCounter(p, no)
        \/ BackAtCounter(p, "cashier", "answered") /\ Pay(p)
        \/ BackAtCounter(p, "cashier", "served") /\ LeaveCounter(p, TRUE)
    BY <1>4, <1>9, Zenon DEF customerCashierInteraction
  <2>2. p \in filed.rejection => MayLeave(p, "cashier", no, "answered")
    BY DEF MayLeave
  <2> QED
    BY <1>1, <1>2, <2>1, <2>2
<1> QED
  BY <1>6, <1>7, <1>8, <1>9 DEF Interaction

\* The persons' interactions with the clerks.
LEMMA InteractionEffect ==
  ASSUME Shape, ALineIsOpen, PersonsInOrder, LinesInOrder, NEW p \in Persons, Interaction(p)
  PROVE  PersonsInOrder' /\ PersonsStay /\ LinesInOrder'
<1>1. ASSUME NEW k, k # "leave", GetInLine(p, k) \/ WokenInLine(p, k) \/ GiveSSN(p, k)
      PROVE  PersonsInOrder' /\ PersonsStay /\ LinesInOrder'
  BY <1>1, GetInLineEffect, WokenInLineEffect, GiveSSNEffect, LinesKeptStep
<1>2. ASSUME NEW like \in {0, 1}, BackAtCounter(p, "picture", "answered"), Review(p, like)
      PROVE  PersonsInOrder' /\ PersonsStay /\ LinesInOrder'
  BY <1>2, ReviewEffect, LinesKeptStep
<1>3. ASSUME BackAtCounter(p, "cashier", "answered"), Pay(p)
      PROVE  PersonsInOrder' /\ PersonsStay /\ LinesInOrder'
  BY <1>3, PayEffect, LinesKeptStep
<1>4. ASSUME NEW k, NEW ok \in BOOLEAN, NEW pc \in {"answered", "served"},
             k # "leave", MayLeave(p, k, ok, pc), BackAtCounter(p, k, pc), LeaveCounter(p, ok)
      PROVE  PersonsInOrder' /\ PersonsStay /\ LinesInOrder'
  <2>1. pc = "served" => ok
    BY <1>4 DEF MayLeave
  <2> QED
    BY <1>4, <2>1, LeaveCounterEffect, LinesKeptStep
<1> QED
  BY <1>1, <1>2, <1>3, <1>4, InteractionCases

\* Customers and senators enter and leave: a step of p alone, and no line changes.
MovesAlone(p, r2) ==
  /\ r2 \in GoodPerson
  /\ person' = [person EXCEPT ![p] = r2]
  /\ KeepsLine(person[p], r2)
  /\ KeepsVisit(person[p], r2)
  /\ \A c \in Clerks : counter'[c].count = counter[c].count /\ counter'[c].queue = counter[c].queue

LEMMA SetPcAlone ==
  ASSUME PersonsInOrder, NEW p \in Persons, NEW x \in PcOfPerson, person' = [person EXCEPT ![p].pc = x],
         UNCHANGED counter, {x, person[p].pc} \cap (Paid \cup WithClerkPc) = {}
  PROVE  \E r2 : MovesAlone(p, r2) /\ r2.pc = x
<1> DEFINE r == person[p]
           r2 == [r EXCEPT !.pc = x]
<1>1. r \in GoodPerson /\ r \in Person
  BY DEF PersonsInOrder, GoodPerson
<1>2. r2 \in GoodPerson
  BY <1>1, SetPc DEF WithClerkPc
<1>3. r2.pc = x
  BY <1>1 DEF Person
<1>4. KeepsLine(r, r2) /\ KeepsVisit(r, r2)
  BY <1>3 DEF KeepsLine, KeepsVisit, WithClerkPc, Owing
<1>5. person' = [person EXCEPT ![p] = r2]
  OBVIOUS
<1> HIDE DEF r2
<1> QED
  BY <1>2, <1>3, <1>4, <1>5 DEF MovesAlone

LEMMA GoneAlone ==
  ASSUME PersonsInOrder, NEW p \in Persons, person[p].pc = "errand",
         person' = [person EXCEPT ![p] = [NoLocals EXCEPT !.pc = "gone"]], UNCHANGED counter
  PROVE  \E r2 : MovesAlone(p, r2) /\ r2.pc = "gone"
<1> DEFINE r2 == [NoLocals EXCEPT !.pc = "gone"]
<1>1. r2 \in GoodPerson
  BY GoodGone
<1>2. r2.pc = "gone"
  BY DEF NoLocals
<1>3. person' = [person EXCEPT ![p] = r2]
  OBVIOUS
<1> HIDE DEF r2
<1>4. KeepsLine(person[p], r2) /\ KeepsVisit(person[p], r2)
  BY <1>2 DEF KeepsLine, KeepsVisit, InLinePc, AtCounterPc
<1> QED
  BY <1>1, <1>2, <1>3, <1>4 DEF MovesAlone

\* A customer that goes outside, or goes on.
LEMMA CheckSenatorAlone ==
  ASSUME Shape, PersonsInOrder, NEW p \in Persons, customerCheckSenator(p)
  PROVE  /\ person[p].pc \in {"loop", "unsignalled"}
         /\ \E r2 : /\ MovesAlone(p, r2)
                    /\ r2.pc = IF office.senatorPresentWaitOutSide THEN "outside"
                               ELSE IF person[p].pc = "loop" THEN "errand" ELSE "called"
<1> DEFINE r == person[p]
           flag == office.senatorPresentWaitOutSide
<1>1. r \in GoodPerson /\ r \in Person /\ r.pc \in {"loop", "unsignalled"}
  BY DEF PersonsInOrder, GoodPerson, customerCheckSenator
<1>2. CASE flag
  <2> DEFINE next == IF r.pc = "unsignalled" THEN Return(p, FALSE) ELSE [r EXCEPT !.pc = "errand"]
             r2 == [next EXCEPT !.back = next.pc, !.pc = "outside"]
  <2>1. person' = [person EXCEPT ![p] = r2] /\ UNCHANGED counter
    BY <1>2 DEF customerCheckSenator, customerSenatorPresentWaitOutside
  <2>2. Return(p, FALSE) \in GoodPerson /\ Return(p, FALSE).pc \in {"loop", "errand"}
    <3>1. PICK no \in BOOLEAN : no = FALSE
      OBVIOUS
    <3>2. Return(p, no) \in GoodPerson
      <4>1. ~no /\ r.pc \notin Paid
        BY <1>1, <3>1 DEF Paid
      <4> QED
        BY <1>1, <4>1, GoodReturn
    <3>3. Return(p, no).pc \in {"loop", "errand"}
      BY <1>1 DEF Return, Person
    <3> QED
      BY <3>1, <3>2, <3>3, Zenon
  <2>3. r.pc = "loop" => [r EXCEPT !.pc = "errand"] \in GoodPerson /\ [r EXCEPT !.pc = "errand"].pc = "errand"
    BY <1>1, SetPc DEF PcOfPerson, Paid, Owing, InLinePc, WithClerkPc, AtCounterPc, Person
  <2>4. next \in GoodPerson /\ next.pc \in {"loop", "errand"}
    BY <1>1, <2>2, <2>3, Zenon
  <2> HIDE DEF next
  <2>5. r2 \in GoodPerson
    BY <2>4, GoodOutside
  <2>6. r2.pc = "outside"
    BY <2>4 DEF GoodPerson, Person
  <2> HIDE DEF r2
  <2>7. KeepsLine(r, r2) /\ KeepsVisit(r, r2)
    BY <1>1, <2>6 DEF KeepsLine, KeepsVisit, InLinePc, AtCounterPc
  <2> QED
    BY <1>1, <1>2, <2>1, <2>5, <2>6, <2>7 DEF MovesAlone
<1>3. CASE ~flag /\ r.pc = "loop"
  <2>1. person' = [person EXCEPT ![p].pc = "errand"] /\ UNCHANGED counter
    BY <1>3 DEF customerCheckSenator
  <2>2. {"errand", r.pc} \cap (Paid \cup WithClerkPc) = {} /\ "errand" \in PcOfPerson
    BY <1>3 DEF Paid, WithClerkPc, Owing, InLinePc, AtCounterPc, PcOfPerson
  <2>3. \E r2 : MovesAlone(p, r2) /\ r2.pc = "errand"
    BY <2>1, <2>2, SetPcAlone
  <2> QED
    BY <1>1, <1>3, <2>3
<1>4. CASE ~flag /\ r.pc = "unsignalled"
  <2> DEFINE r2 == ToCounter(p)
  <2>1. person' = [person EXCEPT ![p] = r2] /\ counter' = [counter EXCEPT ![ClerkOf(p)].state = "BUSY"]
    BY <1>4 DEF customerCheckSenator
  <2>2. r2 \in GoodPerson /\ r2.pc = "called"
    BY <1>1, <1>4, GoodToCounter DEF ToCounter, Owing, InLinePc, Person
  <2> HIDE DEF r2
  <2>3. \A c \in Clerks : counter'[c].count = counter[c].count /\ counter'[c].queue = counter[c].queue
    BY <2>1 DEF Shape, SomeCounter
  <2>4. KeepsLine(r, r2) /\ KeepsVisit(r, r2)
    BY <1>4, <2>2 DEF KeepsLine, KeepsVisit, InLinePc, AtCounterPc
  <2> QED
    BY <1>1, <1>4, <2>1, <2>2, <2>3, <2>4 DEF MovesAlone
<1> QED
  BY <1>1, <1>2, <1>3, <1>4

LEMMA EnterLeaveEffect ==
  ASSUME Shape, PersonsInOrder, LinesInOrder, NEW p \in Persons, Customer(p) \/ Senator(p)
  PROVE  /\ \E r2 : MovesAlone(p, r2)
         /\ PersonsInOrder' /\ LinesInOrder' /\ VisitsKept
<1> DEFINE busy == Paid \cup WithClerkPc
<1>1. {"arriving", "letIn", "errand", "loop", "admitted", "senatorLine", "gone"} \cap busy = {}
  BY DEF Paid, WithClerkPc, Owing, InLinePc, AtCounterPc
<1>2. ASSUME NEW x \in PcOfPerson, x \notin busy, person[p].pc \notin busy,
             person' = [person EXCEPT ![p].pc = x], UNCHANGED counter
      PROVE  \E r2 : MovesAlone(p, r2)
  <2>1. {x, person[p].pc} \cap busy = {}
    BY <1>2
  <2> QED
    BY <1>2, <2>1, SetPcAlone
<1>3. {"loop", "errand", "senatorLine"} \subseteq PcOfPerson
  BY DEF PcOfPerson
<1> HIDE DEF busy
<1>4. person[p].back \in {"loop", "errand"}
  BY DEF PersonsInOrder, GoodPerson, Person
<1>5. \E r2 : MovesAlone(p, r2)
  <2>1. CASE customerCheckIn(p)
    BY <1>1, <1>2, <1>3, <2>1 DEF customerCheckIn
  <2>2. CASE customerCheckSenator(p)
    BY <2>2, CheckSenatorAlone
  <2>3. CASE customerComeBackIn(p)
    BY <1>1, <1>2, <1>3, <1>4, <2>3 DEF customerComeBackIn
  <2>4. CASE customerCheckOut(p)
    BY <2>4, GoneAlone DEF customerCheckOut
  <2>5. CASE senatorArriveAtPassportOffice(p)
    BY <1>1, <1>2, <1>3, <2>5 DEF senatorArriveAtPassportOffice
  <2>6. CASE senatorLeavePassportOffice(p)
    BY <2>6, GoneAlone DEF senatorLeavePassportOffice
  <2> QED
    BY <2>1, <2>2, <2>3, <2>4, <2>5, <2>6 DEF Customer, Senator
<1>6. PICK r2 : MovesAlone(p, r2)
  BY <1>5
<1>7. PersonsInOrder' /\ VisitsKept /\ LinesKept
  BY <1>6, PersonMoves DEF MovesAlone, LinesKept
<1> QED
  BY <1>5, <1>7, LinesKeptStep
-----------------------------------------------------------------------------
(***************************************************************************)
(* The data at the counters: a clerk goes by an SSN only when a person has *)
(* given one, and documents are filed for persons.                         *)
(***************************************************************************)
CalledPc == {"hasSSN", "showing", "shown", "charging", "charged"}
ServingPc == {"showing", "shown", "charging", "charged", "filing"}

\* Somebody has given an SSN at the counter of clerk c.
Known(c) == counter[c].SSN \in Persons

\* The only clerk that waits at the counter of clerk c is c.
OwnCV(c, q) == \A j \in DOMAIN q : q[j] \in Clerks => q[j] = c

ClerksKnow ==
  \A c \in Clerks :
    /\ OwnCV(c, counter[c].cv)
    /\ clerk[c].pc \in CalledPc => Known(c)
    /\ clerk[c].pc \in ServingPc => clerk[c].customerSSN \in Persons

VisitorsKnown == \A p \in Persons : person[p].pc \in AtCounterPc => Known(ClerkOf(p))

SSNsKnown == ClerksKnow /\ VisitorsKnown /\ filed \in Filed

KnownKept == \A c \in Clerks : Known(c) => Known(c)'

\* Whoever is with a clerk is in one of the lines of the clerks there are.
LEMMA WithClerk ==
  ASSUME PersonsInOrder, NEW p \in Persons, person[p].pc \in WithClerkPc
  PROVE  ClerkOf(p) \in Clerks
<1>1. person[p].todo # <<>> /\ person[p].line \in Lines(Head(person[p].todo))
  BY DEF PersonsInOrder, GoodPerson, Solvent
<1>2. person[p].todo \in Seq(Kinds)
  BY DEF PersonsInOrder, GoodPerson, Person
<1>3. Head(person[p].todo) \in Kinds
  BY <1>1, <1>2
<1>4. ClerkOf(p) = <<Head(person[p].todo), person[p].line>>
  BY <1>1 DEF ClerkOf, Errand
<1> QED
  BY <1>1, <1>3, <1>4, ClerksDef

\* Whoever comes to a counter gives an SSN there.
LEMMA VisitorsStillKnown ==
  ASSUME PersonsInOrder, VisitorsKnown, KnownKept,
         \A q \in Persons : KeepsVisit(person[q], person'[q]) \/ Known(ClerkOf(q))'
  PROVE  VisitorsKnown'
<1>1. ASSUME NEW q \in Persons, person'[q].pc \in AtCounterPc, KeepsVisit(person[q], person'[q])
      PROVE  Known(ClerkOf(q))'
  <2>1. person[q].pc \in AtCounterPc /\ person'[q].todo = person[q].todo /\ person'[q].line = person[q].line
    BY <1>1 DEF KeepsVisit
  <2>2. ClerkOf(q)' = ClerkOf(q)
    BY <2>1 DEF ClerkOf, Errand
  <2>3. ClerkOf(q) \in Clerks /\ Known(ClerkOf(q))
    BY <2>1, WithClerk DEF VisitorsKnown, WithClerkPc
  <2>4. PICK c \in Clerks : c = ClerkOf(q)
    BY <2>3
  <2>5. Known(c)'
    BY <2>3, <2>4 DEF KnownKept
  <2> QED
    BY <2>2, <2>4, <2>5 DEF Known
<1> QED
  BY <1>1 DEF VisitorsKnown

\* A step that brings no clerk nearer to the counter, and nobody to a condition
\* variable of one.
QuietClerks ==
  \A c \in Clerks :
    /\ clerk'[c].pc \in CalledPc => clerk[c].pc \in CalledPc
    /\ clerk'[c].pc \in ServingPc => clerk[c].pc \in ServingPc /\ clerk'[c].customerSSN = clerk[c].customerSSN

QuietCounters == \A c \in Clerks : counter'[c].cv = counter[c].cv /\ counter'[c].SSN = counter[c].SSN

LEMMA QuietKnown ==
  ASSUME ClerksKnow, QuietClerks, QuietCounters
  PROVE  ClerksKnow' /\ KnownKept
BY DEF ClerksKnow, QuietClerks, QuietCounters, KnownKept, Known, OwnCV

LEMMA UnchangedQuiet ==
  ASSUME UNCHANGED clerk
  PROVE  QuietClerks
BY DEF QuietClerks

\* The condition variable of a counter after a signal and a wait.
LEMMA SignalledOwn ==
  ASSUME NEW c, NEW q \in Seq(Persons \cup Clerks), OwnCV(c, q), NEW t \in Persons \cup {c}, c \in Clerks
  PROVE  /\ OwnCV(c, Signalled(q)) /\ OwnCV(c, Append(q, t)) /\ OwnCV(c, Append(Signalled(q), t))
         /\ q # <<>> /\ Head(q) \in Clerks => Head(q) = c
<1>1. ASSUME NEW u \in Seq(Persons \cup Clerks), OwnCV(c, u) PROVE OwnCV(c, Append(u, t))
  <2>1. ASSUME NEW j \in DOMAIN Append(u, t), Append(u, t)[j] \in Clerks PROVE Append(u, t)[j] = c
    <3>1. CASE j = Len(u) + 1
      BY <2>1, <3>1, <1>1, PersonsAssumption
    <3>2. CASE j # Len(u) + 1
      <4>1. j \in DOMAIN u /\ Append(u, t)[j] = u[j]
        BY <1>1, <2>1, <3>2
      <4> QED
        BY <1>1, <2>1, <4>1 DEF OwnCV
    <3> QED
      BY <3>1, <3>2
  <2> QED
    BY <2>1 DEF OwnCV
<1>2. OwnCV(c, Signalled(q)) /\ Signalled(q) \in Seq(Persons \cup Clerks)
  <2>1. CASE q = <<>>
    BY <2>1 DEF Signalled
  <2>2. CASE q # <<>>
    <3>1. Signalled(q) = Tail(q) /\ Tail(q) \in Seq(Persons \cup Clerks)
      BY <2>2 DEF Signalled
    <3>2. \A j \in DOMAIN Tail(q) : j + 1 \in DOMAIN q /\ Tail(q)[j] = q[j + 1]
      BY <2>2
    <3> QED
      BY <3>1, <3>2 DEF OwnCV
  <2> QED
    BY <2>1, <2>2
<1>3. q # <<>> => 1 \in DOMAIN q /\ Head(q) = q[1]
  OBVIOUS
<1> QED
  BY <1>1, <1>2, <1>3 DEF OwnCV

\* A wake-up at the counter of clerk c: c is the only clerk that goes on.
LEMMA WakeOwn ==
  ASSUME NEW c \in Clerks, NEW cs \in [Clerks -> Clerk], NEW q, q # <<>> /\ Head(q) \in Clerks => Head(q) = c
  PROVE  \A d \in Clerks :
           /\ WakeFirst(cs, q)[d].customerSSN = cs[d].customerSSN
           /\ WakeFirst(cs, q)[d].pc \in CalledPc => cs[d].pc \in CalledPc \/ d = c
           /\ WakeFirst(cs, q)[d].pc \in ServingPc => cs[d].pc \in ServingPc
<1>1. CASE q # <<>> /\ Head(q) \in Clerks
  <2>1. WakeFirst(cs, q) = [cs EXCEPT ![c] = [cs[c] EXCEPT !.pc = Woken(cs[c].pc)]]
    BY <1>1 DEF WakeFirst
  <2>2. cs[c] \in Clerk
    OBVIOUS
  <2>3. /\ [cs[c] EXCEPT !.pc = Woken(cs[c].pc)].customerSSN = cs[c].customerSSN
        /\ [cs[c] EXCEPT !.pc = Woken(cs[c].pc)].pc \in ServingPc => cs[c].pc \in ServingPc
    BY <2>2 DEF Clerk, Woken, ServingPc
  <2> QED
    BY <2>1, <2>3
<1>2. CASE ~(q # <<>> /\ Head(q) \in Clerks)
  <2>1. WakeFirst(cs, q) = cs
    BY <1>2 DEF WakeFirst
  <2> QED
    BY <2>1
<1> QED
  BY <1>1, <1>2

\* A signal at a counter where an SSN has been given.
LEMMA SignalKnown ==
  ASSUME Shape, ClerksKnow, NEW c \in Clerks, NEW n \in SomeCounter, n.cv = counter[c].cv, n.SSN \in Persons,
         NEW ps, NEW cs \in [Clerks -> Clerk], NEW t \in Persons \cup {c},
         SignalAt(c, n, ps, cs) \/ SignalAndWaitAt(c, n, ps, cs, t),
         \A d \in Clerks : cs[d].pc \in CalledPc => clerk[d].pc \in CalledPc \/ d = c,
         \A d \in Clerks : cs[d].pc \in ServingPc => cs[d].customerSSN \in Persons
  PROVE  ClerksKnow' /\ KnownKept /\ Known(c)'
<1>1. clerk' = WakeFirst(cs, n.cv)
  BY DEF SignalAt, SignalAndWaitAt
<1>2. n.cv \in Seq(Persons \cup Clerks) /\ OwnCV(c, n.cv)
  BY DEF ClerksKnow, SomeCounter
<1>3. PICK v : OwnCV(c, v) /\ counter' = [counter EXCEPT ![c] = [n EXCEPT !.cv = v]]
  BY <1>2, SignalledOwn DEF SignalAt, SignalAndWaitAt
<1>4. counter'[c].cv = v /\ counter'[c].SSN \in Persons /\ \A d \in Clerks : d # c => counter'[d] = counter[d]
  <2>1. counter'[c] = [n EXCEPT !.cv = v] /\ \A d \in Clerks : d # c => counter'[d] = counter[d]
    BY <1>3 DEF Shape
  <2>2. [n EXCEPT !.cv = v].cv = v /\ [n EXCEPT !.cv = v].SSN = n.SSN
    BY DEF SomeCounter
  <2> QED
    BY <2>1, <2>2
<1>5. KnownKept /\ Known(c)'
  BY <1>4 DEF KnownKept, Known
<1>6. n.cv # <<>> /\ Head(n.cv) \in Clerks => Head(n.cv) = c
  BY <1>2, SignalledOwn
<1>7. ASSUME NEW d \in Clerks
      PROVE  /\ clerk'[d].customerSSN = cs[d].customerSSN
             /\ clerk'[d].pc \in CalledPc => cs[d].pc \in CalledPc \/ d = c
             /\ clerk'[d].pc \in ServingPc => cs[d].pc \in ServingPc
  BY <1>1, <1>6, WakeOwn
<1>8. ASSUME NEW d \in Clerks
      PROVE  /\ OwnCV(d, counter'[d].cv)
             /\ clerk'[d].pc \in CalledPc => Known(d)'
             /\ clerk'[d].pc \in ServingPc => clerk'[d].customerSSN \in Persons
  <2>1. OwnCV(d, counter'[d].cv)
    BY <1>3, <1>4 DEF ClerksKnow
  <2>2. clerk'[d].pc \in CalledPc => Known(d)'
    BY <1>5, <1>7 DEF ClerksKnow, KnownKept
  <2> QED
    BY <1>7, <2>1, <2>2
<1>9. \A c_1 \in Clerks : /\ OwnCV(c_1, counter'[c_1].cv)
                          /\ clerk'[c_1].pc \in CalledPc => Known(c_1)'
                          /\ clerk'[c_1].pc \in ServingPc => clerk'[c_1].customerSSN \in Persons
  BY <1>8
<1> QED
  BY <1>5, <1>9 DEF ClerksKnow, OwnCV

\* A person signals at the counter: it has given its SSN there, or does so now.
LEMMA PersonSignalKnown ==
  ASSUME Shape, SSNsKnown, NEW c \in Clerks, NEW n \in SomeCounter, n.cv = counter[c].cv, n.SSN \in Persons,
         NEW ps, NEW p \in Persons, SignalAndWaitAt(c, n, ps, clerk, p)
  PROVE  ClerksKnow' /\ KnownKept /\ Known(c)'
<1>1. clerk \in [Clerks -> Clerk] /\ ClerksKnow
  BY DEF Shape, SSNsKnown
<1>2. \A d \in Clerks : clerk[d].pc \in ServingPc => clerk[d].customerSSN \in Persons
  BY <1>1 DEF ClerksKnow
<1> QED
  BY <1>1, <1>2, SignalKnown

LEMMA GiveSSNKnown ==
  ASSUME Shape, PersonsInOrder, SSNsKnown, NEW p \in Persons, NEW k, k # "leave", GiveSSN(p, k)
  PROVE  ClerksKnow' /\ VisitorsKnown'
<1> DEFINE c == ClerkOf(p)
           n == [counter[c] EXCEPT !.SSN = p]
           ps == [person EXCEPT ![p].pc = "atCounter"]
<1>1. person[p].pc = "called" /\ SignalAndWaitAt(c, n, ps, clerk, p)
  BY DEF GiveSSN
<1>2. c \in Clerks
  BY <1>1, WithClerk DEF WithClerkPc
<1>3. n \in SomeCounter /\ n.cv = counter[c].cv /\ n.SSN \in Persons
  BY <1>2 DEF Shape, SomeCounter
<1>4. \A q \in Persons : q # p => KeepsVisit(person[q], person'[q])
  BY GiveSSNEffect
<1>5. ps \in [Persons -> GoodPerson] /\ ps[p].todo = person[p].todo /\ ps[p].line = person[p].line
  <2>1. person[p] \in GoodPerson /\ person[p] \in Person
    BY DEF PersonsInOrder, GoodPerson
  <2>2. [person[p] EXCEPT !.pc = "atCounter"] \in GoodPerson
    BY <1>1, <2>1, SetPc DEF PcOfPerson, Paid, Owing, InLinePc, WithClerkPc, AtCounterPc
  <2> QED
    BY <2>1, <2>2 DEF PersonsInOrder, Person
<1>6. person'[p].todo = person[p].todo /\ person'[p].line = person[p].line
  <2>1. person' = WakeFirst(ps, n.cv)
    BY <1>1 DEF SignalAndWaitAt
  <2> HIDE DEF ps, n
  <2>2. MayWake(ps[p], person'[p])
    BY <1>5, <2>1, WakePersons
  <2>3. ps[p] \in GoodPerson
    BY <1>5
  <2> QED
    BY <1>5, <2>2, <2>3, WokenPerson
<1>7. ClerkOf(p)' = ClerkOf(p)
  BY <1>6 DEF ClerkOf, Errand
<1> HIDE DEF n, ps
<1>8. ClerksKnow' /\ KnownKept /\ (\E d \in Clerks : d = c /\ Known(d)')
  <2>1. PICK d \in Clerks : d = c
    BY <1>2
  <2> HIDE DEF c
  <2>2. ClerksKnow' /\ KnownKept /\ Known(d)'
    BY <1>1, <1>3, <2>1, PersonSignalKnown
  <2> QED
    BY <2>1, <2>2
<1>9. Known(ClerkOf(p))'
  BY <1>7, <1>8 DEF Known
<1>10. VisitorsKnown
  BY DEF SSNsKnown
<1>11. VisitorsKnown'
  BY <1>4, <1>8, <1>9, <1>10, VisitorsStillKnown
<1> QED
  BY <1>8, <1>11

\* Steps that change neither the clerks nor what is passed at a counter.
LEMMA QuietStep ==
  ASSUME PersonsInOrder, SSNsKnown, VisitsKept, QuietClerks, QuietCounters, UNCHANGED filed
  PROVE  SSNsKnown'
<1>1. ClerksKnow' /\ KnownKept
  BY QuietKnown DEF SSNsKnown
<1>2. VisitorsKnown'
  BY <1>1, VisitorsStillKnown DEF SSNsKnown, VisitsKept
<1> QED
  BY <1>1, <1>2 DEF SSNsKnown

LEMMA GetInLineKnown ==
  ASSUME Shape, ALineIsOpen, PersonsInOrder, LinesInOrder, SSNsKnown, NEW p \in Persons,
         NEW k, k # "leave", GetInLine(p, k)
  PROVE  SSNsKnown'
<1> DEFINE at(b) == <<k, pickShortestLine(k, b)>>
           left(b) == IF counter[at(b)].state # "AVAILABLE"
                      THEN [counter[at(b)] EXCEPT !.count[b] = @ + 1, !.queue[b] = Append(@, p)]
                      ELSE [counter[at(b)] EXCEPT !.state = "BUSY"]
<1>1. PICK bribe \in BOOLEAN : counter' = [counter EXCEPT ![at(bribe)] = left(bribe)]
  BY DEF GetInLine
<1> DEFINE c == at(bribe)
           n == left(bribe)
<1>2. counter' = [counter EXCEPT ![c] = n]
  BY <1>1
<1>3. c \in Clerks => n.cv = counter[c].cv /\ n.SSN = counter[c].SSN
  BY DEF Shape, SomeCounter
<1> HIDE DEF c, n
<1>4. QuietCounters
  BY <1>2, <1>3 DEF QuietCounters, Shape
<1>5. QuietClerks /\ UNCHANGED filed
  BY UnchangedQuiet DEF GetInLine
<1>6. VisitsKept
  BY GetInLineEffect
<1> QED
  BY <1>4, <1>5, <1>6, QuietStep

LEMMA WokenInLineKnown ==
  ASSUME Shape, PersonsInOrder, LinesInOrder, SSNsKnown, NEW p \in Persons, NEW k, k # "leave", WokenInLine(p, k)
  PROVE  SSNsKnown'
<1>1. QuietCounters
  BY DEF WokenInLine, Shape, SomeCounter, QuietCounters
<1>2. QuietClerks /\ UNCHANGED filed
  BY UnchangedQuiet DEF WokenInLine
<1>3. VisitsKept
  BY WokenInLineEffect
<1> QED
  BY <1>1, <1>2, <1>3, QuietStep

LEMMA ReviewKnown ==
  ASSUME Shape, PersonsInOrder, SSNsKnown, NEW p \in Persons, NEW like \in {0, 1},
         BackAtCounter(p, "picture", "answered"), Review(p, like)
  PROVE  SSNsKnown'
<1> DEFINE c == ClerkOf(p)
           n == [counter[c] EXCEPT !.picture = like, !.owner = NoOne]
           ps == [person EXCEPT ![p].pc = "atCounter"]
<1>1. /\ person[p].pc = "answered" /\ SignalAndWaitAt(c, n, ps, clerk, p)
      /\ UNCHANGED filed
  BY DEF Review, BackAtCounter
<1>2. c \in Clerks /\ counter[c].SSN \in Persons
  BY <1>1, WithClerk DEF WithClerkPc, AtCounterPc, SSNsKnown, VisitorsKnown, Known
<1>3. n \in SomeCounter /\ n.cv = counter[c].cv /\ n.SSN \in Persons
  BY <1>2 DEF Shape, SomeCounter
<1> HIDE DEF c, n, ps
<1>4. ClerksKnow' /\ KnownKept
  BY <1>1, <1>2, <1>3, PersonSignalKnown
<1>5. VisitsKept
  BY ReviewEffect
<1>6. VisitorsKnown'
  BY <1>4, <1>5, VisitorsStillKnown DEF SSNsKnown, VisitsKept
<1> QED
  BY <1>1, <1>4, <1>6 DEF SSNsKnown

LEMMA PayKnown ==
  ASSUME Shape, PersonsInOrder, SSNsKnown, NEW p \in Persons, BackAtCounter(p, "cashier", "answered"), Pay(p)
  PROVE  SSNsKnown'
<1> DEFINE c == ClerkOf(p)
           n == counter[c]
           ps == [person EXCEPT ![p] = [person[p] EXCEPT !.pc = "paid", !.money = @ - 100]]
<1>1. /\ person[p].pc = "answered" /\ SignalAndWaitAt(c, n, ps, clerk, p)
      /\ UNCHANGED filed
  BY DEF Pay, BackAtCounter
<1>2. c \in Clerks /\ counter[c].SSN \in Persons
  BY <1>1, WithClerk DEF WithClerkPc, AtCounterPc, SSNsKnown, VisitorsKnown, Known
<1>3. n \in SomeCounter /\ n.cv = counter[c].cv /\ n.SSN \in Persons
  BY <1>2 DEF Shape, SomeCounter
<1> HIDE DEF c, n, ps
<1>4. ClerksKnow' /\ KnownKept
  BY <1>1, <1>2, <1>3, PersonSignalKnown
<1>5. VisitsKept
  BY PayEffect
<1>6. VisitorsKnown'
  BY <1>4, <1>5, VisitorsStillKnown DEF SSNsKnown, VisitsKept
<1> QED
  BY <1>1, <1>4, <1>6 DEF SSNsKnown

LEMMA LeaveCounterKnown ==
  ASSUME Shape, PersonsInOrder, SSNsKnown, NEW p \in Persons, NEW ok \in BOOLEAN, NEW k, k # "leave",
         NEW pc \in {"answered", "served"}, pc = "served" => ok, BackAtCounter(p, k, pc), LeaveCounter(p, ok)
  PROVE  SSNsKnown'
<1>1. QuietCounters
  BY DEF LeaveCounter, Shape, SomeCounter, QuietCounters
<1>2. QuietClerks /\ UNCHANGED filed
  BY UnchangedQuiet DEF LeaveCounter
<1>3. VisitsKept
  BY LeaveCounterEffect
<1> QED
  BY <1>1, <1>2, <1>3, QuietStep

LEMMA InteractionKnown ==
  ASSUME Shape, ALineIsOpen, PersonsInOrder, LinesInOrder, SSNsKnown, NEW p \in Persons, Interaction(p)
  PROVE  SSNsKnown'
<1>1. ASSUME NEW k, k # "leave", GetInLine(p, k) \/ WokenInLine(p, k) PROVE SSNsKnown'
  BY <1>1, GetInLineKnown, WokenInLineKnown
<1>2. ASSUME NEW k, k # "leave", GiveSSN(p, k) PROVE SSNsKnown'
  <2>1. UNCHANGED filed
    BY <1>2 DEF GiveSSN
  <2> QED
    BY <1>2, <2>1, GiveSSNKnown DEF SSNsKnown
<1>3. ASSUME NEW like \in {0, 1}, BackAtCounter(p, "picture", "answered"), Review(p, like) PROVE SSNsKnown'
  BY <1>3, ReviewKnown
<1>4. ASSUME BackAtCounter(p, "cashier", "answered"), Pay(p) PROVE SSNsKnown'
  BY <1>4, PayKnown
<1>5. ASSUME NEW k, NEW ok \in BOOLEAN, NEW pc \in {"answered", "served"},
             k # "leave", MayLeave(p, k, ok, pc), BackAtCounter(p, k, pc), LeaveCounter(p, ok)
      PROVE  SSNsKnown'
  <2>1. pc = "served" => ok
    BY <1>5 DEF MayLeave
  <2> QED
    BY <1>5, <2>1, LeaveCounterKnown
<1> QED
  BY <1>1, <1>2, <1>3, <1>4, <1>5, InteractionCases

LEMMA EnterLeaveKnown ==
  ASSUME Shape, PersonsInOrder, LinesInOrder, SSNsKnown, NEW p \in Persons, Customer(p) \/ Senator(p)
  PROVE  SSNsKnown'
<1>1. UNCHANGED clerk /\ UNCHANGED filed
  BY DEF Customer, Senator, customerCheckIn, customerCheckSenator, customerComeBackIn, customerCheckOut,
         senatorArriveAtPassportOffice, senatorLeavePassportOffice
<1>2. UNCHANGED counter \/ counter' = [counter EXCEPT ![ClerkOf(p)].state = "BUSY"]
  BY DEF Customer, Senator, customerCheckIn, customerCheckSenator, customerComeBackIn, customerCheckOut,
         senatorArriveAtPassportOffice, senatorLeavePassportOffice, customerSenatorPresentWaitOutside
<1>3. QuietCounters
  <2>1. CASE UNCHANGED counter
    BY <2>1 DEF QuietCounters
  <2>2. CASE counter' = [counter EXCEPT ![ClerkOf(p)].state = "BUSY"]
    BY <2>2 DEF Shape, SomeCounter, QuietCounters
  <2> QED
    BY <1>2, <2>1, <2>2
<1>4. VisitsKept
  BY EnterLeaveEffect
<1> QED
  BY <1>1, <1>3, <1>4, UnchangedQuiet, QuietStep
-----------------------------------------------------------------------------
(***************************************************************************)
(* What clerks do to the persons, the lines and the SSNs.                  *)
(***************************************************************************)
ClerkEffect == PersonsInOrder' /\ PersonsStay /\ LinesInOrder' /\ ClerksKnow' /\ VisitorsKnown'

\* Counts, queues, condition variable and SSN of every counter stay as they are.
CountersRest ==
  \A d \in Clerks : /\ counter'[d].count = counter[d].count /\ counter'[d].queue = counter[d].queue
                    /\ counter'[d].cv = counter[d].cv /\ counter'[d].SSN = counter[d].SSN

LEMMA ClerkRests ==
  ASSUME PersonsInOrder, LinesInOrder, SSNsKnown, UNCHANGED person, QuietClerks, CountersRest
  PROVE  ClerkEffect
<1>1. PersonsInOrder' /\ PersonsStay /\ LinesKept /\ VisitsKept
  BY NothingMoves DEF PersonsInOrder, PersonsStay, LinesKept, VisitsKept, CountersRest
<1>2. ClerksKnow' /\ KnownKept
  BY QuietKnown DEF SSNsKnown, CountersRest, QuietCounters
<1>3. VisitorsKnown'
  BY <1>1, <1>2, VisitorsStillKnown DEF SSNsKnown, VisitsKept
<1> QED
  BY <1>1, <1>2, <1>3, LinesKeptStep DEF ClerkEffect

\* A clerk that has an SSN signals the customer and goes on, waits or is done.
LEMMA ClerkAnswers ==
  ASSUME Shape, PersonsInOrder, LinesInOrder, SSNsKnown, NEW c \in Clerks, clerk[c].pc \in CalledPc,
         NEW n \in {counter[c], [counter[c] EXCEPT !.picture = 0]}, NEW x \in Clerk,
         x.pc \in ServingPc => x.customerSSN \in Persons,
         NEW cs, cs = [clerk EXCEPT ![c] = x],
         SignalAt(c, n, person, cs) \/ SignalAndWaitAt(c, n, person, cs, c)
  PROVE  ClerkEffect
<1>1. n \in SomeCounter /\ n.cv = counter[c].cv /\ n.SSN = counter[c].SSN /\ SameLine(c, n)
  BY DEF Shape, SomeCounter, SameLine
<1>2. n.SSN \in Persons
  BY <1>1 DEF SSNsKnown, ClerksKnow, Known
<1>3. cs \in [Clerks -> Clerk] /\ \A d \in Clerks : cs[d] = IF d = c THEN x ELSE clerk[d]
  BY DEF Shape
<1>4. /\ \A d \in Clerks : cs[d].pc \in CalledPc => clerk[d].pc \in CalledPc \/ d = c
      /\ \A d \in Clerks : cs[d].pc \in ServingPc => cs[d].customerSSN \in Persons
  BY <1>3 DEF SSNsKnown, ClerksKnow
<1>5. ClerksKnow' /\ KnownKept
  <2>1. ClerksKnow
    BY DEF SSNsKnown
  <2> QED
    BY <1>1, <1>2, <1>3, <1>4, <2>1, SignalKnown
<1>6. /\ PersonsInOrder'
      /\ \A p \in Persons : MayWake(person[p], person'[p])
      /\ \A d \in Clerks : counter'[d].count = counter[d].count /\ counter'[d].queue = counter[d].queue
  <2>1. person \in [Persons -> GoodPerson]
    BY DEF PersonsInOrder
  <2> QED
    BY <1>1, <2>1, SignalEffect
<1>7. ASSUME NEW p \in Persons
      PROVE  /\ StaysInside(p, person[p], person'[p]) /\ KeepsLine(person[p], person'[p])
             /\ KeepsVisit(person[p], person'[p])
  <2>1. person[p] \in GoodPerson
    BY DEF PersonsInOrder
  <2> QED
    BY <1>6, <2>1, NothingMoves, WokenPerson
<1>8. PersonsStay /\ LinesKept /\ VisitsKept
  BY <1>6, <1>7 DEF PersonsStay, LinesKept, VisitsKept
<1>9. VisitorsKnown'
  BY <1>5, <1>8, VisitorsStillKnown DEF SSNsKnown, VisitsKept
<1> QED
  BY <1>5, <1>6, <1>8, <1>9, LinesKeptStep DEF ClerkEffect

\* Wake-ups in the lines: the counts stay, some of who is asleep in line is woken,
\* and nobody else moves.
LEMMA LinesWoken ==
  ASSUME PersonsInOrder, LinesInOrder,
         \A p \in Persons : \/ person'[p] = person[p]
                            \/ person[p].pc = "inLine" /\ person'[p] = [person[p] EXCEPT !.pc = "woken"],
         person' = [p \in Persons |-> person'[p]],
         \A c \in Clerks : counter'[c].count = counter[c].count,
         \A c \in Clerks : \A b \in BOOLEAN : \A q :
           q = counter'[c].queue[b] =>
             /\ \A j, l \in DOMAIN q : q[j] = q[l] => j = l
             /\ \A j \in DOMAIN q : q[j] \in InLine(c, b) /\ person'[q[j]].pc = "inLine"
  PROVE  PersonsInOrder' /\ PersonsStay /\ LinesInOrder' /\ VisitsKept
<1>1. ASSUME NEW p \in Persons
      PROVE  /\ person'[p] \in GoodPerson
             /\ StaysInside(p, person[p], person'[p]) /\ KeepsVisit(person[p], person'[p])
             /\ person'[p].pc \in InLinePc <=> person[p].pc \in InLinePc
             /\ /\ person'[p].todo = person[p].todo
                /\ person'[p].line = person[p].line
                /\ person'[p].bribe = person[p].bribe
  <2>1. person[p] \in GoodPerson /\ person[p] \in Person
    BY DEF PersonsInOrder, GoodPerson
  <2>2. CASE person'[p] = person[p]
    BY <2>1, <2>2, NothingMoves
  <2>3. CASE person[p].pc = "inLine" /\ person'[p] = [person[p] EXCEPT !.pc = "woken"]
    <3>1. [person[p] EXCEPT !.pc = "woken"] \in GoodPerson
      BY <2>1, <2>3, SetPc DEF PcOfPerson, Paid, Owing, InLinePc, WithClerkPc, AtCounterPc
    <3>2. /\ person'[p].pc = "woken" /\ person'[p].todo = person[p].todo
          /\ person'[p].line = person[p].line /\ person'[p].bribe = person[p].bribe
      BY <2>1, <2>3 DEF Person
    <3>3. StaysInside(p, person[p], person'[p]) /\ KeepsVisit(person[p], person'[p])
      BY <2>3, <3>2 DEF StaysInside, KeepsVisit, InsidePc, EngagedPc, AtCounterPc
    <3> QED
      BY <2>3, <3>1, <3>2, <3>3 DEF InLinePc
  <2> QED
    BY <2>2, <2>3
<1>2. PersonsInOrder' /\ PersonsStay /\ VisitsKept
  BY <1>1 DEF PersonsInOrder, PersonsStay, VisitsKept
<1>3. ASSUME NEW c \in Clerks, NEW b \in BOOLEAN PROVE LineInOrder(c, b)'
  <2>1. InLine(c, b)' = InLine(c, b)
    BY <1>1, SameInLine
  <2>2. counter'[c].count[b] = Cardinality(InLine(c, b)')
    BY <2>1 DEF LinesInOrder, LineInOrder
  <2>3. PICK q : q = counter'[c].queue[b]
    OBVIOUS
  <2>4. /\ \A j, l \in DOMAIN q : q[j] = q[l] => j = l
        /\ \A j \in DOMAIN q : q[j] \in InLine(c, b)' /\ person'[q[j]].pc = "inLine"
    BY <2>1, <2>3
  <2> QED
    BY <2>2, <2>3, <2>4, LineShown
<1> QED
  BY <1>2, <1>3 DEF LinesInOrder

LEMMA CallCustomerEffect ==
  ASSUME Shape, PersonsInOrder, LinesInOrder, SSNsKnown, NEW c \in Clerks, NEW k, CallCustomer(c, k)
  PROVE  ClerkEffect
<1> DEFINE left(b) == [counter[c] EXCEPT !.queue[b] = Signalled(counter[c].queue[b]),
                                         !.state = "SIGNALEDCUSTOMER", !.cv = Append(@, c)]
<1>1. PICK b \in BOOLEAN :
        /\ person' = IF counter[c].queue[b] = <<>> THEN person
                     ELSE [person EXCEPT ![Head(counter[c].queue[b])].pc = "woken"]
        /\ counter' = [counter EXCEPT ![c] = left(b)]
  BY DEF CallCustomer
<1>2. PICK q : q = counter[c].queue[b]
  OBVIOUS
<1>3. counter[c] \in SomeCounter /\ q \in Seq(Persons) /\ LineInOrder(c, b)
  BY <1>2 DEF Shape, SomeCounter, LinesInOrder
<1>4. /\ counter'[c].count = counter[c].count
      /\ counter'[c].queue = [counter[c].queue EXCEPT ![b] = Signalled(q)]
      /\ counter'[c].cv = Append(counter[c].cv, c) /\ counter'[c].SSN = counter[c].SSN
      /\ \A d \in Clerks : d # c => counter'[d] = counter[d]
  BY <1>1, <1>2, <1>3 DEF Shape, SomeCounter
<1>5. \A e \in BOOLEAN : counter'[c].queue[e] = IF e = b THEN Signalled(q) ELSE counter[c].queue[e]
  BY <1>3, <1>4 DEF SomeCounter
<1>6. \A j, l \in DOMAIN q : q[j] = q[l] => j = l
  BY <1>2, <1>3 DEF LineInOrder
<1>7. \A j \in DOMAIN q : q[j] \in InLine(c, b) /\ person[q[j]].pc = "inLine"
  BY <1>2, <1>3 DEF LineInOrder
<1> HIDE DEF left
<1>8. /\ \A p \in Persons : \/ person'[p] = person[p] /\ (q # <<>> => p # Head(q))
                            \/ q # <<>> /\ p = Head(q) /\ person[p].pc = "inLine" /\ person'[p] = [person[p] EXCEPT !.pc = "woken"]
      /\ person' = [p \in Persons |-> person'[p]]
  <2>1. CASE q = <<>>
    BY <1>1, <1>2, <2>1 DEF PersonsInOrder
  <2>2. CASE q # <<>>
    <3>1. Head(q) = q[1] /\ 1 \in DOMAIN q
      BY <1>3, <2>2
    <3>2. person[Head(q)].pc = "inLine" /\ Head(q) \in Persons
      BY <1>7, <3>1 DEF InLine
    <3>3. person' = [person EXCEPT ![Head(q)] = [person[Head(q)] EXCEPT !.pc = "woken"]]
      BY <1>1, <1>2, <2>2
    <3> QED
      BY <2>2, <3>2, <3>3 DEF PersonsInOrder
  <2> QED
    BY <2>1, <2>2
<1>9. ASSUME NEW d \in Clerks, NEW e \in BOOLEAN, NEW u, u = counter'[d].queue[e]
      PROVE  /\ \A j, l \in DOMAIN u : u[j] = u[l] => j = l
             /\ \A j \in DOMAIN u : u[j] \in InLine(d, e) /\ person'[u[j]].pc = "inLine"
  <2>1. CASE d = c /\ e = b /\ q # <<>>
    <3>1. u = Tail(q)
      BY <1>5, <1>9, <2>1 DEF Signalled
    <3>2. Head(q) = q[1] /\ 1 \in DOMAIN q /\ \A j \in DOMAIN u : j + 1 \in DOMAIN q /\ u[j] = q[j + 1] /\ j \in Nat /\ j > 0
      BY <1>3, <2>1, <3>1
    <3>3. \A j \in DOMAIN u : u[j] # Head(q)
      BY <1>6, <3>2
    <3>4. \A j \in DOMAIN u : u[j] \in InLine(d, e) /\ person'[u[j]].pc = "inLine"
      BY <1>7, <1>8, <2>1, <3>2, <3>3 DEF InLine
    <3> QED
      BY <1>6, <3>2, <3>4
  <2>2. CASE ~(d = c /\ e = b /\ q # <<>>)
    <3>1. u = counter[d].queue[e]
      BY <1>2, <1>4, <1>5, <1>9, <2>2 DEF Signalled
    <3>2. /\ \A j, l \in DOMAIN u : u[j] = u[l] => j = l
          /\ \A j \in DOMAIN u : u[j] \in InLine(d, e) /\ person[u[j]].pc = "inLine"
      BY <3>1 DEF LinesInOrder, LineInOrder
    <3>3. ASSUME NEW j \in DOMAIN u PROVE person'[u[j]] = person[u[j]]
      <4>1. u[j] \in InLine(d, e) /\ u[j] \in Persons
        BY <3>2 DEF InLine
      <4>2. CASE q = <<>>
        BY <1>8, <4>1, <4>2
      <4>3. CASE q # <<>>
        <5>1. Head(q) = q[1] /\ 1 \in DOMAIN q
          BY <1>3, <4>3
        <5>2. Head(q) \in InLine(c, b)
          BY <1>7, <5>1
        <5>3. u[j] # Head(q)
          BY <2>2, <4>1, <4>3, <5>2 DEF InLine
        <5> QED
          BY <1>8, <4>1, <5>3
      <4> QED
        BY <4>2, <4>3
    <3> QED
      BY <3>2, <3>3
  <2> QED
    BY <2>1, <2>2
<1>10. PersonsInOrder' /\ PersonsStay /\ LinesInOrder' /\ VisitsKept
  <2>1. \A d \in Clerks : counter'[d].count = counter[d].count
    BY <1>4
  <2>2. \A p \in Persons : \/ person'[p] = person[p]
                           \/ person[p].pc = "inLine" /\ person'[p] = [person[p] EXCEPT !.pc = "woken"]
    BY <1>8
  <2>3. \A d \in Clerks : \A e \in BOOLEAN : \A u :
          u = counter'[d].queue[e] =>
            /\ \A j, l \in DOMAIN u : u[j] = u[l] => j = l
            /\ \A j \in DOMAIN u : u[j] \in InLine(d, e) /\ person'[u[j]].pc = "inLine"
    BY <1>9, Zenon
  <2>4. person' = [p \in Persons |-> person'[p]]
    BY <1>8
  <2> QED
    BY <2>1, <2>2, <2>3, <2>4, LinesWoken, Zenon
<1>11. /\ clerk'[c].pc = "calling" /\ \A d \in Clerks : d # c => clerk'[d] = clerk[d]
  BY DEF CallCustomer, Shape, Clerk
<1>12. ClerksKnow'
  <2>1. OwnCV(c, Append(counter[c].cv, c))
    <3>1. counter[c].cv \in Seq(Persons \cup Clerks) /\ OwnCV(c, counter[c].cv)
      BY <1>3 DEF SomeCounter, SSNsKnown, ClerksKnow
    <3> QED
      BY <3>1, SignalledOwn
  <2>2. \A d \in Clerks : /\ OwnCV(d, counter'[d].cv)
                          /\ clerk'[d].pc \in CalledPc => counter'[d].SSN \in Persons
                          /\ clerk'[d].pc \in ServingPc => clerk'[d].customerSSN \in Persons
    BY <1>4, <1>11, <2>1 DEF SSNsKnown, ClerksKnow, Known, CalledPc, ServingPc
  <2> QED
    BY <2>2 DEF ClerksKnow, OwnCV, Known
<1>13. VisitorsKnown'
  <2>1. KnownKept
    BY <1>4 DEF KnownKept, Known
  <2> QED
    BY <1>10, <2>1, VisitorsStillKnown DEF SSNsKnown, VisitsKept
<1> QED
  BY <1>10, <1>12, <1>13 DEF ClerkEffect

\* A clerk that goes to a place away from the counter.
LEMMA ClerkAway ==
  ASSUME Shape, NEW c \in Clerks,
         \/ \E pc \in {"check", "line", "poll", "onBreak", "finished"} : clerk' = [clerk EXCEPT ![c].pc = pc]
         \/ clerk' = ClerkDone(c)
  PROVE  QuietClerks
BY DEF Shape, QuietClerks, ClerkDone, CalledPc, ServingPc, Clerk

LEMMA RoundsEffect ==
  ASSUME Shape, PersonsInOrder, LinesInOrder, SSNsKnown, NEW c \in Clerks, NEW k, ClerkRounds(c, k) \/ StartOver(c)
  PROVE  ClerkEffect /\ UNCHANGED filed
<1>1. UNCHANGED filed
  BY DEF ClerkRounds, StartOver, CallCustomer, CheckAndGoOnBreak, ComeOffBreak, PollEndOfDay
<1>2. CASE CallCustomer(c, k)
  BY <1>1, <1>2, CallCustomerEffect
<1>3. CASE CheckAndGoOnBreak(c, k)
  <2>1. QuietClerks /\ UNCHANGED person
    BY <1>3, ClerkAway DEF CheckAndGoOnBreak
  <2>2. CASE UNCHANGED counter
    BY <1>1, <2>1, <2>2, ClerkRests DEF CountersRest
  <2>3. CASE counter' = [counter EXCEPT ![c].state = "ONBREAK"]
    <3>1. CountersRest
      BY <2>3 DEF CountersRest, Shape, SomeCounter
    <3> QED
      BY <1>1, <2>1, <3>1, ClerkRests
  <2> QED
    BY <1>3, <2>2, <2>3 DEF CheckAndGoOnBreak
<1>4. CASE ComeOffBreak(c, k)
  <2>1. QuietClerks /\ UNCHANGED person
    BY <1>4, ClerkAway DEF ComeOffBreak
  <2>2. CountersRest
    BY <1>4 DEF ComeOffBreak, CountersRest, Shape, SomeCounter
  <2> QED
    BY <1>1, <2>1, <2>2, ClerkRests
<1>5. CASE PollEndOfDay(c, k) \/ StartOver(c)
  <2>1. QuietClerks /\ UNCHANGED person
    BY <1>5, ClerkAway DEF PollEndOfDay, StartOver, clerkCheckForSenator
  <2>2. CountersRest
    BY <1>5 DEF PollEndOfDay, StartOver, CountersRest
  <2> QED
    BY <1>1, <2>1, <2>2, ClerkRests
<1> QED
  BY <1>2, <1>3, <1>4, <1>5 DEF ClerkRounds

\* A clerk leaves the counter without a signal.
LEMMA LeavesEffect ==
  ASSUME Shape, PersonsInOrder, LinesInOrder, SSNsKnown, NEW c \in Clerks, UNCHANGED person,
         HandOverCounter(c) \/ (clerk' = ClerkDone(c) /\ UNCHANGED counter)
  PROVE  ClerkEffect
<1>1. QuietClerks
  BY ClerkAway DEF HandOverCounter
<1>2. CASE UNCHANGED counter
  BY <1>1, <1>2, ClerkRests DEF CountersRest
<1>3. CASE counter' = [counter EXCEPT ![c].owner = clerk[c].customerSSN]
  <2>1. CountersRest
    BY <1>3 DEF CountersRest, Shape, SomeCounter
  <2> QED
    BY <1>1, <2>1, ClerkRests
<1> QED
  BY <1>2, <1>3 DEF HandOverCounter

\* The answers of a clerk that has an SSN.
LEMMA AnswerEffect ==
  ASSUME Shape, PersonsInOrder, LinesInOrder, SSNsKnown, NEW c \in Clerks, clerk[c].pc \in CalledPc,
         NEW n \in {counter[c], [counter[c] EXCEPT !.picture = 0]}, NEW pc \in {"filing", "showing", "charging"},
         \/ Answer(c, n, pc)
         \/ AnswerAndWait(c, n, pc)
         \/ SignalAt(c, n, person, ClerkDone(c))
  PROVE  ClerkEffect
<1> DEFINE served == [pc |-> pc, customerSSN |-> counter[c].SSN]
           done == [pc |-> "check", customerSSN |-> NoOne]
<1>1. counter[c].SSN \in Persons
  BY DEF SSNsKnown, ClerksKnow, Known
<1>2. served \in Clerk /\ served.customerSSN \in Persons /\ done \in Clerk /\ done.pc \notin ServingPc
  BY <1>1 DEF Clerk, ServingPc
<1>3. CASE SignalAt(c, n, person, ClerkDone(c))
  <2>1. ClerkDone(c) = [clerk EXCEPT ![c] = done]
    BY DEF ClerkDone
  <2> HIDE DEF done
  <2> QED
    BY <1>2, <1>3, <2>1, ClerkAnswers
<1>4. CASE Answer(c, n, pc) \/ AnswerAndWait(c, n, pc)
  <2>1. ClerkTo(c, pc) = [clerk EXCEPT ![c] = served]
    BY DEF ClerkTo
  <2>2. SignalAt(c, n, person, ClerkTo(c, pc)) \/ SignalAndWaitAt(c, n, person, ClerkTo(c, pc), c)
    BY <1>4 DEF Answer, AnswerAndWait
  <2> HIDE DEF served
  <2> QED
    BY <1>2, <2>1, <2>2, ClerkAnswers
<1> QED
  BY <1>3, <1>4

\* Documents are filed for persons.
LEMMA FiledFor ==
  ASSUME filed \in Filed, NEW p \in Persons,
         \/ UNCHANGED filed
         \/ filed' = [filed EXCEPT !.application = @ \cup {p}]
         \/ filed' = [filed EXCEPT !.picture = @ \cup {p}]
         \/ filed' = [filed EXCEPT !.punishment = @ \ {p}, !.passport = @ \cup {p}]
         \/ filed' = [filed EXCEPT !.punishment = @ \cup {p}]
         \/ filed' = [filed EXCEPT !.rejection = @ \ {p}]
         \/ filed' = [filed EXCEPT !.rejection = @ \cup {p}]
         \/ filed' = [filed EXCEPT !.done = @ \cup {p}]
  PROVE  filed' \in Filed
<1>1. CASE filed' = [filed EXCEPT !.application = @ \cup {p}]
  BY <1>1 DEF Filed
<1>2. CASE filed' = [filed EXCEPT !.picture = @ \cup {p}]
  BY <1>2 DEF Filed
<1>3. CASE filed' = [filed EXCEPT !.punishment = @ \ {p}, !.passport = @ \cup {p}]
  BY <1>3 DEF Filed
<1>4. CASE filed' = [filed EXCEPT !.punishment = @ \cup {p}]
  BY <1>4 DEF Filed
<1>5. CASE filed' = [filed EXCEPT !.rejection = @ \ {p}]
  BY <1>5 DEF Filed
<1>6. CASE filed' = [filed EXCEPT !.rejection = @ \cup {p}]
  BY <1>6 DEF Filed
<1>7. CASE filed' = [filed EXCEPT !.done = @ \cup {p}]
  BY <1>7 DEF Filed
<1> QED
  BY <1>1, <1>2, <1>3, <1>4, <1>5, <1>6, <1>7

LEMMA KnownFacts ==
  ASSUME SSNsKnown, NEW c \in Clerks
  PROVE  /\ clerk[c].pc \in CalledPc => counter[c].SSN \in Persons
         /\ clerk[c].pc \in ServingPc => clerk[c].customerSSN \in Persons
         /\ filed \in Filed
BY DEF SSNsKnown, ClerksKnow, Known

LEMMA ApplicationClerkEffect ==
  ASSUME Shape, PersonsInOrder, LinesInOrder, SSNsKnown, NEW c \in Clerks, ApplicationClerk(c)
  PROVE  ClerkEffect /\ filed' \in Filed
<1>1. CASE ClerkRounds(c, "application")
  BY <1>1, RoundsEffect, KnownFacts
<1>2. CASE clerk[c].pc = "hasSSN" /\ Answer(c, counter[c], "filing") /\ UNCHANGED filed
  BY <1>2, AnswerEffect, KnownFacts DEF CalledPc
<1>3. CASE /\ clerk[c].pc = "filing"
           /\ filed' = [filed EXCEPT !.application = @ \cup {clerk[c].customerSSN}]
           /\ clerk' = ClerkDone(c)
           /\ UNCHANGED <<person, counter>>
  <2>1. clerk[c].customerSSN \in Persons /\ filed \in Filed
    BY <1>3, KnownFacts DEF ServingPc
  <2>2. filed' \in Filed
    BY <1>3, <2>1, FiledFor
  <2>3. ClerkEffect
    BY <1>3, LeavesEffect
  <2> QED
    BY <2>2, <2>3
<1> QED
  BY <1>1, <1>2, <1>3 DEF ApplicationClerk, applicationClerkcheckAndGoOnBreak, ClerkRounds, AtPc

LEMMA PictureClerkEffect ==
  ASSUME Shape, PersonsInOrder, LinesInOrder, SSNsKnown, NEW c \in Clerks, PictureClerk(c)
  PROVE  ClerkEffect /\ filed' \in Filed
<1> DEFINE blank == [counter[c] EXCEPT !.picture = 0]
<1>1. CASE ClerkRounds(c, "picture")
  BY <1>1, RoundsEffect, KnownFacts
<1>2. CASE clerk[c].pc = "hasSSN" /\ AnswerAndWait(c, blank, "showing") /\ UNCHANGED filed
  BY <1>2, AnswerEffect, KnownFacts DEF CalledPc
<1>3. CASE /\ clerk[c].pc = "shown"
           /\ AnswerAndWait(c, counter[c], "showing") \/ Answer(c, counter[c], "filing")
           /\ UNCHANGED filed
  BY <1>3, AnswerEffect, KnownFacts DEF CalledPc
<1>4. CASE /\ clerk[c].pc = "filing"
           /\ filed' = [filed EXCEPT !.picture = @ \cup {clerk[c].customerSSN}]
           /\ HandOverCounter(c)
           /\ UNCHANGED person
  <2>1. clerk[c].customerSSN \in Persons /\ filed \in Filed
    BY <1>4, KnownFacts DEF ServingPc
  <2>2. filed' \in Filed
    BY <1>4, <2>1, FiledFor
  <2>3. ClerkEffect
    BY <1>4, LeavesEffect
  <2> QED
    BY <2>2, <2>3
<1> HIDE DEF blank
<1> QED
  BY <1>1, <1>2, <1>3, <1>4 DEF PictureClerk, pictureClerkcheckAndGoOnBreak, ClerkRounds, AtPc, blank

LEMMA PassportClerkEffect ==
  ASSUME Shape, PersonsInOrder, LinesInOrder, SSNsKnown, NEW c \in Clerks, PassportClerk(c)
  PROVE  ClerkEffect /\ filed' \in Filed
<1> DEFINE p == counter[c].SSN
<1>1. CASE ClerkRounds(c, "passport")
  BY <1>1, RoundsEffect, KnownFacts
<1>2. CASE /\ clerk[c].pc = "hasSSN"
           /\ \/ filed' = [filed EXCEPT !.punishment = @ \ {p}, !.passport = @ \cup {p}]
              \/ filed' = [filed EXCEPT !.punishment = @ \cup {p}]
           /\ Answer(c, counter[c], "filing") \/ SignalAt(c, counter[c], person, ClerkDone(c))
  <2>1. p \in Persons /\ filed \in Filed
    BY <1>2, KnownFacts DEF CalledPc
  <2>2. filed' \in Filed
    <3> HIDE DEF p
    <3> QED
      BY <1>2, <2>1, FiledFor
  <2>3. ClerkEffect
    BY <1>2, AnswerEffect DEF CalledPc
  <2> QED
    BY <2>2, <2>3
<1>3. CASE HandOverCounter(c) /\ UNCHANGED <<person, filed>>
  BY <1>3, LeavesEffect, KnownFacts
<1> QED
  BY <1>1, <1>2, <1>3 DEF PassportClerk, passportClerkcheckAndGoOnBreak, ClerkRounds, AtPc

LEMMA CashierEffect ==
  ASSUME Shape, PersonsInOrder, LinesInOrder, SSNsKnown, NEW c \in Clerks, Cashier(c)
  PROVE  ClerkEffect /\ filed' \in Filed
<1> DEFINE p == counter[c].SSN
           q == clerk[c].customerSSN
<1>1. CASE ClerkRounds(c, "cashier")
  BY <1>1, RoundsEffect, KnownFacts
<1>2. CASE /\ clerk[c].pc = "hasSSN"
           /\ \/ /\ filed' = [filed EXCEPT !.rejection = @ \ {p}]
                 /\ AnswerAndWait(c, counter[c], "charging")
              \/ /\ filed' = [filed EXCEPT !.rejection = @ \cup {p}]
                 /\ clerk' = ClerkDone(c) /\ UNCHANGED <<person, counter>>
  <2>1. p \in Persons /\ filed \in Filed
    BY <1>2, KnownFacts DEF CalledPc
  <2>2. filed' \in Filed
    <3> HIDE DEF p
    <3> QED
      BY <1>2, <2>1, FiledFor
  <2>3. ClerkEffect
    BY <1>2, AnswerEffect, LeavesEffect DEF CalledPc
  <2> QED
    BY <2>2, <2>3
<1>3. CASE /\ clerk[c].pc = "charged"
           /\ filed' = [filed EXCEPT !.done = @ \cup {q}]
           /\ SignalAt(c, counter[c], person, ClerkDone(c))
  <2>1. q \in Persons /\ filed \in Filed
    BY <1>3, KnownFacts DEF ServingPc
  <2>2. filed' \in Filed
    <3> HIDE DEF q
    <3> QED
      BY <1>3, <2>1, FiledFor
  <2>3. ClerkEffect
    BY <1>3, AnswerEffect DEF CalledPc
  <2> QED
    BY <2>2, <2>3
<1> QED
  BY <1>1, <1>2, <1>3 DEF Cashier, cashiercheckAndGoOnBreak, ClerkRounds, AtPc

LEMMA ClerkStepEffect ==
  ASSUME Shape, PersonsInOrder, LinesInOrder, SSNsKnown, NEW c \in Clerks, ClerkStep(c)
  PROVE  ClerkEffect /\ filed' \in Filed
<1>1. CASE StartOver(c)
  BY <1>1, RoundsEffect, KnownFacts
<1> QED
  BY <1>1, ApplicationClerkEffect, PictureClerkEffect, PassportClerkEffect, CashierEffect DEF ClerkStep
-----------------------------------------------------------------------------
(***************************************************************************)
(* The manager, and the types of everything.                               *)
(***************************************************************************)
LEMMA BroadcastEffect ==
  ASSUME Shape, PersonsInOrder, LinesInOrder, SSNsKnown, managerBroacastLine
  PROVE  PersonsInOrder' /\ PersonsStay /\ LinesInOrder' /\ SSNsKnown'
<1>1. PICK k : /\ k = KindOrder[manager.kind]
               /\ person' = [p \in Persons |->
                               IF person[p].pc = "inLine" /\ Errand(p) = k
                               THEN [person[p] EXCEPT !.pc = "woken"] ELSE person[p]]
               /\ counter' = [c \in Clerks |->
                                IF c[1] = k THEN [counter[c] EXCEPT !.queue = [b \in BOOLEAN |-> <<>>]]
                                ELSE counter[c]]
  BY DEF managerBroacastLine
<1>2. ASSUME NEW c \in Clerks
      PROVE  /\ counter'[c].count = counter[c].count
             /\ counter'[c].cv = counter[c].cv /\ counter'[c].SSN = counter[c].SSN
             /\ counter'[c].queue = IF c[1] = k THEN [b \in BOOLEAN |-> <<>>] ELSE counter[c].queue
  <2>1. counter[c] \in SomeCounter
    BY DEF Shape
  <2>2. CASE c[1] = k
    <3>1. counter'[c] = [counter[c] EXCEPT !.queue = [b \in BOOLEAN |-> <<>>]]
      BY <1>1, <2>2
    <3> QED
      BY <2>1, <2>2, <3>1 DEF SomeCounter
  <2>3. CASE c[1] # k
    BY <1>1, <2>3
  <2> QED
    BY <2>2, <2>3
<1>3. \A p \in Persons : \/ person'[p] = person[p]
                         \/ person[p].pc = "inLine" /\ person'[p] = [person[p] EXCEPT !.pc = "woken"]
  BY <1>1
<1>4. person' = [p \in Persons |-> person'[p]]
  BY <1>1
<1>5. ASSUME NEW c \in Clerks, NEW b \in BOOLEAN, NEW q, q = counter'[c].queue[b]
      PROVE  /\ \A j, l \in DOMAIN q : q[j] = q[l] => j = l
             /\ \A j \in DOMAIN q : q[j] \in InLine(c, b) /\ person'[q[j]].pc = "inLine"
  <2>1. CASE c[1] = k
    <3>1. q = <<>>
      BY <1>2, <1>5, <2>1
    <3>2. DOMAIN q = {}
      BY <3>1
    <3> QED
      BY <3>2
  <2>2. CASE c[1] # k
    <3>1. q = counter[c].queue[b]
      BY <1>2, <1>5, <2>2
    <3>2. /\ \A j, l \in DOMAIN q : q[j] = q[l] => j = l
          /\ \A j \in DOMAIN q : q[j] \in InLine(c, b) /\ person[q[j]].pc = "inLine"
      BY <3>1 DEF LinesInOrder, LineInOrder
    <3>3. ASSUME NEW j \in DOMAIN q PROVE person'[q[j]].pc = "inLine"
      <4>1. q[j] \in Persons /\ ClerkOf(q[j]) = c /\ person[q[j]].pc = "inLine"
        BY <3>2 DEF InLine
      <4>2. Errand(q[j]) = c[1]
        BY <4>1 DEF ClerkOf
      <4> QED
        BY <1>1, <2>2, <4>1, <4>2
    <3> QED
      BY <3>2, <3>3
  <2> QED
    BY <2>1, <2>2
<1>6. PersonsInOrder' /\ PersonsStay /\ LinesInOrder' /\ VisitsKept
  <2>1. \A d \in Clerks : counter'[d].count = counter[d].count
    BY <1>2
  <2>2. \A d \in Clerks : \A e \in BOOLEAN : \A u :
          u = counter'[d].queue[e] =>
            /\ \A j, l \in DOMAIN u : u[j] = u[l] => j = l
            /\ \A j \in DOMAIN u : u[j] \in InLine(d, e) /\ person'[u[j]].pc = "inLine"
    BY <1>5, Zenon
  <2> QED
    BY <1>3, <1>4, <2>1, <2>2, LinesWoken, Zenon
<1>7. QuietCounters
  BY <1>2 DEF QuietCounters
<1>8. QuietClerks /\ UNCHANGED filed
  BY UnchangedQuiet DEF managerBroacastLine
<1> QED
  BY <1>6, <1>7, <1>8, QuietStep

\* A step of the manager that lets senators in or customers back in.
LetsIn(r, r2) ==
  \/ r2 = r
  \/ r.pc = "senatorLine" /\ r2 = [r EXCEPT !.pc = "admitted"]
  \/ r.pc = "outside" /\ r2 = [r EXCEPT !.pc = "letIn"]

LEMMA LetInEffect ==
  ASSUME NEW r \in GoodPerson, NEW r2, LetsIn(r, r2)
  PROVE  r2 \in GoodPerson /\ KeepsLine(r, r2) /\ KeepsVisit(r, r2)
<1>1. r \in Person
  BY DEF GoodPerson
<1>2. CASE r2 = r
  BY <1>2 DEF KeepsLine, KeepsVisit
<1>3. ASSUME NEW x \in {"admitted", "letIn"}, r.pc \in {"senatorLine", "outside"}, r2 = [r EXCEPT !.pc = x]
      PROVE  r2 \in GoodPerson /\ KeepsLine(r, r2) /\ KeepsVisit(r, r2)
  <2>1. [r EXCEPT !.pc = x] \in GoodPerson
    BY <1>3, SetPc DEF PcOfPerson, Paid, Owing, InLinePc, WithClerkPc, AtCounterPc
  <2>2. r2.pc = x
    BY <1>1, <1>3 DEF Person
  <2> QED
    BY <1>3, <2>1, <2>2 DEF KeepsLine, KeepsVisit, InLinePc, AtCounterPc
<1> QED
  BY <1>2, <1>3 DEF LetsIn

LEMMA EndOfDayEffect ==
  ASSUME Shape, PersonsInOrder, LinesInOrder, SSNsKnown, checkEndOfDay
  PROVE  PersonsInOrder' /\ LinesInOrder' /\ SSNsKnown'
<1>1. UNCHANGED clerk /\ UNCHANGED counter /\ UNCHANGED filed
  BY DEF checkEndOfDay
<1>2. person' = [p \in Persons |-> person'[p]] /\ \A p \in Persons : LetsIn(person[p], person'[p])
  BY DEF checkEndOfDay, managerSenatorCheck, LetsIn, PersonsInOrder
<1>3. \A p \in Persons : person'[p] \in GoodPerson /\ KeepsLine(person[p], person'[p]) /\ KeepsVisit(person[p], person'[p])
  BY <1>2, LetInEffect DEF PersonsInOrder
<1>4. PersonsInOrder' /\ LinesKept /\ VisitsKept
  BY <1>1, <1>2, <1>3 DEF PersonsInOrder, LinesKept, VisitsKept
<1>5. SSNsKnown'
  BY <1>1, <1>4, UnchangedQuiet, QuietStep DEF QuietCounters
<1> QED
  BY <1>4, <1>5, LinesKeptStep

LEMMA WakeupEffect ==
  ASSUME Shape, PersonsInOrder, LinesInOrder, SSNsKnown, managerCheckandWakupClerks
  PROVE  PersonsInOrder' /\ PersonsStay /\ LinesInOrder' /\ SSNsKnown'
<1>1. UNCHANGED person /\ UNCHANGED counter /\ UNCHANGED filed
  BY DEF managerCheckandWakupClerks
<1>2. QuietClerks
  BY DEF managerCheckandWakupClerks, Shape, Clerk, QuietClerks, CalledPc, ServingPc
<1>3. PersonsInOrder' /\ PersonsStay /\ LinesKept /\ VisitsKept
  BY <1>1, NothingMoves DEF PersonsInOrder, PersonsStay, LinesKept, VisitsKept
<1> QED
  BY <1>1, <1>2, <1>3, QuietStep, LinesKeptStep DEF QuietCounters

\* What the manager and managerLock keep, and who is on break.
DeskInOrder == breakCV \in [Kinds -> Seq(Clerks)] /\ office \in Office /\ manager \in Manager

LEMMA OfficeFields ==
  ASSUME NEW o \in Office
  PROVE  /\ o.customersPresentCount \in Int /\ o.senatorPresentCount \in Int /\ o.checkedOutCount \in Int
         /\ o.senatorLineCount \in Int /\ o.passportOfficeOutsideLineCount \in Int
BY DEF Office

LEMMA OfficeSet ==
  ASSUME NEW o \in Office, NEW i \in Int, NEW j \in Int
  PROVE  /\ [o EXCEPT !.customersPresentCount = i] \in Office
         /\ [o EXCEPT !.senatorLineCount = i] \in Office
         /\ [o EXCEPT !.customersPresentCount = i, !.passportOfficeOutsideLineCount = j] \in Office
         /\ [o EXCEPT !.customersPresentCount = i, !.checkedOutCount = j] \in Office
         /\ [o EXCEPT !.senatorPresentCount = i, !.checkedOutCount = j] \in Office
         /\ [o EXCEPT !.senatorPresentCount = i, !.senatorLineCount = j] \in Office
BY DEF Office

LEMMA PersonDesk ==
  ASSUME DeskInOrder, NEW p \in Persons, Customer(p) \/ Senator(p) \/ Interaction(p)
  PROVE  DeskInOrder'
<1>4. office \in Office
  BY DEF DeskInOrder
<1>5. /\ office.customersPresentCount + 1 \in Int /\ office.customersPresentCount - 1 \in Int
      /\ office.passportOfficeOutsideLineCount + 1 \in Int /\ office.passportOfficeOutsideLineCount - 1 \in Int
      /\ office.senatorPresentCount + 1 \in Int /\ office.senatorPresentCount - 1 \in Int
      /\ office.checkedOutCount + 1 \in Int
      /\ \A left \in {office.senatorLineCount, office.senatorLineCount - 1} : left \in Int /\ left + 1 \in Int
  BY <1>4, OfficeFields
<1>1. CASE Interaction(p)
  <2>1. UNCHANGED breakCV /\ UNCHANGED office /\ UNCHANGED manager
    BY <1>1, InteractionCases DEF GetInLine, WokenInLine, GiveSSN, Review, Pay, LeaveCounter
  <2> QED
    BY <2>1 DEF DeskInOrder
<1>2. CASE Customer(p)
  <2>1. UNCHANGED breakCV /\ UNCHANGED manager
    BY <1>2 DEF Customer, customerCheckIn, customerCheckSenator, customerComeBackIn, customerCheckOut
  <2>2. CASE customerCheckIn(p)
    <3>1. office' = [office EXCEPT !.customersPresentCount = @ + 1]
      BY <2>2 DEF customerCheckIn
    <3>2. office' \in Office
      BY <1>4, <1>5, <3>1, OfficeSet
    <3> QED
      BY <2>1, <3>2 DEF DeskInOrder
  <2>3. CASE customerCheckSenator(p)
    <3>1. CASE office' = office
      BY <1>4, <2>1, <3>1 DEF DeskInOrder
    <3>2. CASE office' = [office EXCEPT !.customersPresentCount = @ - 1, !.passportOfficeOutsideLineCount = @ + 1]
      <4>1. office' \in Office
        BY <1>4, <1>5, <3>2, OfficeSet
      <4> QED
        BY <2>1, <4>1 DEF DeskInOrder
    <3> QED
      BY <2>3, <3>1, <3>2 DEF customerCheckSenator, customerSenatorPresentWaitOutside
  <2>4. CASE customerComeBackIn(p)
    <3>1. office' = [office EXCEPT !.customersPresentCount = @ + 1,
                                     !.passportOfficeOutsideLineCount = @ - 1]
      BY <2>4 DEF customerComeBackIn
    <3>2. office' \in Office
      BY <1>4, <1>5, <3>1, OfficeSet
    <3> QED
      BY <2>1, <3>2 DEF DeskInOrder
  <2>5. CASE customerCheckOut(p)
    <3>1. office' = [office EXCEPT !.customersPresentCount = @ - 1, !.checkedOutCount = @ + 1]
      BY <2>5 DEF customerCheckOut
    <3>2. office' \in Office
      BY <1>4, <1>5, <3>1, OfficeSet
    <3> QED
      BY <2>1, <3>2 DEF DeskInOrder
  <2> QED
    BY <1>2, <2>2, <2>3, <2>4, <2>5 DEF Customer
<1>3. CASE Senator(p)
  <2>1. UNCHANGED breakCV /\ UNCHANGED manager
    BY <1>3 DEF Senator, senatorArriveAtPassportOffice, senatorLeavePassportOffice
  <2>2. CASE senatorArriveAtPassportOffice(p)
    <3>1. PICK left \in {office.senatorLineCount, office.senatorLineCount - 1} :
            \/ office' = [office EXCEPT !.senatorPresentCount = @ + 1, !.senatorLineCount = left]
            \/ office' = [office EXCEPT !.senatorLineCount = left + 1]
      BY <2>2 DEF senatorArriveAtPassportOffice
    <3>2. left \in Int /\ left + 1 \in Int
      BY <1>5
    <3>3. CASE office' = [office EXCEPT !.senatorPresentCount = @ + 1, !.senatorLineCount = left]
      <4>1. office' \in Office
        BY <1>4, <1>5, <3>2, <3>3, OfficeSet
      <4> QED
        BY <2>1, <4>1 DEF DeskInOrder
    <3>4. CASE office' = [office EXCEPT !.senatorLineCount = left + 1]
      <4>1. office' \in Office
        BY <1>4, <3>2, <3>4, OfficeSet
      <4> QED
        BY <2>1, <4>1 DEF DeskInOrder
    <3> QED
      BY <3>1, <3>3, <3>4
  <2>3. CASE senatorLeavePassportOffice(p)
    <3>1. office' = [office EXCEPT !.senatorPresentCount = @ - 1, !.checkedOutCount = @ + 1]
      BY <2>3 DEF senatorLeavePassportOffice
    <3>2. office' \in Office
      BY <1>4, <1>5, <3>1, OfficeSet
    <3> QED
      BY <2>1, <3>2 DEF DeskInOrder
  <2> QED
    BY <1>3, <2>2, <2>3 DEF Senator
<1> QED
  BY <1>1, <1>2, <1>3

LEMMA RoundsDesk ==
  ASSUME DeskInOrder, NEW c \in Clerks, NEW k, ClerkRounds(c, k)
  PROVE  DeskInOrder'
<1>1. UNCHANGED office /\ UNCHANGED manager
  BY DEF ClerkRounds, CallCustomer, CheckAndGoOnBreak, ComeOffBreak, PollEndOfDay
<1>2. CASE UNCHANGED breakCV
  BY <1>1, <1>2 DEF DeskInOrder
<1>3. CASE breakCV' = [breakCV EXCEPT ![k] = Append(@, c)]
  <2>1. k \in Kinds => Append(breakCV[k], c) \in Seq(Clerks)
    BY DEF DeskInOrder
  <2>2. breakCV' \in [Kinds -> Seq(Clerks)]
    BY <1>3, <2>1 DEF DeskInOrder
  <2> QED
    BY <1>1, <2>2 DEF DeskInOrder
<1> QED
  BY <1>2, <1>3 DEF ClerkRounds, CallCustomer, CheckAndGoOnBreak, ComeOffBreak, PollEndOfDay

LEMMA ClerkDesk ==
  ASSUME DeskInOrder, NEW c \in Clerks, ClerkStep(c)
  PROVE  DeskInOrder'
<1>1. ASSUME NEW k, ClerkRounds(c, k) PROVE DeskInOrder'
  BY <1>1, RoundsDesk
<1>2. ASSUME UNCHANGED <<breakCV, office, manager>> PROVE DeskInOrder'
  BY <1>2 DEF DeskInOrder
<1>3. CASE StartOver(c)
  BY <1>2, <1>3 DEF StartOver
<1>4. CASE ApplicationClerk(c)
  BY <1>1, <1>2, <1>4, Zenon DEF ApplicationClerk, applicationClerkcheckAndGoOnBreak, ClerkRounds
<1>5. CASE PictureClerk(c)
  BY <1>1, <1>2, <1>5, Zenon DEF PictureClerk, pictureClerkcheckAndGoOnBreak, ClerkRounds
<1>6. CASE PassportClerk(c)
  BY <1>1, <1>2, <1>6, Zenon DEF PassportClerk, passportClerkcheckAndGoOnBreak, ClerkRounds
<1>7. CASE Cashier(c)
  BY <1>1, <1>2, <1>7, Zenon DEF Cashier, cashiercheckAndGoOnBreak, ClerkRounds
<1> QED
  BY <1>3, <1>4, <1>5, <1>6, <1>7 DEF ClerkStep

LEMMA KindOrderLen == Len(KindOrder) = 4
BY DEF KindOrder

LEMMA ManagerDesk ==
  ASSUME DeskInOrder, ManagerStep
  PROVE  DeskInOrder'
<1>1. CASE managerBroacastLine
  <2>1. UNCHANGED breakCV /\ UNCHANGED office
    BY <1>1 DEF managerBroacastLine
  <2>2. manager' = IF manager.kind < Len(KindOrder) THEN [manager EXCEPT !.kind = @ + 1]
                   ELSE [at |-> "wakeUp", kind |-> 1]
    BY <1>1 DEF managerBroacastLine
  <2>3. manager' \in Manager
    BY <2>2, KindOrderLen DEF DeskInOrder, Manager
  <2> QED
    BY <2>1, <2>3 DEF DeskInOrder
<1>2. CASE managerCheckandWakupClerks
  <2>1. UNCHANGED office /\ manager' = [manager EXCEPT !.at = "endOfDay"]
    BY <1>2 DEF managerCheckandWakupClerks
  <2>2. manager' \in Manager
    BY <2>1 DEF DeskInOrder, Manager
  <2>3. breakCV' \in [Kinds -> Seq(Clerks)]
    <3> DEFINE roused == {k \in Kinds : managerCheckandWakeupCLERK(k) /\ breakCV[k] # <<>>}
    <3>1. breakCV' = [k \in Kinds |-> IF k \in roused THEN Tail(breakCV[k]) ELSE breakCV[k]]
      BY <1>2 DEF managerCheckandWakupClerks
    <3>2. \A k \in Kinds : breakCV[k] \in Seq(Clerks) /\ (k \in roused => breakCV[k] # <<>>)
      BY DEF DeskInOrder
    <3> HIDE DEF roused
    <3>3. \A k \in Kinds : k \in roused => Tail(breakCV[k]) \in Seq(Clerks)
      BY <3>2
    <3> QED
      BY <3>1, <3>2, <3>3
  <2> QED
    BY <2>1, <2>2, <2>3 DEF DeskInOrder
<1>3. CASE checkEndOfDay
  <2>1. UNCHANGED breakCV
    BY <1>3 DEF checkEndOfDay
  <2>2. manager' \in Manager
    BY <1>3, KindOrderLen DEF checkEndOfDay, managerSenatorCheck, DeskInOrder, Manager
  <2>3. office' \in Office
    BY <1>3 DEF checkEndOfDay, managerSenatorCheck, DeskInOrder, Office
  <2> QED
    BY <2>1, <2>2, <2>3 DEF DeskInOrder
<1> QED
  BY <1>1, <1>2, <1>3 DEF ManagerStep

\* The inductive invariant: everyone's money and errands, the lines, the SSNs.
OfficeInv == IInv /\ PersonsInOrder /\ LinesInOrder /\ SSNsKnown /\ DeskInOrder

LEMMA OfficeInvNext ==
  ASSUME OfficeInv, [Next]_vars
  PROVE  OfficeInv'
<1>1. IInv'
  BY NextIInv DEF OfficeInv
<1>2. Shape /\ ALineIsOpen /\ PersonsInOrder /\ LinesInOrder /\ SSNsKnown /\ DeskInOrder
  BY DEF OfficeInv, IInv
<1>3. ASSUME NEW p \in Persons, Customer(p) \/ Senator(p) \/ Interaction(p) PROVE OfficeInv'
  <2>1. PersonsInOrder' /\ LinesInOrder' /\ SSNsKnown'
    BY <1>2, <1>3, InteractionEffect, InteractionKnown, EnterLeaveEffect, EnterLeaveKnown
  <2> QED
    BY <1>1, <1>2, <1>3, <2>1, PersonDesk DEF OfficeInv
<1>4. ASSUME NEW c \in Clerks, ClerkStep(c) PROVE OfficeInv'
  <2>1. ClerkEffect /\ filed' \in Filed
    BY <1>2, <1>4, ClerkStepEffect
  <2>2. PersonsInOrder' /\ LinesInOrder' /\ SSNsKnown'
    BY <2>1 DEF ClerkEffect, SSNsKnown
  <2> QED
    BY <1>1, <1>2, <1>4, <2>2, ClerkDesk DEF OfficeInv
<1>5. CASE ManagerStep
  <2>1. PersonsInOrder' /\ LinesInOrder' /\ SSNsKnown'
    BY <1>2, <1>5, BroadcastEffect, WakeupEffect, EndOfDayEffect DEF ManagerStep
  <2> QED
    BY <1>1, <1>2, <1>5, <2>1, ManagerDesk DEF OfficeInv
<1>6. CASE UNCHANGED vars
  <2>1. UNCHANGED person /\ UNCHANGED clerk /\ UNCHANGED counter /\ UNCHANGED filed /\ UNCHANGED <<breakCV, office, manager>>
    BY <1>6 DEF vars
  <2>2. DeskInOrder'
    BY <1>2, <2>1 DEF DeskInOrder
  <2>3. PersonsInOrder' /\ LinesKept /\ VisitsKept
    BY <1>2, <2>1, NothingMoves DEF PersonsInOrder, LinesKept, VisitsKept
  <2>4. SSNsKnown' /\ LinesInOrder'
    BY <1>2, <2>1, <2>3, UnchangedQuiet, QuietStep, LinesKeptStep DEF QuietCounters
  <2> QED
    BY <1>1, <2>2, <2>3, <2>4 DEF OfficeInv
<1> QED
  BY <1>3, <1>4, <1>5, <1>6 DEF Next

\* The loops of Customer and Senator come to the cashier last.
LEMMA ErrandsInOrder ==
  ASSUME NEW b \in BOOLEAN
  PROVE  /\ Errands(b) \in Seq(Kinds)
         /\ \A j \in DOMAIN Errands(b) : Errands(b)[j] = "cashier" => j = Len(Errands(b))
<1> DEFINE visit(k) == IF k \in Kinds THEN <<k>> ELSE <<>>
           first == IF b THEN visit("application") \o visit("picture")
                    ELSE visit("picture") \o visit("application")
           front == first \o visit("passport")
<1>1. Errands(b) = front \o visit("cashier")
  BY DEF Errands
<1> DEFINE K == Kinds \ {"cashier"}
<1>3. ASSUME NEW k, k # "cashier" PROVE visit(k) \in Seq(K)
  <2>1. CASE k \in Kinds
    <3>1. visit(k) = <<k>> /\ k \in K
      BY <1>3, <2>1
    <3> HIDE DEF visit, K
    <3> QED
      BY <3>1
  <2>2. CASE k \notin Kinds
    <3>1. visit(k) = <<>>
      BY <2>2
    <3> HIDE DEF visit, K
    <3> QED
      BY <3>1
  <2> QED
    BY <2>1, <2>2
<1>4. visit("application") \in Seq(K) /\ visit("picture") \in Seq(K) /\ visit("passport") \in Seq(K)
  BY <1>3
<1>5. visit("cashier") \in Seq(Kinds) /\ (visit("cashier") = <<>> \/ visit("cashier") = <<"cashier">>)
  <2>1. CASE "cashier" \in Kinds
    BY <2>1
  <2>2. CASE "cashier" \notin Kinds
    BY <2>2
  <2> QED
    BY <2>1, <2>2
<1> HIDE DEF visit
<1>6. front \in Seq(K)
  <2>1. first \in Seq(K)
    <3> HIDE DEF K
    <3> QED
      BY <1>4
  <2> HIDE DEF first, K
  <2> QED
    BY <1>4, <2>1
<1> HIDE DEF front
<1>7. front \in Seq(Kinds) /\ \A j \in DOMAIN front : front[j] # "cashier"
  BY <1>6
<1> HIDE DEF K
<1>8. CASE visit("cashier") = <<>>
  <2>1. Errands(b) = front
    BY <1>1, <1>7, <1>8
  <2> QED
    BY <1>7, <2>1
<1>9. CASE visit("cashier") = <<"cashier">>
  <2>1. PICK u : u = visit("cashier") /\ u \in Seq(Kinds) /\ Len(u) = 1
    BY <1>5, <1>9
  <2>2. PICK e : e = Errands(b) /\ e = front \o u
    BY <1>1, <2>1
  <2>3. e \in Seq(Kinds) /\ Len(e) = Len(front) + 1 /\ DOMAIN e = 1 .. Len(front) + 1 /\ Len(front) \in Nat
    BY <1>7, <2>1, <2>2
  <2>4. \A j \in 1 .. Len(front) : e[j] = front[j] /\ j \in DOMAIN front
    BY <1>7, <2>1, <2>2
  <2>5. \A j \in DOMAIN e : e[j] = "cashier" => j = Len(e)
    BY <1>7, <2>3, <2>4
  <2> QED
    BY <2>2, <2>3, <2>5
<1> QED
  BY <1>5, <1>8, <1>9

LEMMA InitPersonsInOrder ==
  ASSUME InitPersons
  PROVE  PersonsInOrder /\ \A p \in Persons : person[p].pc = "arriving"
<1> DEFINE start(m, t) == [NoLocals EXCEPT !.money = m, !.todo = t]
<1>1. PICK cash \in [Customers -> 0 .. MaxBribes], first \in [Persons -> BOOLEAN] :
        person = [p \in Persons |-> [NoLocals EXCEPT !.money = IF p \in Customers THEN @ + cash[p] * 500 ELSE @,
                                                     !.todo = Errands(first[p])]]
  BY DEF InitPersons
<1>2. ASSUME NEW p \in Persons PROVE person[p] \in GoodPerson /\ person[p].pc = "arriving"
  <2> DEFINE m == IF p \in Customers THEN 100 + cash[p] * 500 ELSE 100
             t == Errands(first[p])
  <2>1. person[p] = start(m, t)
    BY <1>1 DEF NoLocals
  <2>2. m \in Purses
    <3>1. CASE p \in Customers
      <4>1. cash[p] \in 0 .. MaxBribes
        BY <3>1
      <4>2. m = 100 + 500 * cash[p]
        BY <3>1, <4>1, BoundsAssumption
      <4> QED
        BY <4>1, <4>2 DEF Purses
    <3>2. CASE p \notin Customers
      <4>1. m = 100 + 500 * 0 /\ 0 \in 0 .. MaxBribes
        BY <3>2, BoundsAssumption
      <4> QED
        BY <4>1 DEF Purses
    <3> QED
      BY <3>1, <3>2
  <2>3. first[p] \in BOOLEAN
    OBVIOUS
  <2>4. t \in Seq(Kinds) /\ \A j \in DOMAIN t : t[j] = "cashier" => j = Len(t)
    BY <2>3, ErrandsInOrder
  <2>5. m \in Nat
    BY <2>2, PurseBribe
  <2> HIDE DEF m, t
  <2>6. NoLocals \in Person
    BY DEF NoLocals, Person
  <2>7. /\ start(m, t) \in Person /\ start(m, t).pc = NoLocals.pc /\ start(m, t).todo = t
        /\ start(m, t).money = m
    BY <2>4, <2>5, <2>6 DEF Person
  <2>8. NoLocals.pc = "arriving"
    BY DEF NoLocals
  <2> HIDE DEF start
  <2>9. Solvent(start(m, t))
    BY <2>2, <2>4, <2>7, <2>8 DEF Solvent, Owing, InLinePc, Paid, WithClerkPc, AtCounterPc
  <2> QED
    BY <2>1, <2>7, <2>8, <2>9 DEF GoodPerson
<1>3. person = [p \in Persons |-> person[p]]
  BY <1>1
<1> QED
  BY <1>2, <1>3 DEF PersonsInOrder

LEMMA OfficeInvInit ==
  ASSUME Init
  PROVE  OfficeInv
<1>1. IInv
  BY InitIInv
<1>2. PersonsInOrder /\ \A p \in Persons : person[p].pc = "arriving"
  BY InitPersonsInOrder DEF Init
<1>3. ASSUME NEW c \in Clerks
      PROVE  /\ \A b \in BOOLEAN : counter[c].count[b] = 0 /\ counter[c].queue[b] = <<>>
             /\ counter[c].cv = <<>> /\ clerk[c].pc = "check"
  BY DEF Init, InitCounters
<1>4. LinesInOrder
  <2>1. ASSUME NEW c \in Clerks, NEW b \in BOOLEAN PROVE LineInOrder(c, b)
    <3>1. InLine(c, b) = {}
      BY <1>2 DEF InLine, InLinePc
    <3>2. Cardinality(InLine(c, b)) = 0
      BY <3>1, FS_EmptySet
    <3>3. DOMAIN counter[c].queue[b] = {}
      BY <1>3
    <3> QED
      BY <1>3, <3>2, <3>3 DEF LineInOrder
  <2> QED
    BY <2>1 DEF LinesInOrder
<1>5. SSNsKnown
  <2>1. ClerksKnow
    BY <1>3 DEF ClerksKnow, OwnCV, CalledPc, ServingPc
  <2>2. VisitorsKnown
    BY <1>2 DEF VisitorsKnown, AtCounterPc
  <2>3. filed \in Filed
    BY DEF Init, InitDocuments, Filed
  <2> QED
    BY <2>1, <2>2, <2>3 DEF SSNsKnown
<1>6. DeskInOrder
  <2>1. breakCV \in [Kinds -> Seq(Clerks)]
    BY DEF Init, InitCounters
  <2>2. office \in Office /\ manager \in Manager
    BY KindOrderLen DEF Init, InitOffice, Office, Manager
  <2> QED
    BY <2>1, <2>2 DEF DeskInOrder
<1> QED
  BY <1>1, <1>2, <1>4, <1>5, <1>6 DEF OfficeInv

LEMMA OfficeInvTypes ==
  ASSUME OfficeInv
  PROVE  TypeOK
<1>1. Shape /\ PersonsInOrder /\ LinesInOrder /\ filed \in Filed /\ DeskInOrder
  BY DEF OfficeInv, IInv, SSNsKnown
<1>2. person \in [Persons -> Person]
  BY <1>1 DEF PersonsInOrder, GoodPerson
<1>3. ASSUME NEW c \in Clerks PROVE counter[c] \in Counter
  <2>1. counter[c] \in SomeCounter
    BY <1>1 DEF Shape
  <2>2. counter[c].count \in [BOOLEAN -> Int]
    BY <2>1 DEF SomeCounter
  <2>3. \A b \in BOOLEAN : counter[c].count[b] \in Nat
    BY <1>1, InLineFinite DEF LinesInOrder, LineInOrder
  <2>4. counter[c].count \in [BOOLEAN -> Nat]
    BY <2>2, <2>3
  <2> QED
    BY <2>1, <2>4 DEF SomeCounter, Counter
<1>4. counter \in [Clerks -> Counter] /\ clerk \in [Clerks -> Clerk]
  BY <1>1, <1>3 DEF Shape
<1> QED
  BY <1>1, <1>2, <1>4 DEF TypeOK, DeskInOrder

\* The inductive invariant of the types: nobody's money, no count and no SSN is
\* what it should not be.
THEOREM OfficeInOrder == Spec => []OfficeInv
<1>1. Init => OfficeInv
  BY OfficeInvInit
<1>2. OfficeInv /\ [Next]_vars => OfficeInv'
  BY OfficeInvNext
<1> QED
  BY <1>1, <1>2, PTL DEF Spec

\* However many customers, clerks and bribes there are, no line's count and nobody's
\* money is ever negative, although a customer pays the bribe only at the counter, and
\* leaves a line only when it is woken: by its clerk, or by the manager's broadcast.
THEOREM OfficeTypes == Spec => []TypeOK
<1>1. OfficeInv => TypeOK
  BY OfficeInvTypes
<1> QED
  BY <1>1, OfficeInOrder, PTL
-----------------------------------------------------------------------------
(***************************************************************************)
(* Senators have the office to themselves.                                 *)
(***************************************************************************)
InsideCustomers == {p \in Customers : person[p].pc \in InsidePc}
EngagedCustomers == {p \in Customers : person[p].pc \in EngagedPc}
LetInCustomers == {p \in Customers : person[p].pc = "letIn"}
WaitingPc == {"senatorLine", "admitted"}
PresentPc == InsidePc \cup {"outside"}
WaitingSenators == {s \in Senators : person[s].pc \in WaitingPc}
PresentSenators == {s \in Senators : person[s].pc \in PresentPc}

\* The manager's counts are right.  A senator sent outside would be taken off the count
\* of customers.
Counted ==
  /\ office.senatorLineCount = Cardinality(WaitingSenators)
  /\ office.senatorPresentCount = Cardinality(PresentSenators)
  /\ (\A s \in Senators : person[s].pc # "outside") =>
       office.customersPresentCount = Cardinality(InsideCustomers)

\* As long as it is safe for senators to enter, customers are kept out and none has
\* anything to do inside; otherwise no senator has been let in.  A line is woken only
\* while customers are kept out.
Separated ==
  /\ \A s \in Senators : person[s].pc \notin {"letIn", "loop"}
  /\ office.senatorSafeToEnter =>
       office.senatorPresentWaitOutSide /\ EngagedCustomers = {} /\ LetInCustomers = {}
  /\ ~office.senatorSafeToEnter =>
       \A s \in Senators : person[s].pc # "admitted" /\ person[s].pc \notin PresentPc
  /\ manager.at = "broadcast" => office.senatorPresentWaitOutSide

SenatorsInOrder == Counted /\ Separated

LEMMA SenatorFacts ==
  ASSUME NEW s \in Senators
  PROVE  s \in Persons /\ s \notin Customers
BY PersonsAssumption DEF Persons

LEMMA CustomersFinite ==
  IsFiniteSet(InsideCustomers) /\ Cardinality(InsideCustomers) \in Nat
<1>1. InsideCustomers \subseteq Persons
  BY DEF InsideCustomers, Persons
<1>2. IsFiniteSet(InsideCustomers)
  BY <1>1, PersonsAssumption, FS_Subset
<1> QED
  BY <1>2, FS_CardinalityType

\* How many persons are somewhere when one of them, p, moves.
LEMMA CountMoves ==
  ASSUME NEW S, NEW S2, NEW p, S \subseteq Persons, \A q : q # p => (q \in S2 <=> q \in S)
  PROVE  /\ Cardinality(S) \in Nat
         /\ (p \in S <=> p \in S2) => Cardinality(S2) = Cardinality(S)
         /\ p \notin S /\ p \in S2 => Cardinality(S2) = Cardinality(S) + 1
         /\ p \in S /\ p \notin S2 => Cardinality(S2) = Cardinality(S) - 1
<1>1. IsFiniteSet(S) /\ Cardinality(S) \in Nat
  BY PersonsAssumption, FS_Subset, FS_CardinalityType
<1>2. ASSUME p \in S <=> p \in S2 PROVE Cardinality(S2) = Cardinality(S)
  <2>1. S2 = S
    BY <1>2
  <2> QED
    BY <2>1
<1>3. ASSUME p \notin S, p \in S2 PROVE Cardinality(S2) = Cardinality(S) + 1
  <2>1. S2 = S \cup {p}
    BY <1>3
  <2> QED
    BY <1>1, <1>3, <2>1, OneMore
<1>4. ASSUME p \in S, p \notin S2 PROVE Cardinality(S2) = Cardinality(S) - 1
  <2>1. S2 = S \ {p}
    BY <1>4
  <2> QED
    BY <1>1, <1>4, <2>1, OneFewer
<1> QED
  BY <1>1, <1>2, <1>3, <1>4

\* Nobody enters or leaves.
LEMMA StaySenators ==
  ASSUME SenatorsInOrder, PersonsStay, UNCHANGED office, manager'.at = "broadcast" => manager.at = "broadcast"
  PROVE  SenatorsInOrder'
<1>1. \A p \in Customers : StaysInside(p, person[p], person'[p])
  BY DEF PersonsStay, Persons
<1>2. InsideCustomers' = InsideCustomers
  BY <1>1 DEF InsideCustomers, StaysInside
<1>3. EngagedCustomers' \subseteq EngagedCustomers
  BY <1>1 DEF EngagedCustomers, StaysInside
<1>4. LetInCustomers' \subseteq LetInCustomers
  <2>1. "letIn" \notin InsidePc
    BY DEF InsidePc
  <2> QED
    BY <1>1, <2>1 DEF LetInCustomers, StaysInside
<1>5. ASSUME NEW s \in Senators
      PROVE  \/ person'[s] = person[s]
             \/ /\ person[s].pc \in InsidePc /\ person'[s].pc \in InsidePc /\ person'[s].pc # "loop"
  <2>1. StaysInside(s, person[s], person'[s]) /\ s \notin Customers /\ person[s].pc # "loop"
    BY SenatorFacts DEF PersonsStay, SenatorsInOrder, Separated
  <2> QED
    BY <2>1 DEF StaysInside, EngagedPc
<1>6. /\ WaitingSenators' = WaitingSenators /\ PresentSenators' = PresentSenators
      /\ \A s \in Senators : person'[s].pc = "outside" <=> person[s].pc = "outside"
      /\ \A s \in Senators : person'[s].pc \in PresentPc <=> person[s].pc \in PresentPc
      /\ \A s \in Senators : person'[s].pc = "admitted" <=> person[s].pc = "admitted"
      /\ \A s \in Senators : person'[s].pc \notin {"letIn", "loop"}
  BY <1>5 DEF WaitingSenators, PresentSenators, WaitingPc, PresentPc, InsidePc, SenatorsInOrder, Separated
<1>7. Counted'
  BY <1>2, <1>6 DEF SenatorsInOrder, Counted
<1>8. Separated'
  BY <1>3, <1>4, <1>6 DEF SenatorsInOrder, Separated
<1> QED
  BY <1>7, <1>8 DEF SenatorsInOrder

\* A customer p moves; no senator does.
LEMMA CustomerMoves ==
  ASSUME PersonsInOrder, SenatorsInOrder, NEW p \in Customers, NEW r2, person' = [person EXCEPT ![p] = r2],
         office'.senatorLineCount = office.senatorLineCount,
         office'.senatorPresentCount = office.senatorPresentCount,
         office'.senatorSafeToEnter = office.senatorSafeToEnter,
         office'.senatorPresentWaitOutSide = office.senatorPresentWaitOutSide,
         UNCHANGED manager,
         r2.pc # "letIn",
         r2.pc \in EngagedPc =>
           person[p].pc \in EngagedPc \cup {"letIn"} \/ ~office.senatorPresentWaitOutSide,
         office.customersPresentCount \in Int,
         \/ /\ person[p].pc \in InsidePc <=> r2.pc \in InsidePc
            /\ office'.customersPresentCount = office.customersPresentCount
         \/ /\ person[p].pc \notin InsidePc /\ r2.pc \in InsidePc
            /\ office'.customersPresentCount = office.customersPresentCount + 1
         \/ /\ person[p].pc \in InsidePc /\ r2.pc \notin InsidePc
            /\ office'.customersPresentCount = office.customersPresentCount - 1
  PROVE  SenatorsInOrder'
<1>1. \A q \in Persons : person'[q] = IF q = p THEN r2 ELSE person[q]
  BY DEF PersonsInOrder
<1>2. \A s \in Senators : person'[s] = person[s]
  BY <1>1, SenatorFacts
<1>3. WaitingSenators' = WaitingSenators /\ PresentSenators' = PresentSenators
  BY <1>2 DEF WaitingSenators, PresentSenators
<1>4. LetInCustomers' \subseteq LetInCustomers
  BY <1>1 DEF LetInCustomers, Persons
<1>5. office.senatorPresentWaitOutSide /\ LetInCustomers = {} => EngagedCustomers' \subseteq EngagedCustomers
  BY <1>1 DEF EngagedCustomers, LetInCustomers, Persons
<1>6. office.customersPresentCount = Cardinality(InsideCustomers) =>
        office'.customersPresentCount = Cardinality(InsideCustomers')
  <2>1. /\ (person[p].pc \in InsidePc <=> r2.pc \in InsidePc) =>
             Cardinality(InsideCustomers') = Cardinality(InsideCustomers)
        /\ person[p].pc \notin InsidePc /\ r2.pc \in InsidePc =>
             Cardinality(InsideCustomers') = Cardinality(InsideCustomers) + 1
        /\ person[p].pc \in InsidePc /\ r2.pc \notin InsidePc =>
             Cardinality(InsideCustomers') = Cardinality(InsideCustomers) - 1
    <3>1. InsideCustomers \subseteq Persons
      BY DEF InsideCustomers, Persons
    <3>2. \A q : q # p => (q \in InsideCustomers' <=> q \in InsideCustomers)
      BY <1>1 DEF InsideCustomers, Persons
    <3>3. (p \in InsideCustomers <=> person[p].pc \in InsidePc) /\ (p \in InsideCustomers' <=> r2.pc \in InsidePc)
      BY <1>1 DEF InsideCustomers, Persons
    <3> QED
      BY <3>1, <3>2, <3>3, CountMoves
  <2> QED
    BY <2>1
<1>7. Counted'
  BY <1>2, <1>3, <1>6 DEF SenatorsInOrder, Counted
<1>8. Separated'
  BY <1>2, <1>4, <1>5 DEF SenatorsInOrder, Separated
<1> QED
  BY <1>7, <1>8 DEF SenatorsInOrder

\* A senator s moves; no customer does.
LEMMA SameCustomers ==
  ASSUME PersonsInOrder, NEW s \in Senators, NEW r2, person' = [person EXCEPT ![s] = r2]
  PROVE  /\ person'[s] = r2
         /\ \A t \in Senators : t # s => person'[t] = person[t]
         /\ InsideCustomers' = InsideCustomers /\ EngagedCustomers' = EngagedCustomers
         /\ LetInCustomers' = LetInCustomers
<1>1. \A q \in Customers : person'[q] = person[q]
  BY SenatorFacts DEF PersonsInOrder, Persons
<1>2. person'[s] = r2 /\ \A t \in Senators : t # s => person'[t] = person[t]
  BY SenatorFacts DEF PersonsInOrder
<1> QED
  BY <1>1, <1>2 DEF InsideCustomers, EngagedCustomers, LetInCustomers

LEMMA SenatorsMove ==
  ASSUME PersonsInOrder, NEW s \in Senators, NEW r2, person' = [person EXCEPT ![s] = r2]
  PROVE  /\ Cardinality(WaitingSenators) \in Nat /\ Cardinality(PresentSenators) \in Nat
         /\ (person[s].pc \in WaitingPc <=> r2.pc \in WaitingPc) =>
              Cardinality(WaitingSenators') = Cardinality(WaitingSenators)
         /\ person[s].pc \notin WaitingPc /\ r2.pc \in WaitingPc =>
              Cardinality(WaitingSenators') = Cardinality(WaitingSenators) + 1
         /\ person[s].pc \in WaitingPc /\ r2.pc \notin WaitingPc =>
              Cardinality(WaitingSenators') = Cardinality(WaitingSenators) - 1
         /\ (person[s].pc \in PresentPc <=> r2.pc \in PresentPc) =>
              Cardinality(PresentSenators') = Cardinality(PresentSenators)
         /\ person[s].pc \notin PresentPc /\ r2.pc \in PresentPc =>
              Cardinality(PresentSenators') = Cardinality(PresentSenators) + 1
         /\ person[s].pc \in PresentPc /\ r2.pc \notin PresentPc =>
              Cardinality(PresentSenators') = Cardinality(PresentSenators) - 1
<1>1. person'[s] = r2 /\ \A t \in Senators : t # s => person'[t] = person[t]
  BY SameCustomers
<1>2. WaitingSenators \subseteq Persons /\ PresentSenators \subseteq Persons
  BY DEF WaitingSenators, PresentSenators, Persons
<1>3. /\ \A t : t # s => (t \in WaitingSenators' <=> t \in WaitingSenators)
      /\ (s \in WaitingSenators <=> person[s].pc \in WaitingPc) /\ (s \in WaitingSenators' <=> r2.pc \in WaitingPc)
  BY <1>1 DEF WaitingSenators
<1>4. /\ \A t : t # s => (t \in PresentSenators' <=> t \in PresentSenators)
      /\ (s \in PresentSenators <=> person[s].pc \in PresentPc) /\ (s \in PresentSenators' <=> r2.pc \in PresentPc)
  BY <1>1 DEF PresentSenators
<1>5. /\ Cardinality(WaitingSenators) \in Nat
      /\ (s \in WaitingSenators <=> s \in WaitingSenators') =>
           Cardinality(WaitingSenators') = Cardinality(WaitingSenators)
      /\ s \notin WaitingSenators /\ s \in WaitingSenators' =>
           Cardinality(WaitingSenators') = Cardinality(WaitingSenators) + 1
      /\ s \in WaitingSenators /\ s \notin WaitingSenators' =>
           Cardinality(WaitingSenators') = Cardinality(WaitingSenators) - 1
  BY <1>2, <1>3, CountMoves
<1>6. /\ Cardinality(PresentSenators) \in Nat
      /\ (s \in PresentSenators <=> s \in PresentSenators') =>
           Cardinality(PresentSenators') = Cardinality(PresentSenators)
      /\ s \notin PresentSenators /\ s \in PresentSenators' =>
           Cardinality(PresentSenators') = Cardinality(PresentSenators) + 1
      /\ s \in PresentSenators /\ s \notin PresentSenators' =>
           Cardinality(PresentSenators') = Cardinality(PresentSenators) - 1
  BY <1>2, <1>4, CountMoves
<1> QED
  BY <1>3, <1>4, <1>5, <1>6

LEMMA CustomerSteps ==
  ASSUME Shape, PersonsInOrder, DeskInOrder, SenatorsInOrder, NEW p \in Persons, Customer(p)
  PROVE  SenatorsInOrder'
<1>0. office \in Office /\ person[p] \in Person
  BY DEF DeskInOrder, PersonsInOrder, GoodPerson
<1>1. office.customersPresentCount \in Int
  BY <1>0 DEF Office
<1>2. \A x : [person[p] EXCEPT !.pc = x].pc = x
  BY <1>0 DEF Person
<1>3. UNCHANGED manager
  BY DEF Customer, customerCheckIn, customerCheckSenator, customerComeBackIn, customerCheckOut
<1>4. CASE customerCheckIn(p)
  <2>1. p \in Customers /\ person[p].pc = "arriving" /\ person' = [person EXCEPT ![p].pc = "loop"]
    BY <1>4 DEF customerCheckIn
  <2>2. office' = [office EXCEPT !.customersPresentCount = @ + 1]
    BY <1>4 DEF customerCheckIn
  <2>3. /\ office'.customersPresentCount = office.customersPresentCount + 1
        /\ office'.senatorLineCount = office.senatorLineCount
        /\ office'.senatorPresentCount = office.senatorPresentCount
        /\ office'.senatorSafeToEnter = office.senatorSafeToEnter
        /\ office'.senatorPresentWaitOutSide = office.senatorPresentWaitOutSide
    BY <1>0, <2>2 DEF Office
  <2>4. PICK r2 : person' = [person EXCEPT ![p] = r2] /\ r2.pc = "loop"
    BY <1>2, <2>1
  <2>5. person[p].pc \notin InsidePc /\ r2.pc \in InsidePc /\ r2.pc \notin EngagedPc /\ r2.pc # "letIn"
    BY <2>1, <2>4 DEF InsidePc, EngagedPc
  <2> QED
    BY <1>1, <1>3, <2>1, <2>3, <2>4, <2>5, CustomerMoves
<1>5. CASE customerCheckOut(p)
  <2>1. /\ p \in Customers /\ person[p].pc = "errand"
        /\ person' = [person EXCEPT ![p] = [NoLocals EXCEPT !.pc = "gone"]]
    BY <1>5 DEF customerCheckOut
  <2>2. office' = [office EXCEPT !.customersPresentCount = @ - 1, !.checkedOutCount = @ + 1]
    BY <1>5 DEF customerCheckOut
  <2>3. /\ office'.customersPresentCount = office.customersPresentCount - 1
        /\ office'.senatorLineCount = office.senatorLineCount
        /\ office'.senatorPresentCount = office.senatorPresentCount
        /\ office'.senatorSafeToEnter = office.senatorSafeToEnter
        /\ office'.senatorPresentWaitOutSide = office.senatorPresentWaitOutSide
    BY <1>0, <2>2 DEF Office
  <2>4. PICK r2 : person' = [person EXCEPT ![p] = r2] /\ r2.pc = "gone"
    <3>1. [NoLocals EXCEPT !.pc = "gone"].pc = "gone"
      BY DEF NoLocals
    <3> QED
      BY <2>1, <3>1
  <2>5. person[p].pc \in InsidePc /\ r2.pc \notin InsidePc /\ r2.pc \notin EngagedPc /\ r2.pc # "letIn"
    BY <2>1, <2>4 DEF InsidePc, EngagedPc
  <2> QED
    BY <1>1, <1>3, <2>1, <2>3, <2>4, <2>5, CustomerMoves
<1>6. CASE customerComeBackIn(p)
  <2>1. person[p].pc = "letIn" /\ person' = [person EXCEPT ![p].pc = person[p].back]
    BY <1>6 DEF customerComeBackIn
  <2>2. p \in Customers
    BY <2>1 DEF SenatorsInOrder, Separated, Persons
  <2>3. office' = [office EXCEPT !.customersPresentCount = @ + 1, !.passportOfficeOutsideLineCount = @ - 1]
    BY <1>6 DEF customerComeBackIn
  <2>4. /\ office'.customersPresentCount = office.customersPresentCount + 1
        /\ office'.senatorLineCount = office.senatorLineCount
        /\ office'.senatorPresentCount = office.senatorPresentCount
        /\ office'.senatorSafeToEnter = office.senatorSafeToEnter
        /\ office'.senatorPresentWaitOutSide = office.senatorPresentWaitOutSide
    BY <1>0, <2>3 DEF Office
  <2>5. PICK r2 : person' = [person EXCEPT ![p] = r2] /\ r2.pc = person[p].back
    BY <1>2, <2>1
  <2>6. r2.pc \in {"loop", "errand"}
    BY <1>0, <2>5 DEF Person
  <2>7. person[p].pc \notin InsidePc /\ r2.pc \in InsidePc /\ r2.pc # "letIn"
    BY <2>1, <2>6 DEF InsidePc
  <2> QED
    BY <1>1, <1>3, <2>1, <2>2, <2>4, <2>5, <2>7, CustomerMoves
<1>7. CASE customerCheckSenator(p)
  <2> DEFINE flag == office.senatorPresentWaitOutSide
  <2>1. /\ person[p].pc \in {"loop", "unsignalled"}
        /\ \E r2 : /\ MovesAlone(p, r2)
                   /\ r2.pc = IF flag THEN "outside" ELSE IF person[p].pc = "loop" THEN "errand" ELSE "called"
    BY <1>7, CheckSenatorAlone
  <2>2. PICK r2 : /\ person' = [person EXCEPT ![p] = r2]
                  /\ r2.pc = IF flag THEN "outside" ELSE IF person[p].pc = "loop" THEN "errand" ELSE "called"
    BY <2>1 DEF MovesAlone
  <2>3. /\ ~flag => office' = office
        /\ flag => office' = [office EXCEPT !.customersPresentCount = @ - 1,
                                            !.passportOfficeOutsideLineCount = @ + 1]
    BY <1>7 DEF customerCheckSenator, customerSenatorPresentWaitOutside
  <2>4. /\ office'.customersPresentCount =
             IF flag THEN office.customersPresentCount - 1 ELSE office.customersPresentCount
        /\ office'.senatorLineCount = office.senatorLineCount
        /\ office'.senatorPresentCount = office.senatorPresentCount
        /\ office'.senatorSafeToEnter = office.senatorSafeToEnter
        /\ office'.senatorPresentWaitOutSide = office.senatorPresentWaitOutSide
    BY <1>0, <2>3 DEF Office
  <2>5. person[p].pc \in InsidePc /\ (r2.pc \in InsidePc <=> ~flag) /\ r2.pc # "letIn"
        /\ (r2.pc \in EngagedPc => ~flag)
    BY <2>1, <2>2 DEF InsidePc, EngagedPc
  <2>6. CASE p \in Customers
    BY <1>1, <1>3, <2>2, <2>4, <2>5, <2>6, CustomerMoves
  <2>7. CASE p \notin Customers
    <3>1. p \in Senators
      BY <2>7 DEF Persons
    <3>2. office.senatorSafeToEnter
      BY <2>5, <3>1 DEF SenatorsInOrder, Separated, PresentPc
    <3>3. flag
      BY <3>2 DEF SenatorsInOrder, Separated
    <3>4. r2.pc = "outside"
      BY <2>2, <3>3
    <3>5. person[p].pc \notin WaitingPc /\ r2.pc \notin WaitingPc /\ person[p].pc \in PresentPc /\ r2.pc \in PresentPc
      BY <2>1, <3>4 DEF WaitingPc, PresentPc, InsidePc
    <3>6. /\ Cardinality(WaitingSenators') = Cardinality(WaitingSenators)
          /\ Cardinality(PresentSenators') = Cardinality(PresentSenators)
      BY <2>2, <3>1, <3>5, SenatorsMove
    <3>7. /\ person'[p] = r2 /\ \A t \in Senators : t # p => person'[t] = person[t]
          /\ EngagedCustomers' = EngagedCustomers /\ LetInCustomers' = LetInCustomers
      BY <2>2, <3>1, SameCustomers
    <3>8. Counted'
      BY <2>4, <3>1, <3>4, <3>6, <3>7 DEF SenatorsInOrder, Counted
    <3>9. \A t \in Senators : person'[t].pc \notin {"letIn", "loop"}
      BY <3>4, <3>7 DEF SenatorsInOrder, Separated
    <3>10. Separated'
      BY <1>3, <2>4, <3>2, <3>7, <3>9 DEF SenatorsInOrder, Separated
    <3> QED
      BY <3>8, <3>10 DEF SenatorsInOrder
  <2> QED
    BY <2>6, <2>7
<1> QED
  BY <1>4, <1>5, <1>6, <1>7 DEF Customer

LEMMA SenatorSteps ==
  ASSUME PersonsInOrder, DeskInOrder, SenatorsInOrder, NEW s \in Persons, Senator(s)
  PROVE  SenatorsInOrder'
<1>0. office \in Office /\ s \in Senators /\ UNCHANGED manager
  BY DEF DeskInOrder, Senator, senatorArriveAtPassportOffice, senatorLeavePassportOffice
<1>1. person[s] \in Person
  BY DEF PersonsInOrder, GoodPerson
<1>2. CASE senatorLeavePassportOffice(s)
  <2>1. /\ person[s].pc = "errand" /\ person' = [person EXCEPT ![s] = [NoLocals EXCEPT !.pc = "gone"]]
        /\ office' = [office EXCEPT !.senatorPresentCount = @ - 1, !.checkedOutCount = @ + 1]
    BY <1>2 DEF senatorLeavePassportOffice
  <2>2. PICK r2 : person' = [person EXCEPT ![s] = r2] /\ r2.pc = "gone"
    <3>1. [NoLocals EXCEPT !.pc = "gone"].pc = "gone"
      BY DEF NoLocals
    <3> QED
      BY <2>1, <3>1
  <2>3. /\ office'.customersPresentCount = office.customersPresentCount
        /\ office'.senatorLineCount = office.senatorLineCount
        /\ office'.senatorPresentCount = office.senatorPresentCount - 1
        /\ office'.senatorSafeToEnter = office.senatorSafeToEnter
        /\ office'.senatorPresentWaitOutSide = office.senatorPresentWaitOutSide
    BY <1>0, <2>1 DEF Office
  <2>4. person[s].pc \notin WaitingPc /\ r2.pc \notin WaitingPc /\ person[s].pc \in PresentPc /\ r2.pc \notin PresentPc
    BY <2>1, <2>2 DEF WaitingPc, PresentPc, InsidePc
  <2>5. /\ Cardinality(WaitingSenators') = Cardinality(WaitingSenators)
        /\ Cardinality(PresentSenators') = Cardinality(PresentSenators) - 1
    BY <1>0, <2>2, <2>4, SenatorsMove
  <2>6. /\ person'[s] = r2 /\ \A t \in Senators : t # s => person'[t] = person[t]
        /\ InsideCustomers' = InsideCustomers /\ EngagedCustomers' = EngagedCustomers
        /\ LetInCustomers' = LetInCustomers
    BY <1>0, <2>2, SameCustomers
  <2>7. \A t \in Senators : /\ person'[t].pc \notin {"letIn", "loop"}
                            /\ person'[t].pc = "outside" <=> person[t].pc = "outside"
                            /\ ~office.senatorSafeToEnter =>
                                 person'[t].pc # "admitted" /\ person'[t].pc \notin PresentPc
    BY <2>1, <2>2, <2>4, <2>6 DEF SenatorsInOrder, Separated
  <2>8. Counted'
    BY <2>3, <2>5, <2>6, <2>7 DEF SenatorsInOrder, Counted
  <2>9. Separated'
    BY <1>0, <2>3, <2>6, <2>7 DEF SenatorsInOrder, Separated
  <2> QED
    BY <2>8, <2>9 DEF SenatorsInOrder
<1>3. CASE senatorArriveAtPassportOffice(s)
  <2> DEFINE safe == office.senatorSafeToEnter
             x == IF safe THEN "errand" ELSE "senatorLine"
             left == IF person[s].pc = "admitted" THEN office.senatorLineCount - 1 ELSE office.senatorLineCount
  <2>1. person[s].pc \in {"arriving", "admitted"} /\ person' = [person EXCEPT ![s].pc = x]
    BY <1>3 DEF senatorArriveAtPassportOffice
  <2>2. office' = IF safe THEN [office EXCEPT !.senatorPresentCount = @ + 1, !.senatorLineCount = left]
                  ELSE [office EXCEPT !.senatorLineCount = left + 1]
    BY <1>3 DEF senatorArriveAtPassportOffice
  <2>3. PICK r2 : person' = [person EXCEPT ![s] = r2] /\ r2.pc = x
    <3>1. [person[s] EXCEPT !.pc = x].pc = x
      BY <1>1 DEF Person
    <3> QED
      BY <2>1, <3>1
  <2>4. /\ person'[s] = r2 /\ \A t \in Senators : t # s => person'[t] = person[t]
        /\ InsideCustomers' = InsideCustomers /\ EngagedCustomers' = EngagedCustomers
        /\ LetInCustomers' = LetInCustomers
    BY <1>0, <2>3, SameCustomers
  <2>5. /\ Cardinality(WaitingSenators) = office.senatorLineCount
        /\ Cardinality(PresentSenators) = office.senatorPresentCount
    BY DEF SenatorsInOrder, Counted
  <2>6. /\ person[s].pc \notin PresentPc /\ (person[s].pc \in WaitingPc <=> person[s].pc = "admitted")
        /\ person[s].pc # "outside"
    BY <2>1 DEF WaitingPc, PresentPc, InsidePc
  <2>7. CASE safe
    <3>1. r2.pc = "errand"
      BY <2>3, <2>7
    <3>2. r2.pc \notin WaitingPc /\ r2.pc \in PresentPc
      BY <3>1 DEF WaitingPc, PresentPc, InsidePc
    <3>3. /\ Cardinality(WaitingSenators') = left
          /\ Cardinality(PresentSenators') = office.senatorPresentCount + 1
      BY <1>0, <2>3, <2>5, <2>6, <3>2, SenatorsMove
    <3>4. office' = [office EXCEPT !.senatorPresentCount = @ + 1, !.senatorLineCount = left]
      BY <2>2, <2>7
    <3>5. /\ office'.senatorLineCount = left /\ office'.senatorPresentCount = office.senatorPresentCount + 1
          /\ office'.customersPresentCount = office.customersPresentCount /\ office'.senatorSafeToEnter
          /\ office'.senatorPresentWaitOutSide = office.senatorPresentWaitOutSide
      BY <1>0, <2>7, <3>4 DEF Office
    <3>6. \A t \in Senators : /\ person'[t].pc \notin {"letIn", "loop"}
                              /\ person'[t].pc = "outside" <=> person[t].pc = "outside"
      BY <2>4, <2>6, <3>1 DEF SenatorsInOrder, Separated
    <3> HIDE DEF left
    <3>7. Counted'
      BY <2>4, <3>3, <3>5, <3>6 DEF SenatorsInOrder, Counted
    <3>8. Separated'
      BY <1>0, <2>4, <2>7, <3>5, <3>6 DEF SenatorsInOrder, Separated
    <3> QED
      BY <3>7, <3>8 DEF SenatorsInOrder
  <2>8. CASE ~safe
    <3>1. r2.pc = "senatorLine" /\ person[s].pc = "arriving"
      BY <1>0, <2>1, <2>3, <2>8 DEF SenatorsInOrder, Separated
    <3>2. r2.pc \in WaitingPc /\ r2.pc \notin PresentPc /\ person[s].pc \notin WaitingPc
      BY <3>1 DEF WaitingPc, PresentPc, InsidePc
    <3>3. /\ Cardinality(WaitingSenators') = office.senatorLineCount + 1
          /\ Cardinality(PresentSenators') = office.senatorPresentCount
      BY <1>0, <2>3, <2>5, <2>6, <3>2, SenatorsMove
    <3>4. office' = [office EXCEPT !.senatorLineCount = office.senatorLineCount + 1]
      BY <2>2, <2>8, <3>1
    <3>5. /\ office'.senatorLineCount = office.senatorLineCount + 1
          /\ office'.senatorPresentCount = office.senatorPresentCount
          /\ office'.customersPresentCount = office.customersPresentCount /\ ~office'.senatorSafeToEnter
          /\ office'.senatorPresentWaitOutSide = office.senatorPresentWaitOutSide
      BY <1>0, <2>8, <3>4 DEF Office
    <3>6. \A t \in Senators : /\ person'[t].pc \notin {"letIn", "loop"}
                              /\ person'[t].pc = "outside" <=> person[t].pc = "outside"
                              /\ person'[t].pc # "admitted" /\ person'[t].pc \notin PresentPc
      BY <2>4, <2>6, <2>8, <3>1, <3>2 DEF SenatorsInOrder, Separated
    <3>7. Counted'
      BY <2>4, <3>3, <3>5, <3>6 DEF SenatorsInOrder, Counted
    <3>8. Separated'
      BY <1>0, <3>5, <3>6 DEF SenatorsInOrder, Separated
    <3> QED
      BY <3>7, <3>8 DEF SenatorsInOrder
  <2> QED
    BY <2>7, <2>8
<1> QED
  BY <1>2, <1>3 DEF Senator

\* The manager's look at the senators.  When it lets them in, nobody whom it let back in
\* before is still on the way: that is what the Yields between two looks are needed for.
LEMMA ManagerLooks ==
  ASSUME PersonsInOrder, DeskInOrder, SenatorsInOrder, checkEndOfDay
  PROVE  SenatorsInOrder'
<1>0. office \in Office /\ manager \in Manager
  BY DEF DeskInOrder
<1> DEFINE waiting == office.senatorLineCount > 0
           present == office.senatorPresentCount > 0
           inside == office.customersPresentCount > 0
           safe == office.senatorSafeToEnter \/ (waiting /\ ~inside)
           over == safe /\ ~waiting /\ ~present
<1>1. CASE UNCHANGED person /\ UNCHANGED office /\ manager' = [manager EXCEPT !.at = "finished"]
  <2>1. manager'.at = "finished"
    BY <1>0, <1>1 DEF Manager
  <2> QED
    BY <1>1, <2>1, NothingMoves, StaySenators DEF PersonsStay
<1>2. CASE waiting /\ inside /\ UNCHANGED person /\ office' = [office EXCEPT !.senatorPresentWaitOutSide = TRUE]
  <2>1. /\ office'.senatorPresentWaitOutSide
        /\ office'.customersPresentCount = office.customersPresentCount
        /\ office'.senatorLineCount = office.senatorLineCount
        /\ office'.senatorPresentCount = office.senatorPresentCount
        /\ office'.senatorSafeToEnter = office.senatorSafeToEnter
    BY <1>0, <1>2 DEF Office
  <2>2. /\ InsideCustomers' = InsideCustomers /\ EngagedCustomers' = EngagedCustomers
        /\ LetInCustomers' = LetInCustomers
        /\ WaitingSenators' = WaitingSenators /\ PresentSenators' = PresentSenators
    BY <1>2 DEF InsideCustomers, EngagedCustomers, LetInCustomers, WaitingSenators, PresentSenators
  <2>3. Counted'
    BY <1>2, <2>1, <2>2 DEF SenatorsInOrder, Counted
  <2>4. Separated'
    BY <1>2, <2>1, <2>2 DEF SenatorsInOrder, Separated
  <2> QED
    BY <2>3, <2>4 DEF SenatorsInOrder
<1>3. CASE /\ WokenHaveRun /\ ~(waiting /\ inside)
           /\ office' = [office EXCEPT !.senatorSafeToEnter = safe /\ ~over,
                                       !.senatorPresentWaitOutSide = (@ \/ waiting) /\ ~over]
           /\ person' = [p \in Persons |->
                           CASE person[p].pc = "senatorLine" /\ waiting -> [person[p] EXCEPT !.pc = "admitted"]
                             [] person[p].pc = "outside" /\ over -> [person[p] EXCEPT !.pc = "letIn"]
                             [] OTHER -> person[p]]
           /\ manager' = [at |-> "wakeUp", kind |-> 1]
  <2>1. /\ office'.customersPresentCount = office.customersPresentCount
        /\ office'.senatorLineCount = office.senatorLineCount
        /\ office'.senatorPresentCount = office.senatorPresentCount
        /\ office'.senatorSafeToEnter = (safe /\ ~over)
        /\ office'.senatorPresentWaitOutSide = ((office.senatorPresentWaitOutSide \/ waiting) /\ ~over)
        /\ manager'.at # "broadcast"
    BY <1>0, <1>3 DEF Office
  <2>2. ASSUME NEW p \in Persons
        PROVE  person'[p].pc = IF person[p].pc = "senatorLine" /\ waiting THEN "admitted"
                               ELSE IF person[p].pc = "outside" /\ over THEN "letIn"
                               ELSE person[p].pc
    <3>1. person[p] \in Person
      BY DEF PersonsInOrder, GoodPerson
    <3>2. /\ [person[p] EXCEPT !.pc = "admitted"].pc = "admitted"
          /\ [person[p] EXCEPT !.pc = "letIn"].pc = "letIn"
      BY <3>1 DEF Person
    <3>3. CASE person[p].pc = "senatorLine" /\ waiting
      BY <1>3, <3>2, <3>3
    <3>4. CASE person[p].pc = "outside" /\ over
      BY <1>3, <3>2, <3>4
    <3>5. CASE ~(person[p].pc = "senatorLine" /\ waiting) /\ ~(person[p].pc = "outside" /\ over)
      BY <1>3, <3>5
    <3> QED
      BY <3>3, <3>4, <3>5
  <2>3. /\ Cardinality(WaitingSenators) = office.senatorLineCount
        /\ Cardinality(PresentSenators) = office.senatorPresentCount
        /\ IsFiniteSet(WaitingSenators) /\ IsFiniteSet(PresentSenators)
        /\ Cardinality(WaitingSenators) \in Nat /\ Cardinality(PresentSenators) \in Nat
    <3>1. WaitingSenators \subseteq Persons /\ PresentSenators \subseteq Persons
      BY DEF WaitingSenators, PresentSenators, Persons
    <3>2. IsFiniteSet(WaitingSenators) /\ IsFiniteSet(PresentSenators)
      BY <3>1, PersonsAssumption, FS_Subset
    <3> QED
      BY <3>2, FS_CardinalityType DEF SenatorsInOrder, Counted
  <2>4. ~waiting => WaitingSenators = {}
    <3>1. ~waiting => Cardinality(WaitingSenators) = 0
      BY <2>3
    <3> QED
      BY <2>3, <3>1, FS_EmptySet
  <2>5. ~present => PresentSenators = {}
    <3>1. ~present => Cardinality(PresentSenators) = 0
      BY <2>3
    <3> QED
      BY <2>3, <3>1, FS_EmptySet
  <2>6. over => \A s \in Senators : person[s].pc \notin PresentPc /\ person[s].pc \notin WaitingPc
    BY <2>4, <2>5 DEF WaitingSenators, PresentSenators
  <2>7. waiting /\ ~office.senatorSafeToEnter => InsideCustomers = {}
    <3>1. SUFFICES ASSUME waiting, ~office.senatorSafeToEnter PROVE InsideCustomers = {}
      OBVIOUS
    <3>2. \A s \in Senators : person[s].pc # "outside"
      BY <3>1 DEF SenatorsInOrder, Separated, PresentPc
    <3>3. office.customersPresentCount = Cardinality(InsideCustomers)
      BY <3>2 DEF SenatorsInOrder, Counted
    <3>4. Cardinality(InsideCustomers) = 0
      BY <1>3, <3>1, <3>3, CustomersFinite
    <3> QED
      BY <3>4, CustomersFinite, FS_EmptySet
  <2>8. EngagedCustomers \subseteq InsideCustomers
    BY DEF EngagedCustomers, InsideCustomers, EngagedPc
  <2>9. LetInCustomers = {}
    BY <1>3 DEF WokenHaveRun, LetInCustomers, Persons
  <2>10. office.senatorSafeToEnter => EngagedCustomers = {} /\ office.senatorPresentWaitOutSide
    BY DEF SenatorsInOrder, Separated
  <2>11. safe => EngagedCustomers = {} /\ (office.senatorPresentWaitOutSide \/ waiting)
    BY <2>7, <2>8, <2>10
  <2>12. ~safe => ~waiting /\ ~office.senatorSafeToEnter
    BY <1>3
  <2> HIDE DEF waiting, present, inside, safe, over
  <2>13. \A p \in Customers : /\ person'[p].pc \in InsidePc <=> person[p].pc \in InsidePc
                              /\ person'[p].pc \in EngagedPc <=> person[p].pc \in EngagedPc
                              /\ ~over => (person'[p].pc = "letIn" <=> person[p].pc = "letIn")
    BY <2>2 DEF Persons, InsidePc, EngagedPc
  <2>14. /\ InsideCustomers' = InsideCustomers /\ EngagedCustomers' = EngagedCustomers
         /\ ~over => LetInCustomers' = LetInCustomers
    BY <2>13 DEF InsideCustomers, EngagedCustomers, LetInCustomers
  <2>15. \A s \in Senators : person'[s].pc = IF person[s].pc = "senatorLine" /\ waiting THEN "admitted" ELSE person[s].pc
    BY <2>2, <2>6, SenatorFacts DEF PresentPc
  <2>16. /\ WaitingSenators' = WaitingSenators /\ PresentSenators' = PresentSenators
         /\ \A s \in Senators : person'[s].pc = "outside" <=> person[s].pc = "outside"
         /\ \A s \in Senators : person'[s].pc \notin {"letIn", "loop"}
         /\ \A s \in Senators : person'[s].pc \in PresentPc <=> person[s].pc \in PresentPc
    BY <2>15 DEF WaitingSenators, PresentSenators, WaitingPc, PresentPc, InsidePc, SenatorsInOrder, Separated
  <2>17. Counted'
    BY <2>1, <2>14, <2>16 DEF SenatorsInOrder, Counted
  <2>18. ASSUME ~(safe /\ ~over), NEW s \in Senators PROVE person'[s].pc # "admitted" /\ person'[s].pc \notin PresentPc
    <3>1. CASE over
      <4>1. person[s].pc \notin PresentPc /\ person[s].pc \notin WaitingPc
        BY <2>6, <3>1
      <4> QED
        BY <2>15, <2>16, <4>1 DEF WaitingPc
    <3>2. CASE ~safe
      <4>1. ~waiting /\ ~office.senatorSafeToEnter
        BY <2>12, <3>2
      <4>2. person[s].pc # "admitted" /\ person[s].pc \notin PresentPc
        BY <4>1 DEF SenatorsInOrder, Separated
      <4> QED
        BY <2>15, <2>16, <4>1, <4>2
    <3> QED
      BY <2>18, <3>1, <3>2
  <2>19. Separated'
    BY <2>1, <2>9, <2>11, <2>14, <2>16, <2>18 DEF Separated
  <2> QED
    BY <2>17, <2>19 DEF SenatorsInOrder
<1> QED
  BY <1>1, <1>2, <1>3 DEF checkEndOfDay, managerSenatorCheck

LEMMA SenatorsInOrderNext ==
  ASSUME OfficeInv, SenatorsInOrder, [Next]_vars
  PROVE  SenatorsInOrder'
<1>1. Shape /\ ALineIsOpen /\ PersonsInOrder /\ LinesInOrder /\ SSNsKnown /\ DeskInOrder
  BY DEF OfficeInv, IInv
<1>2. ASSUME NEW p \in Persons, Customer(p) \/ Senator(p) PROVE SenatorsInOrder'
  BY <1>1, <1>2, CustomerSteps, SenatorSteps
<1>3. ASSUME NEW p \in Persons, Interaction(p) PROVE SenatorsInOrder'
  <2>1. PersonsStay
    BY <1>1, <1>3, InteractionEffect
  <2>2. UNCHANGED office /\ UNCHANGED manager
    BY <1>3, InteractionCases DEF GetInLine, WokenInLine, GiveSSN, Review, Pay, LeaveCounter
  <2> QED
    BY <2>1, <2>2, StaySenators
<1>4. ASSUME NEW c \in Clerks, ClerkStep(c) PROVE SenatorsInOrder'
  <2>1. PersonsStay
    BY <1>1, <1>4, ClerkStepEffect DEF ClerkEffect
  <2>2. UNCHANGED office /\ UNCHANGED manager
    BY <1>4 DEF ClerkStep, StartOver, ApplicationClerk, PictureClerk, PassportClerk, Cashier,
         applicationClerkcheckAndGoOnBreak, pictureClerkcheckAndGoOnBreak, passportClerkcheckAndGoOnBreak,
         cashiercheckAndGoOnBreak, CallCustomer, CheckAndGoOnBreak, ComeOffBreak, PollEndOfDay
  <2> QED
    BY <2>1, <2>2, StaySenators
<1>5. CASE managerBroacastLine \/ managerCheckandWakupClerks
  <2>1. PersonsStay
    BY <1>1, <1>5, BroadcastEffect, WakeupEffect
  <2>2. UNCHANGED office
    BY <1>5 DEF managerBroacastLine, managerCheckandWakupClerks
  <2>3. manager \in Manager
    BY <1>1 DEF DeskInOrder
  <2>4. manager'.at = "broadcast" => manager.at = "broadcast"
    BY <1>5, <2>3 DEF managerBroacastLine, managerCheckandWakupClerks, Manager
  <2> QED
    BY <2>1, <2>2, <2>4, StaySenators
<1>6. CASE checkEndOfDay
  BY <1>1, <1>6, ManagerLooks
<1>7. CASE UNCHANGED vars
  <2>1. UNCHANGED person /\ UNCHANGED office /\ UNCHANGED manager
    BY <1>7 DEF vars
  <2> QED
    BY <2>1, NothingMoves, StaySenators DEF PersonsStay
<1> QED
  BY <1>2, <1>3, <1>4, <1>5, <1>6, <1>7 DEF Next, ManagerStep

LEMMA SenatorsInOrderInit ==
  ASSUME Init
  PROVE  SenatorsInOrder
<1>1. \A p \in Persons : person[p].pc = "arriving"
  BY InitPersonsInOrder DEF Init
<1>2. InsideCustomers = {} /\ WaitingSenators = {} /\ PresentSenators = {}
  BY <1>1 DEF InsideCustomers, WaitingSenators, PresentSenators, WaitingPc, PresentPc, InsidePc, Persons
<1>3. Cardinality({}) = 0
  BY FS_EmptySet
<1>4. /\ office.customersPresentCount = 0 /\ office.senatorLineCount = 0
      /\ office.senatorPresentCount = 0 /\ ~office.senatorSafeToEnter /\ manager.at = "endOfDay"
  BY DEF Init, InitOffice
<1>5. Counted
  BY <1>2, <1>3, <1>4 DEF Counted
<1>6. \A s \in Senators : person[s].pc = "arriving"
  BY <1>1, SenatorFacts
<1>7. Separated
  BY <1>4, <1>6 DEF Separated, PresentPc, InsidePc
<1> QED
  BY <1>5, <1>7 DEF SenatorsInOrder

\* What the manager counts and the flags it sets fit where the senators and customers
\* are, for any number of both: above all, it is never safe for senators to enter while a
\* customer has something to do inside or is on the way back in.
THEOREM SenatorsStayInOrder == Spec => []SenatorsInOrder
<1>1. Init => SenatorsInOrder
  BY SenatorsInOrderInit
<1>2. OfficeInv /\ SenatorsInOrder /\ [Next]_vars => SenatorsInOrder'
  BY SenatorsInOrderNext
<1> QED
  BY <1>1, <1>2, OfficeInOrder, PTL DEF Spec

\* Senators have the office to themselves, however many senators, customers and clerks
\* there are: the manager's count of customers, the flag that sends them outside and the
\* lines that the manager wakes so that they look at it are never at odds.
THEOREM SenatorsAreAlone == Spec => []SenatorsAlone
<1>1. SenatorsInOrder => SenatorsAlone
  <2> SUFFICES ASSUME SenatorsInOrder, NEW s \in OnErrand \cap Senators, NEW p \in OnErrand \cap Customers
               PROVE  FALSE
    BY DEF SenatorsAlone
  <2>1. person[s].pc \in PresentPc /\ person[p].pc \in EngagedPc
    BY DEF OnErrand, PresentPc, EngagedPc, InsidePc
  <2>2. office.senatorSafeToEnter
    BY <2>1 DEF SenatorsInOrder, Separated
  <2>3. EngagedCustomers = {}
    BY <2>2 DEF SenatorsInOrder, Separated
  <2> QED
    BY <2>1, <2>3 DEF EngagedCustomers
<1> QED
  BY <1>1, SenatorsStayInOrder, PTL

-----------------------------------------------------------------------------
(***************************************************************************)
(* One customer at each counter.                                           *)
(***************************************************************************)
Resting == {"check", "line", "poll", "onBreak", "offBreak", "finished"}
VisitPc == {"woken", "unsignalled", "called", "atCounter", "answered", "paid"}

\* Where a person with variables r is at the counter of clerk c.
Place(r, c) ==
  IF r.pc \in VisitPc /\ <<IF r.todo = <<>> THEN "leave" ELSE Head(r.todo), r.line>> = c THEN r.pc ELSE "away"

Visitors(c) == [p \in Persons |-> Place(person[p], c)]

\* A clerk with variables w, at counter n, calls somebody, with the visitors at f: it
\* waits for the one who is called or for the first woken who comes.  Unless people are
\* sent outside, it is the clerk who has woken them.
Calls(c, n, w, f, sentOut) ==
  /\ n.state # "AVAILABLE"
  /\ n.state = "SIGNALEDCUSTOMER" => w.pc = "calling"
  /\ \A p \in Persons : f[p] = "called" => /\ w.pc = "calling" /\ n.state # "SIGNALEDCUSTOMER"
                                           /\ \A q \in Persons : f[q] = "called" => q = p
  /\ w.pc = "calling" => \/ \E p \in Persons : f[p] = "called"
                         \/ n.state = "SIGNALEDCUSTOMER" /\ \E p \in Persons : f[p] = "woken"
  /\ ~sentOut =>
       \A p \in Persons : /\ f[p] # "unsignalled"
                          /\ f[p] = "woken" => /\ n.state = "SIGNALEDCUSTOMER"
                                               /\ \A q \in Persons : f[q] = "woken" => q = p

\* Whoever waits at the counter or is back at it is whom the clerk has to do with.
VisitorsServed(c, n, w, f) ==
  \A p \in Persons :
    /\ f[p] = "atCounter" => w.pc \in {"hasSSN", "shown"} /\ n.SSN = p
    /\ f[p] = "paid" => w.pc = "charged" /\ n.SSN = p
    /\ f[p] = "answered" /\ c[1] = "cashier" => w.pc = "charging" /\ n.SSN = p
    /\ f[p] = "answered" /\ c[1] = "picture" =>
         \/ w.pc = "showing" /\ n.SSN = p
         \/ w.pc = "filing" /\ w.customerSSN = p /\ n.picture # 0
         \/ w.pc \in Resting /\ n.owner = p /\ n.picture # 0

\* The condition variable of the counter, where the clerk and its customer wait in turn.
TakesTurns(c, n, w, f) ==
  /\ w.pc \in {"calling", "showing", "charging"} => n.cv = <<c>>
  /\ w.pc \in {"hasSSN", "shown", "charged"} => n.cv = <<n.SSN>>
  /\ w.pc \in Resting \cup {"filing"} => n.cv = <<>>
  /\ w.pc \in {"hasSSN", "shown", "showing", "charging", "charged"} => n.SSN \in Persons
  /\ w.pc \in {"hasSSN", "shown"} => f[n.SSN] = "atCounter"
  /\ w.pc \in {"showing", "charging"} => f[n.SSN] = "answered"
  /\ w.pc = "charged" => f[n.SSN] = "paid"
  /\ w.pc \in {"showing", "shown"} => c[1] = "picture"
  /\ w.pc \in {"charging", "charged"} => c[1] = "cashier"
  /\ w.pc = "showing" => n.picture = 0
  /\ w.pc = "filing" => c[1] # "cashier"

Talk(c, n, w, f, sentOut) == Calls(c, n, w, f, sentOut) /\ VisitorsServed(c, n, w, f) /\ TakesTurns(c, n, w, f)

Talks(c) == Talk(c, counter[c], clerk[c], Visitors(c), office.senatorPresentWaitOutSide)
CountersInOrder == \A c \in Clerks : Talks(c)

SameData(n, n2) == n2.cv = n.cv /\ n2.SSN = n.SSN /\ n2.picture = n.picture /\ n2.owner = n.owner

\* Nothing happens at the counter: lines may be woken and people may go outside while
\* they are sent there.
LEMMA NothingSaid ==
  ASSUME NEW c, NEW n, NEW w, NEW f, NEW out, Talk(c, n, w, f, out),
         NEW n2, SameData(n, n2), n2.state = n.state, NEW g, NEW out2,
         out => out2 \/ \A p \in Persons : f[p] \notin {"woken", "unsignalled"},
         \A p \in Persons : \/ g[p] = f[p]
                            \/ out2 /\ f[p] = "away" /\ g[p] = "woken"
                            \/ f[p] = "unsignalled" /\ g[p] = "away"
  PROVE  Talk(c, n2, w, g, out2)
<1>1. Calls(c, n2, w, g, out2)
  BY DEF Talk, Calls
<1>2. VisitorsServed(c, n2, w, g)
  BY DEF Talk, VisitorsServed, SameData
<1>3. TakesTurns(c, n2, w, g)
  BY DEF Talk, TakesTurns, SameData
<1> QED
  BY <1>1, <1>2, <1>3 DEF Talk

\* The clerk does its rounds.
LEMMA RoundsSaid ==
  ASSUME NEW c, NEW n, NEW w, NEW f, NEW out, Talk(c, n, w, f, out), w.pc \in Resting,
         NEW n2, SameData(n, n2), n2.state \notin {"AVAILABLE", "SIGNALEDCUSTOMER"},
         NEW w2, w2.pc \in Resting
  PROVE  Talk(c, n2, w2, f, out)
<1>1. Calls(c, n2, w2, f, out)
  BY DEF Talk, Calls, Resting
<1>2. VisitorsServed(c, n2, w2, f)
  BY DEF Talk, VisitorsServed, SameData, Resting
<1>3. TakesTurns(c, n2, w2, f)
  BY DEF Talk, TakesTurns, SameData, Resting
<1> QED
  BY <1>1, <1>2, <1>3 DEF Talk

\* The clerk calls: somebody has been woken before, or is now.
LEMMA CallSaid ==
  ASSUME NEW c, NEW n, NEW w, NEW f, NEW out, Talk(c, n, w, f, out), w.pc = "line", n.owner \notin Persons,
         NEW n2, n2.SSN = n.SSN, n2.picture = n.picture, n2.owner = n.owner, n2.state = "SIGNALEDCUSTOMER",
         n2.cv = <<c>>, NEW w2, w2.pc = "calling", NEW g, NEW p \in Persons, g[p] = "woken",
         f[p] \in {"away", "woken"}, \A q \in Persons : q # p => g[q] = f[q]
  PROVE  Talk(c, n2, w2, g, out)
<1>1. Calls(c, n2, w2, g, out)
  BY DEF Talk, Calls
<1>2. VisitorsServed(c, n2, w2, g)
  BY DEF Talk, VisitorsServed, Resting
<1>3. TakesTurns(c, n2, w2, g)
  BY DEF Talk, TakesTurns, Resting
<1> QED
  BY <1>1, <1>2, <1>3 DEF Talk

\* Somebody who was woken in line comes to the counter, or finds that it was not called.
LEMMA WokenSaid ==
  ASSUME NEW c, NEW n, NEW w, NEW f, NEW out, Talk(c, n, w, f, out), NEW p \in Persons, f[p] = "woken",
         NEW n2, SameData(n, n2), NEW g, \A q \in Persons : q # p => g[q] = f[q],
         \/ n.state = "SIGNALEDCUSTOMER" /\ n2.state = "BUSY" /\ g[p] = "called"
         \/ n.state # "SIGNALEDCUSTOMER" /\ n2.state = n.state /\ g[p] = "unsignalled"
  PROVE  Talk(c, n2, w, g, out)
<1>1. Calls(c, n2, w, g, out)
  BY DEF Talk, Calls
<1>2. VisitorsServed(c, n2, w, g)
  BY DEF Talk, VisitorsServed, SameData
<1>3. TakesTurns(c, n2, w, g)
  BY DEF Talk, TakesTurns, SameData
<1> QED
  BY <1>1, <1>2, <1>3 DEF Talk

\* A person at the counter gives its SSN, says whether it likes the picture, or pays.
LEMMA PersonSaid ==
  ASSUME NEW c, NEW n, NEW w, NEW f, NEW out, Talk(c, n, w, f, out), NEW p \in Persons,
         NEW n2, n2.SSN = p, n2.cv = <<p>>, n2.state = n.state, NEW w2, w2.pc = Woken(w.pc),
         NEW g, \A q \in Persons : q # p => g[q] = f[q],
         \/ f[p] = "called" /\ g[p] = "atCounter"
         \/ f[p] = "answered" /\ c[1] = "picture" /\ n.picture = 0 /\ g[p] = "atCounter"
         \/ f[p] = "answered" /\ c[1] = "cashier" /\ g[p] = "paid"
  PROVE  Talk(c, n2, w2, g, out)
<1>1. \/ f[p] = "called" /\ g[p] = "atCounter" /\ w.pc = "calling" /\ w2.pc = "hasSSN"
      \/ /\ f[p] = "answered" /\ g[p] = "atCounter" /\ c[1] = "picture"
         /\ w.pc = "showing" /\ w2.pc = "shown" /\ n.SSN = p
      \/ /\ f[p] = "answered" /\ g[p] = "paid" /\ c[1] = "cashier"
         /\ w.pc = "charging" /\ w2.pc = "charged" /\ n.SSN = p
  BY DEF Talk, Calls, VisitorsServed, Woken
<1>2. Calls(c, n2, w2, g, out)
  BY <1>1 DEF Talk, Calls
<1>3. VisitorsServed(c, n2, w2, g)
  BY <1>1 DEF Talk, Calls, VisitorsServed, Resting
<1>4. TakesTurns(c, n2, w2, g)
  BY <1>1 DEF TakesTurns, Resting
<1> QED
  BY <1>2, <1>3, <1>4 DEF Talk

\* The clerk signals its customer and goes on, or waits for the customer's answer.
LEMMA ClerkSaid ==
  ASSUME NEW c, NEW n, NEW w, NEW f, NEW out, Talk(c, n, w, f, out), NEW n2, n2.SSN = n.SSN, n2.state = n.state,
         NEW w2, NEW g, \A q \in Persons : q # n.SSN => g[q] = f[q],
         \/ /\ w.pc \in {"hasSSN", "shown"} /\ g[n.SSN] = "answered"
            /\ \/ w2.pc = "showing" /\ c[1] = "picture" /\ n2.picture = 0 /\ n2.cv = <<c>>
               \/ w2.pc = "charging" /\ c[1] = "cashier" /\ n2.cv = <<c>>
               \/ /\ w2.pc = "filing" /\ w2.customerSSN = n.SSN /\ n2.cv = <<>>
                  /\ c[1] # "cashier" /\ (c[1] = "picture" => n2.picture # 0)
               \/ w2.pc = "check" /\ n2.cv = <<>> /\ c[1] \notin {"picture", "cashier"}
         \/ w.pc = "charged" /\ g[n.SSN] = "away" /\ w2.pc = "check" /\ n2.cv = <<>>
  PROVE  Talk(c, n2, w2, g, out)
<1>1. n.SSN \in Persons /\ w.pc \in {"hasSSN", "shown", "charged"} /\ f[n.SSN] \in {"atCounter", "paid"}
      /\ (w.pc = "charged" => c[1] = "cashier")
  BY DEF Talk, TakesTurns
<1>2. Calls(c, n2, w2, g, out)
  BY <1>1 DEF Talk, Calls
<1>3. VisitorsServed(c, n2, w2, g)
  BY <1>1 DEF Talk, VisitorsServed, Resting
<1>4. TakesTurns(c, n2, w2, g)
  BY <1>1 DEF TakesTurns, Resting
<1> QED
  BY <1>2, <1>3, <1>4 DEF Talk

\* The clerk has filed; a picture clerk hands the lock of the counter over.
LEMMA FiledSaid ==
  ASSUME NEW c, NEW n, NEW w, NEW f, NEW out, Talk(c, n, w, f, out), w.pc = "filing", NEW w2, w2.pc = "check",
         NEW n2, n2.cv = n.cv, n2.SSN = n.SSN, n2.picture = n.picture, n2.state = n.state,
         c[1] = "picture" => n2.owner = w.customerSSN
  PROVE  Talk(c, n2, w2, f, out)
<1>1. Calls(c, n2, w2, f, out)
  BY DEF Talk, Calls
<1>2. VisitorsServed(c, n2, w2, f)
  BY DEF Talk, VisitorsServed, Resting
<1>3. TakesTurns(c, n2, w2, f)
  BY DEF Talk, TakesTurns, Resting
<1> QED
  BY <1>1, <1>2, <1>3 DEF Talk

\* A person leaves the counter.
LEMMA LeaveSaid ==
  ASSUME NEW c, NEW n, NEW w, NEW f, NEW out, Talk(c, n, w, f, out), NEW p \in Persons,
         NEW n2, n2.cv = n.cv, n2.SSN = n.SSN, n2.picture = n.picture, n2.state = n.state,
         NEW g, g[p] = "away", \A q \in Persons : q # p => g[q] = f[q], f[p] \in {"away", "answered"},
         c[1] = "picture" => f[p] = "answered" /\ n.picture # 0 /\ w.pc # "filing",
         c[1] = "cashier" => f[p] = "away"
  PROVE  Talk(c, n2, w, g, out)
<1>1. Calls(c, n2, w, g, out)
  BY DEF Talk, Calls
<1>2. VisitorsServed(c, n2, w, g)
  BY DEF Talk, VisitorsServed, TakesTurns
<1>3. TakesTurns(c, n2, w, g)
  <2>1. w.pc \in {"showing", "charging"} => n.SSN # p
    BY DEF Talk, TakesTurns, VisitorsServed, Resting
  <2>2. w.pc \in {"hasSSN", "shown", "charged"} => n.SSN # p
    BY DEF Talk, TakesTurns
  <2> QED
    BY <2>1, <2>2 DEF Talk, TakesTurns
<1> QED
  BY <1>1, <1>2, <1>3 DEF Talk

\* Where somebody with variables r is at a counter, if it is at one.
ShownAs(r) == IF r.pc \in VisitPc THEN r.pc ELSE "away"

LEMMA PlaceOf ==
  ASSUME NEW p, NEW d
  PROVE  /\ Place(person[p], d) = IF ClerkOf(p) = d THEN ShownAs(person[p]) ELSE "away"
         /\ Place(person'[p], d) = IF ClerkOf(p)' = d THEN ShownAs(person'[p]) ELSE "away"
BY DEF Place, ShownAs, ClerkOf, Errand

LEMMA ClerkOfKept ==
  ASSUME NEW p, person'[p].todo = person[p].todo, person'[p].line = person[p].line
  PROVE  ClerkOf(p)' = ClerkOf(p)
BY DEF ClerkOf, Errand

\* A step of one person p, or of a clerk that wakes it, at the counter of clerk c.
LEMMA StepAt ==
  ASSUME CountersInOrder, NEW c \in Clerks, NEW p \in Persons,
         \A q \in Persons : q # p => person'[q] = person[q],
         person[p].pc \in VisitPc => ClerkOf(p) = c,
         person'[p].pc \in VisitPc => ClerkOf(p)' = c,
         \A d \in Clerks : d # c => counter'[d] = counter[d] /\ clerk'[d] = clerk[d],
         office'.senatorPresentWaitOutSide = office.senatorPresentWaitOutSide,
         NEW out, out = office.senatorPresentWaitOutSide, NEW g, g = Visitors(c)'
  PROVE  /\ Talk(c, counter'[c], clerk'[c], g, out) => CountersInOrder'
         /\ Talk(c, counter[c], clerk[c], Visitors(c), out)
         /\ Visitors(c)[p] = ShownAs(person[p]) /\ g[p] = ShownAs(person'[p])
         /\ \A q \in Persons : q # p => g[q] = Visitors(c)[q]
<1>1. /\ Visitors(c)[p] = Place(person[p], c) /\ g[p] = Place(person'[p], c)
      /\ \A q \in Persons : q # p => g[q] = Visitors(c)[q]
  BY DEF Visitors
<1>2. Visitors(c)[p] = ShownAs(person[p]) /\ g[p] = ShownAs(person'[p])
  BY <1>1, PlaceOf DEF ShownAs
<1>3. Talk(c, counter[c], clerk[c], Visitors(c), out)
  BY DEF CountersInOrder, Talks
<1>4. ASSUME NEW d \in Clerks, d # c PROVE Talks(d)'
  <2>1. Place(person[p], d) = "away" /\ Place(person'[p], d) = "away"
    BY <1>4, PlaceOf DEF ShownAs
  <2>2. Visitors(d)' = Visitors(d)
    BY <2>1 DEF Visitors
  <2>3. Talk(d, counter'[d], clerk'[d], Visitors(d)', office'.senatorPresentWaitOutSide)
    BY <1>4, <2>2 DEF CountersInOrder, Talks
  <2> QED
    BY <2>3 DEF Talks
<1>5. ASSUME Talk(c, counter'[c], clerk'[c], g, out) PROVE CountersInOrder'
  <2>1. Talk(c, counter'[c], clerk'[c], Visitors(c)', office'.senatorPresentWaitOutSide)
    BY <1>5
  <2>2. Talks(c)'
    BY <2>1 DEF Talks
  <2> QED
    BY <1>4, <2>2 DEF CountersInOrder
<1> QED
  BY <1>1, <1>2, <1>3, <1>5

\* A person signals the clerk that waits at the counter, and waits there itself.
LEMMA PersonTalks ==
  ASSUME Shape, NEW c \in Clerks, NEW n \in SomeCounter, n.cv = <<c>>, NEW p \in Persons,
         NEW ps \in [Persons -> GoodPerson], SignalAndWaitAt(c, n, ps, clerk, p)
  PROVE  /\ person' = ps
         /\ clerk'[c].pc = Woken(clerk[c].pc) /\ clerk'[c].customerSSN = clerk[c].customerSSN
         /\ counter'[c].cv = <<p>> /\ counter'[c].state = n.state /\ counter'[c].SSN = n.SSN
         /\ \A d \in Clerks : d # c => counter'[d] = counter[d] /\ clerk'[d] = clerk[d]
<1>1. n.cv # <<>> /\ Head(n.cv) = c /\ Signalled(n.cv) = <<>> /\ c \notin Persons
  BY PersonsAssumption DEF Signalled
<1>2. person' = ps
  BY <1>1 DEF SignalAndWaitAt, WakeFirst
<1>3. clerk' = [clerk EXCEPT ![c].pc = Woken(@)]
  BY <1>1 DEF SignalAndWaitAt, WakeFirst, Shape
<1>4. counter' = [counter EXCEPT ![c] = [n EXCEPT !.cv = Append(Signalled(n.cv), p)]]
  BY DEF SignalAndWaitAt
<1>5. Append(Signalled(n.cv), p) = <<p>>
  BY <1>1
<1>6. counter'[c] = [n EXCEPT !.cv = <<p>>]
  BY <1>4, <1>5 DEF Shape
<1>7. clerk'[c] = [clerk[c] EXCEPT !.pc = Woken(@)] /\ clerk[c] \in Clerk
  BY <1>3 DEF Shape
<1>8. \A d \in Clerks : d # c => counter'[d] = counter[d] /\ clerk'[d] = clerk[d]
  BY <1>3, <1>4 DEF Shape
<1>9. clerk'[c].pc = Woken(clerk[c].pc) /\ clerk'[c].customerSSN = clerk[c].customerSSN
  BY <1>7 DEF Clerk
<1>10. counter'[c].cv = <<p>> /\ counter'[c].state = n.state /\ counter'[c].SSN = n.SSN
  BY <1>6 DEF SomeCounter
<1> QED
  BY <1>2, <1>8, <1>9, <1>10
-----------------------------------------------------------------------------
\* A step that says nothing at any counter.
LEMMA QuietTalks ==
  ASSUME CountersInOrder, NEW out, NEW out2,
         out = office.senatorPresentWaitOutSide, out2 = office'.senatorPresentWaitOutSide,
         out => out2 \/ \A p \in Persons : person[p].pc \notin {"woken", "unsignalled"},
         \A d \in Clerks : /\ SameData(counter[d], counter'[d]) /\ counter'[d].state = counter[d].state
                           /\ clerk'[d] = clerk[d],
         \A p \in Persons : \A d \in Clerks :
           \/ Place(person'[p], d) = Place(person[p], d)
           \/ out2 /\ Place(person[p], d) = "away" /\ Place(person'[p], d) = "woken"
           \/ Place(person[p], d) = "unsignalled" /\ Place(person'[p], d) = "away"
  PROVE  CountersInOrder'
<1>1. ASSUME NEW d \in Clerks PROVE Talks(d)'
  <2>1. PICK f : f = Visitors(d)
    OBVIOUS
  <2>2. PICK g : g = Visitors(d)'
    OBVIOUS
  <2>3. Talk(d, counter[d], clerk[d], f, out)
    BY <2>1 DEF CountersInOrder, Talks
  <2>4. \A p \in Persons : f[p] = Place(person[p], d) /\ g[p] = Place(person'[p], d)
    BY <2>1, <2>2 DEF Visitors
  <2>5. out => out2 \/ \A p \in Persons : f[p] \notin {"woken", "unsignalled"}
    BY <2>4 DEF Place
  <2>6. \A p \in Persons : \/ g[p] = f[p]
                           \/ out2 /\ f[p] = "away" /\ g[p] = "woken"
                           \/ f[p] = "unsignalled" /\ g[p] = "away"
    BY <2>4
  <2>7. Talk(d, counter'[d], clerk[d], g, out2)
    BY <2>3, <2>5, <2>6, NothingSaid
  <2>8. Talk(d, counter'[d], clerk'[d], Visitors(d)', office'.senatorPresentWaitOutSide)
    BY <2>2, <2>7
  <2> QED
    BY <2>8 DEF Talks
<1> QED
  BY <1>1 DEF CountersInOrder

\* A step of p away from the counters.
LEMMA AwayTalks ==
  ASSUME PersonsInOrder, CountersInOrder, NEW p \in Persons, NEW r2, person' = [person EXCEPT ![p] = r2],
         person[p].pc \notin VisitPc \/ person[p].pc = "unsignalled", r2.pc \notin VisitPc,
         \A d \in Clerks : SameData(counter[d], counter'[d]) /\ counter'[d].state = counter[d].state,
         UNCHANGED clerk, office'.senatorPresentWaitOutSide = office.senatorPresentWaitOutSide
  PROVE  CountersInOrder'
<1>1. \A q \in Persons : person'[q] = IF q = p THEN r2 ELSE person[q]
  BY DEF PersonsInOrder
<1>2. \A d \in Clerks : Place(person[p], d) \in {"away", "unsignalled"} /\ Place(r2, d) = "away"
  BY DEF Place
<1>3. \A q \in Persons : \A d \in Clerks :
           \/ Place(person'[q], d) = Place(person[q], d)
           \/ Place(person[q], d) = "unsignalled" /\ Place(person'[q], d) = "away"
  BY <1>1, <1>2
<1> QED
  BY <1>3, QuietTalks

\* A step of p that moves nobody else, does not answer p and leaves it its errands.
Acts(p) ==
  /\ \A q \in Persons : q # p => person'[q] = person[q]
  /\ person'[p].pc # "answered" /\ person'[p].todo = person[p].todo

\* No clerk is ever AVAILABLE, so everyone who comes gets in line.
LEMMA GetInLineTalks ==
  ASSUME Shape, ALineIsOpen, PersonsInOrder, LinesInOrder, CountersInOrder, NEW p \in Persons,
         NEW k, k # "leave", GetInLine(p, k)
  PROVE  CountersInOrder' /\ Acts(p)
<1> DEFINE r == person[p]
           at(b) == <<k, pickShortestLine(k, b)>>
<1>1. r \in Person /\ r.pc = "errand" /\ k \in Kinds
  BY HasErrand DEF GetInLine
<1>2. \A b \in BOOLEAN : at(b) \in Clerks
  BY <1>1, ShortestLine, ClerksDef
<1>3. \A b \in BOOLEAN : counter[at(b)].state # "AVAILABLE"
  BY <1>2 DEF CountersInOrder, Talks, Talk, Calls
<1>4. PICK b \in BOOLEAN :
        /\ person' = [person EXCEPT ![p] = [r EXCEPT !.pc = "inLine", !.line = at(b)[2], !.bribe = b]]
        /\ counter' = [counter EXCEPT ![at(b)] =
                         [counter[at(b)] EXCEPT !.count[b] = @ + 1, !.queue[b] = Append(@, p)]]
  BY <1>3 DEF GetInLine
<1> DEFINE r2 == [r EXCEPT !.pc = "inLine", !.line = at(b)[2], !.bribe = b]
           c == at(b)
<1>5. r2.pc = "inLine" /\ r2.todo = r.todo
  BY <1>1 DEF Person
<1>6. person' = [person EXCEPT ![p] = r2]
  BY <1>4
<1> HIDE DEF r2
<1>7. c \in Clerks /\ counter' = [counter EXCEPT ![c] = [counter[c] EXCEPT !.count[b] = @ + 1, !.queue[b] = Append(@, p)]]
  BY <1>2, <1>4
<1> HIDE DEF c
<1>8. \A d \in Clerks : SameData(counter[d], counter'[d]) /\ counter'[d].state = counter[d].state
  BY <1>7 DEF Shape, SomeCounter, SameData
<1>9. r.pc \notin VisitPc /\ r2.pc \notin VisitPc /\ UNCHANGED clerk /\ UNCHANGED office
  BY <1>1, <1>5 DEF VisitPc, GetInLine
<1>10. Acts(p)
  BY <1>5, <1>6 DEF Acts, PersonsInOrder
<1> QED
  BY <1>6, <1>8, <1>9, <1>10, AwayTalks

LEMMA WokenInLineTalks ==
  ASSUME Shape, PersonsInOrder, CountersInOrder, NEW p \in Persons, NEW k, k # "leave", WokenInLine(p, k)
  PROVE  CountersInOrder' /\ Acts(p)
<1> DEFINE r == person[p]
           c == ClerkOf(p)
           signalled == counter[c].state = "SIGNALEDCUSTOMER"
           s == IF signalled THEN "BUSY" ELSE counter[c].state
           r2 == IF signalled THEN ToCounter(p) ELSE [r EXCEPT !.pc = "unsignalled"]
<1>1. r \in Person /\ r.pc = "woken"
  BY HasErrand DEF WokenInLine
<1>2. counter' = [counter EXCEPT ![c] = [counter[c] EXCEPT !.count[r.bribe] = @ - 1, !.state = s]]
  BY DEF WokenInLine, Shape, SomeCounter
<1>3. person' = [person EXCEPT ![p] = r2] /\ UNCHANGED clerk /\ UNCHANGED office
  BY DEF WokenInLine
<1>4. /\ ToCounter(p).pc = "called" /\ ToCounter(p).todo = r.todo /\ ToCounter(p).line = r.line
      /\ [r EXCEPT !.pc = "unsignalled"].pc = "unsignalled"
      /\ [r EXCEPT !.pc = "unsignalled"].todo = r.todo /\ [r EXCEPT !.pc = "unsignalled"].line = r.line
  BY <1>1 DEF ToCounter, Person
<1>5. /\ r2.pc = IF signalled THEN "called" ELSE "unsignalled"
      /\ r2.todo = r.todo /\ r2.line = r.line
  BY <1>4
<1> HIDE DEF r2
<1>6. c \in Clerks
  BY <1>1, WithClerk DEF WithClerkPc, Owing, InLinePc
<1>7. person'[p] = r2 /\ \A q \in Persons : q # p => person'[q] = person[q]
  BY <1>3 DEF PersonsInOrder
<1>8. ClerkOf(p)' = c
  BY <1>5, <1>7, ClerkOfKept
<1>9. SameData(counter[c], counter'[c]) /\ counter'[c].state = s /\ \A d \in Clerks : d # c => counter'[d] = counter[d]
  BY <1>2, <1>6 DEF Shape, SomeCounter, SameData
<1>10. ShownAs(person[p]) = "woken" /\ ShownAs(person'[p]) = IF signalled THEN "called" ELSE "unsignalled"
  BY <1>1, <1>5, <1>7 DEF ShownAs, VisitPc
<1> HIDE DEF c
<1>11. PICK g : g = Visitors(c)'
  OBVIOUS
<1>12. PICK out : out = office.senatorPresentWaitOutSide
  OBVIOUS
<1>13. /\ Talk(c, counter'[c], clerk'[c], g, out) => CountersInOrder'
       /\ Talk(c, counter[c], clerk[c], Visitors(c), out)
       /\ Visitors(c)[p] = "woken" /\ g[p] = ShownAs(person'[p])
       /\ \A q \in Persons : q # p => g[q] = Visitors(c)[q]
  BY <1>3, <1>6, <1>7, <1>8, <1>9, <1>10, <1>11, <1>12, StepAt DEF c
<1>14. Talk(c, counter'[c], clerk[c], g, out)
  BY <1>9, <1>10, <1>13, WokenSaid
<1>15. Acts(p)
  BY <1>5, <1>7 DEF Acts
<1> QED
  BY <1>3, <1>13, <1>14, <1>15


\* When the person at the counter runs, the clerk waits there for it.
LEMMA TurnOf ==
  ASSUME NEW c, NEW n, NEW w, NEW f, NEW out, Talk(c, n, w, f, out), NEW p \in Persons,
         \/ f[p] = "called"
         \/ f[p] = "answered" /\ c[1] = "picture" /\ n.picture = 0
         \/ f[p] = "answered" /\ c[1] = "cashier"
  PROVE  n.cv = <<c>> /\ (f[p] = "answered" => n.SSN = p)
BY DEF Talk, Calls, VisitorsServed, TakesTurns

\* A person at a counter signals the clerk and waits.
LEMMA PersonSpeaks ==
  ASSUME Shape, PersonsInOrder, CountersInOrder, NEW p \in Persons, NEW c, c = ClerkOf(p),
         NEW n \in SomeCounter, n.cv = counter[c].cv, n.state = counter[c].state,
         NEW r2 \in GoodPerson, r2.todo = person[p].todo, r2.line = person[p].line,
         SignalAndWaitAt(c, n, [person EXCEPT ![p] = r2], clerk, p), UNCHANGED office,
         \/ person[p].pc = "called" /\ r2.pc = "atCounter" /\ n.SSN = p
         \/ /\ person[p].pc = "answered" /\ r2.pc = "atCounter" /\ n.SSN = counter[c].SSN
            /\ c[1] = "picture" /\ counter[c].picture = 0
         \/ /\ person[p].pc = "answered" /\ r2.pc = "paid" /\ n.SSN = counter[c].SSN
            /\ c[1] = "cashier"
  PROVE  CountersInOrder' /\ Acts(p)
<1> DEFINE ps == [person EXCEPT ![p] = r2]
<1>1. c \in Clerks
  BY WithClerk DEF WithClerkPc, AtCounterPc
<1>2. ps \in [Persons -> GoodPerson] /\ ps[p] = r2 /\ \A q \in Persons : q # p => ps[q] = person[q]
  BY DEF PersonsInOrder
<1>3. SignalAndWaitAt(c, n, ps, clerk, p)
  OBVIOUS
<1> HIDE DEF ps
<1>4. PICK f : f = Visitors(c)
  OBVIOUS
<1>5. PICK out : out = office.senatorPresentWaitOutSide
  OBVIOUS
<1>6. Talk(c, counter[c], clerk[c], f, out)
  BY <1>1, <1>4, <1>5 DEF CountersInOrder, Talks
<1>7. f[p] = ShownAs(person[p])
  BY <1>4, PlaceOf DEF Visitors
<1>8. f[p] = person[p].pc
  BY <1>7 DEF ShownAs, VisitPc
<1>9. n.cv = <<c>> /\ n.SSN = p
  BY <1>6, <1>8, TurnOf
<1>10. /\ person' = ps
       /\ clerk'[c].pc = Woken(clerk[c].pc) /\ clerk'[c].customerSSN = clerk[c].customerSSN
       /\ counter'[c].cv = <<p>> /\ counter'[c].state = n.state /\ counter'[c].SSN = n.SSN
       /\ \A d \in Clerks : d # c => counter'[d] = counter[d] /\ clerk'[d] = clerk[d]
  BY <1>1, <1>2, <1>3, <1>9, PersonTalks
<1>11. ClerkOf(p)' = c /\ person'[p] = r2 /\ \A q \in Persons : q # p => person'[q] = person[q]
  BY <1>2, <1>10, ClerkOfKept
<1>12. PICK g : g = Visitors(c)'
  OBVIOUS
<1>13. /\ Talk(c, counter'[c], clerk'[c], g, out) => CountersInOrder'
       /\ g[p] = ShownAs(person'[p])
       /\ \A q \in Persons : q # p => g[q] = f[q]
  BY <1>1, <1>4, <1>5, <1>10, <1>11, <1>12, StepAt
<1>14. g[p] = r2.pc
  BY <1>11, <1>13 DEF ShownAs, VisitPc
<1>15. counter'[c].SSN = p /\ counter'[c].state = counter[c].state
  BY <1>9, <1>10
<1>16. Talk(c, counter'[c], clerk'[c], g, out)
  BY <1>6, <1>8, <1>10, <1>13, <1>14, <1>15, PersonSaid
<1>17. Acts(p)
  BY <1>11 DEF Acts
<1> QED
  BY <1>13, <1>16, <1>17

LEMMA GiveSSNTalks ==
  ASSUME Shape, PersonsInOrder, CountersInOrder, NEW p \in Persons, NEW k, k # "leave", GiveSSN(p, k)
  PROVE  CountersInOrder' /\ Acts(p)
<1> DEFINE c == ClerkOf(p)
           n == [counter[c] EXCEPT !.SSN = p]
           r == person[p]
           r2 == [r EXCEPT !.pc = "atCounter"]
<1>1. r \in GoodPerson /\ r \in Person /\ r.pc = "called"
  BY HasErrand DEF GiveSSN
<1>2. c \in Clerks
  BY <1>1, WithClerk DEF WithClerkPc
<1>3. r2.pc = "atCounter" /\ r2.todo = r.todo /\ r2.line = r.line
  BY <1>1 DEF Person
<1>4. r2 \in GoodPerson
  BY <1>1, SetPc DEF PcOfPerson, Paid, Owing, InLinePc, WithClerkPc, AtCounterPc
<1>5. SignalAndWaitAt(c, n, [person EXCEPT ![p] = r2], clerk, p) /\ UNCHANGED office
  BY DEF GiveSSN
<1>6. n \in SomeCounter /\ n.cv = counter[c].cv /\ n.state = counter[c].state /\ n.SSN = p
  BY <1>2 DEF Shape, SomeCounter
<1> HIDE DEF n, r2
<1> QED
  BY <1>1, <1>3, <1>4, <1>5, <1>6, PersonSpeaks

LEMMA ReviewTalks ==
  ASSUME Shape, PersonsInOrder, CountersInOrder, NEW p \in Persons, NEW like \in {0, 1},
         BackAtCounter(p, "picture", "answered"), Review(p, like)
  PROVE  CountersInOrder' /\ Acts(p)
<1> DEFINE c == ClerkOf(p)
           n == [counter[c] EXCEPT !.picture = like, !.owner = NoOne]
           r == person[p]
           r2 == [r EXCEPT !.pc = "atCounter"]
<1>1. r \in GoodPerson /\ r \in Person /\ r.pc = "answered" /\ c[1] = "picture"
  BY HasErrand DEF BackAtCounter, ClerkOf
<1>2. c \in Clerks
  BY <1>1, WithClerk DEF WithClerkPc, AtCounterPc
<1>3. r2.pc = "atCounter" /\ r2.todo = r.todo /\ r2.line = r.line
  BY <1>1 DEF Person
<1>4. r2 \in GoodPerson
  BY <1>1, SetPc DEF PcOfPerson, Paid, Owing, InLinePc, WithClerkPc, AtCounterPc
<1>5. SignalAndWaitAt(c, n, [person EXCEPT ![p] = r2], clerk, p) /\ UNCHANGED office /\ counter[c].picture = 0
  BY DEF Review
<1>6. n \in SomeCounter /\ n.cv = counter[c].cv /\ n.state = counter[c].state /\ n.SSN = counter[c].SSN
  BY <1>2 DEF Shape, SomeCounter
<1> HIDE DEF n, r2
<1> QED
  BY <1>1, <1>3, <1>4, <1>5, <1>6, PersonSpeaks

LEMMA PayTalks ==
  ASSUME Shape, PersonsInOrder, CountersInOrder, NEW p \in Persons,
         BackAtCounter(p, "cashier", "answered"), Pay(p)
  PROVE  CountersInOrder' /\ Acts(p)
<1> DEFINE c == ClerkOf(p)
           r == person[p]
           r2 == [r EXCEPT !.pc = "paid", !.money = @ - 100]
<1>1. /\ r \in GoodPerson /\ r \in Person /\ r.pc = "answered" /\ c[1] = "cashier"
      /\ r.todo # <<>> /\ Head(r.todo) = "cashier"
  BY HasErrand DEF BackAtCounter, ClerkOf
<1>2. c \in Clerks
  BY <1>1, WithClerk DEF WithClerkPc, AtCounterPc
<1>3. r2.pc = "paid" /\ r2.todo = r.todo /\ r2.line = r.line
  BY <1>1 DEF Person
<1>4. r2 \in GoodPerson
  BY <1>1, GoodPay
<1>5. SignalAndWaitAt(c, counter[c], [person EXCEPT ![p] = r2], clerk, p) /\ UNCHANGED office
  BY DEF Pay
<1>6. counter[c] \in SomeCounter
  BY <1>2 DEF Shape
<1> HIDE DEF r2
<1> QED
  BY <1>1, <1>3, <1>4, <1>5, <1>6, PersonSpeaks

\* Nobody leaves a counter where the clerk still waits for its answer.
LEMMA LeaveCounterTalks ==
  ASSUME Shape, PersonsInOrder, CountersInOrder, filed.rejection = {}, NEW p \in Persons,
         NEW k, NEW ok \in BOOLEAN, NEW pc \in {"answered", "served"},
         k # "leave", MayLeave(p, k, ok, pc), BackAtCounter(p, k, pc), LeaveCounter(p, ok)
  PROVE  CountersInOrder'
<1>0. PICK c : c = ClerkOf(p)
  OBVIOUS
<1> DEFINE r == person[p]
           r2 == Return(p, ok)
           n == [counter[c] EXCEPT !.owner = NoOne]
<1>1. r \in Person /\ r.pc = pc /\ c[1] = k
  BY <1>0, HasErrand DEF BackAtCounter, ClerkOf
<1>2. c \in Clerks
  BY <1>0, <1>1, WithClerk DEF WithClerkPc, AtCounterPc
<1>3. r2.pc \in {"loop", "errand"}
  BY <1>1 DEF Person, Return
<1>4. person' = [person EXCEPT ![p] = r2] /\ counter' = [counter EXCEPT ![c] = n] /\ UNCHANGED clerk /\ UNCHANGED office
  BY <1>0 DEF LeaveCounter
<1> HIDE DEF r2
<1>5. person'[p].pc \in {"loop", "errand"} /\ \A q \in Persons : q # p => person'[q] = person[q]
  BY <1>3, <1>4 DEF PersonsInOrder
<1>6. /\ counter'[c].cv = counter[c].cv /\ counter'[c].SSN = counter[c].SSN
      /\ counter'[c].picture = counter[c].picture /\ counter'[c].state = counter[c].state
      /\ \A d \in Clerks : d # c => counter'[d] = counter[d]
  BY <1>2, <1>4 DEF Shape, SomeCounter
<1> HIDE DEF n
<1>7. PICK g : g = Visitors(c)'
  OBVIOUS
<1>8. PICK out : out = office.senatorPresentWaitOutSide
  OBVIOUS
<1>9. person'[p].pc \notin VisitPc
  BY <1>5 DEF VisitPc
<1>10. /\ Talk(c, counter'[c], clerk'[c], g, out) => CountersInOrder'
       /\ Talk(c, counter[c], clerk[c], Visitors(c), out)
       /\ Visitors(c)[p] = ShownAs(person[p]) /\ g[p] = ShownAs(person'[p])
       /\ \A q \in Persons : q # p => g[q] = Visitors(c)[q]
  <2>1. ClerkOf(p) = c /\ (person'[p].pc \in VisitPc => ClerkOf(p)' = c)
    BY <1>0, <1>9
  <2>2. \A d \in Clerks : d # c => counter'[d] = counter[d] /\ clerk'[d] = clerk[d]
    BY <1>4, <1>6
  <2>3. office'.senatorPresentWaitOutSide = office.senatorPresentWaitOutSide
    BY <1>4
  <2> QED
    BY <1>2, <1>5, <1>7, <1>8, <2>1, <2>2, <2>3, StepAt
<1>11. g[p] = "away" /\ Visitors(c)[p] = IF pc = "answered" THEN "answered" ELSE "away"
  BY <1>1, <1>9, <1>10 DEF ShownAs, VisitPc
<1>12. c[1] = "picture" => pc = "answered" /\ counter[c].picture # 0 /\ clerk[c].pc # "filing"
  BY <1>0, <1>1 DEF MayLeave, BackAtCounter, CounterIsFree
<1>13. c[1] = "cashier" => pc = "served"
  BY <1>0, <1>1 DEF MayLeave
<1>14. Talk(c, counter'[c], clerk[c], g, out)
  BY <1>6, <1>10, <1>11, <1>12, <1>13, LeaveSaid
<1> QED
  BY <1>4, <1>10, <1>14

LEMMA InteractionTalks ==
  ASSUME Shape, ALineIsOpen, PersonsInOrder, LinesInOrder, CountersInOrder, filed.rejection = {},
         NEW p \in Persons, Interaction(p)
  PROVE  CountersInOrder'
<1>1. ASSUME NEW k, k # "leave", GetInLine(p, k) \/ WokenInLine(p, k) \/ GiveSSN(p, k) PROVE CountersInOrder'
  BY <1>1, GetInLineTalks, WokenInLineTalks, GiveSSNTalks
<1>2. ASSUME NEW like \in {0, 1}, BackAtCounter(p, "picture", "answered"), Review(p, like) PROVE CountersInOrder'
  BY <1>2, ReviewTalks
<1>3. ASSUME BackAtCounter(p, "cashier", "answered"), Pay(p) PROVE CountersInOrder'
  BY <1>3, PayTalks
<1>4. ASSUME NEW k, NEW ok \in BOOLEAN, NEW pc \in {"answered", "served"},
             k # "leave", MayLeave(p, k, ok, pc), BackAtCounter(p, k, pc), LeaveCounter(p, ok)
      PROVE  CountersInOrder'
  BY <1>4, LeaveCounterTalks
<1> QED
  BY <1>1, <1>2, <1>3, <1>4, InteractionCases

LEMMA EnterLeaveTalks ==
  ASSUME Shape, PersonsInOrder, DeskInOrder, CountersInOrder, NEW p \in Persons, Customer(p) \/ Senator(p)
  PROVE  CountersInOrder'
<1> DEFINE r == person[p]
           Kept == office'.senatorPresentWaitOutSide = office.senatorPresentWaitOutSide
<1>1. r \in Person /\ office \in Office /\ r.back \in {"loop", "errand"}
  BY DEF PersonsInOrder, GoodPerson, DeskInOrder, Person
<1>2. ASSUME NEW x \in {"loop", "errand", "senatorLine"}, r.pc \notin VisitPc, person' = [person EXCEPT ![p].pc = x],
             UNCHANGED counter, UNCHANGED clerk, Kept
      PROVE  CountersInOrder'
  <2> DEFINE r2 == [r EXCEPT !.pc = x]
  <2>1. r2.pc = x /\ person' = [person EXCEPT ![p] = r2]
    BY <1>1, <1>2 DEF Person
  <2>2. r2.pc \notin VisitPc
    BY <2>1 DEF VisitPc
  <2> HIDE DEF r2
  <2>3. \A d \in Clerks : SameData(counter[d], counter'[d]) /\ counter'[d].state = counter[d].state
    BY <1>2 DEF SameData
  <2> QED
    BY <1>2, <2>1, <2>2, <2>3, AwayTalks
<1>3. ASSUME r.pc = "errand", person' = [person EXCEPT ![p] = [NoLocals EXCEPT !.pc = "gone"]],
             UNCHANGED counter, UNCHANGED clerk, Kept
      PROVE  CountersInOrder'
  <2> DEFINE r2 == [NoLocals EXCEPT !.pc = "gone"]
  <2>1. r2.pc = "gone" /\ person' = [person EXCEPT ![p] = r2]
    BY <1>3 DEF NoLocals
  <2>2. r2.pc \notin VisitPc /\ r.pc \notin VisitPc
    BY <1>3, <2>1 DEF VisitPc
  <2> HIDE DEF r2
  <2>3. \A d \in Clerks : SameData(counter[d], counter'[d]) /\ counter'[d].state = counter[d].state
    BY <1>3 DEF SameData
  <2> QED
    BY <1>3, <2>1, <2>2, <2>3, AwayTalks
<1>4. {"arriving", "letIn", "errand", "admitted", "loop"} \cap VisitPc = {}
  BY DEF VisitPc
<1>5. CASE customerCheckIn(p)
  <2>1. Kept
    BY <1>1, <1>5 DEF customerCheckIn, Office
  <2> QED
    BY <1>2, <1>4, <1>5, <2>1 DEF customerCheckIn
<1>6. CASE customerComeBackIn(p)
  <2>1. Kept
    BY <1>1, <1>6 DEF customerComeBackIn, Office
  <2> QED
    BY <1>1, <1>2, <1>4, <1>6, <2>1 DEF customerComeBackIn
<1>7. CASE customerCheckOut(p)
  <2>1. Kept
    BY <1>1, <1>7 DEF customerCheckOut, Office
  <2> QED
    BY <1>3, <1>7, <2>1 DEF customerCheckOut
<1>8. CASE senatorLeavePassportOffice(p)
  <2>1. Kept
    BY <1>1, <1>8 DEF senatorLeavePassportOffice, Office
  <2> QED
    BY <1>3, <1>8, <2>1 DEF senatorLeavePassportOffice
<1>9. CASE senatorArriveAtPassportOffice(p)
  <2>1. Kept
    BY <1>1, <1>9 DEF senatorArriveAtPassportOffice, Office
  <2> QED
    BY <1>2, <1>4, <1>9, <2>1 DEF senatorArriveAtPassportOffice
<1>10. CASE customerCheckSenator(p)
  <2>1. /\ r.pc \in {"loop", "unsignalled"}
        /\ \E r2 : /\ MovesAlone(p, r2)
                   /\ r2.pc = IF office.senatorPresentWaitOutSide THEN "outside"
                              ELSE IF r.pc = "loop" THEN "errand" ELSE "called"
    BY <1>10, CheckSenatorAlone
  <2>2. office.senatorPresentWaitOutSide \/ r.pc = "loop"
    <3>1. SUFFICES ASSUME r.pc = "unsignalled" PROVE office.senatorPresentWaitOutSide
      BY <2>1
    <3>2. ClerkOf(p) \in Clerks
      BY <3>1, WithClerk DEF WithClerkPc, Owing
    <3>3. Visitors(ClerkOf(p))[p] = "unsignalled"
      BY <3>1, PlaceOf DEF Visitors, ShownAs, VisitPc
    <3> QED
      BY <3>2, <3>3 DEF CountersInOrder, Talks, Talk, Calls
  <2>3. PICK r2 : person' = [person EXCEPT ![p] = r2] /\ r2.pc \in {"outside", "errand"}
    BY <2>1, <2>2 DEF MovesAlone
  <2>4. Kept
    BY <1>1, <1>10 DEF customerCheckSenator, customerSenatorPresentWaitOutside, Office
  <2>5. UNCHANGED counter /\ UNCHANGED clerk
    BY <1>10, <2>2 DEF customerCheckSenator, customerSenatorPresentWaitOutside
  <2>6. \A d \in Clerks : SameData(counter[d], counter'[d]) /\ counter'[d].state = counter[d].state
    BY <2>5 DEF SameData
  <2>7. r2.pc \notin VisitPc /\ (r.pc \notin VisitPc \/ r.pc = "unsignalled")
    BY <2>1, <2>3 DEF VisitPc
  <2> QED
    BY <2>3, <2>4, <2>5, <2>6, <2>7, AwayTalks
<1> QED
  BY <1>5, <1>6, <1>7, <1>8, <1>9, <1>10 DEF Customer, Senator
-----------------------------------------------------------------------------
\* A step of clerk c that moves nobody.
LEMMA ClerkAloneTalks ==
  ASSUME CountersInOrder, NEW c \in Clerks, UNCHANGED person, UNCHANGED office,
         \A d \in Clerks : d # c => counter'[d] = counter[d] /\ clerk'[d] = clerk[d],
         NEW out, out = office.senatorPresentWaitOutSide
  PROVE  /\ Talk(c, counter'[c], clerk'[c], Visitors(c), out) => CountersInOrder'
         /\ Talk(c, counter[c], clerk[c], Visitors(c), out)
<1>1. \A d \in Clerks : Visitors(d)' = Visitors(d)
  BY DEF Visitors
<1>2. ASSUME Talk(c, counter'[c], clerk'[c], Visitors(c), out), NEW d \in Clerks
      PROVE  Talk(d, counter'[d], clerk'[d], Visitors(d)', office'.senatorPresentWaitOutSide)
  BY <1>1, <1>2 DEF CountersInOrder, Talks
<1> QED
  BY <1>2 DEF CountersInOrder, Talks

LEMMA RestTalks ==
  ASSUME CountersInOrder, NEW c \in Clerks, UNCHANGED person, UNCHANGED office,
         clerk[c].pc \in Resting, clerk'[c].pc \in Resting, SameData(counter[c], counter'[c]),
         counter'[c].state \in {counter[c].state, "BUSY", "ONBREAK"},
         \A d \in Clerks : d # c => counter'[d] = counter[d] /\ clerk'[d] = clerk[d]
  PROVE  CountersInOrder'
<1>1. PICK out : out = office.senatorPresentWaitOutSide
  OBVIOUS
<1>2. /\ Talk(c, counter'[c], clerk'[c], Visitors(c), out) => CountersInOrder'
      /\ Talk(c, counter[c], clerk[c], Visitors(c), out)
  BY <1>1, ClerkAloneTalks
<1>3. counter[c].state \notin {"AVAILABLE", "SIGNALEDCUSTOMER"}
  BY <1>2 DEF Talk, Calls, Resting
<1>4. Talk(c, counter'[c], clerk'[c], Visitors(c), out)
  BY <1>2, <1>3, RoundsSaid
<1> QED
  BY <1>2, <1>4

\* Whoever is asleep in a line is in its queue.
Queued ==
  \A p \in Persons : person[p].pc = "inLine" =>
    \E j \in DOMAIN counter[ClerkOf(p)].queue[person[p].bribe] :
      counter[ClerkOf(p)].queue[person[p].bribe][j] = p

\* A clerk that finds somebody in line has somebody to wait for: the first in the queue
\* or, if the queue is empty, somebody who has been woken.
LEMMA CallCustomerTalks ==
  ASSUME Shape, PersonsInOrder, LinesInOrder, Queued, CountersInOrder, NEW c \in Clerks, NEW k, CallCustomer(c, k)
  PROVE  CountersInOrder'
<1> DEFINE left(b) == [counter[c] EXCEPT !.queue[b] = Signalled(counter[c].queue[b]),
                                         !.state = "SIGNALEDCUSTOMER", !.cv = Append(@, c)]
<1>1. PICK b \in BOOLEAN :
        /\ counter[c].count[b] > 0
        /\ person' = IF counter[c].queue[b] = <<>> THEN person
                     ELSE [person EXCEPT ![Head(counter[c].queue[b])].pc = "woken"]
        /\ counter' = [counter EXCEPT ![c] = left(b)]
  BY DEF CallCustomer
<1>2. PICK q : q = counter[c].queue[b]
  OBVIOUS
<1>3. counter[c] \in SomeCounter /\ q \in Seq(Persons) /\ LineInOrder(c, b)
  BY <1>2 DEF Shape, SomeCounter, LinesInOrder
<1>4. clerk[c].pc = "line" /\ counter[c].owner = NoOne /\ UNCHANGED office
  BY DEF CallCustomer, AtPc
<1>5. clerk'[c].pc = "calling" /\ \A d \in Clerks : d # c => clerk'[d] = clerk[d]
  BY DEF CallCustomer, Shape, Clerk
<1>6. Talks(c)
  BY DEF CountersInOrder
<1>7. counter[c].cv = <<>>
  BY <1>4, <1>6 DEF Talks, Talk, TakesTurns, Resting
<1>8. /\ counter'[c].SSN = counter[c].SSN /\ counter'[c].picture = counter[c].picture
      /\ counter'[c].owner = counter[c].owner /\ counter'[c].state = "SIGNALEDCUSTOMER"
      /\ counter'[c].cv = Append(<<>>, c)
      /\ \A d \in Clerks : d # c => counter'[d] = counter[d]
  BY <1>1, <1>3, <1>7 DEF Shape, SomeCounter
<1>9. counter'[c].cv = <<c>>
  BY <1>8
<1>10. NoOne \notin Persons
  BY PersonsAssumption
<1> HIDE DEF left
<1>11. \E p \in Persons : /\ ClerkOf(p) = c /\ ClerkOf(p)' = c /\ person'[p].pc = "woken" /\ person[p].pc \in InLinePc
                          /\ \A o \in Persons : o # p => person'[o] = person[o]
  <2>1. CASE q # <<>>
    <3>1. Head(q) = q[1] /\ 1 \in DOMAIN q
      BY <1>3, <2>1
    <3>2. PICK p \in Persons : p = Head(q) /\ person[p].pc = "inLine" /\ ClerkOf(p) = c
      BY <1>2, <1>3, <3>1 DEF LineInOrder, InLine
    <3>3. person' = [person EXCEPT ![p] = [person[p] EXCEPT !.pc = "woken"]]
      BY <1>1, <1>2, <2>1, <3>2
    <3>4. person[p] \in Person
      BY DEF PersonsInOrder, GoodPerson
    <3>5. person'[p] = [person[p] EXCEPT !.pc = "woken"] /\ \A o \in Persons : o # p => person'[o] = person[o]
      BY <3>3 DEF PersonsInOrder
    <3>6. person'[p].pc = "woken" /\ person'[p].todo = person[p].todo /\ person'[p].line = person[p].line
      BY <3>4, <3>5 DEF Person
    <3> QED
      BY <3>2, <3>5, <3>6, ClerkOfKept DEF InLinePc
  <2>2. CASE q = <<>>
    <3>1. person' = person
      BY <1>1, <1>2, <2>2
    <3>2. InLine(c, b) # {}
      <4>1. Cardinality(InLine(c, b)) > 0
        BY <1>1, <1>3 DEF LineInOrder
      <4> QED
        BY <4>1, FS_EmptySet
    <3>3. PICK p \in Persons : person[p].pc \in InLinePc /\ ClerkOf(p) = c /\ person[p].bribe = b
      BY <3>2 DEF InLine
    <3>4. person[p].pc # "inLine"
      <4>1. DOMAIN q = {}
        BY <2>2
      <4>2. person[p].pc = "inLine" => \E j \in DOMAIN counter[ClerkOf(p)].queue[person[p].bribe] : TRUE
        BY Zenon DEF Queued
      <4>3. counter[ClerkOf(p)].queue[person[p].bribe] = q
        BY <1>2, <3>3, Zenon
      <4> QED
        BY <4>1, <4>2, <4>3
    <3> QED
      BY <3>1, <3>3, <3>4, ClerkOfKept DEF InLinePc
  <2> QED
    BY <2>1, <2>2
<1>12. PICK p \in Persons : /\ ClerkOf(p) = c /\ ClerkOf(p)' = c /\ person'[p].pc = "woken" /\ person[p].pc \in InLinePc
                            /\ \A o \in Persons : o # p => person'[o] = person[o]
  BY <1>11
<1>13. PICK g : g = Visitors(c)'
  OBVIOUS
<1>14. PICK out : out = office.senatorPresentWaitOutSide
  OBVIOUS
<1>15. /\ Talk(c, counter'[c], clerk'[c], g, out) => CountersInOrder'
       /\ Talk(c, counter[c], clerk[c], Visitors(c), out)
       /\ Visitors(c)[p] = ShownAs(person[p]) /\ g[p] = ShownAs(person'[p])
       /\ \A o \in Persons : o # p => g[o] = Visitors(c)[o]
  BY <1>4, <1>5, <1>8, <1>12, <1>13, <1>14, StepAt
<1>16. g[p] = "woken" /\ Visitors(c)[p] \in {"away", "woken"}
  BY <1>12, <1>15 DEF ShownAs, VisitPc, InLinePc
<1>17. Talk(c, counter'[c], clerk'[c], g, out)
  BY <1>4, <1>5, <1>8, <1>9, <1>10, <1>15, <1>16, CallSaid
<1> QED
  BY <1>15, <1>17

\* The customer that a clerk goes by is at the counter, asleep on its condition variable.
LEMMA CustomerThere ==
  ASSUME CountersInOrder, NEW c \in Clerks, clerk[c].pc \in {"hasSSN", "shown", "charged"},
         NEW s, s = counter[c].SSN
  PROVE  /\ s \in Persons /\ counter[c].cv = <<s>> /\ ClerkOf(s) = c
         /\ person[s].pc = IF clerk[c].pc = "charged" THEN "paid" ELSE "atCounter"
<1>1. /\ s \in Persons /\ counter[c].cv = <<s>>
      /\ Visitors(c)[s] = IF clerk[c].pc = "charged" THEN "paid" ELSE "atCounter"
  BY DEF CountersInOrder, Talks, Talk, TakesTurns
<1>2. Visitors(c)[s] = IF ClerkOf(s) = c THEN ShownAs(person[s]) ELSE "away"
  BY <1>1, PlaceOf DEF Visitors
<1> QED
  BY <1>1, <1>2 DEF ShownAs

\* What a clerk with customer s may say: w are its variables when it goes on (and does not
\* wait) or waits, and n the counter.
MaySay(c, n, w, waits) ==
  \/ /\ clerk[c].pc \in {"hasSSN", "shown"} /\ waits
     /\ \/ w.pc = "showing" /\ c[1] = "picture" /\ n.picture = 0
        \/ w.pc = "charging" /\ c[1] = "cashier"
  \/ /\ clerk[c].pc \in {"hasSSN", "shown"} /\ ~waits
     /\ \/ /\ w.pc = "filing" /\ w.customerSSN = counter[c].SSN
           /\ c[1] # "cashier" /\ (c[1] = "picture" => n.picture # 0)
        \/ w.pc = "check" /\ c[1] \notin {"picture", "cashier"}
  \/ clerk[c].pc = "charged" /\ ~waits /\ w.pc = "check"

\* A clerk signals its customer.
LEMMA ClerkSpeaks ==
  ASSUME Shape, PersonsInOrder, CountersInOrder, UNCHANGED office, NEW c \in Clerks,
         NEW n \in SomeCounter, n.cv = counter[c].cv, n.state = counter[c].state, n.SSN = counter[c].SSN,
         NEW cs, DOMAIN cs = Clerks, \A d \in Clerks : d # c => cs[d] = clerk[d], NEW w, w = cs[c],
         NEW waits \in BOOLEAN, MaySay(c, n, w, waits),
         waits => SignalAndWaitAt(c, n, person, cs, c), ~waits => SignalAt(c, n, person, cs)
  PROVE  /\ CountersInOrder'
         /\ \A q \in Persons : q # counter[c].SSN => person'[q] = person[q]
         /\ person'[counter[c].SSN].todo = person[counter[c].SSN].todo /\ ClerkOf(counter[c].SSN) = c
<1>1. PICK s : s = counter[c].SSN
  OBVIOUS
<1>2. /\ s \in Persons /\ counter[c].cv = <<s>> /\ ClerkOf(s) = c
      /\ person[s].pc = IF clerk[c].pc = "charged" THEN "paid" ELSE "atCounter"
  BY <1>1, CustomerThere DEF MaySay
<1>3. n.cv = <<s>> /\ n.SSN = s
  BY <1>1, <1>2
<1>v. PICK v : v = IF waits THEN <<c>> ELSE <<>>
  OBVIOUS
<1>n. /\ person' = WakeFirst(person, n.cv) /\ clerk' = WakeFirst(cs, n.cv)
      /\ counter' = [counter EXCEPT ![c] = [n EXCEPT !.cv = v]]
  <2>1. Signalled(n.cv) = <<>> /\ Append(Signalled(n.cv), c) = <<c>>
    BY <1>3 DEF Signalled
  <2>2. CASE waits
    BY <1>v, <2>1, <2>2 DEF SignalAndWaitAt
  <2>3. CASE ~waits
    BY <1>v, <2>1, <2>3 DEF SignalAt
  <2> QED
    BY <2>2, <2>3
<1>4. /\ clerk' = cs /\ clerk'[c] = w
      /\ counter'[c].state = n.state /\ counter'[c].SSN = n.SSN /\ counter'[c].picture = n.picture
      /\ counter'[c].cv = v
      /\ \A d \in Clerks : d # c => counter'[d] = counter[d] /\ clerk'[d] = clerk[d]
      /\ \A q \in Persons : q # s => person'[q] = person[q]
      /\ person'[s] = [person[s] EXCEPT !.pc = Woken(person[s].pc)]
      /\ person'[s].pc = Woken(person[s].pc)
      /\ person'[s].todo = person[s].todo /\ person'[s].line = person[s].line
  <2>1. n.cv # <<>> /\ Head(n.cv) = s /\ s \notin Clerks
    BY <1>2, <1>3, PersonsAssumption
  <2>2. person' = [person EXCEPT ![s].pc = Woken(@)]
    BY <1>2, <1>n, <2>1 DEF WakeFirst, PersonsInOrder
  <2>3. clerk' = cs
    BY <1>n, <2>1 DEF WakeFirst
  <2>5. counter'[c] = [n EXCEPT !.cv = v] /\ \A d \in Clerks : d # c => counter'[d] = counter[d]
    BY <1>n DEF Shape
  <2>6. /\ counter'[c].state = n.state /\ counter'[c].SSN = n.SSN /\ counter'[c].picture = n.picture
        /\ counter'[c].cv = v
    BY <2>5 DEF SomeCounter
  <2>7. person'[s] = [person[s] EXCEPT !.pc = Woken(person[s].pc)] /\ \A q \in Persons : q # s => person'[q] = person[q]
    BY <1>2, <2>2 DEF PersonsInOrder
  <2>8. person[s] \in Person
    BY <1>2 DEF PersonsInOrder, GoodPerson
  <2>9. person'[s].pc = Woken(person[s].pc) /\ person'[s].todo = person[s].todo /\ person'[s].line = person[s].line
    BY <2>7, <2>8 DEF Person
  <2> QED
    BY <2>3, <2>5, <2>6, <2>7, <2>9
<1>c. ClerkOf(s)' = ClerkOf(s)
  BY <1>4, ClerkOfKept
<1>5. PICK g : g = Visitors(c)'
  OBVIOUS
<1>6. PICK out : out = office.senatorPresentWaitOutSide
  OBVIOUS
<1>7. /\ Talk(c, counter'[c], clerk'[c], g, out) => CountersInOrder'
      /\ Talk(c, counter[c], clerk[c], Visitors(c), out)
      /\ g[s] = ShownAs(person'[s])
      /\ \A q \in Persons : q # s => g[q] = Visitors(c)[q]
  BY <1>2, <1>4, <1>5, <1>6, <1>c, StepAt
<1>8. g[s] = IF clerk[c].pc = "charged" THEN "away" ELSE "answered"
  BY <1>2, <1>4, <1>7 DEF ShownAs, VisitPc, Woken
<1>9. counter'[c].SSN = counter[c].SSN /\ counter'[c].state = counter[c].state /\ counter'[c].picture = n.picture
  BY <1>1, <1>3, <1>4
<1>10. Talk(c, counter'[c], w, g, out)
  <2>1. \A q \in Persons : q # counter[c].SSN => g[q] = Visitors(c)[q]
    BY <1>1, <1>7
  <2>2. g[counter[c].SSN] = IF clerk[c].pc = "charged" THEN "away" ELSE "answered"
    BY <1>1, <1>8
  <2>3. PICK f : f = Visitors(c)
    OBVIOUS
  <2>4. Talk(c, counter[c], clerk[c], f, out) /\ \A q \in Persons : q # counter[c].SSN => g[q] = f[q]
    BY <1>7, <2>1, <2>3
  <2>5. \/ /\ clerk[c].pc \in {"hasSSN", "shown"} /\ g[counter[c].SSN] = "answered"
           /\ \/ w.pc = "showing" /\ c[1] = "picture" /\ counter'[c].picture = 0 /\ counter'[c].cv = <<c>>
              \/ w.pc = "charging" /\ c[1] = "cashier" /\ counter'[c].cv = <<c>>
              \/ /\ w.pc = "filing" /\ w.customerSSN = counter[c].SSN /\ counter'[c].cv = <<>>
                 /\ c[1] # "cashier" /\ (c[1] = "picture" => counter'[c].picture # 0)
              \/ w.pc = "check" /\ counter'[c].cv = <<>> /\ c[1] \notin {"picture", "cashier"}
        \/ clerk[c].pc = "charged" /\ g[counter[c].SSN] = "away" /\ w.pc = "check" /\ counter'[c].cv = <<>>
    <3>1. counter'[c].cv = v /\ (waits => v = <<c>>) /\ (~waits => v = <<>>)
      BY <1>v, <1>4
    <3>2. CASE clerk[c].pc = "charged"
      BY <1>9, <2>2, <3>1, <3>2 DEF MaySay
    <3>3. CASE clerk[c].pc # "charged"
      BY <1>9, <2>2, <3>1, <3>3 DEF MaySay
    <3> QED
      BY <3>2, <3>3
  <2> QED
    BY <1>9, <2>4, <2>5, ClerkSaid
<1> QED
  BY <1>1, <1>2, <1>4, <1>7, <1>10

\* A clerk has filed.
LEMMA FiledTalks ==
  ASSUME Shape, CountersInOrder, UNCHANGED office, UNCHANGED person, NEW c \in Clerks, clerk[c].pc = "filing",
         HandOverCounter(c) \/ (clerk' = ClerkDone(c) /\ UNCHANGED counter /\ c[1] # "picture")
  PROVE  CountersInOrder'
<1>1. clerk' = ClerkDone(c)
  BY DEF HandOverCounter
<1>2. clerk'[c].pc = "check" /\ \A d \in Clerks : d # c => clerk'[d] = clerk[d]
  BY <1>1 DEF ClerkDone, Shape
<1>3. counter[c] \in SomeCounter
  BY DEF Shape
<1>4. /\ counter'[c].cv = counter[c].cv /\ counter'[c].SSN = counter[c].SSN
      /\ counter'[c].picture = counter[c].picture /\ counter'[c].state = counter[c].state
      /\ c[1] = "picture" => counter'[c].owner = clerk[c].customerSSN
      /\ \A d \in Clerks : d # c => counter'[d] = counter[d]
  <2>1. CASE counter' = [counter EXCEPT ![c].owner = clerk[c].customerSSN]
    BY <1>3, <2>1 DEF Shape, SomeCounter
  <2>2. CASE UNCHANGED counter /\ c[1] # "picture"
    BY <2>2
  <2> QED
    BY <2>1, <2>2 DEF HandOverCounter
<1>5. PICK out : out = office.senatorPresentWaitOutSide
  OBVIOUS
<1>6. /\ Talk(c, counter'[c], clerk'[c], Visitors(c), out) => CountersInOrder'
      /\ Talk(c, counter[c], clerk[c], Visitors(c), out)
  BY <1>2, <1>4, <1>5, ClerkAloneTalks
<1>7. Talk(c, counter'[c], clerk'[c], Visitors(c), out)
  BY <1>2, <1>4, <1>6, FiledSaid
<1> QED
  BY <1>6, <1>7

\* The steps that every clerk has.
LEMMA RoundsTalks ==
  ASSUME Shape, PersonsInOrder, LinesInOrder, Queued, CountersInOrder, NEW c \in Clerks, NEW k,
         ClerkRounds(c, k) \/ StartOver(c)
  PROVE  CountersInOrder'
<1>1. CASE CallCustomer(c, k)
  BY <1>1, CallCustomerTalks
<1>2. ASSUME NEW x \in Resting, clerk[c].pc \in Resting, clerk' = [clerk EXCEPT ![c].pc = x],
             UNCHANGED person, UNCHANGED office,
             \/ UNCHANGED counter
             \/ counter' = [counter EXCEPT ![c].state = "ONBREAK"]
             \/ counter' = [counter EXCEPT ![c].state = "BUSY"]
      PROVE  CountersInOrder'
  <2>1. clerk'[c].pc = x /\ \A d \in Clerks : d # c => clerk'[d] = clerk[d]
    BY <1>2 DEF Shape, Clerk
  <2>2. /\ SameData(counter[c], counter'[c]) /\ counter'[c].state \in {counter[c].state, "BUSY", "ONBREAK"}
        /\ \A d \in Clerks : d # c => counter'[d] = counter[d]
    BY <1>2 DEF Shape, SomeCounter, SameData
  <2> QED
    BY <1>2, <2>1, <2>2, RestTalks
<1>3. CASE CheckAndGoOnBreak(c, k)
  BY <1>2, <1>3 DEF CheckAndGoOnBreak, AtPc, Resting
<1>4. CASE ComeOffBreak(c, k)
  BY <1>2, <1>4 DEF ComeOffBreak, AtPc, Resting
<1>5. CASE PollEndOfDay(c, k)
  BY <1>2, <1>5 DEF PollEndOfDay, AtPc, Resting, clerkCheckForSenator
<1>6. CASE StartOver(c)
  BY <1>2, <1>6 DEF StartOver, Resting, clerkCheckForSenator
<1> QED
  BY <1>1, <1>3, <1>4, <1>5, <1>6 DEF ClerkRounds
-----------------------------------------------------------------------------
\* A clerk's variables when it goes on from the counter.
LEMMA ClerkGoes ==
  ASSUME Shape, NEW c \in Clerks, NEW pc
  PROVE  /\ DOMAIN ClerkTo(c, pc) = Clerks /\ \A d \in Clerks : d # c => ClerkTo(c, pc)[d] = clerk[d]
         /\ ClerkTo(c, pc)[c].pc = pc /\ ClerkTo(c, pc)[c].customerSSN = counter[c].SSN
         /\ DOMAIN ClerkDone(c) = Clerks /\ \A d \in Clerks : d # c => ClerkDone(c)[d] = clerk[d]
         /\ ClerkDone(c)[c].pc = "check"
BY DEF Shape, ClerkTo, ClerkDone

\* What a clerk's step does to the persons: at most the one at the counter is answered.
Answers(c) ==
  \A q \in Persons : \/ person'[q].pc # "answered" /\ person'[q].todo = person[q].todo
                     \/ person'[q] = person[q]
                     \/ q = counter[c].SSN /\ ClerkOf(q) = c /\ person'[q].todo = person[q].todo

LEMMA AnswerTalks ==
  ASSUME Shape, PersonsInOrder, CountersInOrder, UNCHANGED office, NEW c \in Clerks,
         NEW n \in {counter[c], [counter[c] EXCEPT !.picture = 0]}, NEW pc,
         \/ Answer(c, n, pc) /\ MaySay(c, n, ClerkTo(c, pc)[c], FALSE)
         \/ AnswerAndWait(c, n, pc) /\ MaySay(c, n, ClerkTo(c, pc)[c], TRUE)
  PROVE  CountersInOrder' /\ Answers(c)
<1>1. PICK cs : cs = ClerkTo(c, pc)
  OBVIOUS
<1>2. DOMAIN cs = Clerks /\ \A d \in Clerks : d # c => cs[d] = clerk[d]
  BY <1>1, ClerkGoes
<1>3. n \in SomeCounter /\ n.cv = counter[c].cv /\ n.state = counter[c].state /\ n.SSN = counter[c].SSN
  BY DEF Shape, SomeCounter
<1>4. CASE Answer(c, n, pc) /\ MaySay(c, n, ClerkTo(c, pc)[c], FALSE)
  <2>1. PICK waits \in BOOLEAN : waits = FALSE
    OBVIOUS
  <2>2. PICK w : w = cs[c]
    OBVIOUS
  <2>3. MaySay(c, n, w, waits)
    BY <1>1, <1>4, <2>1, <2>2, Zenon
  <2>4. SignalAt(c, n, person, cs)
    BY <1>1, <1>4, Zenon DEF Answer
  <2>5. /\ CountersInOrder'
        /\ \A q \in Persons : q # counter[c].SSN => person'[q] = person[q]
        /\ person'[counter[c].SSN].todo = person[counter[c].SSN].todo /\ ClerkOf(counter[c].SSN) = c
    BY <1>2, <1>3, <2>1, <2>2, <2>3, <2>4, ClerkSpeaks
  <2> QED
    BY <2>5 DEF Answers
<1>5. CASE AnswerAndWait(c, n, pc) /\ MaySay(c, n, ClerkTo(c, pc)[c], TRUE)
  <2>1. PICK waits \in BOOLEAN : waits = TRUE
    OBVIOUS
  <2>2. PICK w : w = cs[c]
    OBVIOUS
  <2>3. MaySay(c, n, w, waits)
    BY <1>1, <1>5, <2>1, <2>2, Zenon
  <2>4. SignalAndWaitAt(c, n, person, cs, c)
    BY <1>1, <1>5, Zenon DEF AnswerAndWait
  <2>5. /\ CountersInOrder'
        /\ \A q \in Persons : q # counter[c].SSN => person'[q] = person[q]
        /\ person'[counter[c].SSN].todo = person[counter[c].SSN].todo /\ ClerkOf(counter[c].SSN) = c
    BY <1>2, <1>3, <2>1, <2>2, <2>3, <2>4, ClerkSpeaks
  <2> QED
    BY <2>5 DEF Answers
<1> QED
  BY <1>4, <1>5

LEMMA DoneTalks ==
  ASSUME Shape, PersonsInOrder, CountersInOrder, UNCHANGED office, NEW c \in Clerks,
         SignalAt(c, counter[c], person, ClerkDone(c)), MaySay(c, counter[c], ClerkDone(c)[c], FALSE)
  PROVE  CountersInOrder' /\ Answers(c)
<1>1. PICK cs : cs = ClerkDone(c)
  OBVIOUS
<1>2. DOMAIN cs = Clerks /\ \A d \in Clerks : d # c => cs[d] = clerk[d]
  BY <1>1, ClerkGoes
<1>3. counter[c] \in SomeCounter
  BY DEF Shape
<1>4. PICK waits \in BOOLEAN : waits = FALSE
  OBVIOUS
<1>5. PICK w : w = cs[c]
  OBVIOUS
<1>6. PICK n : n = counter[c]
  OBVIOUS
<1>7. MaySay(c, n, w, waits)
  BY <1>1, <1>4, <1>5, <1>6, Zenon
<1>8. SignalAt(c, n, person, cs)
  BY <1>1, <1>6, Zenon
<1>9. /\ CountersInOrder'
      /\ \A q \in Persons : q # counter[c].SSN => person'[q] = person[q]
      /\ person'[counter[c].SSN].todo = person[counter[c].SSN].todo /\ ClerkOf(counter[c].SSN) = c
  BY <1>2, <1>3, <1>4, <1>5, <1>6, <1>7, <1>8, ClerkSpeaks
<1> QED
  BY <1>9 DEF Answers
-----------------------------------------------------------------------------
\* Whoever goes to the cashier still has to see a passport clerk first.
Awaits(todo) == \A j \in DOMAIN todo : todo[j] = "cashier" => j > 1 /\ todo[j - 1] = "passport"

\* Nobody comes to the cashier who is not certified, so nobody is rejected: a person goes
\* on from a passport clerk only when certified.
Certified ==
  /\ filed.rejection = {}
  /\ \A p \in Persons : p \in filed.passport \/ Awaits(person[p].todo)
  /\ \A p \in Persons :
       person[p].pc = "answered" /\ Errand(p) = "passport" /\ p \notin filed.punishment => p \in filed.passport

LEMMA CertifiedKept ==
  ASSUME Certified, filed.passport \subseteq filed'.passport, filed'.rejection = {},
         \A q \in Persons :
           \/ person'[q].pc # "answered" /\ person'[q].todo \in {person[q].todo, <<>>}
           \/ person'[q] = person[q] /\ (q \in filed.punishment => q \in filed'.punishment \cup filed'.passport)
           \/ /\ person'[q].todo = person[q].todo
              /\ Errand(q) # "passport" \/ q \in filed'.punishment \cup filed'.passport
  PROVE  Certified'
<1>1. ASSUME NEW q \in Persons
      PROVE  /\ q \in filed'.passport \/ Awaits(person'[q].todo)
             /\ person'[q].pc = "answered" /\ Errand(q)' = "passport" /\ q \notin filed'.punishment =>
                  q \in filed'.passport
  <2>1. q \in filed.passport \/ Awaits(person[q].todo)
    BY DEF Certified
  <2>2. person[q].pc = "answered" /\ Errand(q) = "passport" /\ q \notin filed.punishment => q \in filed.passport
    BY DEF Certified
  <2>3. Awaits(<<>>)
    BY DEF Awaits
  <2>4. person'[q].pc = "answered" => Errand(q)' = Errand(q)
    BY DEF Errand
  <2>5. q \in filed'.passport \/ Awaits(person'[q].todo)
    BY <2>1, <2>3
  <2> QED
    BY <2>2, <2>4, <2>5
<1>2. \A q \in Persons : (Awaits(person[q].todo))' <=> Awaits(person'[q].todo)
  BY DEF Awaits
<1> QED
  BY <1>1, <1>2 DEF Certified

\* What a clerk that is not a passport clerk does.
LEMMA AnswersCertified ==
  ASSUME Certified, NEW c \in Clerks, Answers(c), c[1] # "passport", filed'.passport = filed.passport,
         filed'.punishment = filed.punishment, filed'.rejection = {}
  PROVE  Certified'
<1>1. \A q \in Persons : ClerkOf(q) = c => Errand(q) = c[1]
  BY DEF ClerkOf
<1>2. \A q \in Persons :
           \/ person'[q].pc # "answered" /\ person'[q].todo = person[q].todo
           \/ person'[q] = person[q] /\ (q \in filed.punishment => q \in filed'.punishment \cup filed'.passport)
           \/ /\ person'[q].todo = person[q].todo
              /\ Errand(q) # "passport" \/ q \in filed'.punishment \cup filed'.passport
  BY <1>1 DEF Answers
<1> QED
  BY <1>2, CertifiedKept

LEMMA RoundsCertified ==
  ASSUME Shape, PersonsInOrder, Certified, NEW c \in Clerks, NEW k, ClerkRounds(c, k) \/ StartOver(c)
  PROVE  Certified'
<1>1. UNCHANGED filed
  BY DEF ClerkRounds, StartOver, CallCustomer, CheckAndGoOnBreak, ComeOffBreak, PollEndOfDay
<1>2. ASSUME NEW q \in Persons
      PROVE  \/ person'[q].pc # "answered" /\ person'[q].todo = person[q].todo
             \/ person'[q] = person[q]
  <2>1. CASE CallCustomer(c, k)
    <3>1. PICK h : person' = person \/ person' = [person EXCEPT ![h].pc = "woken"]
      BY <2>1 DEF CallCustomer
    <3>2. person[q] \in Person
      BY DEF PersonsInOrder, GoodPerson
    <3>3. [person[q] EXCEPT !.pc = "woken"].pc = "woken" /\ [person[q] EXCEPT !.pc = "woken"].todo = person[q].todo
      BY <3>2 DEF Person
    <3>4. person'[q] \in {person[q], [person[q] EXCEPT !.pc = "woken"]}
      BY <3>1 DEF PersonsInOrder
    <3> QED
      BY <3>3, <3>4
  <2>2. CASE ~CallCustomer(c, k)
    BY <2>2 DEF ClerkRounds, StartOver, CheckAndGoOnBreak, ComeOffBreak, PollEndOfDay
  <2> QED
    BY <2>1, <2>2
<1>3. filed'.rejection = {}
  BY <1>1 DEF Certified
<1> QED
  BY <1>1, <1>2, <1>3, CertifiedKept

LEMMA ApplicationClerkTalks ==
  ASSUME Shape, PersonsInOrder, LinesInOrder, SSNsKnown, Queued, CountersInOrder, Certified,
         NEW c \in Clerks, ApplicationClerk(c)
  PROVE  CountersInOrder' /\ Certified'
<1>0. filed \in Filed
  BY DEF SSNsKnown
<1>1. CASE ClerkRounds(c, "application")
  BY <1>1, RoundsTalks, RoundsCertified
<1>2. CASE /\ AtPc(c, "application", "hasSSN") /\ Answer(c, counter[c], "filing")
           /\ UNCHANGED filed /\ UNCHANGED office
  <2>1. MaySay(c, counter[c], ClerkTo(c, "filing")[c], FALSE)
    BY <1>2, ClerkGoes DEF MaySay, AtPc
  <2>2. CountersInOrder' /\ Answers(c)
    BY <1>2, <2>1, AnswerTalks
  <2>3. c[1] # "passport" /\ filed'.rejection = {}
    BY <1>2 DEF AtPc, Certified
  <2> QED
    BY <1>2, <2>2, <2>3, AnswersCertified
<1>3. CASE /\ AtPc(c, "application", "filing") /\ clerk' = ClerkDone(c) /\ UNCHANGED person /\ UNCHANGED counter
           /\ filed' = [filed EXCEPT !.application = @ \cup {clerk[c].customerSSN}] /\ UNCHANGED office
  <2>1. CountersInOrder'
    BY <1>3, FiledTalks DEF AtPc
  <2>2. filed'.passport = filed.passport /\ filed'.punishment = filed.punishment /\ filed'.rejection = filed.rejection
    BY <1>0, <1>3 DEF Filed
  <2>3. filed'.rejection = {}
    BY <2>2 DEF Certified
  <2> QED
    BY <1>3, <2>1, <2>2, <2>3, CertifiedKept
<1> QED
  BY <1>1, <1>2, <1>3 DEF ApplicationClerk, applicationClerkcheckAndGoOnBreak, ClerkRounds

LEMMA PictureClerkTalks ==
  ASSUME Shape, PersonsInOrder, LinesInOrder, SSNsKnown, Queued, CountersInOrder, Certified,
         NEW c \in Clerks, PictureClerk(c)
  PROVE  CountersInOrder' /\ Certified'
<1>0. filed \in Filed
  BY DEF SSNsKnown
<1> DEFINE blank == [counter[c] EXCEPT !.picture = 0]
<1>1. CASE ClerkRounds(c, "picture")
  BY <1>1, RoundsTalks, RoundsCertified
<1>2. ASSUME CountersInOrder', Answers(c), c[1] = "picture", UNCHANGED filed PROVE CountersInOrder' /\ Certified'
  <2>1. filed'.rejection = {}
    BY <1>2 DEF Certified
  <2> QED
    BY <1>2, <2>1, AnswersCertified
<1>3. CASE /\ AtPc(c, "picture", "hasSSN") /\ AnswerAndWait(c, blank, "showing")
           /\ UNCHANGED filed /\ UNCHANGED office
  <2>1. blank.picture = 0
    BY DEF Shape, SomeCounter
  <2>2. MaySay(c, blank, ClerkTo(c, "showing")[c], TRUE)
    BY <1>3, <2>1, ClerkGoes DEF MaySay, AtPc
  <2>3. CountersInOrder' /\ Answers(c)
    BY <1>3, <2>2, AnswerTalks
  <2> QED
    BY <1>2, <1>3, <2>3 DEF AtPc
<1>4. CASE /\ AtPc(c, "picture", "shown") /\ counter[c].picture = 0 /\ AnswerAndWait(c, counter[c], "showing")
           /\ UNCHANGED filed /\ UNCHANGED office
  <2>1. MaySay(c, counter[c], ClerkTo(c, "showing")[c], TRUE)
    BY <1>4, ClerkGoes DEF MaySay, AtPc
  <2>2. CountersInOrder' /\ Answers(c)
    BY <1>4, <2>1, AnswerTalks
  <2> QED
    BY <1>2, <1>4, <2>2 DEF AtPc
<1>5. CASE /\ AtPc(c, "picture", "shown") /\ counter[c].picture # 0 /\ Answer(c, counter[c], "filing")
           /\ UNCHANGED filed /\ UNCHANGED office
  <2>1. MaySay(c, counter[c], ClerkTo(c, "filing")[c], FALSE)
    BY <1>5, ClerkGoes DEF MaySay, AtPc
  <2>2. CountersInOrder' /\ Answers(c)
    BY <1>5, <2>1, AnswerTalks
  <2> QED
    BY <1>2, <1>5, <2>2 DEF AtPc
<1>6. CASE /\ AtPc(c, "picture", "filing") /\ HandOverCounter(c) /\ UNCHANGED person
           /\ filed' = [filed EXCEPT !.picture = @ \cup {clerk[c].customerSSN}] /\ UNCHANGED office
  <2>1. CountersInOrder'
    BY <1>6, FiledTalks DEF AtPc
  <2>2. filed'.passport = filed.passport /\ filed'.punishment = filed.punishment /\ filed'.rejection = filed.rejection
    BY <1>0, <1>6 DEF Filed
  <2>3. filed'.rejection = {}
    BY <2>2 DEF Certified
  <2> QED
    BY <1>6, <2>1, <2>2, <2>3, CertifiedKept
<1> HIDE DEF blank
<1> QED
  BY <1>1, <1>3, <1>4, <1>5, <1>6 DEF PictureClerk, pictureClerkcheckAndGoOnBreak, ClerkRounds, blank

LEMMA PassportClerkTalks ==
  ASSUME Shape, PersonsInOrder, LinesInOrder, SSNsKnown, Queued, CountersInOrder, Certified,
         NEW c \in Clerks, PassportClerk(c)
  PROVE  CountersInOrder' /\ Certified'
<1>0. filed \in Filed
  BY DEF SSNsKnown
<1>1. CASE ClerkRounds(c, "passport")
  BY <1>1, RoundsTalks, RoundsCertified
<1>2. ASSUME AtPc(c, "passport", "hasSSN"), CountersInOrder', Answers(c), NEW p, p = counter[c].SSN,
             \/ filed' = [filed EXCEPT !.punishment = @ \ {p}, !.passport = @ \cup {p}]
             \/ filed' = [filed EXCEPT !.punishment = @ \cup {p}]
      PROVE  CountersInOrder' /\ Certified'
  <2>1. /\ filed'.rejection = filed.rejection /\ filed.passport \subseteq filed'.passport
        /\ p \in filed'.punishment \cup filed'.passport
        /\ \A q : q \in filed.punishment => q \in filed'.punishment \cup filed'.passport
    <3>1. CASE filed' = [filed EXCEPT !.punishment = @ \ {p}, !.passport = @ \cup {p}]
      <4>1. /\ filed'.rejection = filed.rejection /\ filed'.passport = filed.passport \cup {p}
            /\ filed'.punishment = filed.punishment \ {p}
        BY <1>0, <3>1 DEF Filed
      <4> QED
        BY <4>1
    <3>2. CASE filed' = [filed EXCEPT !.punishment = @ \cup {p}]
      <4>1. /\ filed'.rejection = filed.rejection /\ filed'.passport = filed.passport
            /\ filed'.punishment = filed.punishment \cup {p}
        BY <1>0, <3>2 DEF Filed
      <4> QED
        BY <4>1
    <3> QED
      BY <1>2, <3>1, <3>2
  <2>2. filed'.rejection = {}
    BY <2>1 DEF Certified
  <2>3. \A q \in Persons :
           \/ person'[q].pc # "answered" /\ person'[q].todo = person[q].todo
           \/ person'[q] = person[q] /\ (q \in filed.punishment => q \in filed'.punishment \cup filed'.passport)
           \/ /\ person'[q].todo = person[q].todo
              /\ Errand(q) # "passport" \/ q \in filed'.punishment \cup filed'.passport
    BY <1>2, <2>1 DEF Answers
  <2> QED
    BY <1>2, <2>1, <2>2, <2>3, CertifiedKept
<1>3. CASE /\ AtPc(c, "passport", "hasSSN") /\ Answer(c, counter[c], "filing") /\ UNCHANGED office
           /\ filed' = [filed EXCEPT !.punishment = @ \ {counter[c].SSN}, !.passport = @ \cup {counter[c].SSN}]
  <2>1. MaySay(c, counter[c], ClerkTo(c, "filing")[c], FALSE)
    BY <1>3, ClerkGoes DEF MaySay, AtPc
  <2>2. CountersInOrder' /\ Answers(c)
    BY <1>3, <2>1, AnswerTalks
  <2> QED
    BY <1>2, <1>3, <2>2
<1>4. CASE /\ AtPc(c, "passport", "hasSSN") /\ SignalAt(c, counter[c], person, ClerkDone(c)) /\ UNCHANGED office
           /\ filed' = [filed EXCEPT !.punishment = @ \cup {counter[c].SSN}]
  <2>1. MaySay(c, counter[c], ClerkDone(c)[c], FALSE)
    BY <1>4, ClerkGoes DEF MaySay, AtPc
  <2>2. CountersInOrder' /\ Answers(c)
    BY <1>4, <2>1, DoneTalks
  <2> QED
    BY <1>2, <1>4, <2>2
<1>5. CASE AtPc(c, "passport", "filing") /\ HandOverCounter(c) /\ UNCHANGED person /\ UNCHANGED filed /\ UNCHANGED office
  <2>1. CountersInOrder'
    BY <1>5, FiledTalks DEF AtPc
  <2>2. filed'.rejection = {}
    BY <1>5 DEF Certified
  <2> QED
    BY <1>5, <2>1, <2>2, CertifiedKept
<1> QED
  BY <1>1, <1>3, <1>4, <1>5 DEF PassportClerk, passportClerkcheckAndGoOnBreak, ClerkRounds

\* The cashier finds everyone certified.
LEMMA CashierTalks ==
  ASSUME Shape, PersonsInOrder, LinesInOrder, SSNsKnown, Queued, CountersInOrder, Certified,
         NEW c \in Clerks, Cashier(c)
  PROVE  CountersInOrder' /\ Certified'
<1>0. filed \in Filed
  BY DEF SSNsKnown
<1>1. CASE ClerkRounds(c, "cashier")
  BY <1>1, RoundsTalks, RoundsCertified
<1>2. ASSUME c[1] = "cashier", CountersInOrder', Answers(c), filed'.passport = filed.passport,
             filed'.punishment = filed.punishment, filed'.rejection \subseteq filed.rejection
      PROVE  CountersInOrder' /\ Certified'
  <2>1. filed'.rejection = {}
    BY <1>2 DEF Certified
  <2> QED
    BY <1>2, <2>1, AnswersCertified
<1>3. AtPc(c, "cashier", "hasSSN") => counter[c].SSN \in filed.passport
  <2> SUFFICES ASSUME c[1] = "cashier", clerk[c].pc = "hasSSN" PROVE counter[c].SSN \in filed.passport
    BY DEF AtPc
  <2>1. PICK s : s = counter[c].SSN
    OBVIOUS
  <2>2. s \in Persons /\ ClerkOf(s) = c /\ person[s].pc = "atCounter"
    BY <2>1, CustomerThere
  <2>3. Errand(s) = "cashier" /\ person[s] \in Person
    BY <2>2 DEF ClerkOf, PersonsInOrder, GoodPerson
  <2>4. person[s].todo # <<>> /\ person[s].todo \in Seq(Kinds) /\ Head(person[s].todo) = "cashier"
    BY <2>3 DEF Errand, Person
  <2>5. 1 \in DOMAIN person[s].todo /\ person[s].todo[1] = "cashier"
    BY <2>4
  <2>6. ~Awaits(person[s].todo)
    BY <2>5 DEF Awaits
  <2> QED
    BY <2>1, <2>2, <2>6 DEF Certified
<1>4. CASE /\ AtPc(c, "cashier", "hasSSN") /\ filed' = [filed EXCEPT !.rejection = @ \ {counter[c].SSN}]
           /\ AnswerAndWait(c, counter[c], "charging") /\ UNCHANGED office
  <2>1. MaySay(c, counter[c], ClerkTo(c, "charging")[c], TRUE)
    BY <1>4, ClerkGoes DEF MaySay, AtPc
  <2>2. CountersInOrder' /\ Answers(c)
    BY <1>4, <2>1, AnswerTalks
  <2>3. /\ filed'.passport = filed.passport /\ filed'.punishment = filed.punishment
        /\ filed'.rejection \subseteq filed.rejection
    BY <1>0, <1>4 DEF Filed
  <2> QED
    BY <1>2, <1>4, <2>2, <2>3 DEF AtPc
<1>5. CASE /\ AtPc(c, "cashier", "charged") /\ filed' = [filed EXCEPT !.done = @ \cup {clerk[c].customerSSN}]
           /\ SignalAt(c, counter[c], person, ClerkDone(c)) /\ UNCHANGED office
  <2>1. MaySay(c, counter[c], ClerkDone(c)[c], FALSE)
    BY <1>5, ClerkGoes DEF MaySay, AtPc
  <2>2. CountersInOrder' /\ Answers(c)
    BY <1>5, <2>1, DoneTalks
  <2>3. /\ filed'.passport = filed.passport /\ filed'.punishment = filed.punishment
        /\ filed'.rejection \subseteq filed.rejection
    BY <1>0, <1>5 DEF Filed
  <2> QED
    BY <1>2, <1>5, <2>2, <2>3 DEF AtPc
<1> QED
  BY <1>1, <1>3, <1>4, <1>5 DEF Cashier, cashiercheckAndGoOnBreak, ClerkRounds

LEMMA ClerkStepTalks ==
  ASSUME Shape, PersonsInOrder, LinesInOrder, SSNsKnown, Queued, CountersInOrder, Certified,
         NEW c \in Clerks, ClerkStep(c)
  PROVE  CountersInOrder' /\ Certified'
<1>1. CASE StartOver(c)
  BY <1>1, RoundsTalks, RoundsCertified
<1> QED
  BY <1>1, ApplicationClerkTalks, PictureClerkTalks, PassportClerkTalks, CashierTalks DEF ClerkStep
-----------------------------------------------------------------------------
\* An errand is done.
LEMMA AwaitsTail ==
  ASSUME NEW q \in Seq(Kinds), q # <<>>, Awaits(q), Head(q) # "passport"
  PROVE  Awaits(Tail(q))
<1>1. /\ Tail(q) \in Seq(Kinds) /\ Len(Tail(q)) = Len(q) - 1
      /\ \A j \in 1 .. Len(Tail(q)) : Tail(q)[j] = q[j + 1]
  OBVIOUS
<1>2. ASSUME NEW j \in 1 .. Len(Tail(q)), Tail(q)[j] = "cashier"
      PROVE  j > 1 /\ Tail(q)[j - 1] = "passport"
  <2>1. j \in Nat /\ j >= 1 /\ j + 1 \in DOMAIN q /\ q[j + 1] = "cashier"
    BY <1>1, <1>2
  <2>2. q[(j + 1) - 1] = "passport"
    BY <2>1 DEF Awaits
  <2>3. q[j] = "passport"
    BY <2>1, <2>2
  <2>4. j # 1
    BY <2>3
  <2>5. j - 1 \in 1 .. Len(Tail(q)) /\ (j - 1) + 1 = j
    BY <1>2, <2>1, <2>4
  <2>6. Tail(q)[j - 1] = q[(j - 1) + 1]
    BY <1>1, <2>5
  <2> QED
    BY <2>1, <2>3, <2>4, <2>5, <2>6
<1>3. DOMAIN Tail(q) = 1 .. Len(Tail(q))
  BY <1>1
<1> QED
  BY <1>2, <1>3 DEF Awaits

LEMMA LeaveCertified ==
  ASSUME PersonsInOrder, Certified, NEW p \in Persons,
         NEW k, NEW ok \in BOOLEAN, NEW pc \in {"answered", "served"},
         k # "leave", MayLeave(p, k, ok, pc), BackAtCounter(p, k, pc), LeaveCounter(p, ok)
  PROVE  Certified'
<1> DEFINE r == person[p]
           r2 == Return(p, ok)
<1>1. r \in Person /\ r.pc = pc /\ Errand(p) = k /\ r.todo # <<>> /\ Head(r.todo) = k
  BY HasErrand DEF BackAtCounter
<1>2. r2.pc \in {"loop", "errand"} /\ r2.todo = IF ok THEN Tail(r.todo) ELSE r.todo
  BY <1>1 DEF Person, Return
<1>3. person' = [person EXCEPT ![p] = r2] /\ UNCHANGED filed
  BY DEF LeaveCounter
<1> HIDE DEF r2
<1>4. person'[p] = r2 /\ \A q \in Persons : q # p => person'[q] = person[q]
  BY <1>3 DEF PersonsInOrder
<1>5. CASE ~ok
  <2>1. filed'.rejection = {}
    BY <1>3 DEF Certified
  <2> QED
    BY <1>2, <1>3, <1>4, <1>5, <2>1, CertifiedKept
<1>6. CASE ok
  <2>1. r.todo \in Seq(Kinds)
    BY <1>1 DEF Person
  <2>2. p \in filed.passport \/ Awaits(Tail(r.todo))
    <3>1. CASE k = "passport"
      BY <1>1, <1>6, <3>1 DEF MayLeave, Certified
    <3>2. CASE k # "passport"
      BY <1>1, <2>1, <3>2, AwaitsTail DEF Certified
    <3> QED
      BY <3>1, <3>2
  <2>3. ASSUME NEW q \in Persons
        PROVE  /\ q \in filed'.passport \/ Awaits(person'[q].todo)
               /\ person'[q].pc = "answered" /\ Errand(q)' = "passport" /\ q \notin filed'.punishment =>
                    q \in filed'.passport
    <3>1. CASE q = p
      BY <1>2, <1>3, <1>4, <1>6, <2>2, <3>1
    <3>2. CASE q # p
      <4>1. person'[q] = person[q]
        BY <1>4, <3>2
      <4>2. Errand(q)' = Errand(q)
        BY <4>1 DEF Errand
      <4> QED
        BY <1>3, <4>1, <4>2 DEF Certified
    <3> QED
      BY <3>1, <3>2
  <2>4. \A q \in Persons : (Awaits(person[q].todo))' <=> Awaits(person'[q].todo)
    BY DEF Awaits
  <2> QED
    BY <1>3, <2>3, <2>4 DEF Certified
<1> QED
  BY <1>5, <1>6

LEMMA InteractionCertified ==
  ASSUME Shape, ALineIsOpen, PersonsInOrder, LinesInOrder, CountersInOrder, Certified,
         NEW p \in Persons, Interaction(p)
  PROVE  Certified'
<1>1. ASSUME Acts(p), UNCHANGED filed PROVE Certified'
  <2>1. filed'.rejection = {}
    BY <1>1 DEF Certified
  <2> QED
    BY <1>1, <2>1, CertifiedKept DEF Acts
<1>2. ASSUME NEW k, k # "leave", GetInLine(p, k) \/ WokenInLine(p, k) \/ GiveSSN(p, k) PROVE Certified'
  <2>1. Acts(p)
    BY <1>2, GetInLineTalks, WokenInLineTalks, GiveSSNTalks
  <2>2. UNCHANGED filed
    BY <1>2 DEF GetInLine, WokenInLine, GiveSSN
  <2> QED
    BY <1>1, <2>1, <2>2
<1>3. ASSUME NEW like \in {0, 1}, BackAtCounter(p, "picture", "answered"), Review(p, like) PROVE Certified'
  <2>1. Acts(p)
    BY <1>3, ReviewTalks
  <2> QED
    BY <1>1, <1>3, <2>1 DEF Review
<1>4. ASSUME BackAtCounter(p, "cashier", "answered"), Pay(p) PROVE Certified'
  <2>1. Acts(p)
    BY <1>4, PayTalks
  <2> QED
    BY <1>1, <1>4, <2>1 DEF Pay
<1>5. ASSUME NEW k, NEW ok \in BOOLEAN, NEW pc \in {"answered", "served"},
             k # "leave", MayLeave(p, k, ok, pc), BackAtCounter(p, k, pc), LeaveCounter(p, ok)
      PROVE  Certified'
  BY <1>5, LeaveCertified
<1> QED
  BY <1>2, <1>3, <1>4, <1>5, InteractionCases

LEMMA MildCertified ==
  ASSUME Certified, UNCHANGED filed,
         \A q \in Persons : \/ person'[q] = person[q]
                            \/ person'[q].pc # "answered" /\ person'[q].todo \in {person[q].todo, <<>>}
  PROVE  Certified'
<1>1. filed'.rejection = {}
  BY DEF Certified
<1> QED
  BY <1>1, CertifiedKept

LEMMA EnterLeaveCertified ==
  ASSUME PersonsInOrder, Certified, NEW p \in Persons, Customer(p) \/ Senator(p)
  PROVE  Certified'
<1>1. person[p] \in Person /\ person[p].back \in {"loop", "errand"}
  BY DEF PersonsInOrder, GoodPerson, Person
<1>2. UNCHANGED filed
  BY DEF Customer, Senator, customerCheckIn, customerComeBackIn, customerCheckOut, customerCheckSenator,
         senatorArriveAtPassportOffice, senatorLeavePassportOffice
<1>3. ASSUME NEW r2, person' = [person EXCEPT ![p] = r2], r2.pc # "answered", r2.todo \in {person[p].todo, <<>>}
      PROVE  Certified'
  <2>1. person'[p] = r2 /\ \A q \in Persons : q # p => person'[q] = person[q]
    BY <1>3 DEF PersonsInOrder
  <2> QED
    BY <1>2, <1>3, <2>1, MildCertified
<1>4. ASSUME NEW x, x # "answered", person' = [person EXCEPT ![p].pc = x] PROVE Certified'
  <2> DEFINE r2 == [person[p] EXCEPT !.pc = x]
  <2>1. r2.pc = x /\ r2.todo = person[p].todo /\ person' = [person EXCEPT ![p] = r2]
    BY <1>1, <1>4 DEF Person
  <2> HIDE DEF r2
  <2> QED
    BY <1>3, <1>4, <2>1
<1>5. ASSUME person' = [person EXCEPT ![p] = [NoLocals EXCEPT !.pc = "gone"]] PROVE Certified'
  <2> DEFINE r2 == [NoLocals EXCEPT !.pc = "gone"]
  <2>1. r2.pc = "gone" /\ r2.todo = <<>> /\ person' = [person EXCEPT ![p] = r2]
    BY <1>5 DEF NoLocals
  <2> HIDE DEF r2
  <2> QED
    BY <1>3, <2>1
<1>6. CASE customerCheckIn(p)
  BY <1>4, <1>6 DEF customerCheckIn
<1>7. CASE customerComeBackIn(p)
  BY <1>1, <1>4, <1>7 DEF customerComeBackIn
<1>8. CASE customerCheckOut(p) \/ senatorLeavePassportOffice(p)
  BY <1>5, <1>8 DEF customerCheckOut, senatorLeavePassportOffice
<1>9. CASE senatorArriveAtPassportOffice(p)
  BY <1>4, <1>9 DEF senatorArriveAtPassportOffice
<1>10. CASE customerCheckSenator(p)
  <2>1. CASE customerSenatorPresentWaitOutside(p)
    <3> DEFINE next == IF person[p].pc = "unsignalled" THEN Return(p, FALSE) ELSE [person[p] EXCEPT !.pc = "errand"]
               r2 == [next EXCEPT !.back = next.pc, !.pc = "outside"]
    <3>1. person' = [person EXCEPT ![p] = r2]
      BY <2>1 DEF customerSenatorPresentWaitOutside
    <3>2. Return(p, FALSE).todo = person[p].todo
      BY <1>1 DEF Return, Person
    <3>3. r2.pc = "outside" /\ r2.todo = person[p].todo
      BY <1>1, <3>2 DEF Return, Person
    <3> HIDE DEF r2
    <3> QED
      BY <1>3, <3>1, <3>3
  <2>2. CASE person' = [person EXCEPT ![p].pc = "errand"]
    BY <1>4, <2>2
  <2>3. CASE person' = [person EXCEPT ![p] = ToCounter(p)]
    <3>1. ToCounter(p).pc = "called" /\ ToCounter(p).todo = person[p].todo
      BY <1>1 DEF ToCounter, Person
    <3> QED
      BY <1>3, <2>3, <3>1
  <2> QED
    BY <1>10, <2>1, <2>2, <2>3 DEF customerCheckSenator
<1> QED
  BY <1>6, <1>7, <1>8, <1>9, <1>10 DEF Customer, Senator

LEMMA ManagerCertified ==
  ASSUME PersonsInOrder, Certified, ManagerStep
  PROVE  Certified'
<1>1. UNCHANGED filed
  BY DEF ManagerStep, managerBroacastLine, managerCheckandWakupClerks, checkEndOfDay
<1>2. ASSUME NEW q \in Persons
      PROVE  \/ person'[q] = person[q]
             \/ person'[q].pc # "answered" /\ person'[q].todo \in {person[q].todo, <<>>}
  <2>1. person[q] \in Person
    BY DEF PersonsInOrder, GoodPerson
  <2>2. \A x : [person[q] EXCEPT !.pc = x].pc = x /\ [person[q] EXCEPT !.pc = x].todo = person[q].todo
    BY <2>1 DEF Person
  <2>3. CASE managerBroacastLine
    <3>1. person'[q] \in {person[q], [person[q] EXCEPT !.pc = "woken"]}
      BY <2>3 DEF managerBroacastLine
    <3> QED
      BY <2>2, <3>1
  <2>4. CASE managerCheckandWakupClerks
    BY <2>4 DEF managerCheckandWakupClerks
  <2>5. CASE checkEndOfDay
    <3>1. LetsIn(person[q], person'[q])
      BY <2>5 DEF checkEndOfDay, managerSenatorCheck, LetsIn, PersonsInOrder
    <3> QED
      BY <2>2, <3>1 DEF LetsIn
  <2> QED
    BY <2>3, <2>4, <2>5 DEF ManagerStep
<1> QED
  BY <1>1, <1>2, MildCertified
-----------------------------------------------------------------------------
\* p, with variables r, is in the queue of a line.
IsQueued(p, r, q) == r.pc = "inLine" => \E j \in DOMAIN q : q[j] = p

LEMMA QueuedShown ==
  /\ (\A p \in Persons : IsQueued(p, person[p], counter[ClerkOf(p)].queue[person[p].bribe])) <=> Queued
  /\ (\A p \in Persons : IsQueued(p, person'[p], counter'[ClerkOf(p)'].queue[person'[p].bribe])) <=> Queued'
BY DEF Queued, IsQueued

\* Nobody gets in line, and the queues stay.
LEMMA QueuedSame ==
  ASSUME PersonsInOrder, Queued,
         \A p \in Persons : person'[p].pc = "inLine" => person'[p] = person[p],
         \A c \in Clerks : counter'[c].queue = counter[c].queue
  PROVE  Queued'
<1>1. ASSUME NEW p \in Persons, person'[p].pc = "inLine"
      PROVE  IsQueued(p, person'[p], counter'[ClerkOf(p)'].queue[person'[p].bribe])
  <2>1. person'[p] = person[p]
    BY <1>1
  <2>2. ClerkOf(p)' = ClerkOf(p)
    BY <2>1, ClerkOfKept
  <2>3. ClerkOf(p) \in Clerks
    BY <1>1, <2>1, WithClerk DEF WithClerkPc, Owing, InLinePc
  <2>4. counter'[ClerkOf(p)'].queue[person'[p].bribe] = counter[ClerkOf(p)].queue[person[p].bribe]
    BY <2>1, <2>2, <2>3
  <2>5. IsQueued(p, person[p], counter[ClerkOf(p)].queue[person[p].bribe])
    BY QueuedShown
  <2> QED
    BY <2>1, <2>4, <2>5
<1>2. \A p \in Persons : IsQueued(p, person'[p], counter'[ClerkOf(p)'].queue[person'[p].bribe])
  BY <1>1 DEF IsQueued
<1> QED
  BY <1>2, QueuedShown

LEMMA LinesKeptQueued ==
  ASSUME PersonsInOrder, Queued, LinesKept
  PROVE  Queued'
<1>1. \A p \in Persons : person'[p].pc = "inLine" => person'[p] = person[p]
  BY DEF LinesKept, KeepsLine, InLinePc
<1> QED
  BY <1>1, QueuedSame DEF LinesKept

LEMMA GetInLineQueued ==
  ASSUME Shape, ALineIsOpen, PersonsInOrder, LinesInOrder, Queued, CountersInOrder, NEW p \in Persons,
         NEW k, k # "leave", GetInLine(p, k)
  PROVE  Queued'
<1>1. person[p] \in Person /\ person[p].pc = "errand" /\ k \in Kinds /\ Errand(p) = k
  BY HasErrand DEF GetInLine
<1>2. \A b \in BOOLEAN : <<k, pickShortestLine(k, b)>> \in Clerks
  BY <1>1, ShortestLine, ClerksDef
<1>3. \A b \in BOOLEAN : counter[<<k, pickShortestLine(k, b)>>].state # "AVAILABLE"
  BY <1>2 DEF CountersInOrder, Talks, Talk, Calls
<1>4. PICK b \in BOOLEAN :
        /\ person' = [person EXCEPT ![p] =
                        [person[p] EXCEPT !.pc = "inLine", !.line = <<k, pickShortestLine(k, b)>>[2], !.bribe = b]]
        /\ counter' = [counter EXCEPT ![<<k, pickShortestLine(k, b)>>] =
                         [counter[<<k, pickShortestLine(k, b)>>] EXCEPT !.count[b] = @ + 1, !.queue[b] = Append(@, p)]]
  BY <1>3 DEF GetInLine
<1>5. PICK i : i = pickShortestLine(k, b)
  OBVIOUS
<1>6. PICK c \in Clerks : c = <<k, i>>
  BY <1>2, <1>5
<1>7. /\ person' = [person EXCEPT ![p] = [person[p] EXCEPT !.pc = "inLine", !.line = i, !.bribe = b]]
      /\ counter' = [counter EXCEPT ![c] = [counter[c] EXCEPT !.count[b] = @ + 1, !.queue[b] = Append(@, p)]]
  BY <1>4, <1>5, <1>6
<1>8. /\ person'[p].bribe = b /\ person'[p].line = i /\ person'[p].todo = person[p].todo
      /\ \A q \in Persons : q # p => person'[q] = person[q]
  BY <1>1, <1>7 DEF PersonsInOrder, Person
<1>9. counter[c] \in SomeCounter /\ counter[c].queue[b] \in Seq(Persons)
  BY DEF Shape, SomeCounter
<1>10. /\ counter'[c].queue = [counter[c].queue EXCEPT ![b] = Append(counter[c].queue[b], p)]
       /\ \A d \in Clerks : d # c => counter'[d] = counter[d]
  BY <1>7, <1>9 DEF Shape, SomeCounter
<1>11. /\ counter'[c].queue[b] = Append(counter[c].queue[b], p)
       /\ \A a \in BOOLEAN : a # b => counter'[c].queue[a] = counter[c].queue[a]
  BY <1>9, <1>10 DEF SomeCounter
<1>12. PICK u : u = counter[c].queue[b] /\ u \in Seq(Persons)
  BY <1>9
<1>13. /\ \E j \in DOMAIN Append(u, p) : Append(u, p)[j] = p
       /\ \A j \in DOMAIN u : j \in DOMAIN Append(u, p) /\ Append(u, p)[j] = u[j]
  <2>1. Len(u) + 1 \in DOMAIN Append(u, p) /\ Append(u, p)[Len(u) + 1] = p
    BY <1>12
  <2>2. \A j \in DOMAIN u : j \in DOMAIN Append(u, p) /\ Append(u, p)[j] = u[j]
    BY <1>12
  <2> QED
    BY <2>1, <2>2
<1>14. ClerkOf(p)' = c
  BY <1>1, <1>6, <1>8 DEF ClerkOf, Errand
<1>15. ASSUME NEW q \in Persons, person'[q].pc = "inLine"
       PROVE  IsQueued(q, person'[q], counter'[ClerkOf(q)'].queue[person'[q].bribe])
  <2>1. CASE q = p
    <3>1. counter'[ClerkOf(q)'].queue[person'[q].bribe] = Append(u, p)
      BY <1>8, <1>11, <1>12, <1>14, <2>1
    <3> QED
      BY <1>13, <2>1, <3>1 DEF IsQueued
  <2>2. CASE q # p
    <3>1. person'[q] = person[q] /\ ClerkOf(q)' = ClerkOf(q)
      BY <1>8, <2>2, ClerkOfKept
    <3>2. ClerkOf(q) \in Clerks /\ person[q].bribe \in BOOLEAN
      <4>1. person[q] \in Person
        BY DEF PersonsInOrder, GoodPerson
      <4> QED
        BY <1>15, <3>1, <4>1, WithClerk DEF WithClerkPc, Owing, InLinePc, Person
    <3>3. IsQueued(q, person[q], counter[ClerkOf(q)].queue[person[q].bribe])
      BY QueuedShown
    <3>4. CASE ClerkOf(q) = c /\ person[q].bribe = b
      <4>1. IsQueued(q, person[q], u) /\ counter'[ClerkOf(q)].queue[person[q].bribe] = Append(u, p)
        BY <1>11, <1>12, <3>3, <3>4
      <4> QED
        BY <1>13, <3>1, <4>1 DEF IsQueued
    <3>5. CASE ~(ClerkOf(q) = c /\ person[q].bribe = b)
      <4>1. counter'[ClerkOf(q)].queue[person[q].bribe] = counter[ClerkOf(q)].queue[person[q].bribe]
        <5>1. CASE ClerkOf(q) = c
          BY <1>11, <3>2, <3>5, <5>1
        <5>2. CASE ClerkOf(q) # c
          BY <1>10, <3>2, <5>2
        <5> QED
          BY <5>1, <5>2
      <4> QED
        BY <3>1, <3>3, <4>1
    <3> QED
      BY <3>4, <3>5
  <2> QED
    BY <2>1, <2>2
<1>16. \A q \in Persons : IsQueued(q, person'[q], counter'[ClerkOf(q)'].queue[person'[q].bribe])
  BY <1>15 DEF IsQueued
<1> QED
  BY <1>16, QueuedShown

LEMMA InteractionQueued ==
  ASSUME Shape, ALineIsOpen, PersonsInOrder, LinesInOrder, Queued, CountersInOrder, NEW p \in Persons, Interaction(p)
  PROVE  Queued'
<1>1. ASSUME NEW k, k # "leave", GetInLine(p, k) PROVE Queued'
  BY <1>1, GetInLineQueued
<1>2. ASSUME NEW k, k # "leave", WokenInLine(p, k) PROVE Queued'
  <2>1. PICK c : c = ClerkOf(p)
    OBVIOUS
  <2>2. person[p] \in Person /\ person[p].pc = "woken"
    BY <1>2, HasErrand DEF WokenInLine
  <2>3. /\ ToCounter(p).pc = "called"
        /\ [person[p] EXCEPT !.pc = "unsignalled"].pc = "unsignalled"
    BY <2>2 DEF ToCounter, Person
  <2>4. PICK r2 : person' = [person EXCEPT ![p] = r2] /\ r2.pc # "inLine"
    BY <1>2, <2>3 DEF WokenInLine
  <2>5. \A q \in Persons : person'[q].pc = "inLine" => person'[q] = person[q]
    BY <2>4 DEF PersonsInOrder
  <2>6. PICK x : counter' = [counter EXCEPT ![c] = [counter[c] EXCEPT !.count[person[p].bribe] = @ - 1, !.state = x]]
    BY <1>2, <2>1 DEF WokenInLine, Shape, SomeCounter
  <2>7. \A d \in Clerks : counter'[d].queue = counter[d].queue
    BY <2>6 DEF Shape, SomeCounter
  <2> QED
    BY <2>5, <2>7, QueuedSame
<1>3. ASSUME NEW k, k # "leave", GiveSSN(p, k) PROVE Queued'
  BY <1>3, GiveSSNEffect, LinesKeptQueued
<1>4. ASSUME NEW like \in {0, 1}, BackAtCounter(p, "picture", "answered"), Review(p, like) PROVE Queued'
  BY <1>4, ReviewEffect, LinesKeptQueued
<1>5. ASSUME BackAtCounter(p, "cashier", "answered"), Pay(p) PROVE Queued'
  BY <1>5, PayEffect, LinesKeptQueued
<1>6. ASSUME NEW k, NEW ok \in BOOLEAN, NEW pc \in {"answered", "served"},
             k # "leave", MayLeave(p, k, ok, pc), BackAtCounter(p, k, pc), LeaveCounter(p, ok)
      PROVE  Queued'
  <2>1. pc = "served" => ok
    BY <1>6 DEF MayLeave
  <2> QED
    BY <1>6, <2>1, LeaveCounterEffect, LinesKeptQueued
<1> QED
  BY <1>1, <1>2, <1>3, <1>4, <1>5, <1>6, InteractionCases

LEMMA EnterLeaveQueued ==
  ASSUME Shape, PersonsInOrder, LinesInOrder, Queued, NEW p \in Persons, Customer(p) \/ Senator(p)
  PROVE  Queued'
<1>1. PICK r2 : MovesAlone(p, r2)
  BY EnterLeaveEffect
<1>2. \A q \in Persons : person'[q] = IF q = p THEN r2 ELSE person[q]
  BY <1>1 DEF MovesAlone, PersonsInOrder
<1>3. r2.pc = "inLine" => r2 = person[p]
  BY <1>1 DEF MovesAlone, KeepsLine, InLinePc
<1>4. \A q \in Persons : person'[q].pc = "inLine" => person'[q] = person[q]
  BY <1>2, <1>3
<1>5. \A d \in Clerks : counter'[d].queue = counter[d].queue
  BY <1>1 DEF MovesAlone
<1> QED
  BY <1>4, <1>5, QueuedSame

\* The first in the queue is woken; everyone else stays in it.
LEMMA CallCustomerQueued ==
  ASSUME Shape, PersonsInOrder, LinesInOrder, Queued, NEW c \in Clerks, NEW k, CallCustomer(c, k)
  PROVE  Queued'
<1>1. PICK b \in BOOLEAN :
        /\ person' = IF counter[c].queue[b] = <<>> THEN person
                     ELSE [person EXCEPT ![Head(counter[c].queue[b])].pc = "woken"]
        /\ counter' = [counter EXCEPT ![c] = [counter[c] EXCEPT !.queue[b] = Signalled(counter[c].queue[b]),
                                         !.state = "SIGNALEDCUSTOMER", !.cv = Append(@, c)]]
  BY DEF CallCustomer
<1>2. counter[c] \in SomeCounter /\ counter[c].queue[b] \in Seq(Persons)
  BY DEF Shape, SomeCounter
<1>3. /\ counter'[c].queue = [counter[c].queue EXCEPT ![b] = Signalled(counter[c].queue[b])]
      /\ \A d \in Clerks : d # c => counter'[d] = counter[d]
  BY <1>1, <1>2 DEF Shape, SomeCounter
<1>4. /\ counter'[c].queue[b] = Signalled(counter[c].queue[b])
      /\ \A a \in BOOLEAN : a # b => counter'[c].queue[a] = counter[c].queue[a]
  BY <1>2, <1>3 DEF SomeCounter
<1>5. PICK u : u = counter[c].queue[b] /\ u \in Seq(Persons)
  BY <1>2
<1>6. CASE u = <<>>
  <2>1. Signalled(u) = u /\ person' = person
    BY <1>1, <1>5, <1>6 DEF Signalled
  <2>2. counter'[c].queue = counter[c].queue
    BY <1>2, <1>3, <1>5, <2>1 DEF SomeCounter
  <2>3. \A d \in Clerks : counter'[d].queue = counter[d].queue
    BY <1>3, <2>2
  <2> QED
    BY <2>1, <2>3, QueuedSame
<1>7. CASE u # <<>>
  <2>1. PICK h \in Persons : h = Head(u) /\ h = u[1]
    BY <1>5, <1>7
  <2>2. /\ Signalled(u) = Tail(u) /\ Tail(u) \in Seq(Persons)
        /\ \A j \in DOMAIN u : j # 1 => j - 1 \in DOMAIN Tail(u) /\ Tail(u)[j - 1] = u[j]
    BY <1>5, <1>7 DEF Signalled
  <2>3. person' = [person EXCEPT ![h] = [person[h] EXCEPT !.pc = "woken"]]
    BY <1>1, <1>5, <1>7, <2>1
  <2>4. person[h] \in Person
    BY DEF PersonsInOrder, GoodPerson
  <2>5. person'[h].pc = "woken" /\ \A q \in Persons : q # h => person'[q] = person[q]
    BY <2>3, <2>4 DEF PersonsInOrder, Person
  <2>6. ASSUME NEW q \in Persons, person'[q].pc = "inLine"
        PROVE  IsQueued(q, person'[q], counter'[ClerkOf(q)'].queue[person'[q].bribe])
    <3>1. q # h /\ person'[q] = person[q]
      BY <2>5, <2>6
    <3>2. ClerkOf(q)' = ClerkOf(q)
      BY <3>1, ClerkOfKept
    <3>3. ClerkOf(q) \in Clerks /\ person[q].bribe \in BOOLEAN
      <4>1. person[q] \in Person
        BY DEF PersonsInOrder, GoodPerson
      <4> QED
        BY <2>6, <3>1, <4>1, WithClerk DEF WithClerkPc, Owing, InLinePc, Person
    <3>4. IsQueued(q, person[q], counter[ClerkOf(q)].queue[person[q].bribe])
      BY QueuedShown
    <3>5. CASE ClerkOf(q) = c /\ person[q].bribe = b
      <4>1. IsQueued(q, person[q], u) /\ counter'[ClerkOf(q)].queue[person[q].bribe] = Tail(u)
        BY <1>4, <1>5, <2>2, <3>4, <3>5
      <4>2. PICK j \in DOMAIN u : u[j] = q
        BY <2>6, <3>1, <4>1 DEF IsQueued
      <4>3. j # 1
        BY <2>1, <3>1, <4>2
      <4>4. j - 1 \in DOMAIN Tail(u) /\ Tail(u)[j - 1] = q
        BY <2>2, <4>2, <4>3
      <4>5. IsQueued(q, person[q], Tail(u))
        BY <4>4 DEF IsQueued
      <4> QED
        BY <3>1, <3>2, <4>1, <4>5
    <3>6. CASE ~(ClerkOf(q) = c /\ person[q].bribe = b)
      <4>1. counter'[ClerkOf(q)].queue[person[q].bribe] = counter[ClerkOf(q)].queue[person[q].bribe]
        <5>1. CASE ClerkOf(q) = c
          BY <1>4, <3>3, <3>6, <5>1
        <5>2. CASE ClerkOf(q) # c
          BY <1>3, <3>3, <5>2
        <5> QED
          BY <5>1, <5>2
      <4> QED
        BY <3>1, <3>2, <3>4, <4>1
    <3> QED
      BY <3>5, <3>6
  <2>7. \A q \in Persons : IsQueued(q, person'[q], counter'[ClerkOf(q)'].queue[person'[q].bribe])
    BY <2>6 DEF IsQueued
  <2> QED
    BY <2>7, QueuedShown
<1> QED
  BY <1>6, <1>7

LEMMA AnswerQueued ==
  ASSUME Shape, PersonsInOrder, Queued, NEW c \in Clerks,
         NEW n \in {counter[c], [counter[c] EXCEPT !.picture = 0]}, NEW cs,
         SignalAt(c, n, person, cs) \/ SignalAndWaitAt(c, n, person, cs, c)
  PROVE  Queued'
<1>1. SameLine(c, n)
  BY DEF Shape, SomeCounter, SameLine
<1>2. /\ \A p \in Persons : MayWake(person[p], person'[p])
      /\ \A d \in Clerks : counter'[d].count = counter[d].count /\ counter'[d].queue = counter[d].queue
  <2>1. person \in [Persons -> GoodPerson]
    BY DEF PersonsInOrder
  <2> QED
    BY <1>1, <2>1, SignalEffect
<1>3. ASSUME NEW p \in Persons PROVE KeepsLine(person[p], person'[p])
  <2>1. person[p] \in GoodPerson
    BY DEF PersonsInOrder
  <2> QED
    BY <1>2, <2>1, NothingMoves, WokenPerson
<1>4. LinesKept
  BY <1>2, <1>3 DEF LinesKept
<1> QED
  BY <1>4, LinesKeptQueued

LEMMA ClerkStepQueued ==
  ASSUME Shape, PersonsInOrder, LinesInOrder, Queued, NEW c \in Clerks, ClerkStep(c)
  PROVE  Queued'
<1>1. ASSUME NEW k, CallCustomer(c, k) PROVE Queued'
  BY <1>1, CallCustomerQueued
<1>2. ASSUME NEW n \in {counter[c], [counter[c] EXCEPT !.picture = 0]}, NEW x,
             Answer(c, n, x) \/ AnswerAndWait(c, n, x)
      PROVE  Queued'
  BY <1>2, AnswerQueued DEF Answer, AnswerAndWait
<1>3. ASSUME SignalAt(c, counter[c], person, ClerkDone(c)) PROVE Queued'
  BY <1>3, AnswerQueued
<1>4. ASSUME UNCHANGED person, \A d \in Clerks : counter'[d].queue = counter[d].queue PROVE Queued'
  BY <1>4, QueuedSame
<1>5. ASSUME NEW k, CheckAndGoOnBreak(c, k) \/ ComeOffBreak(c, k) \/ PollEndOfDay(c, k) PROVE Queued'
  <2>1. UNCHANGED person /\ \A d \in Clerks : counter'[d].queue = counter[d].queue
    <3>1. UNCHANGED person /\ \E x : counter' = counter \/ counter' = [counter EXCEPT ![c].state = x]
      BY <1>5 DEF CheckAndGoOnBreak, ComeOffBreak, PollEndOfDay
    <3>2. ASSUME NEW x, counter' = [counter EXCEPT ![c].state = x], NEW d \in Clerks
          PROVE  counter'[d].queue = counter[d].queue
      BY <3>2 DEF Shape, SomeCounter
    <3> QED
      BY <3>1, <3>2
  <2> QED
    BY <1>4, <2>1
<1>6. ASSUME HandOverCounter(c), UNCHANGED person PROVE Queued'
  <2>1. \A d \in Clerks : counter'[d].queue = counter[d].queue
    BY <1>6 DEF HandOverCounter, Shape, SomeCounter
  <2> QED
    BY <1>4, <1>6, <2>1
<1>7. ASSUME UNCHANGED person, UNCHANGED counter PROVE Queued'
  BY <1>4, <1>7
<1>8. CASE StartOver(c)
  BY <1>7, <1>8 DEF StartOver
<1>9. CASE ApplicationClerk(c)
  BY <1>1, <1>2, <1>5, <1>7, <1>9 DEF ApplicationClerk, applicationClerkcheckAndGoOnBreak
<1>10. CASE PictureClerk(c)
  BY <1>1, <1>2, <1>5, <1>6, <1>10 DEF PictureClerk, pictureClerkcheckAndGoOnBreak
<1>11. CASE PassportClerk(c)
  BY <1>1, <1>2, <1>3, <1>5, <1>6, <1>11 DEF PassportClerk, passportClerkcheckAndGoOnBreak
<1>12. CASE Cashier(c)
  BY <1>1, <1>2, <1>3, <1>5, <1>7, <1>12 DEF Cashier, cashiercheckAndGoOnBreak
<1> QED
  BY <1>8, <1>9, <1>10, <1>11, <1>12 DEF ClerkStep
-----------------------------------------------------------------------------
\* The manager wakes a line: whoever is still asleep is in another one.
LEMMA BroadcastQueued ==
  ASSUME Shape, PersonsInOrder, Queued, managerBroacastLine
  PROVE  Queued'
<1>1. PICK k : /\ person' = [p \in Persons |->
                               IF person[p].pc = "inLine" /\ Errand(p) = k
                               THEN [person[p] EXCEPT !.pc = "woken"] ELSE person[p]]
               /\ counter' = [c \in Clerks |->
                                IF c[1] = k THEN [counter[c] EXCEPT !.queue = [b \in BOOLEAN |-> <<>>]]
                                ELSE counter[c]]
  BY DEF managerBroacastLine
<1>2. ASSUME NEW q \in Persons, person'[q].pc = "inLine"
      PROVE  IsQueued(q, person'[q], counter'[ClerkOf(q)'].queue[person'[q].bribe])
  <2>1. person[q] \in Person
    BY DEF PersonsInOrder, GoodPerson
  <2>2. [person[q] EXCEPT !.pc = "woken"].pc = "woken"
    BY <2>1 DEF Person
  <2>3. ~(person[q].pc = "inLine" /\ Errand(q) = k)
    BY <1>1, <1>2, <2>2
  <2>4. person'[q] = person[q] /\ Errand(q) # k
    BY <1>1, <1>2, <2>3
  <2>5. ClerkOf(q)' = ClerkOf(q)
    BY <2>4, ClerkOfKept
  <2>6. ClerkOf(q) \in Clerks
    BY <1>2, <2>4, WithClerk DEF WithClerkPc, Owing, InLinePc
  <2>7. ClerkOf(q)[1] # k
    BY <2>4 DEF ClerkOf
  <2>8. counter'[ClerkOf(q)] = counter[ClerkOf(q)]
    BY <1>1, <2>6, <2>7
  <2>9. IsQueued(q, person[q], counter[ClerkOf(q)].queue[person[q].bribe])
    BY QueuedShown
  <2> QED
    BY <2>4, <2>5, <2>8, <2>9
<1>3. \A q \in Persons : IsQueued(q, person'[q], counter'[ClerkOf(q)'].queue[person'[q].bribe])
  BY <1>2 DEF IsQueued
<1> QED
  BY <1>3, QueuedShown

LEMMA ManagerQueued ==
  ASSUME Shape, PersonsInOrder, Queued, ManagerStep
  PROVE  Queued'
<1>1. CASE managerCheckandWakupClerks
  BY <1>1, QueuedSame DEF managerCheckandWakupClerks
<1>2. CASE checkEndOfDay
  <2>1. \A p \in Persons : LetsIn(person[p], person'[p])
    BY <1>2 DEF checkEndOfDay, managerSenatorCheck, LetsIn, PersonsInOrder
  <2>2. \A p \in Persons : KeepsLine(person[p], person'[p])
    BY <2>1, LetInEffect DEF PersonsInOrder
  <2>3. LinesKept
    BY <1>2, <2>2 DEF LinesKept, checkEndOfDay
  <2> QED
    BY <2>3, LinesKeptQueued
<1> QED
  BY <1>1, <1>2, BroadcastQueued DEF ManagerStep

-----------------------------------------------------------------------------
\* Who is asleep on the condition variable of the break is on break, and is there once.
BreaksInOrder ==
  \A k \in Kinds :
    /\ \A j \in DOMAIN breakCV[k] : breakCV[k][j][1] = k /\ clerk[breakCV[k][j]].pc = "onBreak"
    /\ \A i, j \in DOMAIN breakCV[k] : breakCV[k][i] = breakCV[k][j] => i = j

\* Nobody goes on break or comes off it.
LEMMA BreaksKept ==
  ASSUME DeskInOrder, BreaksInOrder, UNCHANGED breakCV,
         \A c \in Clerks : clerk[c].pc = "onBreak" => clerk'[c].pc = "onBreak"
  PROVE  BreaksInOrder'
<1>1. ASSUME NEW k \in Kinds, NEW j \in DOMAIN breakCV[k] PROVE breakCV[k][j] \in Clerks
  <2>1. breakCV[k] \in Seq(Clerks)
    BY DEF DeskInOrder
  <2> QED
    BY <1>1, <2>1
<1> QED
  BY <1>1 DEF BreaksInOrder

LEMMA WakeupBreaks ==
  ASSUME Shape, DeskInOrder, BreaksInOrder, managerCheckandWakupClerks
  PROVE  BreaksInOrder'
<1>1. PICK R : /\ R = {k \in Kinds : managerCheckandWakeupCLERK(k) /\ breakCV[k] # <<>>}
               /\ clerk' = [c \in Clerks |-> IF c[1] \in R /\ c = Head(breakCV[c[1]])
                                             THEN [clerk[c] EXCEPT !.pc = "offBreak"] ELSE clerk[c]]
               /\ breakCV' = [k \in Kinds |-> IF k \in R THEN Tail(breakCV[k]) ELSE breakCV[k]]
  BY DEF managerCheckandWakupClerks
<1>2. ASSUME NEW k \in Kinds
      PROVE  /\ \A j \in DOMAIN breakCV'[k] : breakCV'[k][j][1] = k /\ clerk'[breakCV'[k][j]].pc = "onBreak"
             /\ \A i, j \in DOMAIN breakCV'[k] : breakCV'[k][i] = breakCV'[k][j] => i = j
  <2>1. PICK q : q = breakCV[k] /\ q \in Seq(Clerks)
    BY DEF DeskInOrder
  <2>2. /\ \A j \in DOMAIN q : q[j][1] = k /\ clerk[q[j]].pc = "onBreak" /\ q[j] \in Clerks
        /\ \A i, j \in DOMAIN q : q[i] = q[j] => i = j
    BY <2>1 DEF BreaksInOrder
  <2>3. CASE k \notin R
    <3>1. breakCV'[k] = q
      BY <1>1, <2>1, <2>3
    <3>2. ASSUME NEW j \in DOMAIN q PROVE clerk'[q[j]] = clerk[q[j]]
      BY <1>1, <2>2, <2>3
    <3> QED
      BY <2>2, <3>1, <3>2
  <2>4. CASE k \in R
    <3>1. q # <<>> /\ breakCV'[k] = Tail(q)
      BY <1>1, <2>1, <2>4
    <3>2. /\ Head(q) = q[1] /\ 1 \in DOMAIN q
          /\ \A j \in DOMAIN Tail(q) : j + 1 \in DOMAIN q /\ Tail(q)[j] = q[j + 1] /\ j + 1 # 1
      BY <2>1, <3>1
    <3>3. ASSUME NEW j \in DOMAIN Tail(q) PROVE clerk'[q[j + 1]] = clerk[q[j + 1]]
      <4>1. q[j + 1] # Head(q) /\ q[j + 1] \in Clerks /\ q[j + 1][1] = k
        BY <2>2, <3>2
      <4> QED
        BY <1>1, <2>1, <4>1
    <3>4. \A j \in DOMAIN Tail(q) : Tail(q)[j][1] = k /\ clerk'[Tail(q)[j]].pc = "onBreak"
      BY <2>2, <3>2, <3>3
    <3>5. ASSUME NEW i \in DOMAIN Tail(q), NEW j \in DOMAIN Tail(q), Tail(q)[i] = Tail(q)[j] PROVE i = j
      <4>1. i + 1 = j + 1
        BY <2>2, <3>2, <3>5
      <4>2. i \in Int /\ j \in Int
        BY <2>1, <3>1
      <4> QED
        BY <4>1, <4>2
    <3> QED
      BY <3>1, <3>4, <3>5
  <2> QED
    BY <2>3, <2>4
<1> QED
  BY <1>2 DEF BreaksInOrder

\* A clerk goes on break.
LEMMA GoOnBreakBreaks ==
  ASSUME Shape, DeskInOrder, BreaksInOrder, NEW c \in Clerks, NEW k, CheckAndGoOnBreak(c, k)
  PROVE  BreaksInOrder'
<1>1. clerk[c].pc = "line" /\ c[1] = k /\ k \in Kinds
  BY ClerksDef DEF CheckAndGoOnBreak, AtPc, Clerks
<1>2. CASE UNCHANGED breakCV
  <2>1. \A d \in Clerks : clerk[d].pc = "onBreak" => clerk'[d].pc = "onBreak"
    BY <1>1 DEF CheckAndGoOnBreak, Shape, Clerk
  <2> QED
    BY <1>2, <2>1, BreaksKept
<1>3. CASE breakCV' = [breakCV EXCEPT ![k] = Append(@, c)] /\ clerk' = [clerk EXCEPT ![c].pc = "onBreak"]
  <2>1. clerk'[c].pc = "onBreak" /\ \A d \in Clerks : d # c => clerk'[d] = clerk[d]
    BY <1>3 DEF Shape, Clerk
  <2>2. ASSUME NEW l \in Kinds
        PROVE  /\ \A j \in DOMAIN breakCV'[l] : breakCV'[l][j][1] = l /\ clerk'[breakCV'[l][j]].pc = "onBreak"
               /\ \A i, j \in DOMAIN breakCV'[l] : breakCV'[l][i] = breakCV'[l][j] => i = j
    <3>1. PICK q : q = breakCV[l] /\ q \in Seq(Clerks)
      BY DEF DeskInOrder
    <3>2. /\ \A j \in DOMAIN q : q[j][1] = l /\ clerk[q[j]].pc = "onBreak" /\ q[j] \in Clerks
          /\ \A i, j \in DOMAIN q : q[i] = q[j] => i = j
      BY <3>1 DEF BreaksInOrder
    <3>3. \A j \in DOMAIN q : q[j] # c /\ clerk'[q[j]].pc = "onBreak"
      BY <1>1, <2>1, <3>2
    <3>4. CASE l # k
      <4>1. breakCV'[l] = q
        BY <1>3, <3>1, <3>4 DEF DeskInOrder
      <4> QED
        BY <3>2, <3>3, <4>1
    <3>5. CASE l = k
      <4>1. PICK u : u = Append(q, c) /\ breakCV'[l] = u
        BY <1>3, <3>1, <3>5 DEF DeskInOrder
      <4>2. /\ DOMAIN u = 1 .. (Len(q) + 1) /\ DOMAIN q = 1 .. Len(q) /\ Len(q) \in Nat
            /\ u[Len(q) + 1] = c /\ \A j \in 1 .. Len(q) : u[j] = q[j]
        BY <3>1, <4>1
      <4>3. ASSUME NEW j \in DOMAIN u PROVE u[j][1] = l /\ clerk'[u[j]].pc = "onBreak"
        <5>1. CASE j = Len(q) + 1
          BY <1>1, <2>1, <3>5, <4>2, <5>1
        <5>2. CASE j \in 1 .. Len(q)
          BY <3>2, <3>3, <4>2, <5>2
        <5> QED
          BY <4>2, <5>1, <5>2
      <4>4. ASSUME NEW i \in DOMAIN u, NEW j \in DOMAIN u, u[i] = u[j] PROVE i = j
        BY <3>2, <3>3, <4>2, <4>4
      <4> QED
        BY <4>1, <4>3, <4>4
    <3> QED
      BY <3>4, <3>5
  <2> QED
    BY <2>2 DEF BreaksInOrder
<1> QED
  BY <1>2, <1>3 DEF CheckAndGoOnBreak

\* A signal at a counter wakes no clerk that is on break.
LEMMA SignalBreaks ==
  ASSUME Shape, DeskInOrder, BreaksInOrder, UNCHANGED breakCV, NEW cs, DOMAIN cs = Clerks,
         \A d \in Clerks : clerk[d].pc = "onBreak" => cs[d] = clerk[d], NEW q, clerk' = WakeFirst(cs, q)
  PROVE  BreaksInOrder'
<1>1. ASSUME NEW d \in Clerks, clerk[d].pc = "onBreak" PROVE clerk'[d].pc = "onBreak"
  <2>1. cs[d] \in Clerk /\ cs[d].pc = "onBreak"
    BY <1>1 DEF Shape
  <2>2. [cs[d] EXCEPT !.pc = Woken(cs[d].pc)].pc = "onBreak"
    BY <2>1 DEF Clerk, Woken
  <2>3. CASE q # <<>> /\ Head(q) \in Clerks
    <3>1. clerk' = [cs EXCEPT ![Head(q)] = [cs[Head(q)] EXCEPT !.pc = Woken(cs[Head(q)].pc)]]
      BY <2>3 DEF WakeFirst
    <3>2. PICK h : h = Head(q)
      OBVIOUS
    <3>3. clerk' = [cs EXCEPT ![h] = [cs[h] EXCEPT !.pc = Woken(cs[h].pc)]]
      BY <3>1, <3>2
    <3>4. CASE h = d
      BY <2>2, <3>3, <3>4
    <3>5. CASE h # d
      BY <2>1, <3>3, <3>5
    <3> QED
      BY <3>4, <3>5
  <2>4. CASE ~(q # <<>> /\ Head(q) \in Clerks)
    BY <2>1, <2>4 DEF WakeFirst
  <2> QED
    BY <2>3, <2>4
<1> QED
  BY <1>1, BreaksKept

LEMMA PersonBreaks ==
  ASSUME Shape, DeskInOrder, BreaksInOrder, NEW p \in Persons, Customer(p) \/ Senator(p) \/ Interaction(p)
  PROVE  BreaksInOrder'
<1>1. ASSUME UNCHANGED clerk, UNCHANGED breakCV PROVE BreaksInOrder'
  BY <1>1, BreaksKept
<1>2. ASSUME NEW c, NEW n, NEW ps, SignalAndWaitAt(c, n, ps, clerk, p), UNCHANGED breakCV PROVE BreaksInOrder'
  BY <1>2, SignalBreaks DEF SignalAndWaitAt, Shape
<1>3. CASE Customer(p) \/ Senator(p)
  BY <1>1, <1>3 DEF Customer, Senator, customerCheckIn, customerComeBackIn, customerCheckOut, customerCheckSenator,
         senatorArriveAtPassportOffice, senatorLeavePassportOffice
<1>4. CASE Interaction(p)
  <2>1. ASSUME NEW k, GetInLine(p, k) \/ WokenInLine(p, k) PROVE BreaksInOrder'
    BY <1>1, <2>1 DEF GetInLine, WokenInLine
  <2>2. ASSUME NEW k, GiveSSN(p, k) PROVE BreaksInOrder'
    BY <1>2, <2>2 DEF GiveSSN
  <2>3. ASSUME NEW like, Review(p, like) PROVE BreaksInOrder'
    BY <1>2, <2>3 DEF Review
  <2>4. ASSUME Pay(p) PROVE BreaksInOrder'
    BY <1>2, <2>4 DEF Pay
  <2>5. ASSUME NEW ok, LeaveCounter(p, ok) PROVE BreaksInOrder'
    BY <1>1, <2>5 DEF LeaveCounter
  <2> QED
    BY <1>4, <2>1, <2>2, <2>3, <2>4, <2>5, InteractionCases
<1> QED
  BY <1>3, <1>4

LEMMA ClerkStepBreaks ==
  ASSUME Shape, DeskInOrder, BreaksInOrder, NEW c \in Clerks, ClerkStep(c)
  PROVE  BreaksInOrder'
<1>1. ASSUME NEW x, clerk[c].pc # "onBreak", clerk' = [clerk EXCEPT ![c] = x], UNCHANGED breakCV PROVE BreaksInOrder'
  BY <1>1, BreaksKept DEF Shape
<1>2. ASSUME NEW n, NEW x, clerk[c].pc # "onBreak", UNCHANGED breakCV, Answer(c, n, x) \/ AnswerAndWait(c, n, x)
      PROVE  BreaksInOrder'
  <2>1. clerk' = WakeFirst(ClerkTo(c, x), n.cv)
    BY <1>2 DEF Answer, AnswerAndWait, SignalAt, SignalAndWaitAt
  <2> QED
    BY <1>2, <2>1, ClerkGoes, SignalBreaks
<1>3. ASSUME clerk[c].pc # "onBreak", UNCHANGED breakCV, SignalAt(c, counter[c], person, ClerkDone(c))
      PROVE  BreaksInOrder'
  <2>1. clerk' = WakeFirst(ClerkDone(c), counter[c].cv)
    BY <1>3 DEF SignalAt
  <2> QED
    BY <1>3, <2>1, ClerkGoes, SignalBreaks
<1>4. ASSUME clerk[c].pc # "onBreak", UNCHANGED breakCV, clerk' = ClerkDone(c) PROVE BreaksInOrder'
  BY <1>1, <1>4 DEF ClerkDone
<1>5. ASSUME NEW k, CallCustomer(c, k) \/ ComeOffBreak(c, k) \/ PollEndOfDay(c, k) PROVE BreaksInOrder'
  <2>1. clerk[c].pc # "onBreak" /\ UNCHANGED breakCV /\ \E y : clerk' = [clerk EXCEPT ![c].pc = y]
    BY <1>5 DEF CallCustomer, ComeOffBreak, PollEndOfDay, AtPc, clerkCheckForSenator
  <2> QED
    BY <1>1, <2>1
<1>6. ASSUME NEW k, CheckAndGoOnBreak(c, k) PROVE BreaksInOrder'
  BY <1>6, GoOnBreakBreaks
<1>7. CASE StartOver(c)
  BY <1>1, <1>7 DEF StartOver, clerkCheckForSenator
<1>8. CASE ApplicationClerk(c)
  BY <1>2, <1>4, <1>5, <1>6, <1>8 DEF ApplicationClerk, applicationClerkcheckAndGoOnBreak, AtPc
<1>9. CASE PictureClerk(c)
  BY <1>2, <1>4, <1>5, <1>6, <1>9 DEF PictureClerk, pictureClerkcheckAndGoOnBreak, AtPc, HandOverCounter
<1>10. CASE PassportClerk(c)
  BY <1>2, <1>3, <1>4, <1>5, <1>6, <1>10 DEF PassportClerk, passportClerkcheckAndGoOnBreak, AtPc, HandOverCounter
<1>11. CASE Cashier(c)
  BY <1>2, <1>3, <1>4, <1>5, <1>6, <1>11 DEF Cashier, cashiercheckAndGoOnBreak, AtPc
<1> QED
  BY <1>7, <1>8, <1>9, <1>10, <1>11 DEF ClerkStep

LEMMA ManagerBreaks ==
  ASSUME Shape, DeskInOrder, BreaksInOrder, ManagerStep
  PROVE  BreaksInOrder'
<1>1. CASE managerCheckandWakupClerks
  BY <1>1, WakeupBreaks
<1>2. CASE managerBroacastLine \/ checkEndOfDay
  BY <1>2, BreaksKept DEF managerBroacastLine, checkEndOfDay
<1> QED
  BY <1>1, <1>2 DEF ManagerStep
-----------------------------------------------------------------------------
LEMMA BroadcastTalks ==
  ASSUME Shape, PersonsInOrder, SenatorsInOrder, CountersInOrder, managerBroacastLine
  PROVE  CountersInOrder'
<1>1. PICK k : /\ person' = [p \in Persons |->
                               IF person[p].pc = "inLine" /\ Errand(p) = k
                               THEN [person[p] EXCEPT !.pc = "woken"] ELSE person[p]]
               /\ counter' = [c \in Clerks |->
                                IF c[1] = k THEN [counter[c] EXCEPT !.queue = [b \in BOOLEAN |-> <<>>]]
                                ELSE counter[c]]
  BY DEF managerBroacastLine
<1>2. office.senatorPresentWaitOutSide /\ UNCHANGED office /\ UNCHANGED clerk
  BY DEF managerBroacastLine, SenatorsInOrder, Separated
<1>3. ASSUME NEW d \in Clerks PROVE SameData(counter[d], counter'[d]) /\ counter'[d].state = counter[d].state
  <2>1. counter[d] \in SomeCounter
    BY DEF Shape
  <2>2. PICK e : e = [b \in BOOLEAN |-> <<>>]
    OBVIOUS
  <2>3. counter'[d] \in {counter[d], [counter[d] EXCEPT !.queue = e]}
    BY <1>1, <2>2
  <2> QED
    BY <2>1, <2>3 DEF SomeCounter, SameData
<1>4. ASSUME NEW p \in Persons, NEW d \in Clerks
      PROVE  \/ Place(person'[p], d) = Place(person[p], d)
             \/ Place(person[p], d) = "away" /\ Place(person'[p], d) = "woken"
  <2>1. person[p] \in Person
    BY DEF PersonsInOrder, GoodPerson
  <2>2. [person[p] EXCEPT !.pc = "woken"].pc = "woken"
    BY <2>1 DEF Person
  <2>3. CASE person'[p] = person[p]
    BY <2>3
  <2>4. CASE person[p].pc = "inLine" /\ person'[p].pc = "woken"
    BY <2>4 DEF Place, VisitPc
  <2> QED
    BY <1>1, <2>2, <2>3, <2>4
<1> QED
  BY <1>2, <1>3, <1>4, QuietTalks

\* Only clerks on break are woken from it.
LEMMA WakeupTalks ==
  ASSUME Shape, DeskInOrder, BreaksInOrder, CountersInOrder, managerCheckandWakupClerks
  PROVE  CountersInOrder'
<1>1. UNCHANGED person /\ UNCHANGED counter /\ UNCHANGED office
  BY DEF managerCheckandWakupClerks
<1>2. ASSUME NEW d \in Clerks PROVE Talks(d)'
  <2>1. Visitors(d)' = Visitors(d)
    BY <1>1 DEF Visitors
  <2>2. Talk(d, counter[d], clerk[d], Visitors(d), office.senatorPresentWaitOutSide)
    BY DEF CountersInOrder, Talks
  <2>3. \/ clerk'[d] = clerk[d]
        \/ clerk'[d].pc = "offBreak" /\ clerk[d].pc = "onBreak"
    <3>1. CASE clerk'[d] # clerk[d]
      <4>1. /\ clerk'[d] = [clerk[d] EXCEPT !.pc = "offBreak"] /\ d[1] \in Kinds
            /\ breakCV[d[1]] # <<>> /\ d = Head(breakCV[d[1]])
        BY <3>1 DEF managerCheckandWakupClerks
      <4>2. breakCV[d[1]] \in Seq(Clerks)
        BY <4>1 DEF DeskInOrder
      <4>3. 1 \in DOMAIN breakCV[d[1]] /\ d = breakCV[d[1]][1]
        BY <4>1, <4>2
      <4>4. clerk[d].pc = "onBreak"
        BY <4>1, <4>3 DEF BreaksInOrder
      <4>5. clerk[d] \in Clerk
        BY DEF Shape
      <4> QED
        BY <4>1, <4>4, <4>5 DEF Clerk
    <3> QED
      BY <3>1
  <2>4. Talk(d, counter[d], clerk'[d], Visitors(d), office.senatorPresentWaitOutSide)
    <3>1. CASE clerk'[d] = clerk[d]
      BY <2>2, <3>1
    <3>2. CASE clerk'[d].pc = "offBreak" /\ clerk[d].pc = "onBreak"
      <4>1. clerk[d].pc \in Resting /\ clerk'[d].pc \in Resting /\ SameData(counter[d], counter[d])
        BY <3>2 DEF Resting, SameData
      <4>2. counter[d].state \notin {"AVAILABLE", "SIGNALEDCUSTOMER"}
        BY <2>2, <3>2 DEF Talk, Calls
      <4> QED
        BY <2>2, <4>1, <4>2, RoundsSaid
    <3> QED
      BY <2>3, <3>1, <3>2
  <2>5. Talk(d, counter'[d], clerk'[d], Visitors(d)', office'.senatorPresentWaitOutSide)
    BY <1>1, <2>1, <2>4
  <2> QED
    BY <2>5 DEF Talks
<1> QED
  BY <1>2 DEF CountersInOrder

\* When customers are let back in, nobody who was woken still has to look at the flag.
LEMMA EndOfDayTalks ==
  ASSUME Shape, PersonsInOrder, DeskInOrder, SenatorsInOrder, CountersInOrder, checkEndOfDay
  PROVE  CountersInOrder'
<1>0. office \in Office
  BY DEF DeskInOrder
<1>1. UNCHANGED clerk /\ UNCHANGED counter
  BY DEF checkEndOfDay
<1>2. \A p \in Persons : LetsIn(person[p], person'[p])
  BY DEF checkEndOfDay, managerSenatorCheck, LetsIn, PersonsInOrder
<1>3. ASSUME NEW p \in Persons, NEW d \in Clerks PROVE Place(person'[p], d) = Place(person[p], d)
  <2>1. person[p] \in Person
    BY DEF PersonsInOrder, GoodPerson
  <2>2. \A x : [person[p] EXCEPT !.pc = x].pc = x
    BY <2>1 DEF Person
  <2>3. \/ person'[p] = person[p]
        \/ person[p].pc \in {"senatorLine", "outside"} /\ person'[p].pc \in {"admitted", "letIn"}
    BY <1>2, <2>2 DEF LetsIn
  <2> QED
    BY <2>3 DEF Place, VisitPc
<1>4. \A d \in Clerks : SameData(counter[d], counter'[d]) /\ counter'[d].state = counter[d].state
  BY <1>1 DEF SameData
<1>5. office.senatorPresentWaitOutSide =>
        office'.senatorPresentWaitOutSide \/ \A p \in Persons : person[p].pc \notin {"woken", "unsignalled"}
  <2>1. SUFFICES ASSUME office.senatorPresentWaitOutSide, ~office'.senatorPresentWaitOutSide, NEW p \in Persons
                 PROVE  person[p].pc \notin {"woken", "unsignalled"}
    OBVIOUS
  <2>2. office.senatorSafeToEnter /\ ~(office.senatorPresentCount > 0)
    BY <1>0, <2>1 DEF checkEndOfDay, managerSenatorCheck, Office
  <2>3. EngagedCustomers = {} /\ PresentSenators = {}
    <3>1. IsFiniteSet(PresentSenators)
      <4>1. PresentSenators \subseteq Persons
        BY DEF PresentSenators, Persons
      <4> QED
        BY <4>1, PersonsAssumption, FS_Subset
    <3>2. Cardinality(PresentSenators) = office.senatorPresentCount /\ Cardinality(PresentSenators) \in Nat
      BY <3>1, FS_CardinalityType DEF SenatorsInOrder, Counted
    <3>3. Cardinality(PresentSenators) = 0
      BY <2>2, <3>2
    <3>4. PresentSenators = {}
      BY <3>1, <3>3, FS_EmptySet
    <3> QED
      BY <2>2, <3>4 DEF SenatorsInOrder, Separated
  <2> QED
    BY <2>3 DEF Persons, EngagedCustomers, PresentSenators, PresentPc, EngagedPc, InsidePc
<1> QED
  BY <1>1, <1>3, <1>4, <1>5, QuietTalks
-----------------------------------------------------------------------------
CounterInv == Queued /\ BreaksInOrder /\ Certified /\ CountersInOrder

LEMMA NothingHappens ==
  ASSUME OfficeInv, CounterInv, UNCHANGED vars
  PROVE  Queued' /\ BreaksInOrder' /\ Certified' /\ CountersInOrder'
<1>1. PersonsInOrder /\ DeskInOrder
  BY DEF OfficeInv
<1>2. UNCHANGED person /\ UNCHANGED clerk /\ UNCHANGED counter /\ UNCHANGED <<breakCV, office, filed, manager>>
  BY DEF vars
<1>3. Queued' /\ BreaksInOrder' /\ Certified'
  BY <1>1, <1>2, QueuedSame, BreaksKept, MildCertified DEF CounterInv
<1>4. CountersInOrder'
  BY <1>2, QuietTalks DEF CounterInv, SameData
<1> QED
  BY <1>3, <1>4

LEMMA CounterInvNext ==
  ASSUME OfficeInv, SenatorsInOrder, CounterInv, [Next]_vars
  PROVE  CounterInv'
<1>1. Shape /\ ALineIsOpen /\ PersonsInOrder /\ LinesInOrder /\ SSNsKnown /\ DeskInOrder
  BY DEF OfficeInv, IInv
<1>2. Queued /\ BreaksInOrder /\ Certified /\ CountersInOrder
  BY DEF CounterInv
<1>3. filed.rejection = {}
  BY <1>2 DEF Certified
<1>4. ASSUME NEW p \in Persons, Customer(p) \/ Senator(p) PROVE CounterInv'
  BY <1>1, <1>2, <1>4, EnterLeaveQueued, PersonBreaks, EnterLeaveCertified, EnterLeaveTalks DEF CounterInv
<1>5. ASSUME NEW p \in Persons, Interaction(p) PROVE CounterInv'
  BY <1>1, <1>2, <1>3, <1>5, InteractionQueued, PersonBreaks, InteractionCertified, InteractionTalks
     DEF CounterInv
<1>6. ASSUME NEW c \in Clerks, ClerkStep(c) PROVE CounterInv'
  BY <1>1, <1>2, <1>6, ClerkStepQueued, ClerkStepBreaks, ClerkStepTalks DEF CounterInv
<1>7. CASE ManagerStep
  <2>1. Queued' /\ BreaksInOrder' /\ Certified'
    BY <1>1, <1>2, <1>7, ManagerQueued, ManagerBreaks, ManagerCertified
  <2>2. CountersInOrder'
    BY <1>1, <1>2, <1>7, BroadcastTalks, WakeupTalks, EndOfDayTalks DEF ManagerStep
  <2> QED
    BY <2>1, <2>2 DEF CounterInv
<1>8. CASE UNCHANGED vars
  BY <1>8, NothingHappens DEF CounterInv
<1> QED
  BY <1>4, <1>5, <1>6, <1>7, <1>8 DEF Next

\* The loops of Customer and Senator come from a passport clerk to the cashier.
LEMMA ErrandsAwait ==
  ASSUME NEW b \in BOOLEAN
  PROVE  Awaits(Errands(b))
<1> DEFINE visit(k) == IF k \in Kinds THEN <<k>> ELSE <<>>
           first == IF b THEN visit("application") \o visit("picture")
                    ELSE visit("picture") \o visit("application")
<1>1. Errands(b) = (first \o visit("passport")) \o visit("cashier")
  BY DEF Errands
<1>2. CASE "cashier" \notin Kinds
  BY <1>2, ErrandsInOrder DEF Awaits
<1>3. CASE "cashier" \in Kinds
  <2>1. visit("cashier") = <<"cashier">> /\ visit("passport") = <<"passport">>
    BY <1>3, KindsAssumption
  <2>2. first \in Seq(Kinds)
    <3>1. ASSUME NEW k PROVE visit(k) \in Seq(Kinds)
      <4>1. CASE k \in Kinds
        <5>1. visit(k) = <<k>>
          BY <4>1
        <5> HIDE DEF visit
        <5> QED
          BY <4>1, <5>1
      <4>2. CASE k \notin Kinds
        <5>1. visit(k) = <<>>
          BY <4>2
        <5> HIDE DEF visit
        <5> QED
          BY <5>1
      <4> QED
        BY <4>1, <4>2
    <3>2. visit("application") \in Seq(Kinds) /\ visit("picture") \in Seq(Kinds)
      BY <3>1
    <3> HIDE DEF visit
    <3> QED
      BY <3>2
  <2>3. PICK f \in Seq(Kinds) : Errands(b) = (f \o <<"passport">>) \o <<"cashier">>
    BY <1>1, <2>1, <2>2
  <2> HIDE DEF visit, first
  <2>4. PICK e : e = Errands(b) /\ e = (f \o <<"passport">>) \o <<"cashier">>
    BY <2>3
  <2>5. Len(e) = Len(f) + 2 /\ Len(f) \in Nat /\ e[Len(f) + 1] = "passport"
    BY <2>4
  <2>6. \A j \in DOMAIN e : e[j] = "cashier" => j = Len(e)
    BY <2>4, ErrandsInOrder
  <2>7. ASSUME NEW j \in DOMAIN e, e[j] = "cashier" PROVE j > 1 /\ e[j - 1] = "passport"
    <3>1. j = Len(f) + 2
      BY <2>5, <2>6, <2>7
    <3>2. j > 1 /\ j - 1 = Len(f) + 1
      BY <2>5, <3>1
    <3> QED
      BY <2>5, <3>2
  <2> QED
    BY <2>4, <2>7 DEF Awaits
<1> QED
  BY <1>2, <1>3

LEMMA CounterInvInit ==
  ASSUME Init
  PROVE  CounterInv
<1>1. \A p \in Persons : person[p].pc = "arriving"
  BY InitPersonsInOrder DEF Init
<1>2. Queued
  BY <1>1 DEF Queued
<1>3. BreaksInOrder
  BY DEF BreaksInOrder, Init, InitCounters
<1>4. Certified
  <2>1. PICK cash \in [Customers -> 0 .. MaxBribes], first \in [Persons -> BOOLEAN] :
          person = [p \in Persons |-> [NoLocals EXCEPT !.money = IF p \in Customers THEN @ + cash[p] * 500 ELSE @,
                                                       !.todo = Errands(first[p])]]
    BY DEF Init, InitPersons
  <2>2. \A p \in Persons : person[p].todo = Errands(first[p]) /\ first[p] \in BOOLEAN
    BY <2>1 DEF NoLocals
  <2>3. \A p \in Persons : Awaits(person[p].todo)
    BY <2>2, ErrandsAwait
  <2>4. filed.rejection = {}
    BY DEF Init, InitDocuments
  <2> QED
    BY <1>1, <2>3, <2>4 DEF Certified
<1>5. ASSUME NEW c \in Clerks PROVE Talks(c)
  <2>1. \A p \in Persons : Visitors(c)[p] = "away"
    BY <1>1 DEF Visitors, Place, VisitPc
  <2>2. /\ counter[c].state = "BUSY" /\ counter[c].cv = <<>> /\ clerk[c].pc = "check"
    BY <1>5 DEF Init, InitCounters
  <2>3. Calls(c, counter[c], clerk[c], Visitors(c), office.senatorPresentWaitOutSide)
    BY <2>1, <2>2 DEF Calls
  <2>4. VisitorsServed(c, counter[c], clerk[c], Visitors(c)) /\ TakesTurns(c, counter[c], clerk[c], Visitors(c))
    BY <2>1, <2>2 DEF VisitorsServed, TakesTurns
  <2> QED
    BY <2>3, <2>4 DEF Talks, Talk
<1> QED
  BY <1>2, <1>3, <1>4, <1>5 DEF CounterInv, CountersInOrder

\* Each clerk and the people at its counter are where the other side believes them to
\* be, for any number of persons and clerks: the state and the data of the counter say
\* whose turn it is, a line is woken by its clerk alone unless people are sent outside,
\* nobody is called twice, and nobody comes to a cashier uncertified.
THEOREM CountersStayInOrder == Spec => []CounterInv
<1>1. Init => CounterInv
  BY CounterInvInit
<1>2. OfficeInv /\ SenatorsInOrder /\ CounterInv /\ [Next]_vars => CounterInv'
  BY CounterInvNext
<1> QED
  BY <1>1, <1>2, OfficeInOrder, SenatorsStayInOrder, PTL DEF Spec

\* A clerk and the one customer at its counter talk to each other, although the lock of
\* the counter is released between any two of their turns, a signal may find nobody, and
\* the manager wakes whole lines.
THEOREM OneCustomerAtATime == Spec => []OneAtEachCounter
<1>1. CounterInv => OneAtEachCounter
  <2> SUFFICES ASSUME CounterInv, NEW c \in Clerks
               PROVE  /\ Cardinality(AtCounter(c)) <= 1
                      /\ clerk[c].pc \in {"hasSSN", "showing", "shown", "charging", "charged"} =>
                           \E p \in Persons : /\ person[p].pc \in {"atCounter", "answered", "paid"}
                                              /\ ClerkOf(p) = c
                                              /\ p = counter[c].SSN
                      /\ clerk[c].pc = "calling" =>
                           \/ AtCounter(c) # {}
                           \/ /\ counter[c].state = "SIGNALEDCUSTOMER"
                              /\ \E p \in Persons : person[p].pc = "woken" /\ ClerkOf(p) = c
    BY DEF OneAtEachCounter
  <2>1. PICK f : f = Visitors(c)
    OBVIOUS
  <2>2. /\ Calls(c, counter[c], clerk[c], f, office.senatorPresentWaitOutSide)
        /\ VisitorsServed(c, counter[c], clerk[c], f) /\ TakesTurns(c, counter[c], clerk[c], f)
    BY <2>1 DEF CounterInv, CountersInOrder, Talks, Talk
  <2>3. \A p \in Persons : f[p] = IF ClerkOf(p) = c THEN ShownAs(person[p]) ELSE "away"
    BY <2>1, PlaceOf DEF Visitors
  <2>4. \A p \in Persons : \A x \in VisitPc : f[p] = x <=> person[p].pc = x /\ ClerkOf(p) = c
    BY <2>3 DEF ShownAs, VisitPc
  <2>5. \A p \in Persons : p \in AtCounter(c) <=> f[p] \in {"called", "atCounter", "paid"}
    BY <2>4 DEF AtCounter, VisitPc
  <2>6. \A p, q \in AtCounter(c) : p = q
    <3>1. \A p \in AtCounter(c) : p \in Persons
      BY DEF AtCounter
    <3>2. ASSUME NEW p \in Persons, NEW q \in Persons,
                 f[p] \in {"called", "atCounter", "paid"}, f[q] \in {"called", "atCounter", "paid"}
          PROVE  p = q
      BY <2>2, <3>2 DEF Calls, VisitorsServed
    <3> QED
      BY <2>5, <3>1, <3>2
  <2>7. Cardinality(AtCounter(c)) <= 1
    <3>1. AtCounter(c) = {} \/ \E p : AtCounter(c) = {p}
      BY <2>6
    <3>2. Cardinality({}) = 0 /\ \A p : Cardinality({p}) = 1
      BY FS_EmptySet, FS_Singleton
    <3>3. Cardinality(AtCounter(c)) \in {0, 1}
      BY <3>1, <3>2, Zenon
    <3> QED
      BY <3>3
  <2>8. ASSUME clerk[c].pc \in {"hasSSN", "showing", "shown", "charging", "charged"}
        PROVE  /\ counter[c].SSN \in Persons /\ ClerkOf(counter[c].SSN) = c
               /\ person[counter[c].SSN].pc \in {"atCounter", "answered", "paid"}
    BY <2>2, <2>4, <2>8 DEF TakesTurns, VisitPc
  <2>9. ASSUME clerk[c].pc = "calling"
        PROVE  \/ AtCounter(c) # {}
               \/ /\ counter[c].state = "SIGNALEDCUSTOMER"
                  /\ \E p \in Persons : person[p].pc = "woken" /\ ClerkOf(p) = c
    BY <2>2, <2>4, <2>5, <2>9 DEF Calls, VisitPc
  <2> QED
    BY <2>7, <2>8, <2>9
<1> QED
  BY <1>1, CountersStayInOrder, PTL

=================================================================================
