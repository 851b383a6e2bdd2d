----------------------------- MODULE PassportOffice -----------------------------
(***************************************************************************)
(* The passport office simulation of threads/proj1Part2.cc: customers and  *)
(* senators, the clerks of four kinds, and the manager.  What a thread     *)
(* does while it holds managerLock or a line lock is one step.  The lock   *)
(* of a clerk's counter shows only where the clerk keeps it over a Yield:  *)
(* while it files, and when it then hands the lock over.                   *)
(***************************************************************************)
EXTENDS Integers, Sequences, FiniteSets

CONSTANTS
  Customers,    \* threads that run Customer
  Senators,     \* threads that run Senator
  Kinds,        \* the kinds of clerks people have to see: all four, or the first few
  ClerkCount,   \* CLERKCOUNT, here a number for each kind of clerk
  LongLine,     \* the manager wakes a clerk when more than this many wait (3)
  MaxBribes,    \* a person has $100 and up to this many times $500 (3)
  NoOne         \* no person

\* The order in which the manager goes through the kinds.
KindOrder == <<"application", "picture", "passport", "cashier">>

Lines(k) == 1..ClerkCount[k]
Clerks == UNION {{k} \X Lines(k) : k \in Kinds}
Persons == Customers \cup Senators

ASSUME KindsAssumption ==
  /\ Kinds \subseteq {"application", "picture", "passport", "cashier"}
  /\ "passport" \in Kinds => {"application", "picture"} \subseteq Kinds
  /\ "cashier" \in Kinds => "passport" \in Kinds
ASSUME ClerkCountAssumption == ClerkCount \in [Kinds -> Nat \ {0}]
ASSUME PersonsAssumption ==
  /\ IsFiniteSet(Persons)
  /\ Customers \cap Senators = {}
  /\ NoOne \notin Persons
  /\ Persons \cap Clerks = {}
ASSUME BoundsAssumption == LongLine \in Nat /\ MaxBribes \in Nat

VARIABLES
  person,    \* the local variables of the customers and senators
  clerk,     \* the local variables of the clerks
  counter,   \* what is shared about a clerk: its state, lines, counter and data
  breakCV,   \* for each kind, the clerks asleep on its break condition
  office,    \* what managerLock protects
  filed,     \* the documents, by the persons they are filed for
  manager    \* where the manager is in its loop

vars == <<person, clerk, counter, breakCV, office, filed, manager>>

CLERKSTATE == {"AVAILABLE", "SIGNALEDCUSTOMER", "BUSY", "ONBREAK"}

\* pc is where the thread is between two critical sections; back is where it goes
\* from outside; line and bribe are the line it stands in.
Person ==
  [pc : {"arriving", "loop", "errand", "inLine", "woken", "unsignalled", "outside", "letIn",
         "called", "atCounter", "answered", "paid", "served", "senatorLine", "admitted", "gone"},
   back : {"loop", "errand"}, line : Nat, bribe : BOOLEAN, money : Nat, todo : Seq(Kinds)]

Clerk ==
  [pc : {"check", "line", "poll", "onBreak", "offBreak", "calling", "hasSSN", "showing", "shown",
         "charging", "charged", "filing", "finished"},
   customerSSN : Persons \cup {NoOne}]

\* count and queue are the counts and condition variables of the bribe line (TRUE)
\* and the regular line (FALSE); cv is the clerk's own condition variable, SSN and
\* picture the data passed at the counter, and owner the person the counter's lock
\* was handed to.
Counter ==
  [state : CLERKSTATE, count : [BOOLEAN -> Nat], queue : [BOOLEAN -> Seq(Persons)],
   cv : Seq(Persons \cup Clerks), SSN : Persons \cup {NoOne}, picture : {0, 1},
   owner : Persons \cup {NoOne}]

Office ==
  [customersPresentCount : Int, senatorPresentCount : Int, checkedOutCount : Int,
   senatorLineCount : Int, passportOfficeOutsideLineCount : Int,
   senatorSafeToEnter : BOOLEAN, senatorPresentWaitOutSide : BOOLEAN]

Filed ==
  [application : SUBSET Persons, picture : SUBSET Persons, passport : SUBSET Persons,
   punishment : SUBSET Persons, rejection : SUBSET Persons, done : SUBSET Persons]

Manager ==
  [at : {"broadcast", "wakeUp", "endOfDay", "finished"}, kind : 1..Len(KindOrder)]

\* Every variable has its type: no line count and nobody's money is ever negative.
TypeOK ==
  /\ person \in [Persons -> Person]
  /\ clerk \in [Clerks -> Clerk]
  /\ counter \in [Clerks -> Counter]
  /\ breakCV \in [Kinds -> Seq(Clerks)]
  /\ office \in Office
  /\ filed \in Filed
  /\ manager \in Manager
-----------------------------------------------------------------------------
(***************************************************************************)
(* Initially everyone is on their way and every clerk is BUSY.             *)
(***************************************************************************)
NoLocals == [pc |-> "arriving", back |-> "loop", line |-> 0, bribe |-> FALSE, money |-> 100, todo |-> <<>>]

\* The kinds of clerks in the order in which the loops of Customer and Senator come
\* to them.
Errands(appClerkFirst) ==
  LET visit(k) == IF k \in Kinds THEN <<k>> ELSE <<>>
      first == IF appClerkFirst THEN visit("application") \o visit("picture")
               ELSE visit("picture") \o visit("application")
  IN  first \o visit("passport") \o visit("cashier")

\* The money of a senator, who never bribes, does not matter.
InitPersons ==
  \E cash \in [Customers -> 0..MaxBribes], appClerkFirst \in [Persons -> BOOLEAN] :
    person = [p \in Persons |->
                [NoLocals EXCEPT !.money = IF p \in Customers THEN @ + cash[p] * 500 ELSE @,
                               !.todo = Errands(appClerkFirst[p])]]

InitCounters ==
  /\ counter = [c \in Clerks |->
                  [state |-> "BUSY", count |-> [b \in BOOLEAN |-> 0],
                   queue |-> [b \in BOOLEAN |-> <<>>], cv |-> <<>>, SSN |-> NoOne,
                   picture |-> 0, owner |-> NoOne]]
  /\ clerk = [c \in Clerks |-> [pc |-> "check", customerSSN |-> NoOne]]
  /\ breakCV = [k \in Kinds |-> <<>>]

InitDocuments ==
  filed = [application |-> {}, picture |-> {}, passport |-> {}, punishment |-> {},
           rejection |-> {}, done |-> {}]

InitOffice ==
  /\ office = [customersPresentCount |-> 0, senatorPresentCount |-> 0, checkedOutCount |-> 0,
               senatorLineCount |-> 0, passportOfficeOutsideLineCount |-> 0,
               senatorSafeToEnter |-> FALSE, senatorPresentWaitOutSide |-> FALSE]
  /\ manager = [at |-> "endOfDay", kind |-> 1]

Init == InitPersons /\ InitCounters /\ InitDocuments /\ InitOffice
-----------------------------------------------------------------------------
(***************************************************************************)
(* Helpers.                                                                *)
(***************************************************************************)
\* The first clerk not on break whose line is shortest.
pickShortestLine(k, bribe) ==
  LET open == {i \in Lines(k) : counter[<<k, i>>].state # "ONBREAK"}
      length(i) == counter[<<k, i>>].count[bribe]
  IN  CHOOSE i \in open : \A j \in open : length(i) < length(j) \/ (length(i) = length(j) /\ i <= j)

\* What a person does next.
Errand(p) == IF person[p].todo = <<>> THEN "leave" ELSE Head(person[p].todo)

\* The clerk whose line p stands in or whose counter it is at.
ClerkOf(p) == <<Errand(p), person[p].line>>

\* An interaction that returns: its locals are gone, and on TRUE so is the errand.
Return(p, ok) ==
  [person[p] EXCEPT !.pc = IF p \in Customers THEN "loop" ELSE "errand",
                    !.line = 0, !.bribe = FALSE,
                    !.todo = IF ok THEN Tail(@) ELSE @]

\* Signal and Wait on the condition variable of a counter: the first that waits
\* wakes up, and what it was waiting for has happened.
Woken(pc) ==
  CASE pc = "atCounter" -> "answered"
    [] pc = "paid"      -> "served"
    [] pc = "calling"   -> "hasSSN"
    [] pc = "showing"   -> "shown"
    [] pc = "charging"  -> "charged"
    [] OTHER            -> pc

Signalled(q) == IF q = <<>> THEN q ELSE Tail(q)
WakeFirst(threads, q) ==
  IF q # <<>> /\ Head(q) \in DOMAIN threads
  THEN [threads EXCEPT ![Head(q)].pc = Woken(@)]
  ELSE threads

\* At counter c, which it leaves in state n, a thread signals and goes on, or waits
\* in its turn (t); ps and cs are the persons and clerks with the thread's own step.
SignalAt(c, n, ps, cs) ==
  /\ person' = WakeFirst(ps, n.cv)
  /\ clerk' = WakeFirst(cs, n.cv)
  /\ counter' = [counter EXCEPT ![c] = [n EXCEPT !.cv = Signalled(@)]]

SignalAndWaitAt(c, n, ps, cs, t) ==
  /\ person' = WakeFirst(ps, n.cv)
  /\ clerk' = WakeFirst(cs, n.cv)
  /\ counter' = [counter EXCEPT ![c] = [n EXCEPT !.cv = Append(Signalled(@), t)]]

\* The clerks of pictures and passports keep the lock of the counter while they file.
CounterIsFree(c, p) ==
  /\ ~(clerk[c].pc = "filing" /\ c[1] \in {"picture", "passport"})
  /\ counter[c].owner \in {NoOne, p}
-----------------------------------------------------------------------------
(***************************************************************************)
(* What customers and senators do with every kind of clerk.                *)
(***************************************************************************)
\* Get in the shortest line; only customers with enough money may bribe.
GetInLine(p, k) ==
  /\ person[p].pc = "errand"
  /\ Errand(p) = k
  /\ \E bribe \in BOOLEAN :
       /\ bribe => person[p].money > 500 /\ p \in Customers
       /\ LET c == <<k, pickShortestLine(k, bribe)>>
              waits == counter[c].state # "AVAILABLE"
          IN  /\ person' = [person EXCEPT ![p] =
                              [@ EXCEPT !.pc = IF waits THEN "inLine" ELSE "called",
                                        !.line = c[2], !.bribe = bribe]]
              /\ counter' = [counter EXCEPT ![c] =
                               IF waits
                               THEN [counter[c] EXCEPT !.count[bribe] = @ + 1, !.queue[bribe] = Append(@, p)]
                               ELSE [@ EXCEPT !.state = "BUSY"]]
  /\ UNCHANGED <<clerk, breakCV, office, filed, manager>>

\* The bribe is paid and the clerk is BUSY.
ToCounter(p) == [person[p] EXCEPT !.pc = "called", !.money = IF person[p].bribe THEN @ - 500 ELSE @]

\* Woken in line: only who finds the clerk's state SIGNALEDCUSTOMER was called.
WokenInLine(p, k) ==
  LET c == ClerkOf(p)
      signalled == counter[c].state = "SIGNALEDCUSTOMER"
  IN  /\ person[p].pc = "woken"
      /\ Errand(p) = k
      /\ counter' = [counter EXCEPT ![c].count[person[p].bribe] = @ - 1,
                                    ![c].state = IF signalled THEN "BUSY" ELSE @]
      /\ person' = [person EXCEPT ![p] = IF signalled THEN ToCounter(p)
                                         ELSE [@ EXCEPT !.pc = "unsignalled"]]
      /\ UNCHANGED <<clerk, breakCV, office, filed, manager>>

\* Give the SSN to the clerk and wait for the clerk to do its job.
GiveSSN(p, k) ==
  LET c == ClerkOf(p)
  IN  /\ person[p].pc = "called"
      /\ Errand(p) = k
      /\ CounterIsFree(c, p)
      /\ SignalAndWaitAt(c, [counter[c] EXCEPT !.SSN = p],
                         [person EXCEPT ![p].pc = "atCounter"], clerk, p)
      /\ UNCHANGED <<breakCV, office, filed, manager>>

\* Back from the wait at the counter, which p leaves.
LeaveCounter(p, ok) ==
  /\ person' = [person EXCEPT ![p] = Return(p, ok)]
  /\ counter' = [counter EXCEPT ![ClerkOf(p)].owner = NoOne]
  /\ UNCHANGED <<clerk, breakCV, office, filed, manager>>

\* p runs again at the counter of kind k after a wait in pc.
BackAtCounter(p, k, pc) ==
  /\ person[p].pc = pc
  /\ Errand(p) = k
  /\ CounterIsFree(ClerkOf(p), p)

customerApplicationClerkInteraction(p) ==
  LET k == "application"
  IN  \/ GetInLine(p, k)
      \/ WokenInLine(p, k)
      \/ GiveSSN(p, k)
      \/ BackAtCounter(p, k, "answered") /\ LeaveCounter(p, TRUE)

\* The customer says whether it likes the picture until it has said yes.
Review(p, like) ==
  LET c == ClerkOf(p)
  IN  /\ counter[c].picture = 0
      /\ SignalAndWaitAt(c, [counter[c] EXCEPT !.picture = like, !.owner = NoOne],
                         [person EXCEPT ![p].pc = "atCounter"], clerk, p)
      /\ UNCHANGED <<breakCV, office, filed, manager>>

LikePicture(p) == BackAtCounter(p, "picture", "answered") /\ Review(p, 1)

customerPictureClerkInteraction(p) ==
  LET k == "picture"
  IN  \/ GetInLine(p, k)
      \/ WokenInLine(p, k)
      \/ GiveSSN(p, k)
      \/ BackAtCounter(p, k, "answered") /\ Review(p, 0)
      \/ LikePicture(p)
      \/ /\ BackAtCounter(p, k, "answered")
         /\ counter[ClerkOf(p)].picture # 0
         /\ LeaveCounter(p, TRUE)

customerPassportClerkInteraction(p) ==
  LET k == "passport"
  IN  \/ GetInLine(p, k)
      \/ WokenInLine(p, k)
      \/ GiveSSN(p, k)
      \/ BackAtCounter(p, k, "answered") /\ LeaveCounter(p, p \notin filed.punishment)

\* The cashier is paid and then provides the passport.
Pay(p) ==
  LET c == ClerkOf(p)
  IN  /\ SignalAndWaitAt(c, counter[c],
                         [person EXCEPT ![p] = [person[p] EXCEPT !.pc = "paid", !.money = @ - 100]], clerk, p)
      /\ UNCHANGED <<breakCV, office, filed, manager>>

customerCashierInteraction(p) ==
  LET k == "cashier"
  IN  \/ GetInLine(p, k)
      \/ WokenInLine(p, k)
      \/ GiveSSN(p, k)
      \/ /\ BackAtCounter(p, k, "answered")
         /\ IF p \in filed.rejection THEN LeaveCounter(p, FALSE) ELSE Pay(p)
      \/ BackAtCounter(p, k, "served") /\ LeaveCounter(p, TRUE)
-----------------------------------------------------------------------------
(***************************************************************************)
(* Customers and senators enter and leave.                                 *)
(***************************************************************************)
customerCheckIn(p) ==
  /\ p \in Customers
  /\ person[p].pc = "arriving"
  /\ person' = [person EXCEPT ![p].pc = "loop"]
  /\ office' = [office EXCEPT !.customersPresentCount = @ + 1]
  /\ UNCHANGED <<clerk, counter, breakCV, filed, manager>>

\* Going outside: who left a line for it has its interaction return FALSE and is
\* back in its loop afterwards.
customerSenatorPresentWaitOutside(p) ==
  LET next == IF person[p].pc = "unsignalled" THEN Return(p, FALSE)
              ELSE [person[p] EXCEPT !.pc = "errand"]
  IN  /\ person' = [person EXCEPT ![p] = [next EXCEPT !.back = next.pc, !.pc = "outside"]]
      /\ office' = [office EXCEPT !.customersPresentCount = @ - 1,
                                  !.passportOfficeOutsideLineCount = @ + 1]
      /\ UNCHANGED counter

\* At the top of the loop, or after a wake-up in line that no clerk meant: without
\* a senator the latter goes on to the counter, although the line lock is released.
customerCheckSenator(p) ==
  /\ person[p].pc \in {"loop", "unsignalled"}
  /\ IF office.senatorPresentWaitOutSide THEN customerSenatorPresentWaitOutside(p)
     ELSE /\ UNCHANGED office
          /\ IF person[p].pc = "loop"
             THEN person' = [person EXCEPT ![p].pc = "errand"] /\ UNCHANGED counter
             ELSE /\ person' = [person EXCEPT ![p] = ToCounter(p)]
                  /\ counter' = [counter EXCEPT ![ClerkOf(p)].state = "BUSY"]
  /\ UNCHANGED <<clerk, breakCV, filed, manager>>

\* Woken outside, and back in without another look for a senator.
customerComeBackIn(p) ==
  /\ person[p].pc = "letIn"
  /\ person' = [person EXCEPT ![p].pc = person[p].back]
  /\ office' = [office EXCEPT !.customersPresentCount = @ + 1,
                              !.passportOfficeOutsideLineCount = @ - 1]
  /\ UNCHANGED <<clerk, counter, breakCV, filed, manager>>

\* Mutant of customerCheckOut: the customer does not count as checked out.
customerSlipsOut(p) ==
  /\ p \in Customers
  /\ person[p].pc = "errand"
  /\ Errand(p) = "leave"
  /\ person' = [person EXCEPT ![p] = [NoLocals EXCEPT !.pc = "gone"]]
  /\ office' = [office EXCEPT !.customersPresentCount = @ - 1]
  /\ UNCHANGED <<clerk, counter, breakCV, filed, manager>>

customerCheckOut(p) ==
  /\ p \in Customers
  /\ person[p].pc = "errand"
  /\ Errand(p) = "leave"
  /\ person' = [person EXCEPT ![p] = [NoLocals EXCEPT !.pc = "gone"]]
  /\ office' = [office EXCEPT !.customersPresentCount = @ - 1, !.checkedOutCount = @ + 1]
  /\ UNCHANGED <<clerk, counter, breakCV, filed, manager>>

\* On arrival, and whenever woken in the senators' line.
senatorArriveAtPassportOffice(p) ==
  LET left == IF person[p].pc = "admitted" THEN office.senatorLineCount - 1 ELSE office.senatorLineCount
  IN  /\ p \in Senators
      /\ person[p].pc \in {"arriving", "admitted"}
      /\ IF office.senatorSafeToEnter
         THEN /\ person' = [person EXCEPT ![p].pc = "errand"]
              /\ office' = [office EXCEPT !.senatorPresentCount = @ + 1, !.senatorLineCount = left]
         ELSE /\ person' = [person EXCEPT ![p].pc = "senatorLine"]
              /\ office' = [office EXCEPT !.senatorLineCount = left + 1]
      /\ UNCHANGED <<clerk, counter, breakCV, filed, manager>>

senatorLeavePassportOffice(p) ==
  /\ p \in Senators
  /\ person[p].pc = "errand"
  /\ Errand(p) = "leave"
  /\ person' = [person EXCEPT ![p] = [NoLocals EXCEPT !.pc = "gone"]]
  /\ office' = [office EXCEPT !.senatorPresentCount = @ - 1, !.checkedOutCount = @ + 1]
  /\ UNCHANGED <<clerk, counter, breakCV, filed, manager>>
-----------------------------------------------------------------------------
(***************************************************************************)
(* Clerks.                                                                 *)
(***************************************************************************)
AtPc(c, k, pc) == c[1] = k /\ clerk[c].pc = pc

\* A clerk starts over until no senator waits for customers to leave.
clerkCheckForSenator(c) ==
  /\ ~(office.senatorPresentWaitOutSide /\ ~office.senatorSafeToEnter)
  /\ clerk' = [clerk EXCEPT ![c].pc = "line"]

\* The top of a clerk's loop.
StartOver(c) ==
  /\ clerk[c].pc = "check"
  /\ clerkCheckForSenator(c)
  /\ UNCHANGED <<person, counter, breakCV, office, filed, manager>>

\* Mutant of CallCustomer: the clerk takes the customer off the count, too.
CallCustomerCounts(c, k) ==
  /\ AtPc(c, k, "line")
  /\ counter[c].owner = NoOne
  /\ \E bribe \in BOOLEAN :
       /\ counter[c].count[bribe] > 0
       /\ LET q == counter[c].queue[bribe]
          IN  /\ person' = IF q = <<>> THEN person ELSE [person EXCEPT ![Head(q)].pc = "woken"]
              /\ counter' = [counter EXCEPT ![c] =
                               [counter[c] EXCEPT !.queue[bribe] = Signalled(q), !.count[bribe] = @ - 1,
                                         !.state = "SIGNALEDCUSTOMER", !.cv = Append(@, c)]]
  /\ clerk' = [clerk EXCEPT ![c].pc = "calling"]
  /\ UNCHANGED <<breakCV, office, filed, manager>>

\* Signal the first of the bribe line or else of the regular line, who may have
\* been woken before, and wait for an SSN at the counter.
CallCustomer(c, k) ==
  /\ AtPc(c, k, "line")
  /\ counter[c].owner = NoOne
  /\ \E bribe \in BOOLEAN :
       /\ counter[c].count[bribe] > 0
       /\ ~bribe => counter[c].count[TRUE] = 0
       /\ LET q == counter[c].queue[bribe]
          IN  /\ person' = IF q = <<>> THEN person ELSE [person EXCEPT ![Head(q)].pc = "woken"]
              /\ counter' = [counter EXCEPT ![c] =
                               [counter[c] EXCEPT !.queue[bribe] = Signalled(q), !.state = "SIGNALEDCUSTOMER",
                                         !.cv = Append(@, c)]]
  /\ clerk' = [clerk EXCEPT ![c].pc = "calling"]
  /\ UNCHANGED <<breakCV, office, filed, manager>>

\* Mutant of AnotherWorks: the clerk counts itself.
SomeoneWorks(c) ==
  \E i \in Lines(c[1]) : counter[<<c[1], i>>].state \in {"AVAILABLE", "BUSY"}

AnotherWorks(c) ==
  \E i \in Lines(c[1]) : <<c[1], i>> # c /\ counter[<<c[1], i>>].state \in {"AVAILABLE", "BUSY"}

\* With nobody in line: on break if another clerk works, else ask whether to go home.
CheckAndGoOnBreak(c, k) ==
  /\ AtPc(c, k, "line")
  /\ \A bribe \in BOOLEAN : counter[c].count[bribe] = 0
  /\ IF AnotherWorks(c)
     THEN /\ counter' = [counter EXCEPT ![c].state = "ONBREAK"]
          /\ breakCV' = [breakCV EXCEPT ![k] = Append(@, c)]
          /\ clerk' = [clerk EXCEPT ![c].pc = "onBreak"]
     ELSE /\ clerk' = [clerk EXCEPT ![c].pc = "poll"]
          /\ UNCHANGED <<counter, breakCV>>
  /\ UNCHANGED <<person, office, filed, manager>>

\* Woken from the break.
ComeOffBreak(c, k) ==
  /\ AtPc(c, k, "offBreak")
  /\ counter' = [counter EXCEPT ![c].state = "BUSY"]
  /\ clerk' = [clerk EXCEPT ![c].pc = "check"]
  /\ UNCHANGED <<person, breakCV, office, filed, manager>>

EveryoneCheckedOut == office.checkedOutCount = Cardinality(Persons)

\* No break: the clerk goes home at the end of the day or else starts over.  Both
\* looks at what managerLock protects are one step.
PollEndOfDay(c, k) ==
  /\ AtPc(c, k, "poll")
  /\ IF EveryoneCheckedOut THEN clerk' = [clerk EXCEPT ![c].pc = "finished"]
     ELSE clerkCheckForSenator(c)
  /\ UNCHANGED <<person, counter, breakCV, office, filed, manager>>

applicationClerkcheckAndGoOnBreak(c) ==
  LET k == "application" IN CheckAndGoOnBreak(c, k) \/ ComeOffBreak(c, k) \/ PollEndOfDay(c, k)
pictureClerkcheckAndGoOnBreak(c) ==
  LET k == "picture" IN CheckAndGoOnBreak(c, k) \/ ComeOffBreak(c, k) \/ PollEndOfDay(c, k)
passportClerkcheckAndGoOnBreak(c) ==
  LET k == "passport" IN CheckAndGoOnBreak(c, k) \/ ComeOffBreak(c, k) \/ PollEndOfDay(c, k)
cashiercheckAndGoOnBreak(c) ==
  LET k == "cashier" IN CheckAndGoOnBreak(c, k) \/ ComeOffBreak(c, k) \/ PollEndOfDay(c, k)

\* The clerk's local variables once it goes on from the counter to pc.
ClerkTo(c, pc) == [clerk EXCEPT ![c] = [pc |-> pc, customerSSN |-> counter[c].SSN]]
ClerkDone(c) == [clerk EXCEPT ![c] = [pc |-> "check", customerSSN |-> NoOne]]

\* Signal the customer and let go of the counter, or wait for the customer's answer.
Answer(c, n, pc) == SignalAt(c, n, person, ClerkTo(c, pc))
AnswerAndWait(c, n, pc) == SignalAndWaitAt(c, n, person, ClerkTo(c, pc), c)

\* Mutant of HandOverCounter: anyone may have the lock next, the clerk included.
LeaveCounterFree(c) == clerk' = ClerkDone(c) /\ UNCHANGED counter

\* After the Yields of the filing the customer waits for the counter's lock, which
\* Release hands over to it.
HandOverCounter(c) ==
  /\ counter' = [counter EXCEPT ![c].owner = clerk[c].customerSSN]
  /\ clerk' = ClerkDone(c)

\* The application is filed when the customer has been told and the counter's lock
\* released.
ApplicationClerk(c) ==
  LET k == "application"
  IN  \/ CallCustomer(c, k)
      \/ applicationClerkcheckAndGoOnBreak(c)
      \/ /\ AtPc(c, k, "hasSSN")
         /\ Answer(c, counter[c], "filing")
         /\ UNCHANGED <<breakCV, office, filed, manager>>
      \/ /\ AtPc(c, k, "filing")
         /\ filed' = [filed EXCEPT !.application = @ \cup {clerk[c].customerSSN}]
         /\ clerk' = ClerkDone(c)
         /\ UNCHANGED <<person, counter, breakCV, office, manager>>

\* Pictures are taken until the customer likes one, which is then filed.
PictureClerk(c) ==
  LET k == "picture"
  IN  \/ CallCustomer(c, k)
      \/ pictureClerkcheckAndGoOnBreak(c)
      \/ /\ AtPc(c, k, "hasSSN")
         /\ AnswerAndWait(c, [counter[c] EXCEPT !.picture = 0], "showing")
         /\ UNCHANGED <<breakCV, office, filed, manager>>
      \/ /\ AtPc(c, k, "shown")
         /\ IF counter[c].picture = 0 THEN AnswerAndWait(c, counter[c], "showing")
            ELSE Answer(c, counter[c], "filing")
         /\ UNCHANGED <<breakCV, office, filed, manager>>
      \/ /\ AtPc(c, k, "filing")
         /\ filed' = [filed EXCEPT !.picture = @ \cup {clerk[c].customerSSN}]
         /\ HandOverCounter(c)
         /\ UNCHANGED <<person, breakCV, office, manager>>

\* Mutant of HasDocuments: a picture is enough.
HasPicture(p) == p \in filed.picture

HasDocuments(p) == p \in filed.application \cap filed.picture

\* Only who has an application and a picture filed is certified.
PassportClerk(c) ==
  LET k == "passport"
      p == counter[c].SSN
  IN  \/ CallCustomer(c, k)
      \/ passportClerkcheckAndGoOnBreak(c)
      \/ /\ AtPc(c, k, "hasSSN")
         /\ IF HasDocuments(p)
            THEN /\ filed' = [filed EXCEPT !.punishment = @ \ {p}, !.passport = @ \cup {p}]
                 /\ Answer(c, counter[c], "filing")
            ELSE /\ filed' = [filed EXCEPT !.punishment = @ \cup {p}]
                 /\ SignalAt(c, counter[c], person, ClerkDone(c))
         /\ UNCHANGED <<breakCV, office, manager>>
      \/ /\ AtPc(c, k, "filing")
         /\ HandOverCounter(c)
         /\ UNCHANGED <<person, breakCV, office, filed, manager>>

\* Who is not certified is rejected, and not signalled.
Cashier(c) ==
  LET k == "cashier"
      p == counter[c].SSN
  IN  \/ CallCustomer(c, k)
      \/ cashiercheckAndGoOnBreak(c)
      \/ /\ AtPc(c, k, "hasSSN")
         /\ IF p \in filed.passport
            THEN /\ filed' = [filed EXCEPT !.rejection = @ \ {p}]
                 /\ AnswerAndWait(c, counter[c], "charging")
            ELSE /\ filed' = [filed EXCEPT !.rejection = @ \cup {p}]
                 /\ clerk' = ClerkDone(c)
                 /\ UNCHANGED <<person, counter>>
         /\ UNCHANGED <<breakCV, office, manager>>
      \/ /\ AtPc(c, k, "charged")
         /\ filed' = [filed EXCEPT !.done = @ \cup {clerk[c].customerSSN}]
         /\ SignalAt(c, counter[c], person, ClerkDone(c))
         /\ UNCHANGED <<breakCV, office, manager>>
-----------------------------------------------------------------------------
(***************************************************************************)
(* The manager.                                                            *)
(***************************************************************************)
\* Wake everyone in the lines of the next kind of clerk.
managerBroacastLine ==
  LET k == KindOrder[manager.kind]
  IN  /\ manager.at = "broadcast"
      /\ person' = [p \in Persons |->
                      IF person[p].pc = "inLine" /\ Errand(p) = k
                      THEN [person[p] EXCEPT !.pc = "woken"] ELSE person[p]]
      /\ counter' = [c \in Clerks |->
                       IF c[1] = k THEN [counter[c] EXCEPT !.queue = [b \in BOOLEAN |-> <<>>]]
                       ELSE counter[c]]
      /\ manager' = IF manager.kind < Len(KindOrder) THEN [manager EXCEPT !.kind = @ + 1]
                    ELSE [at |-> "wakeUp", kind |-> 1]
      /\ UNCHANGED <<clerk, breakCV, office, filed>>

\* Keep customers out while a senator waits, let the senators in when no customer
\* is left, and let the customers back in when the senators are gone.
managerSenatorCheck ==
  LET senatorWaiting == office.senatorLineCount > 0
      senatorsInside == office.senatorPresentCount > 0
      customersInside == office.customersPresentCount > 0
      safe == office.senatorSafeToEnter \/ (senatorWaiting /\ ~customersInside)
      over == safe /\ ~senatorWaiting /\ ~senatorsInside
  IN  IF senatorWaiting /\ customersInside
      THEN /\ office' = [office EXCEPT !.senatorPresentWaitOutSide = TRUE]
           /\ manager' = [at |-> "broadcast", kind |-> 1]
           /\ UNCHANGED person
      ELSE /\ office' = [office EXCEPT !.senatorSafeToEnter = safe /\ ~over,
                                       !.senatorPresentWaitOutSide = (@ \/ senatorWaiting) /\ ~over]
           /\ person' = [p \in Persons |->
                           CASE person[p].pc = "senatorLine" /\ senatorWaiting ->
                                  [person[p] EXCEPT !.pc = "admitted"]
                             [] person[p].pc = "outside" /\ over ->
                                  [person[p] EXCEPT !.pc = "letIn"]
                             [] OTHER -> person[p]]
           /\ manager' = [at |-> "wakeUp", kind |-> 1]

\* Does a clerk of kind k have to be woken: one is on break and a regular line is
\* too long?
managerCheckandWakeupCLERK(k) ==
  /\ \E i \in Lines(k) : counter[<<k, i>>].state = "ONBREAK"
  /\ \E i \in Lines(k) : counter[<<k, i>>].count[FALSE] > LongLine

\* The four kinds, each under its own line lock, in one step.
managerCheckandWakupClerks ==
  LET roused == {k \in Kinds : managerCheckandWakeupCLERK(k) /\ breakCV[k] # <<>>}
  IN  /\ manager.at = "wakeUp"
      /\ clerk' = [c \in Clerks |-> IF c[1] \in roused /\ c = Head(breakCV[c[1]])
                                    THEN [clerk[c] EXCEPT !.pc = "offBreak"] ELSE clerk[c]]
      /\ breakCV' = [k \in Kinds |-> IF k \in roused THEN Tail(breakCV[k]) ELSE breakCV[k]]
      /\ manager' = [manager EXCEPT !.at = "endOfDay"]
      /\ UNCHANGED <<person, counter, office, filed>>

\* Mutant of WokenHaveRun: the manager does not Yield between two rounds.
WokenMayWait == TRUE

\* After the Yields between two rounds, everyone the manager woke under managerLock
\* has run: the ready list is first in, first out, a woken thread asks for managerLock
\* before anything else, and Release hands the lock on in the order it was asked for.
WokenHaveRun == \A p \in Persons : person[p].pc \notin {"admitted", "letIn"}

\* The end of one round of the manager's loop and the beginning of the next.
checkEndOfDay ==
  /\ manager.at = "endOfDay"
  /\ IF EveryoneCheckedOut
     THEN manager' = [manager EXCEPT !.at = "finished"] /\ UNCHANGED <<person, office>>
     ELSE WokenHaveRun /\ managerSenatorCheck
  /\ UNCHANGED <<clerk, counter, breakCV, filed>>
-----------------------------------------------------------------------------
Customer(p) ==
  \/ customerCheckIn(p)
  \/ customerCheckSenator(p)
  \/ customerComeBackIn(p)
  \/ customerCheckOut(p)

Senator(p) ==
  \/ senatorArriveAtPassportOffice(p)
  \/ senatorLeavePassportOffice(p)

Interaction(p) ==
  \/ customerApplicationClerkInteraction(p)
  \/ customerPictureClerkInteraction(p)
  \/ customerPassportClerkInteraction(p)
  \/ customerCashierInteraction(p)

ClerkStep(c) ==
  \/ StartOver(c)
  \/ ApplicationClerk(c)
  \/ PictureClerk(c)
  \/ PassportClerk(c)
  \/ Cashier(c)

ManagerStep ==
  \/ managerBroacastLine
  \/ managerCheckandWakupClerks
  \/ checkEndOfDay

Next ==
  \/ \E p \in Persons : Customer(p) \/ Senator(p) \/ Interaction(p)
  \/ \E c \in Clerks : ClerkStep(c)
  \/ ManagerStep

Spec == Init /\ [][Next]_vars

\* Threads take turns, and a customer that dislikes a fifth of its pictures likes
\* one in the end.
Fairness ==
  /\ \A p \in Persons : WF_vars(Customer(p) \/ Senator(p) \/ Interaction(p)) /\ SF_vars(LikePicture(p))
  /\ \A c \in Clerks : WF_vars(ClerkStep(c))
  /\ WF_vars(ManagerStep)

FairSpec == Spec /\ Fairness
-----------------------------------------------------------------------------
\* The clerks of a kind are never all on break: pickShortestLine, which would return
\* no line then, finds one.
ALineIsOpen == \A k \in Kinds : \E i \in Lines(k) : counter[<<k, i>>].state # "ONBREAK"

\* Where a person has the clerk's attention: called, or waiting for its answer.
AtCounter(c) ==
  {p \in Persons : person[p].pc \in {"called", "atCounter", "paid"} /\ ClerkOf(p) = c}

\* A clerk and the one customer at its counter talk to each other: nobody else is
\* called, the SSN the clerk goes by is this customer's, and a clerk that waits for
\* an SSN has somebody coming.
OneAtEachCounter ==
  \A c \in Clerks :
    /\ Cardinality(AtCounter(c)) <= 1
    /\ clerk[c].pc \in {"hasSSN", "showing", "shown", "charging", "charged"} =>
         \E p \in Persons :
           /\ person[p].pc \in {"atCounter", "answered", "paid"}
           /\ ClerkOf(p) = c
           /\ p = counter[c].SSN
    /\ clerk[c].pc = "calling" =>
         \/ AtCounter(c) # {}
         \/ counter[c].state = "SIGNALEDCUSTOMER" /\ \E p \in Persons : person[p].pc = "woken" /\ ClerkOf(p) = c

\* Nobody has a passport without certified documents, or is certified without both.
DocumentsInOrder ==
  /\ filed.done \subseteq filed.passport
  /\ filed.passport \subseteq filed.application \cap filed.picture

\* Inside, on an errand: on the way to a line, in it, at a counter or on the way back.
OnErrand ==
  {p \in Persons : person[p].pc \in {"errand", "inLine", "woken", "unsignalled", "called", "atCounter",
                                    "answered", "paid", "served"}}

\* From its coming in to its leaving a senator has the office to itself: no customer
\* is on the way to a line, in one or at a counter.
SenatorsAlone == OnErrand \cap Senators # {} => OnErrand \cap Customers = {}

\* Everyone is served and leaves, with a passport where there are cashiers, and the
\* manager goes home: neither breaks nor senators nor being sent outside or waking
\* up in line uncalled keeps anybody from it.
EveryoneLeaves ==
  <>(/\ manager.at = "finished"
     /\ "cashier" \in Kinds => filed.done = Persons
     /\ \A p \in Persons : person[p].pc = "gone")
================================================================================
