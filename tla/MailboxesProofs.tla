----------------------------- MODULE MailboxesProofs -----------------------------
(***************************************************************************)
(* The post office implements mailboxes that are queues.                   *)
(***************************************************************************)
EXTENDS PostOfficeProofs, SequenceTheorems, WellFoundedInduction

(***************************************************************************)
(* Induction over sets of numbers.                                         *)
(***************************************************************************)
LEMMA LeastNumber ==
  ASSUME NEW T \in SUBSET Nat, T # {}
  PROVE  \E x \in T : \A y \in T : ~(y < x)
<1> DEFINE R == OpToRel(<, Nat)
<1>1. R = {ss \in Nat \X Nat : ss[1] < ss[2]}
  BY DEF OpToRel
<1>2. IsWellFoundedOn(R, Nat)
  BY NatLessThanWellFounded
<1> HIDE DEF R
<1>3. PICK x \in T : \A y \in T : <<y, x>> \notin R
  BY <1>2, WFMin
<1>4. \A y \in T : y < x => <<y, x>> \in R
  BY <1>1
<1> QED BY <1>3, <1>4

LEMMA AllNumbers ==
  ASSUME NEW S \in SUBSET Nat, 0 \in S, \A n \in S : n + 1 \in S
  PROVE  S = Nat
<1> DEFINE T == Nat \ S
<1>1. SUFFICES ASSUME T # {} PROVE FALSE
  OBVIOUS
<1>2. PICK x \in T : \A y \in T : ~(y < x)
  BY <1>1, LeastNumber
<1>3. x # 0 /\ x - 1 \in Nat
  OBVIOUS
<1>4. x - 1 \in S
  BY <1>2, <1>3
<1>5. (x - 1) + 1 \in S
  BY <1>4
<1> QED BY <1>5
-------------------------------------------------------------------------------
(***************************************************************************)
(* The messages for a thread in a sequence.                                *)
(***************************************************************************)
\* Concatenation, which the provers do better not to see through.
Cat(s, t) == s \o t

LEMMA CatFacts ==
  ASSUME NEW s \in Seq(Message), NEW t \in Seq(Message)
  PROVE  Cat(s, t) \in Seq(Message) /\ Cat(s, <<>>) = s /\ Cat(<<>>, t) = t
BY ConcatProperties, ConcatEmptySeq DEF Cat

LEMMA CatAssociative ==
  ASSUME NEW r \in Seq(Message), NEW s \in Seq(Message), NEW t \in Seq(Message)
  PROVE  Cat(Cat(r, s), t) = Cat(r, Cat(s, t))
BY ConcatAssociative DEF Cat

\* f collects the messages for u in the first n of s.
Collects(u, s, n, f) ==
  f \in [0 .. n -> Seq(Message)] /\ f[0] = <<>> /\ \A i \in 1 .. n : f[i] = Cat(f[i - 1], One(u, s[i]))

LEMMA OneIsMail ==
  ASSUME NEW u, NEW x \in Message \cup {NULL}
  PROVE  One(u, x) \in Seq(Message)
BY DEF One

LEMMA CollectOneMore ==
  ASSUME NEW u, NEW s \in Seq(Message), NEW n \in Nat, n + 1 <= Len(s), NEW f, Collects(u, s, n, f)
  PROVE  \E g : Collects(u, s, n + 1, g)
<1> DEFINE e == Cat(f[n], One(u, s[n + 1]))
           g == [i \in 0 .. n + 1 |-> IF i = n + 1 THEN e ELSE f[i]]
<1>1. s[n + 1] \in Message
  OBVIOUS
<1>2. f[n] \in Seq(Message) /\ One(u, s[n + 1]) \in Seq(Message)
  BY <1>1, OneIsMail DEF Collects
<1>3. e \in Seq(Message)
  BY <1>2, CatFacts
<1>4. g[n + 1] = Cat(f[n], One(u, s[n + 1])) /\ \A i \in 0 .. n : g[i] = f[i]
  OBVIOUS
<1>5. g \in [0 .. n + 1 -> Seq(Message)]
  <2> HIDE DEF e
  <2> QED BY <1>3 DEF Collects
<1> HIDE DEF g
<1>6. ASSUME NEW i \in 1 .. n + 1 PROVE g[i] = Cat(g[i - 1], One(u, s[i]))
  <2>1. CASE i = n + 1
    <3>1. i - 1 = n /\ n \in 0 .. n
      BY <2>1
    <3> QED BY <1>4, <2>1, <3>1
  <2>2. CASE i \in 1 .. n
    <3>1. i \in 0 .. n /\ i - 1 \in 0 .. n
      BY <2>2
    <3>2. f[i] = Cat(f[i - 1], One(u, s[i]))
      BY <2>2 DEF Collects
    <3> QED BY <1>4, <3>1, <3>2
  <2> QED BY <2>1, <2>2
<1>7. g[0] = <<>>
  BY <1>4 DEF Collects
<1> QED BY <1>5, <1>6, <1>7 DEF Collects

LEMMA CollectAll ==
  ASSUME NEW u, NEW s \in Seq(Message)
  PROVE  \E f : Collects(u, s, Len(s), f)
<1> DEFINE S == {n \in Nat : n <= Len(s) => \E f : Collects(u, s, n, f)}
<1>1. 0 \in S
  <2> DEFINE f == [i \in 0 .. 0 |-> <<>>]
  <2>1. Collects(u, s, 0, f)
    BY DEF Collects
  <2> QED BY <2>1
<1>2. \A n \in S : n + 1 \in S
  BY CollectOneMore
<1> HIDE DEF S
<1>3. S = Nat
  BY <1>1, <1>2, AllNumbers DEF S
<1> QED BY <1>3 DEF S

LEMMA ForCollects ==
  ASSUME NEW u, NEW s \in Seq(Message)
  PROVE  \E f : Collects(u, s, Len(s), f) /\ For(u, s) = f[Len(s)]
<1> DEFINE E(f) == f = [i \in 0 .. Len(s) |-> IF i = 0 THEN <<>> ELSE f[i - 1] \o One(u, s[i])]
           F == CHOOSE f : E(f)
<1>0. Len(s) \in Nat
  OBVIOUS
<1>1. For(u, s) = F[Len(s)]
  BY DEF For
<1>2. PICK f : Collects(u, s, Len(s), f)
  BY CollectAll
<1>3. E(f)
  BY <1>0, <1>2 DEF Collects, Cat
<1>4. E(F)
  BY <1>3
<1> HIDE DEF F
<1>5. /\ F = [i \in 0 .. Len(s) |-> F[i]] /\ F[0] = <<>>
      /\ \A i \in 1 .. Len(s) : F[i] = Cat(F[i - 1], One(u, s[i]))
  BY <1>0, <1>4 DEF Cat
<1> HIDE DEF E
<1> DEFINE S == {n \in Nat : n <= Len(s) => F[n] \in Seq(Message)}
<1>6. 0 \in S
  BY <1>5, EmptySeq
<1>7. ASSUME NEW n \in S PROVE n + 1 \in S
  <2>1. SUFFICES ASSUME n + 1 <= Len(s) PROVE F[n + 1] \in Seq(Message)
    OBVIOUS
  <2>2. F[n] \in Seq(Message) /\ n + 1 \in 1 .. Len(s) /\ (n + 1) - 1 = n
    BY <1>0, <2>1
  <2>3. F[n + 1] = Cat(F[n], One(u, s[n + 1]))
    BY <1>5, <2>2
  <2>4. One(u, s[n + 1]) \in Seq(Message)
    BY <2>2, OneIsMail
  <2> QED BY <2>2, <2>3, <2>4, CatFacts
<1> HIDE DEF S
<1>8. S = Nat
  BY <1>6, <1>7, AllNumbers DEF S
<1>9. F \in [0 .. Len(s) -> Seq(Message)]
  <2>1. \A i \in 0 .. Len(s) : F[i] \in Seq(Message)
    BY <1>0, <1>8 DEF S
  <2> QED BY <1>5, <2>1
<1> QED BY <1>1, <1>5, <1>9 DEF Collects

\* The messages for u are messages.
LEMMA ForIsMail ==
  ASSUME NEW u, NEW s \in Seq(Message)
  PROVE  For(u, s) \in Seq(Message)
<1>1. PICK f : Collects(u, s, Len(s), f) /\ For(u, s) = f[Len(s)]
  BY ForCollects
<1>2. Len(s) \in 0 .. Len(s)
  OBVIOUS
<1> QED BY <1>1, <1>2 DEF Collects

LEMMA ForEmpty ==
  ASSUME NEW u
  PROVE  For(u, <<>>) = <<>>
<1>1. <<>> \in Seq(Message) /\ Len(<<>>) = 0
  BY EmptySeq
<1>2. PICK f : Collects(u, <<>>, 0, f) /\ For(u, <<>>) = f[0]
  BY <1>1, ForCollects
<1> QED BY <1>2 DEF Collects

\* A message at the end.
LEMMA ForAppend ==
  ASSUME NEW u, NEW s \in Seq(Message), NEW x \in Message
  PROVE  For(u, Append(s, x)) = Cat(For(u, s), One(u, x))
<1> DEFINE t == Append(s, x)
           n == Len(s)
<1>1. n \in Nat /\ t \in Seq(Message) /\ Len(t) = n + 1 /\ t[n + 1] = x /\ \A i \in 1 .. n : t[i] = s[i]
  OBVIOUS
<1> HIDE DEF t, n
<1>2. PICK f : Collects(u, s, n, f) /\ For(u, s) = f[n]
  BY ForCollects DEF n
<1>3. PICK g : Collects(u, t, n + 1, g) /\ For(u, t) = g[n + 1]
  BY <1>1, ForCollects
<1> DEFINE S == {i \in Nat : i <= n => g[i] = f[i]}
<1>4. 0 \in S
  BY <1>2, <1>3 DEF Collects
<1>5. ASSUME NEW i \in S PROVE i + 1 \in S
  <2>1. SUFFICES ASSUME i + 1 <= n PROVE g[i + 1] = f[i + 1]
    OBVIOUS
  <2>2. g[i] = f[i] /\ i + 1 \in 1 .. n /\ i + 1 \in 1 .. n + 1 /\ (i + 1) - 1 = i
    BY <1>1, <2>1
  <2>3. f[i + 1] = Cat(f[i], One(u, s[i + 1])) /\ g[i + 1] = Cat(g[i], One(u, t[i + 1]))
    BY <1>2, <1>3, <2>2 DEF Collects
  <2> QED BY <1>1, <2>2, <2>3
<1> HIDE DEF S
<1>6. S = Nat
  BY <1>4, <1>5, AllNumbers DEF S
<1>7. g[n] = f[n]
  BY <1>1, <1>6 DEF S
<1>8. n + 1 \in 1 .. n + 1 /\ (n + 1) - 1 = n
  BY <1>1
<1>9. g[n + 1] = Cat(g[n], One(u, t[n + 1]))
  BY <1>3, <1>8 DEF Collects
<1> QED BY <1>1, <1>2, <1>3, <1>7, <1>9 DEF t

\* A message in front.
LEMMA ForFirst ==
  ASSUME NEW u, NEW s \in Seq(Message), s # <<>>
  PROVE  For(u, s) = Cat(One(u, Head(s)), For(u, Tail(s)))
<1> DEFINE t == Tail(s)
           x == Head(s)
           n == Len(t)
<1>1. /\ n \in Nat /\ t \in Seq(Message) /\ Len(s) = n + 1 /\ x \in Message /\ x = s[1]
      /\ \A i \in 1 .. n : t[i] = s[i + 1] /\ t[i] \in Message
  OBVIOUS
<1> HIDE DEF t, n, x
<1>2. PICK g : Collects(u, t, n, g) /\ For(u, t) = g[n]
  BY <1>1, ForCollects DEF n
<1>3. PICK f : Collects(u, s, n + 1, f) /\ For(u, s) = f[n + 1]
  BY <1>1, ForCollects
<1>x. One(u, x) \in Seq(Message)
  BY <1>1, OneIsMail
<1> DEFINE S == {i \in Nat : i <= n => f[i + 1] = Cat(One(u, x), g[i])}
<1>4. 0 \in S
  <2>1. 1 \in 1 .. n + 1 /\ 1 - 1 = 0
    BY <1>1
  <2>2. f[1] = Cat(f[0], One(u, s[1])) /\ f[0] = <<>> /\ g[0] = <<>>
    BY <1>2, <1>3, <2>1 DEF Collects
  <2>3. f[1] = Cat(<<>>, One(u, x))
    BY <1>1, <2>2
  <2>4. f[1] = Cat(One(u, x), <<>>)
    BY <1>x, <2>3, CatFacts
  <2> QED BY <2>2, <2>4
<1>5. ASSUME NEW i \in S PROVE i + 1 \in S
  <2>1. SUFFICES ASSUME i + 1 <= n PROVE f[(i + 1) + 1] = Cat(One(u, x), g[i + 1])
    OBVIOUS
  <2>2. /\ f[i + 1] = Cat(One(u, x), g[i]) /\ i \in 0 .. n
        /\ i + 1 \in 1 .. n /\ (i + 1) - 1 = i
        /\ (i + 1) + 1 \in 1 .. n + 1 /\ ((i + 1) + 1) - 1 = i + 1
    BY <1>1, <2>1
  <2>3. t[i + 1] = s[(i + 1) + 1] /\ One(u, t[i + 1]) \in Seq(Message) /\ g[i] \in Seq(Message)
    BY <1>1, <1>2, <2>2, OneIsMail DEF Collects
  <2>4. g[i + 1] = Cat(g[i], One(u, t[i + 1])) /\ f[(i + 1) + 1] = Cat(f[i + 1], One(u, s[(i + 1) + 1]))
    BY <1>2, <1>3, <2>2 DEF Collects
  <2>5. Cat(Cat(One(u, x), g[i]), One(u, t[i + 1])) = Cat(One(u, x), Cat(g[i], One(u, t[i + 1])))
    BY <1>x, <2>3, CatAssociative
  <2> QED BY <2>2, <2>3, <2>4, <2>5
<1> HIDE DEF S
<1>6. S = Nat
  BY <1>4, <1>5, AllNumbers DEF S
<1> QED BY <1>1, <1>2, <1>3, <1>6 DEF S, t, x
-------------------------------------------------------------------------------
(***************************************************************************)
(* The refinement mapping.                                                 *)
(***************************************************************************)
\* The mail for u: taken from its list, in the worker's hand, in the buffer, in the
\* socket.
Mail(u, q, hand, buffered, coming) ==
  Cat(q, Cat(One(u, hand), Cat(One(u, buffered), For(u, coming))))

LEMMA MailboxIsMail ==
  /\ DOMAIN mailbox = Users /\ mailbox = [u \in Users |-> mailbox[u]]
  /\ \A u \in Users : mailbox[u] = Mail(u, list[u], inHand(Host[u]), inbox[Host[u]], socket[Host[u]])
  /\ DOMAIN mailbox' = Users /\ mailbox' = [u \in Users |-> mailbox'[u]]
  /\ \A u \in Users : mailbox'[u] = Mail(u, list'[u], inHand(Host[u])', inbox'[Host[u]], socket'[Host[u]])
BY DEF mailbox, Coming, Mail, Cat

LEMMA OneCases ==
  ASSUME NEW u, NEW x \in Message
  PROVE  /\ One(u, NULL) = <<>>
         /\ x.to = u => One(u, x) = <<x>>
         /\ x.to # u => One(u, x) = <<>>
BY NullIsNoMessage DEF One

\* Send: the message comes last.
LEMMA MailSent ==
  ASSUME NEW u, NEW q \in Seq(Message), NEW h \in Message \cup {NULL}, NEW b \in Message \cup {NULL},
         NEW s \in Seq(Message), NEW x \in Message
  PROVE  Mail(u, q, h, b, Append(s, x)) = Cat(Mail(u, q, h, b, s), One(u, x))
<1> DEFINE o == One(u, x)
           f == For(u, s)
           y == One(u, b)
           z == One(u, h)
<1>1. o \in Seq(Message) /\ f \in Seq(Message) /\ y \in Seq(Message) /\ z \in Seq(Message)
  BY OneIsMail, ForIsMail
<1>2. For(u, Append(s, x)) = Cat(f, o)
  BY ForAppend
<1>3. Mail(u, q, h, b, Append(s, x)) = Cat(q, Cat(z, Cat(y, Cat(f, o))))
  BY <1>2 DEF Mail
<1>4. Mail(u, q, h, b, s) = Cat(q, Cat(z, Cat(y, f)))
  BY DEF Mail
<1> HIDE DEF o, f, y, z
<1>5. Cat(y, Cat(f, o)) = Cat(Cat(y, f), o) /\ Cat(y, f) \in Seq(Message)
  BY <1>1, CatAssociative, CatFacts
<1>6. Cat(z, Cat(Cat(y, f), o)) = Cat(Cat(z, Cat(y, f)), o) /\ Cat(z, Cat(y, f)) \in Seq(Message)
  BY <1>1, <1>5, CatAssociative, CatFacts
<1>7. Cat(q, Cat(Cat(z, Cat(y, f)), o)) = Cat(Cat(q, Cat(z, Cat(y, f))), o)
  BY <1>1, <1>6, CatAssociative
<1> QED BY <1>3, <1>4, <1>5, <1>6, <1>7 DEF o

\* From the socket into the buffer, from there into the worker's hand, and from
\* there to the end of the list.
LEMMA MailBuffered ==
  ASSUME NEW u, NEW q, NEW h, NEW s \in Seq(Message), s # <<>>
  PROVE  Mail(u, q, h, Head(s), Tail(s)) = Mail(u, q, h, NULL, s)
<1>1. One(u, NULL) = <<>> /\ For(u, s) \in Seq(Message)
  BY ForIsMail DEF One
<1>2. Cat(One(u, NULL), For(u, s)) = For(u, s)
  BY <1>1, CatFacts
<1>3. For(u, s) = Cat(One(u, Head(s)), For(u, Tail(s)))
  BY ForFirst
<1> QED BY <1>2, <1>3 DEF Mail

LEMMA MailTaken ==
  ASSUME NEW u, NEW q, NEW b \in Message, NEW s \in Seq(Message)
  PROVE  Mail(u, q, b, NULL, s) = Mail(u, q, NULL, b, s)
<1>1. One(u, NULL) = <<>> /\ For(u, s) \in Seq(Message) /\ One(u, b) \in Seq(Message)
  BY ForIsMail, OneIsMail DEF One
<1>2. Cat(One(u, NULL), For(u, s)) = For(u, s)
  BY <1>1, CatFacts
<1>3. Cat(One(u, b), For(u, s)) \in Seq(Message)
  BY <1>1, CatFacts
<1>4. Cat(One(u, NULL), Cat(One(u, b), For(u, s))) = Cat(One(u, b), For(u, s))
  BY <1>1, <1>3, CatFacts
<1> QED BY <1>2, <1>4 DEF Mail

LEMMA MailPut ==
  ASSUME NEW u, NEW q \in Seq(Message), NEW x \in Message, NEW b \in Message \cup {NULL},
         NEW s \in Seq(Message)
  PROVE  Mail(u, Cat(q, One(u, x)), NULL, b, s) = Mail(u, q, x, b, s)
<1> DEFINE r == Cat(One(u, b), For(u, s))
<1>1. One(u, NULL) = <<>> /\ For(u, s) \in Seq(Message) /\ One(u, b) \in Seq(Message) /\ One(u, x) \in Seq(Message)
  BY ForIsMail, OneIsMail DEF One
<1>2. r \in Seq(Message)
  BY <1>1, CatFacts
<1>3. Mail(u, Cat(q, One(u, x)), NULL, b, s) = Cat(Cat(q, One(u, x)), Cat(<<>>, r))
  BY <1>1 DEF Mail
<1>4. Mail(u, q, x, b, s) = Cat(q, Cat(One(u, x), r))
  BY DEF Mail
<1> HIDE DEF r
<1>5. Cat(<<>>, r) = r /\ Cat(Cat(q, One(u, x)), r) = Cat(q, Cat(One(u, x), r))
  BY <1>1, <1>2, CatFacts, CatAssociative
<1> QED BY <1>3, <1>4, <1>5

\* Receive: the first message is gone.
LEMMA MailReceived ==
  ASSUME NEW u, NEW q \in Seq(Message), NEW h \in Message \cup {NULL},
         NEW b \in Message \cup {NULL}, NEW s \in Seq(Message), q # <<>>
  PROVE  Mail(u, q, h, b, s) # <<>> /\ Mail(u, Tail(q), h, b, s) = Tail(Mail(u, q, h, b, s))
<1> DEFINE r == Cat(One(u, h), Cat(One(u, b), For(u, s)))
<1>1. For(u, s) \in Seq(Message) /\ One(u, b) \in Seq(Message) /\ One(u, h) \in Seq(Message)
  BY ForIsMail, OneIsMail
<1>2. Cat(One(u, b), For(u, s)) \in Seq(Message)
  BY <1>1, CatFacts
<1>3. r \in Seq(Message)
  BY <1>1, <1>2, CatFacts
<1>4. Mail(u, q, h, b, s) = q \o r /\ Mail(u, Tail(q), h, b, s) = Tail(q) \o r
  BY DEF Mail, Cat
<1> HIDE DEF r
<1>5. q \o r # <<>>
  BY <1>3, ConcatEqualIffEmpty
<1>6. Tail(q) \o r = Tail(q \o r)
  <2> DEFINE a == Tail(q) \o r
             c == Tail(q \o r)
  <2>1. Len(q) \in Nat /\ Len(q) >= 1 /\ Len(r) \in Nat /\ Tail(q) \in Seq(Message) /\ Len(Tail(q)) = Len(q) - 1
    BY <1>3
  <2>2. /\ a \in Seq(Message) /\ Len(a) = (Len(q) - 1) + Len(r)
        /\ \A i \in 1 .. (Len(q) - 1) + Len(r) : a[i] = IF i <= Len(q) - 1 THEN Tail(q)[i] ELSE r[i - (Len(q) - 1)]
    BY <1>3, <2>1, ConcatProperties
  <2>3. /\ q \o r \in Seq(Message) /\ Len(q \o r) = Len(q) + Len(r)
        /\ \A i \in 1 .. Len(q) + Len(r) : (q \o r)[i] = IF i <= Len(q) THEN q[i] ELSE r[i - Len(q)]
    BY <1>3, ConcatProperties
  <2>4. \A i \in 1 .. Len(q) - 1 : Tail(q)[i] = q[i + 1]
    OBVIOUS
  <2>5. \A p \in Seq(Message) : p # <<>> => /\ Tail(p) \in Seq(Message) /\ Len(Tail(p)) = Len(p) - 1
                                            /\ \A i \in 1 .. Len(p) - 1 : Tail(p)[i] = p[i + 1]
    OBVIOUS
  <2> DEFINE p == q \o r
  <2>6. /\ c \in Seq(Message) /\ Len(c) = (Len(q) + Len(r)) - 1
        /\ \A i \in 1 .. (Len(q) + Len(r)) - 1 : c[i] = p[i + 1]
    BY <1>5, <2>3, <2>5
  <2> HIDE DEF a, c, p
  <2>7. Len(a) = Len(c)
    BY <2>1, <2>2, <2>6
  <2>8. ASSUME NEW i \in 1 .. Len(a) PROVE a[i] = c[i]
    <3>1. i \in 1 .. (Len(q) + Len(r)) - 1 /\ i \in 1 .. (Len(q) - 1) + Len(r) /\ i + 1 \in 1 .. Len(q) + Len(r)
      BY <2>1, <2>2
    <3>2. c[i] = IF i + 1 <= Len(q) THEN q[i + 1] ELSE r[(i + 1) - Len(q)]
      BY <2>3, <2>6, <3>1 DEF p
    <3>3. a[i] = IF i <= Len(q) - 1 THEN Tail(q)[i] ELSE r[i - (Len(q) - 1)]
      BY <2>2, <3>1
    <3>4. CASE i + 1 <= Len(q)
      BY <2>1, <2>4, <3>1, <3>2, <3>3, <3>4
    <3>5. CASE ~(i + 1 <= Len(q))
      <4>1. (i + 1) - Len(q) = i - (Len(q) - 1) /\ ~(i <= Len(q) - 1)
        BY <2>1, <3>5
      <4> QED BY <3>2, <3>3, <3>5, <4>1
    <3> QED BY <3>4, <3>5
  <2>9. a = c
    BY <2>2, <2>6, <2>7, <2>8, SeqEqual
  <2> QED BY <2>9 DEF a, c
<1> QED BY <1>4, <1>5, <1>6
-------------------------------------------------------------------------------
(***************************************************************************)
(* The steps of the post office are steps of the mailboxes, or stutter.    *)
(***************************************************************************)
\* What the mappings need to know of the state.
MailTypes(u) ==
  /\ list[u] \in Seq(Message) /\ Host[u] \in Machines
  /\ inHand(Host[u]) \in Message \cup {NULL}
  /\ inbox[Host[u]] \in Message \cup {NULL} /\ socket[Host[u]] \in Seq(Message)

LEMMA MailTyped ==
  ASSUME IInv
  PROVE  \A u \in Users : MailTypes(u)
<1>1. ASSUME NEW m \in Machines PROVE inHand(m) \in Message \cup {NULL}
  <2>1. pc[worker(m)] \in Pc
    BY Names DEF IInv, Shape
  <2> QED BY <2>1 DEF inHand, Pc
<1> QED BY <1>1, HostAssumption DEF IInv, Shape, MailTypes

\* The same mail for everybody.
LEMMA SameMail ==
  ASSUME \A u \in Users : mailbox'[u] = mailbox[u]
  PROVE  mailbox' = mailbox
BY MailboxIsMail

\* Nobody's mail changes hands.
LEMMA QuietMail ==
  ASSUME UNCHANGED list, UNCHANGED socket, UNCHANGED inbox, \A m \in Machines : inHand(m)' = inHand(m)
  PROVE  mailbox' = mailbox
BY MailboxIsMail, SameMail, HostAssumption

\* The steps of users move only users.
LEMMA UserMoves ==
  ASSUME NEW u \in Users, NEW x, pc' = [pc EXCEPT ![u] = x], pc \in [Everyone -> Pc]
  PROVE  \A m \in Machines : inHand(m)' = inHand(m)
<1>1. \A m \in Machines : pc'[worker(m)] = pc[worker(m)]
  BY Names
<1> QED BY <1>1 DEF inHand

LEMMA UserQuiet ==
  ASSUME IInv, NEW u \in Users, NEW v \in Users,
         SendCall(u, v) \/ AwaitSent(u) \/ SendReturn(u) \/ ReceiveCall(u) \/ ReceiveWait(u) \/ ReceiveWoken(u)
  PROVE  mailbox' = mailbox
<1>1. UNCHANGED list /\ UNCHANGED socket /\ UNCHANGED inbox /\ pc \in [Everyone -> Pc]
  BY DEF IInv, Shape, SendCall, AwaitSent, SendReturn, ReceiveCall, ReceiveWait, ReceiveWoken
<1>2. UNCHANGED pc \/ \E x : pc' = [pc EXCEPT ![u] = x]
  BY DEF SendCall, AwaitSent, SendReturn, ReceiveCall, ReceiveWait, ReceiveWoken, Goes
<1>3. \A m \in Machines : inHand(m)' = inHand(m)
  BY <1>1, <1>2, UserMoves DEF inHand
<1> QED BY <1>1, <1>3, QuietMail

LEMMA NetworkSendMail ==
  ASSUME IInv, NEW u \in Users, NetworkSend(u)
  PROVE  mailbox' = mailbox \/ M!Next
<1> DEFINE x == pc[u].msg
           v == x.to
           h == Host[v]
<1>1. HasMail(u, pc[u]) /\ pc[u].at = "send" /\ pc \in [Everyone -> Pc] /\ socket \in [Machines -> Seq(Message)]
  BY Names DEF IInv, HandlersHaveMail, NetworkSend, Runs, Shape
<1>2. x \in Message
  BY <1>1 DEF HasMail
<1>3. v \in Users /\ h \in Machines
  BY <1>2, HostAssumption DEF Message
<1>4. /\ UNCHANGED list /\ UNCHANGED inbox
      /\ socket' = socket \/ socket' = [socket EXCEPT ![h] = Append(socket[h], x)]
  BY DEF NetworkSend
<1>5. \A m \in Machines : inHand(m)' = inHand(m)
  BY <1>1, UserMoves DEF NetworkSend, Goes
<1>6. CASE socket' = socket
  BY <1>4, <1>5, <1>6, QuietMail
<1>7. CASE socket' = [socket EXCEPT ![h] = Append(socket[h], x)]
  <2>1. socket'[h] = Append(socket[h], x) /\ \A m \in Machines \ {h} : socket'[m] = socket[m]
    BY <1>1, <1>3, <1>7
  <2>t. One(v, x) = <<x>> /\ \A w \in Users \ {v} : One(w, x) = <<>>
    BY <1>2, OneCases
  <2>v. v = x.to
    OBVIOUS
  <2> HIDE DEF x, v
  <2>2. ASSUME NEW w \in Users
        PROVE  mailbox[w] \in Seq(Message) /\ mailbox'[w] = Cat(mailbox[w], IF w = v THEN <<x>> ELSE <<>>)
    <3> DEFINE q == list[w]
               i == inHand(Host[w])
               b == inbox[Host[w]]
               s == socket[Host[w]]
    <3>1. /\ q \in Seq(Message) /\ Host[w] \in Machines /\ i \in Message \cup {NULL}
          /\ b \in Message \cup {NULL} /\ s \in Seq(Message)
      BY MailTyped DEF MailTypes
    <3>2. mailbox[w] = Mail(w, q, i, b, s) /\ mailbox'[w] = Mail(w, q, i, b, socket'[Host[w]])
      BY <1>4, <1>5, <3>1, MailboxIsMail
    <3> HIDE DEF q, i, b
    <3>3. Mail(w, q, i, b, s) \in Seq(Message)
      BY <3>1, OneIsMail, ForIsMail, CatFacts DEF Mail
    <3>4. Cat(mailbox[w], <<>>) = mailbox[w]
      BY <3>2, <3>3, CatFacts
    <3>5. CASE Host[w] = h
      <4>1. mailbox'[w] = Mail(w, q, i, b, Append(s, x))
        BY <2>1, <3>1, <3>2, <3>5
      <4> HIDE DEF s
      <4>2. Mail(w, q, i, b, Append(s, x)) = Cat(Mail(w, q, i, b, s), One(w, x))
        BY <1>2, <3>1, MailSent
      <4> QED BY <2>t, <3>2, <3>3, <4>1, <4>2
    <3>6. CASE Host[w] # h
      <4>1. w # v
        BY <3>6
      <4> QED BY <2>1, <3>1, <3>2, <3>3, <3>4, <3>6, <4>1
    <3> QED BY <3>5, <3>6
  <2>3. mailbox'[v] = Append(mailbox[v], x) /\ \A w \in Users \ {v} : mailbox'[w] = mailbox[w]
    <3>1. mailbox[v] \in Seq(Message) /\ mailbox'[v] = Cat(mailbox[v], <<x>>)
      BY <1>3, <2>2
    <3>2. Cat(mailbox[v], <<x>>) = Append(mailbox[v], x)
      BY <1>2, <3>1, AppendIsConcat DEF Cat
    <3>3. ASSUME NEW w \in Users \ {v} PROVE mailbox'[w] = mailbox[w]
      BY <2>2, CatFacts
    <3> QED BY <3>1, <3>2, <3>3
  <2>4. mailbox' = [mailbox EXCEPT ![v] = Append(mailbox[v], x)]
    BY <1>3, <2>3, MailboxIsMail
  <2>5. M!Send(v, x)
    BY <2>4 DEF M!Send
  <2> QED BY <1>2, <1>3, <2>5 DEF M!Next
<1> QED BY <1>4, <1>6, <1>7

LEMMA ReceiveTakeMail ==
  ASSUME IInv, NEW u \in Users, ReceiveTake(u)
  PROVE  M!Receive(u)
<1>1. pc \in [Everyone -> Pc] /\ list \in [Users -> Seq(Message)]
  BY DEF IInv, Shape
<1>2. UNCHANGED socket /\ UNCHANGED inbox /\ list[u] # <<>> /\ list' = [list EXCEPT ![u] = Tail(list[u])]
  BY DEF ReceiveTake
<1>3. \A m \in Machines : inHand(m)' = inHand(m)
  BY <1>1, UserMoves DEF ReceiveTake, Goes
<1>4. MailTypes(u)
  BY MailTyped
<1>5. mailbox[u] # <<>> /\ mailbox'[u] = Tail(mailbox[u])
  <2>1. /\ mailbox[u] = Mail(u, list[u], inHand(Host[u]), inbox[Host[u]], socket[Host[u]])
        /\ mailbox'[u] = Mail(u, list'[u], inHand(Host[u])', inbox'[Host[u]], socket'[Host[u]])
    BY MailboxIsMail
  <2>2. list'[u] = Tail(list[u]) /\ inHand(Host[u])' = inHand(Host[u])
    BY <1>1, <1>2, <1>3, <1>4 DEF MailTypes
  <2> DEFINE q == list[u]
             i == inHand(Host[u])
             b == inbox[Host[u]]
             r == socket[Host[u]]
  <2>3. mailbox[u] = Mail(u, q, i, b, r) /\ mailbox'[u] = Mail(u, Tail(q), i, b, r)
    BY <1>2, <2>1, <2>2
  <2>4. /\ q \in Seq(Message) /\ q # <<>> /\ i \in Message \cup {NULL}
        /\ b \in Message \cup {NULL} /\ r \in Seq(Message)
    BY <1>2, <1>4 DEF MailTypes
  <2> HIDE DEF q, i, b, r
  <2>5. Mail(u, q, i, b, r) # <<>> /\ Mail(u, Tail(q), i, b, r) = Tail(Mail(u, q, i, b, r))
    BY <2>4, MailReceived
  <2> QED BY <2>3, <2>5
<1>6. ASSUME NEW w \in Users \ {u} PROVE mailbox'[w] = mailbox[w]
  <2>1. list'[w] = list[w] /\ inHand(Host[w])' = inHand(Host[w])
    BY <1>1, <1>2, <1>3, HostAssumption
  <2>2. UNCHANGED socket /\ UNCHANGED inbox
    BY <1>2
  <2> QED BY <2>1, <2>2, MailboxIsMail
<1>7. mailbox' = [mailbox EXCEPT ![u] = Tail(mailbox[u])]
  BY <1>5, <1>6, MailboxIsMail
<1> QED BY <1>5, <1>7 DEF M!Receive

\* The interrupt of a sent packet; the worker away from its mail.
LEMMA MachineQuiet ==
  ASSUME IInv, NEW m \in Machines, SendDone(m) \/ AwaitPacket(m) \/ PutLock(m) \/ PutReturn(m)
  PROVE  mailbox' = mailbox
<1> DEFINE w == worker(m)
<1>1. UNCHANGED list /\ UNCHANGED socket /\ UNCHANGED inbox /\ pc \in [Everyone -> Pc]
  BY DEF IInv, Shape, SendDone, AwaitPacket, PutLock, PutReturn
<1>2. inHand(m)' = inHand(m) /\ \A n \in Machines \ {m} : pc'[worker(n)] = pc[worker(n)]
  <2>1. w \in Everyone /\ \A n \in Machines \ {m} : worker(n) # w /\ worker(n) \in Everyone
    BY Names
  <2>2. CASE UNCHANGED pc
    BY <2>2 DEF inHand
  <2>3. CASE PutLock(m)
    <3>1. pc[w].at = "put" /\ pc' = [pc EXCEPT ![w] = With("append", pc[w].msg)]
      BY <2>3 DEF PutLock, Runs, Goes
    <3>2. pc'[w].at = "append" /\ pc'[w].msg = pc[w].msg
      BY <1>1, <2>1, <3>1 DEF With
    <3> QED BY <1>1, <2>1, <3>1, <3>2 DEF inHand
  <2>4. CASE AwaitPacket(m) /\ ~UNCHANGED pc
    <3>1. pc[w].at = "wait" /\ pc' = [pc EXCEPT ![w] = With("take", pc[w].msg)]
      BY <2>4 DEF AwaitPacket, Runs, Goes
    <3>2. pc'[w].at = "take"
      BY <1>1, <2>1, <3>1 DEF With
    <3> QED BY <1>1, <2>1, <3>1, <3>2 DEF inHand
  <2>5. CASE PutReturn(m)
    <3>1. pc[w].at = "unlock" /\ pc' = [pc EXCEPT ![w] = At("wait")]
      BY <2>5 DEF PutReturn, Runs
    <3>2. pc'[w].at = "wait"
      BY <1>1, <2>1, <3>1 DEF At
    <3> QED BY <1>1, <2>1, <3>1, <3>2 DEF inHand
  <2> QED BY <2>2, <2>3, <2>4, <2>5 DEF SendDone
<1>3. \A n \in Machines : inHand(n)' = inHand(n)
  BY <1>2 DEF inHand
<1> QED BY <1>1, <1>3, QuietMail

LEMMA CheckPktAvailMail ==
  ASSUME IInv, NEW m \in Machines, CheckPktAvail(m)
  PROVE  mailbox' = mailbox
<1>1. /\ UNCHANGED list /\ inbox[m] = NULL /\ socket[m] # <<>> /\ \A n \in Machines : inHand(n)' = inHand(n)
      /\ inbox' = [inbox EXCEPT ![m] = Head(socket[m])] /\ socket' = [socket EXCEPT ![m] = Tail(socket[m])]
  BY DEF CheckPktAvail, inHand
<1>2. /\ inbox'[m] = Head(socket[m]) /\ \A n \in Machines \ {m} : inbox'[n] = inbox[n]
      /\ socket'[m] = Tail(socket[m]) /\ \A n \in Machines \ {m} : socket'[n] = socket[n]
  BY <1>1 DEF IInv, Shape
<1>3. ASSUME NEW u \in Users PROVE mailbox'[u] = mailbox[u]
  <2>1. MailTypes(u)
    BY MailTyped
  <2>2. /\ mailbox[u] = Mail(u, list[u], inHand(Host[u]), inbox[Host[u]], socket[Host[u]])
        /\ mailbox'[u] = Mail(u, list[u], inHand(Host[u]), inbox'[Host[u]], socket'[Host[u]])
    BY <1>1, <2>1, MailboxIsMail DEF MailTypes
  <2>3. CASE Host[u] = m
    BY <1>1, <1>2, <2>1, <2>2, <2>3, MailBuffered DEF MailTypes
  <2>4. CASE Host[u] # m
    BY <1>2, <2>1, <2>2, <2>4 DEF MailTypes
  <2> QED BY <2>3, <2>4
<1> QED BY <1>3, SameMail

LEMMA TakePacketMail ==
  ASSUME IInv, NEW m \in Machines, TakePacket(m)
  PROVE  mailbox' = mailbox
<1> DEFINE w == worker(m)
<1>1. /\ UNCHANGED list /\ UNCHANGED socket /\ inbox' = [inbox EXCEPT ![m] = NULL]
      /\ pc[w].at = "take" /\ pc' = [pc EXCEPT ![w] = With("put", inbox[m])]
  BY DEF TakePacket, Runs
<1>2. w \in Everyone /\ \A n \in Machines \ {m} : worker(n) # w /\ worker(n) \in Everyone
  BY Names
<1>3. inbox[m] \in Message
  <2>1. /\ k.sem[messageAvailable(m)].value + 1 = IF inbox[m] = NULL THEN 0 ELSE 1
        /\ k.sem[messageAvailable(m)].value \in Nat
    BY <1>1, NoNulls, Names, K!KernelFields DEF IInv, WorkerFindsPacket, K!Sound
  <2>2. inbox[m] # NULL
    BY <2>1
  <2> QED BY <2>2 DEF IInv, Shape
<1>4. inbox'[m] = NULL /\ \A n \in Machines \ {m} : inbox'[n] = inbox[n]
  BY <1>1 DEF IInv, Shape
<1>5. inHand(m) = NULL /\ inHand(m)' = inbox[m] /\ \A n \in Machines \ {m} : inHand(n)' = inHand(n)
  <2>1. pc'[w].at = "put" /\ pc'[w].msg = inbox[m] /\ \A n \in Machines \ {m} : pc'[worker(n)] = pc[worker(n)]
    BY <1>1, <1>2 DEF IInv, Shape, With
  <2> QED BY <1>1, <2>1 DEF inHand
<1>6. ASSUME NEW u \in Users PROVE mailbox'[u] = mailbox[u]
  <2>1. MailTypes(u)
    BY MailTyped
  <2>2. /\ mailbox[u] = Mail(u, list[u], inHand(Host[u]), inbox[Host[u]], socket[Host[u]])
        /\ mailbox'[u] = Mail(u, list[u], inHand(Host[u])', inbox'[Host[u]], socket[Host[u]])
    BY <1>1, MailboxIsMail
  <2>3. CASE Host[u] = m
    BY <1>3, <1>4, <1>5, <2>1, <2>2, <2>3, MailTaken DEF MailTypes
  <2>4. CASE Host[u] # m
    BY <1>4, <1>5, <2>1, <2>2, <2>4 DEF MailTypes
  <2> QED BY <2>3, <2>4
<1> QED BY <1>6, SameMail

LEMMA PutAppendMail ==
  ASSUME IInv, NEW m \in Machines, PutAppend(m)
  PROVE  mailbox' = mailbox
<1> DEFINE w == worker(m)
           x == pc[w].msg
<1>1. /\ UNCHANGED socket /\ UNCHANGED inbox /\ list' = [list EXCEPT ![x.to] = Append(list[x.to], x)]
      /\ pc[w].at = "append" /\ pc' = [pc EXCEPT ![w] = With("unlock", x)]
  BY DEF PutAppend, Runs, Goes
<1>2. w \in Everyone /\ \A n \in Machines \ {m} : worker(n) # w /\ worker(n) \in Everyone
  BY Names
<1>3. x \in Message /\ x.to \in Users /\ Host[x.to] = m
  BY AtMailbox DEF PutAppend
<1>4. inHand(m) = x /\ inHand(m)' = NULL /\ \A n \in Machines \ {m} : inHand(n)' = inHand(n)
  <2>1. pc'[w].at = "unlock" /\ \A n \in Machines \ {m} : pc'[worker(n)] = pc[worker(n)]
    BY <1>1, <1>2 DEF IInv, Shape, With
  <2> QED BY <1>1, <2>1 DEF inHand
<1>5. One(x.to, x) = <<x>> /\ \A u \in Users \ {x.to} : One(u, x) = <<>>
  BY <1>3, OneCases
<1> HIDE DEF x, w
<1>6. ASSUME NEW u \in Users PROVE list'[u] = Cat(list[u], IF u = x.to THEN <<x>> ELSE <<>>)
  <2>1. list \in [Users -> Seq(Message)] /\ list[u] \in Seq(Message)
    BY DEF IInv, Shape
  <2>2. CASE u = x.to
    <3>1. list'[u] = Append(list[u], x)
      BY <1>1, <2>1, <2>2
    <3>2. Append(list[u], x) = Cat(list[u], <<x>>)
      BY <1>3, <2>1, AppendIsConcat DEF Cat
    <3> QED BY <2>2, <3>1, <3>2
  <2>3. CASE u # x.to
    <3>1. list'[u] = list[u]
      BY <1>1, <2>1, <2>3
    <3> QED BY <2>1, <2>3, <3>1, CatFacts
  <2> QED BY <2>2, <2>3
<1>7. ASSUME NEW u \in Users PROVE mailbox'[u] = mailbox[u]
  <2>1. MailTypes(u)
    BY MailTyped
  <2>2. /\ mailbox[u] = Mail(u, list[u], inHand(Host[u]), inbox[Host[u]], socket[Host[u]])
        /\ mailbox'[u] = Mail(u, list'[u], inHand(Host[u])', inbox[Host[u]], socket[Host[u]])
    BY <1>1, MailboxIsMail
  <2>3. CASE Host[u] = m
    <3>1. list'[u] = Cat(list[u], One(u, x))
      BY <1>5, <1>6
    <3> QED BY <1>3, <1>4, <2>1, <2>2, <2>3, <3>1, MailPut DEF MailTypes
  <2>4. CASE Host[u] # m
    <3>1. list'[u] = list[u]
      BY <1>3, <1>6, <2>1, <2>4, CatFacts DEF MailTypes
    <3> QED BY <1>4, <2>1, <2>2, <2>4, <3>1 DEF MailTypes
  <2> QED BY <2>3, <2>4
<1> QED BY <1>7, SameMail

LEMMA MailboxInit ==
  ASSUME Init
  PROVE  M!Init
<1>1. ASSUME NEW u \in Users PROVE mailbox[u] = <<>>
  <2>1. Host[u] \in Machines /\ worker(Host[u]) \in Everyone /\ worker(Host[u]) \notin Users
    BY HostAssumption, Names
  <2>2. list[u] = <<>> /\ inHand(Host[u]) = NULL /\ inbox[Host[u]] = NULL /\ socket[Host[u]] = <<>>
    BY <2>1 DEF Init, inHand, At, Everyone
  <2>3. mailbox[u] = Cat(<<>>, Cat(<<>>, Cat(<<>>, <<>>)))
    <3>1. mailbox[u] = Mail(u, <<>>, NULL, NULL, <<>>)
      BY <2>2, MailboxIsMail
    <3>2. One(u, NULL) = <<>> /\ For(u, <<>>) = <<>>
      BY ForEmpty DEF One
    <3> QED BY <3>1, <3>2 DEF Mail
  <2>4. <<>> \in Seq(Message)
    BY EmptySeq
  <2>5. Cat(<<>>, <<>>) = <<>>
    BY <2>4, CatFacts
  <2> QED BY <2>3, <2>5
<1> QED BY <1>1, MailboxIsMail DEF M!Init

LEMMA MailboxNext ==
  ASSUME IInv, [Next]_vars
  PROVE  [M!Next]_mailbox
<1>1. ASSUME NEW u \in Users, ReceiveCall(u) \/ SendStep(u) \/ ReceiveStep(u)
      PROVE  mailbox' = mailbox \/ M!Next
  <2>1. CASE ReceiveTake(u)
    BY <2>1, ReceiveTakeMail DEF M!Next
  <2>2. CASE NetworkSend(u)
    BY <2>2, NetworkSendMail
  <2>3. CASE AwaitSent(u) \/ SendReturn(u) \/ ReceiveCall(u) \/ ReceiveWait(u) \/ ReceiveWoken(u)
    BY <2>3, UserQuiet
  <2> QED BY <1>1, <2>1, <2>2, <2>3 DEF SendStep, ReceiveStep
<1>2. ASSUME NEW u \in Users, NEW v \in Users, SendCall(u, v)
      PROVE  mailbox' = mailbox
  BY <1>2, UserQuiet
<1>3. ASSUME NEW m \in Machines, SendDone(m) \/ CheckPktAvail(m) \/ WorkerStep(m)
      PROVE  mailbox' = mailbox
  BY <1>3, MachineQuiet, CheckPktAvailMail, TakePacketMail, PutAppendMail DEF WorkerStep
<1>4. CASE UNCHANGED vars
  <2>1. UNCHANGED list /\ UNCHANGED socket /\ UNCHANGED inbox /\ \A m \in Machines : inHand(m)' = inHand(m)
    BY <1>4 DEF vars, inHand
  <2> QED BY <2>1, QuietMail
<1> QED BY <1>1, <1>2, <1>3, <1>4 DEF Next

\* For any machines, threads and routes, with or without loss: between Network::Send
\* and SynchList::Remove the device's one-packet buffer, the worker and the list of a
\* mailbox together are one queue; no message is duplicated, reordered, dropped after
\* it was sent, or put into another mailbox than its own.
THEOREM MailboxesAreQueues == Spec => AreQueues
<1>1. Init => M!Init
  BY MailboxInit
<1>2. IInv /\ [Next]_vars => [M!Next]_mailbox
  BY MailboxNext
<1> QED BY <1>1, <1>2, PostOfficeInvariance, PTL DEF Spec, AreQueues, M!Spec
=================================================================================
