---------------------- MODULE AvailabilityExchangeProofs ----------------------
(***************************************************************************)
(* Theorems about DataChannelSend, by itself and as AvailabilityExchange   *)
(* uses it: the channel implements OrderedDelivery, whatever is sent.  And *)
(* about what AvailabilityExchange makes of it: the receiver takes no      *)
(* chunk for available that the sender does not have, and knows all it     *)
(* has once everything sent has arrived.  These rest on what the bitfields *)
(* and the codec of WireProtocol do for every number of chunks, every      *)
(* resource id and every message.                                          *)
(***************************************************************************)
EXTENDS AvailabilityExchange, FiniteSetTheorems, SequenceTheorems, WellFoundedInduction, TLAPS

Message == [id : Nat, size : Nat]

\* The numbers of the messages of s.
Numbers(s) == [i \in 1..Len(s) |-> s[i].id]

LEMMA NumbersSeq ==
    ASSUME NEW s \in Seq(Message)
    PROVE  /\ Numbers(s) \in Seq(Nat) /\ Len(Numbers(s)) = Len(s)
           /\ \A i \in 1..Len(s) : Numbers(s)[i] = s[i].id /\ s[i] \in Message /\ s[i].id \in Nat
<1>1. /\ Len(s) \in Nat
      /\ \A i \in 1..Len(s) : s[i] \in Message /\ s[i].id \in Nat
  <2>1. \A i \in 1..Len(s) : s[i] \in Message
    BY ElementOfSeq
  <2>2. \A m \in Message : m.id \in Nat
    BY DEF Message
  <2> QED
    BY <2>1, <2>2, LenProperties
<1>2. Numbers(s) \in [1..Len(s) -> Nat]
  BY <1>1 DEF Numbers
<1>3. Numbers(s) \in Seq(Nat)
  BY <1>1, <1>2, SeqDef
<1>4. Len(Numbers(s)) = Len(s)
  BY <1>1, <1>3 DEF Numbers
<1> QED
  BY <1>1, <1>3, <1>4 DEF Numbers

LEMMA NumbersAppend ==
    ASSUME NEW s \in Seq(Message), NEW m \in Message
    PROVE  Numbers(Append(s, m)) = Append(Numbers(s), m.id)
<1> DEFINE t == Append(s, m)
           u == Append(Numbers(s), m.id)
<1>1. /\ Len(s) \in Nat /\ t \in Seq(Message) /\ Len(t) = Len(s) + 1
      /\ t[Len(s) + 1] = m /\ \A i \in 1..Len(s) : t[i] = s[i]
  OBVIOUS
<1>2. m.id \in Nat
  BY DEF Message
<1>3. /\ u \in Seq(Nat) /\ Len(u) = Len(s) + 1
      /\ u[Len(s) + 1] = m.id /\ \A i \in 1..Len(s) : u[i] = Numbers(s)[i]
  BY <1>1, <1>2, NumbersSeq
<1> HIDE DEF t, u
<1>4. Numbers(t) \in Seq(Nat) /\ Len(Numbers(t)) = Len(u)
  BY <1>1, <1>3, NumbersSeq
<1>5. ASSUME NEW i \in 1..Len(Numbers(t)) PROVE Numbers(t)[i] = u[i]
  <2>1. i \in 1..Len(t) /\ Numbers(t)[i] = t[i].id
    BY <1>1, <1>5, NumbersSeq
  <2>2. CASE i = Len(s) + 1
    BY <1>1, <1>3, <2>1, <2>2
  <2>3. CASE i \in 1..Len(s)
    BY <1>1, <1>3, <2>1, <2>3, NumbersSeq
  <2> QED
    BY <1>1, <2>1, <2>2, <2>3
<1>6. Numbers(t) = u
  BY <1>3, <1>4, <1>5, SeqEqual
<1> QED
  BY <1>6 DEF t, u

LEMMA NumbersTail ==
    ASSUME NEW s \in Seq(Message), s # <<>>
    PROVE  /\ Numbers(s) # <<>> /\ Head(Numbers(s)) = Head(s).id
           /\ Tail(Numbers(s)) = Numbers(Tail(s))
<1> DEFINE n == Numbers(s)
           t == Tail(s)
<1>1. Len(s) \in Nat \ {0} /\ Head(s) = s[1]
  BY EmptySeq
<1>2. n \in Seq(Nat) /\ Len(n) = Len(s) /\ \A i \in 1..Len(s) : n[i] = s[i].id
  BY NumbersSeq
<1>3. t \in Seq(Message) /\ Len(t) = Len(s) - 1 /\ \A i \in 1..Len(t) : t[i] = s[i + 1]
  BY HeadTailProperties
<1> HIDE DEF n, t
<1>4. n # <<>> /\ Head(n) = n[1]
  BY <1>1, <1>2, EmptySeq
<1>5. Tail(n) \in Seq(Nat) /\ Len(Tail(n)) = Len(n) - 1 /\ \A i \in 1..Len(Tail(n)) : Tail(n)[i] = n[i + 1]
  BY <1>2, <1>4, HeadTailProperties
<1>6. /\ Numbers(t) \in Seq(Nat) /\ Len(Numbers(t)) = Len(t)
      /\ \A i \in 1..Len(t) : Numbers(t)[i] = t[i].id
  BY <1>3, NumbersSeq
<1>7. ASSUME NEW i \in 1..Len(Tail(n)) PROVE Tail(n)[i] = Numbers(t)[i]
  <2>1. i \in 1..Len(t) /\ i + 1 \in 1..Len(s)
    BY <1>1, <1>2, <1>3, <1>5, <1>7
  <2>2. Tail(n)[i] = s[i + 1].id
    BY <1>2, <1>5, <1>7, <2>1
  <2>3. Numbers(t)[i] = s[i + 1].id
    BY <1>3, <1>6, <2>1
  <2> QED
    BY <2>2, <2>3
<1>8. Tail(n) = Numbers(t)
  BY <1>1, <1>2, <1>3, <1>5, <1>6, <1>7, SeqEqual
<1> QED
  BY <1>1, <1>2, <1>4, <1>8 DEF n, t

\* Leaving out the message at some place leaves out its number.
LEMMA RemoveAtProperties ==
    ASSUME NEW S, NEW s \in Seq(S), NEW k \in 1..Len(s)
    PROVE  /\ RemoveAt(s, k) \in Seq(S) /\ Len(RemoveAt(s, k)) = Len(s) - 1
           /\ \A i \in 1..(Len(s) - 1) : RemoveAt(s, k)[i] = IF i < k THEN s[i] ELSE s[i + 1]
<1> DEFINE a == SubSeq(s, 1, k - 1)
           b == SubSeq(s, k + 1, Len(s))
<1>1. Len(s) \in Nat /\ k \in Nat /\ 1 <= k /\ k <= Len(s) /\ \A i \in 1..Len(s) : s[i] \in S
  BY ElementOfSeq
<1>2. a \in Seq(S) /\ Len(a) = k - 1 /\ \A i \in 1..(k - 1) : a[i] = s[i]
  <2>1. \A i \in 1..(k - 1) : s[i] \in S
    BY <1>1
  <2>2. /\ a \in Seq(S) /\ Len(a) = IF 1 <= k - 1 THEN (k - 1) - 1 + 1 ELSE 0
        /\ \A i \in 1..((k - 1) - 1 + 1) : a[i] = s[1 + i - 1]
    BY <1>1, <2>1, SubSeqProperties
  <2> HIDE DEF a
  <2> QED
    BY <1>1, <2>2
<1>3. b \in Seq(S) /\ Len(b) = Len(s) - k /\ \A i \in 1..(Len(s) - k) : b[i] = s[k + i]
  <2>1. \A i \in (k + 1)..Len(s) : s[i] \in S
    BY <1>1
  <2>2. /\ b \in Seq(S) /\ Len(b) = IF k + 1 <= Len(s) THEN Len(s) - (k + 1) + 1 ELSE 0
        /\ \A i \in 1..(Len(s) - (k + 1) + 1) : b[i] = s[(k + 1) + i - 1]
    BY <1>1, <2>1, SubSeqProperties
  <2> HIDE DEF b
  <2> QED
    BY <1>1, <2>2
<1>4. RemoveAt(s, k) = a \o b
  BY DEF RemoveAt
<1> HIDE DEF a, b
<1>5. /\ a \o b \in Seq(S) /\ Len(a \o b) = Len(a) + Len(b)
      /\ \A i \in 1..(Len(a) + Len(b)) : (a \o b)[i] = IF i <= Len(a) THEN a[i] ELSE b[i - Len(a)]
  BY <1>2, <1>3, ConcatProperties
<1> DEFINE c == a \o b
<1>6. c \in Seq(S) /\ Len(c) = Len(s) - 1
  BY <1>1, <1>2, <1>3, <1>5
<1>7. \A i \in 1..(Len(s) - 1) : c[i] = IF i <= k - 1 THEN a[i] ELSE b[i - (k - 1)]
  BY <1>1, <1>2, <1>3, <1>5
<1> HIDE DEF c
<1>8. \A i \in 1..(Len(s) - 1) : c[i] = IF i < k THEN s[i] ELSE s[i + 1]
  <2> SUFFICES ASSUME NEW i \in 1..(Len(s) - 1) PROVE c[i] = IF i < k THEN s[i] ELSE s[i + 1]
    OBVIOUS
  <2>1. CASE i < k
    BY <1>1, <1>2, <1>7, <2>1
  <2>2. CASE i >= k
    <3>1. i - (k - 1) \in 1..(Len(s) - k) /\ k + (i - (k - 1)) = i + 1 /\ ~(i <= k - 1)
      BY <1>1, <2>2
    <3> QED
      BY <1>1, <1>3, <1>7, <2>2, <3>1
  <2> QED
    BY <1>1, <2>1, <2>2
<1> QED
  BY <1>4, <1>6, <1>8 DEF c

LEMMA NumbersRemoveAt ==
    ASSUME NEW s \in Seq(Message), NEW k \in 1..Len(s)
    PROVE  Numbers(RemoveAt(s, k)) = RemoveAt(Numbers(s), k)
<1> DEFINE t == RemoveAt(s, k)
           n == Numbers(s)
           u == RemoveAt(n, k)
<1>1. Len(s) \in Nat
  OBVIOUS
<1>2. n \in Seq(Nat) /\ Len(n) = Len(s) /\ \A i \in 1..Len(s) : n[i] = s[i].id
  BY NumbersSeq
<1>3. /\ t \in Seq(Message) /\ Len(t) = Len(s) - 1
      /\ \A i \in 1..(Len(s) - 1) : t[i] = IF i < k THEN s[i] ELSE s[i + 1]
  BY RemoveAtProperties
<1> HIDE DEF n, t
<1>4. /\ u \in Seq(Nat) /\ Len(u) = Len(s) - 1
      /\ \A i \in 1..(Len(s) - 1) : u[i] = IF i < k THEN n[i] ELSE n[i + 1]
  <2>1. n \in Seq(Nat) /\ k \in 1..Len(n)
    BY <1>2
  <2>2. /\ u \in Seq(Nat) /\ Len(u) = Len(n) - 1
        /\ \A i \in 1..(Len(n) - 1) : u[i] = IF i < k THEN n[i] ELSE n[i + 1]
    BY <2>1, RemoveAtProperties
  <2> QED
    BY <1>2, <2>2
<1>5. /\ Numbers(t) \in Seq(Nat) /\ Len(Numbers(t)) = Len(t)
      /\ \A i \in 1..Len(t) : Numbers(t)[i] = t[i].id
  BY <1>3, NumbersSeq
<1> HIDE DEF u
<1>6. ASSUME NEW i \in 1..Len(u) PROVE u[i] = Numbers(t)[i]
  <2>1. i \in 1..(Len(s) - 1) /\ i \in 1..Len(t) /\ i \in 1..Len(s) /\ i + 1 \in 1..Len(s)
    BY <1>1, <1>3, <1>4, <1>6
  <2>2. Numbers(t)[i] = t[i].id
    BY <1>5, <2>1
  <2>3. CASE i < k
    BY <1>2, <1>3, <1>4, <2>1, <2>2, <2>3
  <2>4. CASE ~(i < k)
    BY <1>2, <1>3, <1>4, <2>1, <2>2, <2>4
  <2> QED
    BY <2>3, <2>4
<1>7. u = Numbers(t)
  BY <1>3, <1>4, <1>5, <1>6, SeqEqual
<1> QED
  BY <1>7 DEF u, n, t

-----------------------------------------------------------------------------
\* What moves between the sequence b and the one behind it.
LEMMA OneBehindTheOther ==
    ASSUME NEW S, NEW b \in Seq(S), NEW q \in Seq(S)
    PROVE  /\ b \o q \in Seq(S) /\ Len(b \o q) = Len(b) + Len(q)
           /\ \A m \in S : b \o Append(q, m) = Append(b \o q, m)
           /\ b # <<>> => /\ b \o q # <<>> /\ Head(b \o q) = Head(b)
                          /\ Tail(b) \o q = Tail(b \o q)
<1>1. b \o q \in Seq(S) /\ Len(b \o q) = Len(b) + Len(q)
  BY ConcatProperties
<1>2. ASSUME NEW m \in S PROVE b \o Append(q, m) = Append(b \o q, m)
  <2>1. Append(q, m) = q \o <<m>> /\ <<m>> \in Seq(S)
    BY AppendIsConcat
  <2>2. Append(b \o q, m) = (b \o q) \o <<m>>
    BY <1>1, AppendIsConcat
  <2> QED
    BY <2>1, <2>2, ConcatAssociative
<1>3. ASSUME b # <<>>
      PROVE  b \o q # <<>> /\ Head(b \o q) = Head(b) /\ Tail(b) \o q = Tail(b \o q)
  <2> DEFINE c == b \o q
             t == Tail(b)
             u == Tail(c)
             v == t \o q
  <2>1. Len(b) \in Nat \ {0} /\ Len(q) \in Nat /\ Head(b) = b[1]
    BY <1>3, EmptySeq
  <2>2. c \in Seq(S) /\ Len(c) = Len(b) + Len(q)
    BY <1>1
  <2>3. \A i \in 1..(Len(b) + Len(q)) : c[i] = IF i <= Len(b) THEN b[i] ELSE q[i - Len(b)]
    BY ConcatProperties
  <2>4. t \in Seq(S) /\ Len(t) = Len(b) - 1 /\ \A i \in 1..Len(t) : t[i] = b[i + 1]
    BY <1>3, HeadTailProperties
  <2> HIDE DEF c, t
  <2>5. c # <<>> /\ Head(c) = c[1]
    BY <2>1, <2>2, EmptySeq
  <2>6. u \in Seq(S) /\ Len(u) = Len(c) - 1 /\ \A i \in 1..Len(u) : u[i] = c[i + 1]
    BY <2>2, <2>5, HeadTailProperties
  <2>7. /\ v \in Seq(S) /\ Len(v) = Len(t) + Len(q)
        /\ \A i \in 1..(Len(t) + Len(q)) : v[i] = IF i <= Len(t) THEN t[i] ELSE q[i - Len(t)]
    BY <2>4, ConcatProperties
  <2> HIDE DEF u, v
  <2>8. ASSUME NEW i \in 1..Len(v) PROVE v[i] = u[i]
    <3>1. u[i] = c[i + 1] /\ i + 1 \in 1..(Len(b) + Len(q))
      BY <2>1, <2>2, <2>4, <2>6, <2>7, <2>8
    <3>2. CASE i <= Len(t)
      BY <2>1, <2>3, <2>4, <2>7, <3>1, <3>2
    <3>3. CASE i > Len(t)
      <4>1. (i + 1) - Len(b) = i - Len(t) /\ ~(i + 1 <= Len(b)) /\ ~(i <= Len(t))
        BY <2>1, <2>4, <3>3
      <4> QED
        BY <2>1, <2>3, <2>4, <2>7, <3>1, <4>1
    <3> QED
      BY <2>1, <2>4, <3>2, <3>3
  <2>9. Len(v) = Len(u)
    BY <2>1, <2>2, <2>4, <2>6, <2>7
  <2>10. v = u
    BY <2>6, <2>7, <2>8, <2>9, SeqEqual
  <2>11. Head(c) = Head(b)
    BY <2>1, <2>3, <2>5
  <2> QED
    BY <2>5, <2>10, <2>11 DEF c, t, u, v
<1> QED
  BY <1>1, <1>2, <1>3

\* The same for the buffer b and the queue q.
LEMMA QueueBehindBuffer ==
    ASSUME NEW b \in Seq(Message), NEW q \in Seq(Message)
    PROVE  /\ b \o q \in Seq(Message) /\ Len(b \o q) = Len(b) + Len(q)
           /\ \A m \in Message : b \o Append(q, m) = Append(b \o q, m)
           /\ b # <<>> => /\ b \o q # <<>> /\ Head(b \o q) = Head(b)
                          /\ Tail(b) \o q = Tail(b \o q)
  BY OneBehindTheOther

\* n messages go over from the queue to the buffer, and after them one is lost.
LEMMA QueueGoesOver ==
    ASSUME NEW b \in Seq(Message), NEW q \in Seq(Message), NEW n \in 0..Len(q)
    PROVE  /\ b \o SubSeq(q, 1, n) \in Seq(Message) /\ SubSeq(q, n + 1, Len(q)) \in Seq(Message)
           /\ (b \o SubSeq(q, 1, n)) \o SubSeq(q, n + 1, Len(q)) = b \o q
<1>1. n \in Nat /\ Len(q) \in Nat /\ n <= Len(q) /\ \A i \in 1..Len(q) : q[i] \in Message
  BY ElementOfSeq
<1>2. SubSeq(q, 1, n) \in Seq(Message) /\ SubSeq(q, n + 1, Len(q)) \in Seq(Message)
  <2>1. \A i \in 1..n : q[i] \in Message
    BY <1>1
  <2>2. \A i \in (n + 1)..Len(q) : q[i] \in Message
    BY <1>1
  <2> QED
    BY <1>1, <2>1, <2>2, SubSeqProperties
<1>3. SubSeq(q, 1, n) \o SubSeq(q, n + 1, Len(q)) = SubSeq(q, 1, Len(q))
  <2>1. 1 \in 1..(Len(q) + 1) /\ n \in (1 - 1)..Len(q) /\ Len(q) \in n..Len(q)
    BY <1>1
  <2> QED
    BY <2>1, ConcatAdjacentSubSeq
<1>4. SubSeq(q, 1, Len(q)) = q
  BY SubSeqFull
<1> DEFINE x == SubSeq(q, 1, n)
           y == SubSeq(q, n + 1, Len(q))
<1>5. x \in Seq(Message) /\ y \in Seq(Message) /\ x \o y = q
  BY <1>2, <1>3, <1>4
<1> HIDE DEF x, y
<1>6. b \o x \in Seq(Message)
  BY <1>5, ConcatProperties
<1>7. (b \o x) \o y = b \o (x \o y)
  <2>1. x \in Seq(Message) /\ y \in Seq(Message)
    BY <1>5
  <2> QED
    BY <2>1, ConcatAssociative
<1> QED
  BY <1>5, <1>6, <1>7 DEF x, y

LEMMA QueueLosesOne ==
    ASSUME NEW b \in Seq(Message), NEW q \in Seq(Message), NEW n \in 0..(Len(q) - 1)
    PROVE  /\ SubSeq(q, n + 2, Len(q)) \in Seq(Message)
           /\ Len(b) + n + 1 \in 1..Len(b \o q)
           /\ (b \o SubSeq(q, 1, n)) \o SubSeq(q, n + 2, Len(q)) = RemoveAt(b \o q, Len(b) + n + 1)
<1> DEFINE c == b \o q
           x == SubSeq(q, 1, n)
           y == SubSeq(q, n + 2, Len(q))
           v == (b \o x) \o y
           k == Len(b) + n + 1
           u == RemoveAt(c, k)
<1>1. /\ n \in Nat /\ Len(q) \in Nat /\ n < Len(q) /\ Len(b) \in Nat
      /\ \A i \in 1..Len(q) : q[i] \in Message
  BY ElementOfSeq
<1>2. x \in Seq(Message) /\ Len(x) = n /\ \A i \in 1..n : x[i] = q[i]
  <2>1. \A i \in 1..n : q[i] \in Message
    BY <1>1
  <2>2. /\ x \in Seq(Message) /\ Len(x) = IF 1 <= n THEN n - 1 + 1 ELSE 0
        /\ \A i \in 1..(n - 1 + 1) : x[i] = q[1 + i - 1]
    BY <1>1, <2>1, SubSeqProperties
  <2> HIDE DEF x
  <2> QED
    BY <1>1, <2>2
<1>3. y \in Seq(Message) /\ Len(y) = Len(q) - n - 1 /\ \A i \in 1..(Len(q) - n - 1) : y[i] = q[n + 1 + i]
  <2>1. \A i \in (n + 2)..Len(q) : q[i] \in Message
    BY <1>1
  <2>2. /\ y \in Seq(Message) /\ Len(y) = IF n + 2 <= Len(q) THEN Len(q) - (n + 2) + 1 ELSE 0
        /\ \A i \in 1..(Len(q) - (n + 2) + 1) : y[i] = q[(n + 2) + i - 1]
    BY <1>1, <2>1, SubSeqProperties
  <2> HIDE DEF y
  <2> QED
    BY <1>1, <2>2
<1>4. /\ c \in Seq(Message) /\ Len(c) = Len(b) + Len(q)
      /\ \A i \in 1..(Len(b) + Len(q)) : c[i] = IF i <= Len(b) THEN b[i] ELSE q[i - Len(b)]
  BY ConcatProperties
<1> HIDE DEF c, x, y
<1>5. /\ b \o x \in Seq(Message) /\ Len(b \o x) = Len(b) + n
      /\ \A i \in 1..(Len(b) + n) : (b \o x)[i] = IF i <= Len(b) THEN b[i] ELSE x[i - Len(b)]
  BY <1>2, ConcatProperties
<1> DEFINE a == b \o x
<1>6. /\ a \in Seq(Message) /\ Len(a) = Len(b) + n
      /\ \A i \in 1..(Len(b) + n) : a[i] = c[i]
  <2>1. ASSUME NEW i \in 1..(Len(b) + n) PROVE a[i] = c[i]
    <3>1. i \in 1..(Len(b) + Len(q))
      BY <1>1
    <3>2. CASE i <= Len(b)
      BY <1>4, <1>5, <3>1, <3>2
    <3>3. CASE ~(i <= Len(b))
      <4>1. i - Len(b) \in 1..n
        BY <1>1, <3>3
      <4> QED
        BY <1>2, <1>4, <1>5, <3>1, <3>3, <4>1
    <3> QED
      BY <3>2, <3>3
  <2> QED
    BY <1>5, <2>1
<1> HIDE DEF a
<1>7. /\ a \o y \in Seq(Message) /\ Len(a \o y) = Len(a) + Len(y)
      /\ \A i \in 1..(Len(a) + Len(y)) : (a \o y)[i] = IF i <= Len(a) THEN a[i] ELSE y[i - Len(a)]
  BY <1>3, <1>6, ConcatProperties
<1>8. v = a \o y
  BY DEF a
<1> HIDE DEF v
<1>9. k \in 1..Len(c)
  BY <1>1, <1>4
<1>10. /\ u \in Seq(Message) /\ Len(u) = Len(c) - 1
       /\ \A i \in 1..(Len(c) - 1) : u[i] = IF i < k THEN c[i] ELSE c[i + 1]
  BY <1>4, <1>9, RemoveAtProperties
<1> HIDE DEF u
<1>11. Len(v) = Len(u) /\ v \in Seq(Message)
  <2>1. v \in Seq(Message) /\ Len(v) = Len(a) + Len(y)
    BY <1>7, <1>8
  <2> QED
    BY <1>1, <1>3, <1>4, <1>6, <1>10, <2>1
<1>12. ASSUME NEW i \in 1..Len(v) PROVE v[i] = u[i]
  <2>1. i \in 1..(Len(b) + Len(q) - 1)
    BY <1>4, <1>10, <1>11, <1>12
  <2>2. CASE i <= Len(b) + n
    BY <1>1, <1>4, <1>6, <1>7, <1>8, <1>10, <1>11, <2>1, <2>2
  <2>3. CASE i > Len(b) + n
    <3> DEFINE j == i - (Len(b) + n)
    <3>1. j \in 1..(Len(q) - n - 1) /\ n + 1 + j = i + 1 - Len(b) /\ i + 1 > Len(b)
          /\ i + 1 \in 1..(Len(b) + Len(q)) /\ ~(i < k) /\ ~(i <= Len(b) + n)
      BY <1>1, <2>1, <2>3
    <3>2. v[i] = y[j] /\ y[j] = q[i + 1 - Len(b)]
      BY <1>3, <1>6, <1>7, <1>8, <1>12, <1>11, <3>1
    <3>3. u[i] = c[i + 1] /\ c[i + 1] = q[i + 1 - Len(b)]
      BY <1>1, <1>4, <1>10, <2>1, <3>1
    <3> QED
      BY <3>2, <3>3
  <2> QED
    BY <1>1, <2>1, <2>2, <2>3
<1>13. v = u
  BY <1>10, <1>11, <1>12, SeqEqual
<1> QED
  BY <1>3, <1>9, <1>13 DEF v, u, c, x, y

-----------------------------------------------------------------------------
(***************************************************************************)
(* The channel's own invariant: what it holds are messages send was called *)
(* with, and nothing is held before the channel opens.                     *)
(***************************************************************************)
UpTo(n) == [id : 1..n, size : Nat]

SInv ==
    /\ readyState \in {"connecting", "open", "closed"}
    /\ isClosed \in BOOLEAN
    /\ isClosed => readyState = "closed"
    /\ readyState = "connecting" => buffer = <<>> /\ sendQueue = <<>>
    /\ calls \in 0..MaxMessages
    /\ buffer \in Seq(UpTo(calls))
    /\ sendQueue \in Seq(UpTo(calls))
    /\ delivered \in Seq(1..calls)

\* A step of the channel, whatever the size of what is sent.
ChannelStep ==
    \/ ChannelOpens \/ SendRefused \/ OnBufferedAmountLow \/ Transmit \/ ChannelCloses \/ Close
    \/ \E z \in Nat : SendQueues(z) \/ SendPasses(z) \/ SendThrows(z)

LEMMA NextIsChannelStep == Next => ChannelStep
  BY SizesAssumption DEF Next, Send, ChannelStep

LEMMA ExchangeNextIsChannelStep == ExchangeNext => ChannelStep \/ UNCHANGED vars
<1> SUFFICES ASSUME ExchangeNext PROVE ChannelStep \/ UNCHANGED vars
  OBVIOUS
<1>1. ASSUME NEW r \in Resources, StartDownload(r) \/ Seek(r) PROVE UNCHANGED vars
  BY <1>1 DEF StartDownload, Seek
<1>2. ASSUME NEW r \in Resources, NEW c \in Traded[r], Stores(r, c) \/ Serve(r, c) \/ Ask(c)
      PROVE  UNCHANGED vars
  BY <1>2 DEF Stores, Serve, Ask
<1>3. ASSUME NEW c \in AvailableIndices(known), Request(c) PROVE UNCHANGED vars
  BY <1>3 DEF Request
<1>4. CASE Resume \/ ResumeWithNothing \/ SeekLoaded
  BY <1>4 DEF Resume, ResumeWithNothing, SeekLoaded
<1>5. CASE OnChannelOpen
  BY <1>5 DEF OnChannelOpen, ChannelStep
<1>6. CASE SendNext
  <2>1. SizeOf(Head(outbox)) \in Nat
    BY DEF SizeOf
  <2> QED
    BY <1>6, <2>1 DEF SendNext, ChannelStep
<1>7. CASE OnLow
  BY <1>7 DEF OnLow, ChannelStep
<1>8. CASE Arrives
  BY <1>8 DEF Arrives, ChannelStep
<1>9. CASE GoesDown
  BY <1>9 DEF GoesDown, ChannelStep
<1> QED
  BY <1>1, <1>2, <1>3, <1>4, <1>5, <1>6, <1>7, <1>8, <1>9 DEF ExchangeNext

LEMMA UpToGrows ==
    ASSUME NEW m \in Nat, NEW n \in Nat, m <= n
    PROVE  /\ Seq(UpTo(m)) \subseteq Seq(UpTo(n))
           /\ Seq(1..m) \subseteq Seq(1..n)
           /\ Seq(UpTo(m)) \subseteq Seq(Message)
<1>1. UpTo(m) \subseteq UpTo(n) /\ 1..m \subseteq 1..n /\ UpTo(m) \subseteq Message
  BY DEF UpTo, Message
<1> QED
  BY <1>1, SeqMonotonic

LEMMA SubSeqIn ==
    ASSUME NEW S, NEW q \in Seq(S), NEW i \in Nat \ {0}, NEW j \in 0..Len(q)
    PROVE  SubSeq(q, i, j) \in Seq(S)
<1>1. \A k \in i..j : q[k] \in S
  <2> SUFFICES ASSUME NEW k \in i..j PROVE q[k] \in S
    OBVIOUS
  <2>1. k \in 1..Len(q)
    BY LenProperties
  <2> QED
    BY <2>1, ElementOfSeq
<1> QED
  BY <1>1, SubSeqProperties, LenProperties

LEMMA SInvStarts == Init => SInv
<1> SUFFICES ASSUME Init PROVE SInv
  OBVIOUS
<1>1. <<>> \in Seq(UpTo(calls)) /\ <<>> \in Seq(1..calls)
  BY EmptySeq
<1>2. buffer \in Seq(UpTo(calls)) /\ sendQueue \in Seq(UpTo(calls)) /\ delivered \in Seq(1..calls)
  BY <1>1 DEF Init
<1>3. calls \in 0..MaxMessages
  BY BoundsAssumption DEF Init
<1>4. /\ readyState = "connecting" /\ isClosed = FALSE /\ buffer = <<>> /\ sendQueue = <<>>
  BY DEF Init
<1> QED
  BY <1>2, <1>3, <1>4 DEF SInv

LEMMA SInvKept == SInv /\ [ChannelStep]_vars => SInv'
<1> SUFFICES ASSUME SInv, [ChannelStep]_vars PROVE SInv'
  OBVIOUS
<1> USE BoundsAssumption
<1>1. calls \in Nat /\ calls <= MaxMessages /\ MaxMessages \in Nat
  BY DEF SInv
<1>2. UNCHANGED vars => SInv'
  BY DEF SInv, vars
<1>3. CASE ChannelOpens
  BY <1>3 DEF SInv, ChannelOpens
<1>4. Call => /\ calls' = calls + 1 /\ calls' \in 0..MaxMessages
              /\ buffer \in Seq(UpTo(calls')) /\ sendQueue \in Seq(UpTo(calls'))
              /\ delivered \in Seq(1..calls')
              /\ \A z \in Nat : Handed(z) \in UpTo(calls')
  <2> SUFFICES ASSUME Call
               PROVE  /\ calls' = calls + 1 /\ calls' \in 0..MaxMessages
                      /\ buffer \in Seq(UpTo(calls')) /\ sendQueue \in Seq(UpTo(calls'))
                      /\ delivered \in Seq(1..calls')
                      /\ \A z \in Nat : Handed(z) \in UpTo(calls')
    OBVIOUS
  <2>1. calls' = calls + 1 /\ calls' \in 0..MaxMessages /\ calls' \in Nat /\ calls <= calls'
    BY <1>1 DEF Call
  <2>2. /\ buffer \in Seq(UpTo(calls')) /\ sendQueue \in Seq(UpTo(calls'))
        /\ delivered \in Seq(1..calls')
    BY <1>1, <2>1, UpToGrows DEF SInv
  <2>3. \A z \in Nat : Handed(z) \in UpTo(calls')
    BY <1>1, <2>1 DEF Handed, UpTo
  <2> QED
    BY <2>1, <2>2, <2>3
<1>5. CASE SendRefused
  BY <1>4, <1>5 DEF SInv, SendRefused
<1>6. ASSUME NEW z \in Nat, SendQueues(z) \/ SendThrows(z) PROVE SInv'
  <2>1. Append(sendQueue, Handed(z)) \in Seq(UpTo(calls'))
    BY <1>4, <1>6, AppendProperties DEF SendQueues, SendThrows
  <2>2. /\ Call /\ readyState = "open" /\ sendQueue' = Append(sendQueue, Handed(z))
        /\ UNCHANGED <<readyState, isClosed, buffer, delivered>>
    BY <1>6 DEF SendQueues, SendThrows, Usable
  <2> QED
    BY <1>4, <2>1, <2>2 DEF SInv
<1>7. ASSUME NEW z \in Nat, SendPasses(z) PROVE SInv'
  <2>1. Append(buffer, Handed(z)) \in Seq(UpTo(calls'))
    BY <1>4, <1>7, AppendProperties DEF SendPasses
  <2> QED
    BY <1>4, <1>7, <2>1 DEF SInv, SendPasses, Usable
<1>8. CASE OnBufferedAmountLow
  <2>1. UNCHANGED <<readyState, isClosed, calls, delivered>>
    BY <1>8 DEF OnBufferedAmountLow
  <2>2. CASE ~Usable
    BY <1>8, <2>1, <2>2 DEF OnBufferedAmountLow, SInv
  <2>3. ASSUME Usable, NEW n \in 0..Len(sendQueue), Drains(n) \/ DrainThrows(n) PROVE SInv'
    <3>1. /\ buffer' = buffer \o SubSeq(sendQueue, 1, n)
          /\ \/ sendQueue' = SubSeq(sendQueue, n + 1, Len(sendQueue))
             \/ sendQueue' = SubSeq(sendQueue, n + 2, Len(sendQueue))
      BY <2>3 DEF Drains, DrainThrows
    <3>2. /\ sendQueue \in Seq(UpTo(calls)) /\ buffer \in Seq(UpTo(calls))
          /\ Len(sendQueue) \in 0..Len(sendQueue) /\ n + 1 \in Nat \ {0} /\ n + 2 \in Nat \ {0}
      BY LenProperties DEF SInv
    <3>3. /\ SubSeq(sendQueue, 1, n) \in Seq(UpTo(calls))
          /\ SubSeq(sendQueue, n + 1, Len(sendQueue)) \in Seq(UpTo(calls))
          /\ SubSeq(sendQueue, n + 2, Len(sendQueue)) \in Seq(UpTo(calls))
      BY <3>2, SubSeqIn
    <3>4. buffer' \in Seq(UpTo(calls)) /\ sendQueue' \in Seq(UpTo(calls))
      BY <3>1, <3>2, <3>3, ConcatProperties
    <3> QED
      BY <2>1, <2>3, <3>4 DEF SInv, Usable
  <2> QED
    BY <1>8, <2>2, <2>3 DEF OnBufferedAmountLow
<1>9. CASE Transmit
  <2>1. buffer \in Seq(UpTo(calls)) /\ buffer # <<>>
    BY <1>9 DEF SInv, Transmit
  <2>2. Head(buffer) \in UpTo(calls) /\ Tail(buffer) \in Seq(UpTo(calls))
    BY <2>1, HeadTailProperties
  <2>3. Head(buffer).id \in 1..calls
    BY <2>2 DEF UpTo
  <2>4. Append(delivered, Head(buffer).id) \in Seq(1..calls)
    BY <2>3, AppendProperties DEF SInv
  <2> QED
    BY <1>9, <2>2, <2>4 DEF SInv, Transmit
<1>10. CASE ChannelCloses
  BY <1>10, EmptySeq DEF SInv, ChannelCloses
<1>11. CASE Close
  BY <1>11, EmptySeq DEF SInv, Close
<1> QED
  BY <1>2, <1>3, <1>5, <1>6, <1>7, <1>8, <1>9, <1>10, <1>11 DEF ChannelStep

-----------------------------------------------------------------------------
(***************************************************************************)
(* The refinement: what OrderedDelivery sees of a state.                   *)
(***************************************************************************)
Channel == IF Usable THEN "up" ELSE IF readyState = "connecting" /\ ~isClosed THEN "new" ELSE "down"

Waiting(b, q) == [i \in 1..(Len(b) + Len(q)) |-> (b \o q)[i].id]

Pending == IF Usable THEN Waiting(buffer, sendQueue) ELSE <<>>

LEMMA WaitingIsNumbers ==
    ASSUME NEW b \in Seq(Message), NEW q \in Seq(Message)
    PROVE  Waiting(b, q) = Numbers(b \o q)
  BY QueueBehindBuffer DEF Numbers, Waiting

LEMMA NothingWaiting == Waiting(<<>>, <<>>) = <<>>
<1>1. <<>> \in Seq(Message)
  BY EmptySeq
<1>2. <<>> \o <<>> = <<>>
  BY <1>1, ConcatEmptySeq
<1>3. Numbers(<<>>) \in Seq(Nat) /\ Len(Numbers(<<>>)) = 0
  BY <1>1, NumbersSeq, EmptySeq
<1>4. Numbers(<<>>) = <<>>
  BY <1>3, EmptySeq
<1> QED
  BY <1>1, <1>2, <1>4, WaitingIsNumbers

\* What waits or was delivered came from the calls so far.
LEMMA NumbersUpTo ==
    ASSUME NEW n \in Nat, NEW s \in Seq(UpTo(n))
    PROVE  Numbers(s) \in Seq(1..n)
<1>1. Len(s) \in Nat /\ \A i \in 1..Len(s) : s[i] \in UpTo(n)
  BY ElementOfSeq, LenProperties
<1>2. \A m \in UpTo(n) : m.id \in 1..n
  BY DEF UpTo
<1>3. Numbers(s) \in [1..Len(s) -> 1..n]
  BY <1>1, <1>2 DEF Numbers
<1> QED
  BY <1>1, <1>3, SeqDef

LEMMA SeenUpTo ==
    ASSUME NEW n \in Nat, NEW s \in Seq(1..n)
    PROVE  \A d \in ToSet(s) : d < n + 1
<1> SUFFICES ASSUME NEW i \in DOMAIN s PROVE s[i] < n + 1
  BY DEF ToSet
<1>1. i \in 1..Len(s)
  BY LenProperties
<1>2. s[i] \in 1..n
  BY <1>1, ElementOfSeq
<1> QED
  BY <1>2

\* What the next message is numbered is newer than all that OrderedDelivery sees.
LEMMA NextIsNewest ==
    ASSUME SInv, Usable
    PROVE  Ordered!Newest(calls + 1)
<1>1. calls \in Nat /\ buffer \in Seq(UpTo(calls)) /\ sendQueue \in Seq(UpTo(calls)) /\ delivered \in Seq(1..calls)
  BY BoundsAssumption DEF SInv
<1>2. buffer \in Seq(Message) /\ sendQueue \in Seq(Message)
  BY <1>1, UpToGrows
<1>3. buffer \o sendQueue \in Seq(UpTo(calls))
  BY <1>1, ConcatProperties
<1>4. Waiting(buffer, sendQueue) \in Seq(1..calls)
  BY <1>1, <1>2, <1>3, NumbersUpTo, WaitingIsNumbers
<1>5. \A d \in ToSet(Waiting(buffer, sendQueue)) \cup ToSet(delivered) : d < calls + 1
  BY <1>1, <1>4, SeenUpTo
<1> QED
  BY <1>5 DEF Ordered!Newest, Ordered!ToSet, ToSet, Waiting

\* What send accepts comes last.
LEMMA HandedGoesBehind ==
    ASSUME SInv, NEW z \in Nat, SendQueues(z) \/ SendPasses(z) \/ SendThrows(z)
    PROVE  buffer' \o sendQueue' = Append(buffer \o sendQueue, Handed(z))
<1>1. buffer \in Seq(Message) /\ sendQueue \in Seq(Message) /\ calls \in Nat
  BY BoundsAssumption, UpToGrows DEF SInv
<1>2. Handed(z) \in Message
  BY <1>1 DEF Handed, Message
<1>3. CASE SendQueues(z) \/ SendThrows(z)
  <2>1. buffer' = buffer /\ sendQueue' = Append(sendQueue, Handed(z))
    BY <1>3 DEF SendQueues, SendThrows
  <2> QED
    BY <1>1, <1>2, <2>1, QueueBehindBuffer
<1>4. CASE SendPasses(z)
  <2>1. sendQueue = <<>> /\ sendQueue' = <<>> /\ buffer' = Append(buffer, Handed(z))
    BY <1>4 DEF SendPasses, MustQueue
  <2>2. buffer \o sendQueue = buffer /\ buffer' \o sendQueue' = buffer'
    BY <1>1, <1>2, <2>1, ConcatEmptySeq
  <2> QED
    BY <2>1, <2>2
<1> QED
  BY <1>3, <1>4

LEMMA StepOrdered == SInv /\ SInv' /\ [ChannelStep]_vars => [Ordered!Next]_<<Channel, Pending, delivered, thrown>>
<1> DEFINE Seen == <<Channel, Pending, delivered, thrown>>
<1> SUFFICES ASSUME SInv, SInv', [ChannelStep]_vars PROVE Ordered!Next \/ UNCHANGED Seen
  OBVIOUS
<1> USE BoundsAssumption
<1>1. /\ buffer \in Seq(Message) /\ sendQueue \in Seq(Message)
      /\ buffer' \in Seq(Message) /\ sendQueue' \in Seq(Message)
      /\ calls \in Nat /\ calls + 1 \in Nat
  BY UpToGrows DEF SInv
<1>2. /\ Usable <=> readyState = "open"
      /\ Usable' <=> readyState' = "open"
  BY DEF SInv, Usable
<1>3. Usable => Channel = "up" /\ Pending = Waiting(buffer, sendQueue)
  BY DEF Channel, Pending
<1>4. Usable' => Channel' = "up" /\ Pending' = Waiting(buffer', sendQueue')
  BY DEF Channel, Pending
<1>5. /\ Waiting(buffer, sendQueue) = Numbers(buffer \o sendQueue)
      /\ Waiting(buffer', sendQueue') = Numbers(buffer' \o sendQueue')
  BY <1>1, WaitingIsNumbers
<1>6. UNCHANGED vars => UNCHANGED Seen
  BY DEF vars, Channel, Pending, Usable
<1>7. CASE ChannelOpens
  <2>1. Channel = "new" /\ Pending = <<>> /\ Usable' /\ UNCHANGED <<delivered, thrown>>
    BY <1>7 DEF ChannelOpens, Channel, Pending, Usable
  <2>2. buffer' = <<>> /\ sendQueue' = <<>>
    BY <1>7 DEF ChannelOpens, SInv
  <2>3. Channel' = "up" /\ Pending' = <<>>
    BY <1>4, <2>1, <2>2, NothingWaiting
  <2>4. Ordered!Open
    BY <2>1, <2>3 DEF Ordered!Open, Channel, Pending, Waiting
  <2> QED
    BY <2>4 DEF Ordered!Next
<1>8. CASE SendRefused
  BY <1>8 DEF SendRefused, Channel, Pending, Usable
<1>9. ASSUME NEW z \in Nat, SendQueues(z) \/ SendPasses(z) \/ SendThrows(z)
      PROVE  /\ Usable /\ Usable' /\ calls + 1 \in 1..MaxMessages
             /\ UNCHANGED delivered
             /\ Pending' = Append(Pending, calls + 1)
  <2>1. /\ Usable /\ Usable' /\ calls < MaxMessages /\ UNCHANGED delivered
    BY <1>9 DEF SendQueues, SendPasses, SendThrows, Call, Usable
  <2>2. Handed(z) \in Message /\ Handed(z).id = calls + 1
    BY <1>1 DEF Handed, Message
  <2>6. buffer' \o sendQueue' = Append(buffer \o sendQueue, Handed(z))
    BY <1>9, HandedGoesBehind
  <2>7. buffer \o sendQueue \in Seq(Message)
    BY <1>1, QueueBehindBuffer
  <2>8. Numbers(buffer' \o sendQueue') = Append(Numbers(buffer \o sendQueue), calls + 1)
    BY <2>2, <2>6, <2>7, NumbersAppend
  <2> QED
    BY <1>1, <1>3, <1>4, <1>5, <2>1, <2>8
<1>10. ASSUME NEW z \in Nat, SendQueues(z) \/ SendPasses(z) \/ SendThrows(z)
       PROVE  Ordered!Next
  <2>1. /\ Channel = "up" /\ Channel' = "up" /\ UNCHANGED delivered
        /\ Pending' = Append(Pending, calls + 1) /\ calls + 1 \in 1..MaxMessages
    BY <1>3, <1>4, <1>9, <1>10
  <2>2. Ordered!Newest(calls + 1)
    BY <1>9, <1>10, NextIsNewest
  <2>3. Ordered!Appends(calls + 1)
    BY <2>1, <2>2 DEF Ordered!Appends, Pending, Waiting
  <2>4. CASE UNCHANGED thrown
    <3>1. Ordered!Accept(calls + 1)
      BY <2>1, <2>3, <2>4 DEF Ordered!Accept, Channel
    <3>2. \E m \in 1..MaxMessages : Ordered!Accept(m)
      BY <2>1, <3>1, Zenon DEF Ordered!Accept, Ordered!Appends, Ordered!Newest, Ordered!ToSet
    <3> QED
      BY <3>2 DEF Ordered!Next
  <2>5. CASE thrown' = TRUE
    <3>1. \E m \in 1..MaxMessages : Ordered!Appends(m)
      BY <2>1, <2>3, Zenon DEF Ordered!Appends, Ordered!Newest, Ordered!ToSet
    <3>2. Channel = "up" /\ thrown' = TRUE /\ UNCHANGED <<Channel, delivered>>
      BY <2>1, <2>5
    <3>3. Ordered!Fault
      BY <3>1, <3>2, Zenon DEF Ordered!Fault, Channel
    <3> QED
      BY <3>3 DEF Ordered!Next
  <2> QED
    BY <1>10, <2>4, <2>5 DEF SendQueues, SendPasses, SendThrows
<1>11. CASE OnBufferedAmountLow
  <2>1. UNCHANGED <<readyState, isClosed, delivered>>
    BY <1>11 DEF OnBufferedAmountLow
  <2>2. CASE ~Usable
    BY <1>11, <2>1, <2>2 DEF OnBufferedAmountLow, Channel, Pending, Usable
  <2>3. ASSUME Usable, NEW n \in 0..Len(sendQueue), Drains(n) PROVE UNCHANGED Seen
    <3>1. buffer' \o sendQueue' = buffer \o sendQueue
      BY <1>1, <2>3, QueueGoesOver DEF Drains
    <3>2. Usable' /\ UNCHANGED <<delivered, thrown>>
      BY <2>1, <2>3 DEF Usable, Drains
    <3>3. Channel' = Channel /\ Pending' = Pending
      BY <1>3, <1>4, <1>5, <2>3, <3>1, <3>2
    <3> QED
      BY <3>2, <3>3
  <2>4. ASSUME Usable, NEW n \in 0..Len(sendQueue), DrainThrows(n) PROVE Ordered!Next
    <3> DEFINE k == Len(buffer) + n + 1
               c == buffer \o sendQueue
    <3>1. /\ n \in 0..(Len(sendQueue) - 1)
          /\ buffer' = buffer \o SubSeq(sendQueue, 1, n)
          /\ sendQueue' = SubSeq(sendQueue, n + 2, Len(sendQueue))
          /\ thrown' = TRUE
      BY <2>4 DEF DrainThrows
    <3>2. k \in 1..Len(c) /\ buffer' \o sendQueue' = RemoveAt(c, k) /\ c \in Seq(Message)
      <4>1. /\ Len(buffer) + n + 1 \in 1..Len(buffer \o sendQueue)
            /\ (buffer \o SubSeq(sendQueue, 1, n)) \o SubSeq(sendQueue, n + 2, Len(sendQueue))
                 = RemoveAt(buffer \o sendQueue, Len(buffer) + n + 1)
        BY <1>1, <3>1, QueueLosesOne
      <4>2. buffer \o sendQueue \in Seq(Message)
        BY <1>1, QueueBehindBuffer
      <4> QED
        BY <3>1, <4>1, <4>2
    <3>3. Usable' /\ UNCHANGED delivered
      BY <2>1, <2>4 DEF Usable
    <3> HIDE DEF k
    <3>4. Pending' = RemoveAt(Pending, k)
      <4>1. Numbers(RemoveAt(c, k)) = RemoveAt(Numbers(c), k)
        BY <3>2, NumbersRemoveAt
      <4> QED
        BY <1>3, <1>4, <1>5, <2>4, <3>2, <3>3, <4>1
    <3>5. k \in DOMAIN Pending
      <4>1. Pending = Numbers(c)
        BY <1>3, <1>5, <2>4
      <4>2. DOMAIN Numbers(c) = 1..Len(c)
        BY DEF Numbers
      <4> QED
        BY <3>2, <4>1, <4>2
    <3>6. Channel = "up" /\ Channel' = "up"
      BY <1>3, <1>4, <2>4, <3>3
    <3>7. Ordered!Fault
      BY <3>1, <3>3, <3>4, <3>5, <3>6
      DEF Ordered!Fault, Ordered!RemoveAt, RemoveAt, Channel, Pending, Waiting
    <3> QED
      BY <3>7 DEF Ordered!Next
  <2> QED
    BY <1>11, <2>2, <2>3, <2>4 DEF OnBufferedAmountLow
<1>12. CASE Transmit
  <2>1. /\ readyState = "open" /\ readyState' = "open" /\ buffer # <<>>
        /\ buffer' = Tail(buffer) /\ sendQueue' = sendQueue
        /\ delivered' = Append(delivered, Head(buffer).id) /\ UNCHANGED thrown
    BY <1>12 DEF Transmit
  <2>2. /\ buffer \o sendQueue \in Seq(Message) /\ buffer \o sendQueue # <<>>
        /\ Head(buffer \o sendQueue) = Head(buffer)
        /\ buffer' \o sendQueue' = Tail(buffer \o sendQueue)
    BY <1>1, <2>1, QueueBehindBuffer
  <2>3. Pending # <<>> /\ Head(Pending) = Head(buffer).id /\ Pending' = Tail(Pending)
    <3> DEFINE c == buffer \o sendQueue
    <3>1. Pending = Numbers(c) /\ Pending' = Numbers(buffer' \o sendQueue')
      BY <1>2, <1>3, <1>4, <1>5, <2>1
    <3>2. Numbers(c) # <<>> /\ Head(Numbers(c)) = Head(c).id /\ Tail(Numbers(c)) = Numbers(Tail(c))
      BY <2>2, NumbersTail
    <3> QED
      BY <2>2, <3>1, <3>2
  <2>4. Channel = "up" /\ Channel' = "up"
    BY <1>2, <1>3, <1>4, <2>1
  <2>5. Ordered!Deliver
    BY <2>1, <2>3, <2>4 DEF Ordered!Deliver, Channel, Pending, Waiting
  <2> QED
    BY <2>5 DEF Ordered!Next
<1>13. ASSUME readyState' = "closed", UNCHANGED <<delivered, thrown>>
       PROVE  Ordered!Next \/ UNCHANGED Seen
  <2>1. Channel' = "down" /\ Pending' = <<>>
    BY <1>13 DEF Channel, Pending, Usable
  <2>2. CASE Channel = "down"
    <3>1. Pending = <<>>
      BY <2>2 DEF Channel, Pending
    <3> QED
      BY <1>13, <2>1, <2>2, <3>1
  <2>3. CASE Channel # "down"
    <3>1. Ordered!GoDown
      BY <1>13, <2>1, <2>3 DEF Ordered!GoDown, Channel, Pending, Waiting
    <3> QED
      BY <3>1 DEF Ordered!Next
  <2> QED
    BY <2>2, <2>3
<1>14. CASE ChannelCloses
  BY <1>13, <1>14 DEF ChannelCloses
<1>15. CASE Close
  BY <1>13, <1>15 DEF Close
<1> QED
  BY <1>6, <1>7, <1>8, <1>10, <1>11, <1>12, <1>14, <1>15 DEF ChannelStep

LEMMA InitOrdered == Init => Ordered!Init
  BY DEF Init, Ordered!Init, Usable

\* The data channel implements OrderedDelivery: whatever the sizes of the messages and whenever
\* the buffer fills, drains, throws or the channel goes down, what send accepts is delivered in
\* the order of the calls and with none left out (send, drainSendQueue).
THEOREM ChannelDeliversInOrder == Spec => DeliversInOrder
<1>1. SInv /\ [Next]_vars => SInv'
  BY NextIsChannelStep, SInvKept
<1>2. SInv /\ SInv' /\ [Next]_vars => [Ordered!Next]_<<Channel, Pending, delivered, thrown>>
  BY NextIsChannelStep, StepOrdered
<1> QED
  BY <1>1, <1>2, SInvStarts, InitOrdered, PTL
  DEF Spec, DeliversInOrder, Ordered!Spec, Channel, Pending, Waiting

\* The same with the coordinator on top of the channel: BITFIELD, HAVE, REQUEST and PIECE frames
\* arrive in the order they were handed to send (broadcastMessage, handleDataMessage).
THEOREM ExchangeDeliversInOrder == ExchangeSpec => DeliversInOrder
<1>1. ExchangeInit => SInv /\ Ordered!Init
  BY SInvStarts, InitOrdered DEF ExchangeInit
<1>2. [ExchangeNext]_allVars => [ChannelStep]_vars
  BY ExchangeNextIsChannelStep DEF allVars
<1>3. SInv /\ [ExchangeNext]_allVars => SInv'
  BY <1>2, SInvKept
<1>4. SInv /\ SInv' /\ [ExchangeNext]_allVars => [Ordered!Next]_<<Channel, Pending, delivered, thrown>>
  BY <1>2, StepOrdered
<1> QED
  BY <1>1, <1>3, <1>4, PTL
  DEF ExchangeSpec, DeliversInOrder, Ordered!Spec, Channel, Pending, Waiting

-----------------------------------------------------------------------------
(***************************************************************************)
(* Bitfields: what their operations do to the set of chunks they stand     *)
(* for.                                                                    *)
(***************************************************************************)
\* Induction over the numbers, for a set of them.
LEMMA Induct == ASSUME NEW T, 0 \in T, \A k \in Nat : k \in T => k + 1 \in T PROVE Nat \subseteq T
<1> SUFFICES ASSUME Nat \ T # {} PROVE FALSE
  OBVIOUS
<1>1. PICK x \in Nat \ T : \A y \in Nat \ T : ~(<<y, x>> \in OpToRel(<, Nat))
  BY NatLessThanWellFounded, WFMin
<1>2. x # 0 /\ x - 1 \in Nat
  OBVIOUS
<1>3. <<x - 1, x>> \in OpToRel(<, Nat)
  BY <1>2 DEF OpToRel
<1>4. x - 1 \in T
  BY <1>1, <1>2, <1>3
<1> QED
  BY <1>2, <1>4

\* The bitfields of fromBytes: as many bytes as the chunks need.
Byte == 0..255
Bitfields == {bf \in [totalChunks : Nat, bytes : Seq(Byte)] : Fits(bf.totalChunks, bf.bytes)}

-----------------------------------------------------------------------------
\* The masks are the eight powers of two, a different one for each bit of a byte.
Masks == {128, 64, 32, 16, 8, 4, 2, 1}

LEMMA MaskValues ==
    ASSUME NEW i \in Nat
    PROVE  /\ Mask(i) \in Masks
           /\ \A k \in Nat : Mask(k) = Mask(i) => k % 8 = i % 8
<1>1. \A k \in Nat : k % 8 \in {0, 1, 2, 3, 4, 5, 6, 7}
  OBVIOUS
<1>2. \A k \in Nat : /\ k % 8 = 0 => Mask(k) = 128
                     /\ k % 8 = 1 => Mask(k) = 64
                     /\ k % 8 = 2 => Mask(k) = 32
                     /\ k % 8 = 3 => Mask(k) = 16
                     /\ k % 8 = 4 => Mask(k) = 8
                     /\ k % 8 = 5 => Mask(k) = 4
                     /\ k % 8 = 6 => Mask(k) = 2
                     /\ k % 8 = 7 => Mask(k) = 1
  BY DEF Mask
<1>3. Mask(i) \in Masks
  BY <1>1, <1>2 DEF Masks
<1>4. ASSUME NEW k \in Nat, Mask(k) = Mask(i) PROVE k % 8 = i % 8
  BY <1>1, <1>2, <1>4
<1> QED
  BY <1>3, <1>4

\* To add the value of a bit that is not set sets it and touches no other.
LEMMA AddingMask ==
    ASSUME NEW b \in Byte, NEW m \in Masks, (b \div m) % 2 # 1
    PROVE  /\ b + m \in Byte
           /\ \A k \in Masks : ((b + m) \div k) % 2 = 1 <=> k = m \/ (b \div k) % 2 = 1
<1> USE DEF Byte, Masks
<1>1. CASE m = 128
  BY <1>1, SMT
<1>2. CASE m = 64
  BY <1>2, SMT
<1>3. CASE m = 32
  BY <1>3, SMT
<1>4. CASE m = 16
  BY <1>4, SMT
<1>5. CASE m = 8
  BY <1>5, SMT
<1>6. CASE m = 4
  BY <1>6, SMT
<1>7. CASE m = 2
  BY <1>7, SMT
<1>8. CASE m = 1
  BY <1>8, SMT
<1> QED
  BY <1>1, <1>2, <1>3, <1>4, <1>5, <1>6, <1>7, <1>8

\* Each chunk has a byte and a bit of its own.
LEMMA Positions ==
    ASSUME NEW i \in Nat
    PROVE  /\ \A n \in Nat : i < n => ByteIndex(i) \in 1..ByteLength(n)
           /\ \A k \in Nat : ByteIndex(k) = ByteIndex(i) /\ k % 8 = i % 8 => k = i
<1>1. ASSUME NEW n \in Nat, i < n PROVE ByteIndex(i) \in 1..ByteLength(n)
  BY <1>1, SMT DEF ByteIndex, ByteLength
<1>2. \A k \in Nat : k = 8 * (k \div 8) + (k % 8)
  BY SMT
<1>3. ASSUME NEW k \in Nat, ByteIndex(k) = ByteIndex(i), k % 8 = i % 8 PROVE k = i
  <2>1. k \div 8 = i \div 8
    BY <1>3, SMT DEF ByteIndex
  <2> QED
    BY <1>2, <1>3, <2>1
<1> QED
  BY <1>1, <1>3

\* set (bitfield.ts): the chunk's bit, and no other.
LEMMA WithBitSets ==
    ASSUME NEW bf \in Bitfields, NEW i \in Nat, i < bf.totalChunks
    PROVE  /\ WithBit(bf, i) \in Bitfields
           /\ WithBit(bf, i).totalChunks = bf.totalChunks
           /\ AvailableIndices(WithBit(bf, i)) = AvailableIndices(bf) \cup {i}
<1> DEFINE n == bf.totalChunks
           B == ByteIndex(i)
           set == [bf.bytes EXCEPT ![B] = @ + Mask(i)]
           new == [totalChunks |-> n, bytes |-> set]
<1>1. /\ n \in Nat /\ bf.bytes \in Seq(Byte) /\ Len(bf.bytes) = ByteLength(n)
      /\ bf = [totalChunks |-> n, bytes |-> bf.bytes]
  BY DEF Bitfields, Fits
<1>2. B \in 1..Len(bf.bytes) /\ bf.bytes[B] \in Byte /\ Mask(i) \in Masks
  BY <1>1, Positions, MaskValues, ElementOfSeq
<1>3. CASE Has(bf, i)
  BY <1>1, <1>3 DEF WithBit, AvailableIndices, Indices
<1>4. CASE ~Has(bf, i)
  <2>1. WithBit(bf, i) = new
    BY <1>1, <1>4 DEF WithBit
  <2>2. (bf.bytes[B] \div Mask(i)) % 2 # 1
    BY <1>4 DEF Has, InBounds
  <2>3. /\ bf.bytes[B] + Mask(i) \in Byte
        /\ \A m \in Masks : ((bf.bytes[B] + Mask(i)) \div m) % 2 = 1
                               <=> m = Mask(i) \/ (bf.bytes[B] \div m) % 2 = 1
    BY <1>2, <2>2, AddingMask
  <2>4. /\ set \in Seq(Byte) /\ Len(set) = Len(bf.bytes)
        /\ set[B] = bf.bytes[B] + Mask(i)
        /\ \A c \in 1..Len(bf.bytes) : c # B => set[c] = bf.bytes[c]
    BY <1>1, <1>2, <2>3, ExceptSeq
  <2> HIDE DEF set
  <2>5. new \in Bitfields /\ new.totalChunks = n
    BY <1>1, <2>4 DEF Bitfields, Fits
  <2>6. ASSUME NEW k \in Nat, k < n
        PROVE  Has(new, k) <=> k = i \/ Has(bf, k)
    <3>1. ByteIndex(k) \in 1..Len(bf.bytes) /\ Mask(k) \in Masks
      BY <1>1, <2>6, Positions, MaskValues
    <3>2. /\ Has(new, k) <=> (set[ByteIndex(k)] \div Mask(k)) % 2 = 1
          /\ Has(bf, k) <=> (bf.bytes[ByteIndex(k)] \div Mask(k)) % 2 = 1
      BY <2>6 DEF Has, InBounds
    <3>3. CASE ByteIndex(k) = B
      <4>1. Mask(k) = Mask(i) <=> k = i
        BY <3>3, MaskValues, Positions
      <4> QED
        BY <2>3, <2>4, <3>1, <3>2, <3>3, <4>1
    <3>4. CASE ByteIndex(k) # B
      BY <2>4, <3>1, <3>2, <3>4
    <3> QED
      BY <3>3, <3>4
  <2>7. AvailableIndices(new) = AvailableIndices(bf) \cup {i}
    BY <1>1, <2>5, <2>6 DEF AvailableIndices, Indices
  <2> QED
    BY <1>1, <2>1, <2>5, <2>7
<1> QED
  BY <1>3, <1>4

\* new Bitfield: no bit is set.
LEMMA EmptyIsEmpty ==
    ASSUME NEW n \in Nat
    PROVE  /\ EmptyBitfield(n) \in Bitfields
           /\ EmptyBitfield(n).totalChunks = n
           /\ AvailableIndices(EmptyBitfield(n)) = {}
<1> DEFINE zeros == [k \in 1..ByteLength(n) |-> 0]
<1>1. ByteLength(n) \in Nat
  BY SMT DEF ByteLength
<1>2. zeros \in [1..ByteLength(n) -> Byte] /\ zeros \in Seq(Byte) /\ Len(zeros) = ByteLength(n)
  BY <1>1 DEF Byte
<1>3. \A i \in Nat : i < n => zeros[ByteIndex(i)] = 0 /\ Mask(i) \in Masks
  BY Positions, MaskValues
<1>4. \A m \in Masks : (0 \div m) % 2 # 1
  BY SMT DEF Masks
<1> HIDE DEF zeros
<1>5. EmptyBitfield(n) = [totalChunks |-> n, bytes |-> zeros]
  BY DEF EmptyBitfield, zeros
<1>6. EmptyBitfield(n) \in Bitfields
  BY <1>2, <1>5 DEF Bitfields, Fits
<1>7. \A i \in Indices(EmptyBitfield(n)) : ~Has(EmptyBitfield(n), i)
  BY <1>3, <1>4, <1>5 DEF Indices, Has
<1> QED
  BY <1>5, <1>6, <1>7 DEF AvailableIndices

\* The loop of startDownload that sets one bit after the other, in whatever order: its steps.
Chosen(s) == CHOOSE x \in s : TRUE
Filled(g, n, s) == IF s = {} THEN EmptyBitfield(n) ELSE WithBit(g[s \ {Chosen(s)}], Chosen(s))
Fills(g, n, S) == g = [s \in SUBSET S |-> Filled(g, n, s)]
UpToSize(S, k) == {s \in SUBSET S : Cardinality(s) <= k}

\* The subsets of S, by their size: one element less leads from each size to the one below.
LEMMA SmallerSets ==
    ASSUME NEW S, IsFiniteSet(S), NEW k \in Nat
    PROVE  /\ UpToSize(S, 0) = {{}}
           /\ UpToSize(S, k) \subseteq UpToSize(S, k + 1)
           /\ \A s \in UpToSize(S, k + 1) : s # {} => Chosen(s) \in s /\ s \ {Chosen(s)} \in UpToSize(S, k)
           /\ UpToSize(S, Cardinality(S)) = SUBSET S
<1>1. \A s \in SUBSET S : /\ IsFiniteSet(s) /\ Cardinality(s) \in Nat
                          /\ Cardinality(s) <= Cardinality(S)
                          /\ s = {} <=> Cardinality(s) = 0
  BY FS_Subset, FS_CardinalityType, FS_EmptySet
<1>2. ASSUME NEW s \in UpToSize(S, k + 1), s # {}
      PROVE  Chosen(s) \in s /\ s \ {Chosen(s)} \in UpToSize(S, k)
  <2>1. Chosen(s) \in s
    BY <1>2 DEF Chosen
  <2>2. Cardinality(s \ {Chosen(s)}) = Cardinality(s) - 1
    BY <1>1, <2>1, FS_RemoveElement DEF UpToSize
  <2> QED
    BY <1>1, <2>1, <2>2 DEF UpToSize
<1>3. UpToSize(S, 0) = {{}}
  <2>1. \A s \in SUBSET S : Cardinality(s) <= 0 <=> s = {}
    BY <1>1
  <2> QED
    BY <2>1 DEF UpToSize
<1>4. UpToSize(S, k) \subseteq UpToSize(S, k + 1)
  BY <1>1 DEF UpToSize
<1>5. UpToSize(S, Cardinality(S)) = SUBSET S
  BY <1>1 DEF UpToSize
<1> QED
  BY <1>2, <1>3, <1>4, <1>5

\* There is a function that BitfieldOf's fold computes.
LEMMA FillingIsDefined ==
    ASSUME NEW S, IsFiniteSet(S), NEW n
    PROVE  \E g : Fills(g, n, S)
<1> DEFINE Begins(g, k) == g = [s \in UpToSize(S, k) |-> Filled(g, n, s)]
           T == {k \in Nat : \E g : Begins(g, k)}
<1>1. 0 \in T
  <2> DEFINE g == [s \in UpToSize(S, 0) |-> EmptyBitfield(n)]
  <2>1. Begins(g, 0)
    BY SmallerSets DEF Filled
  <2> QED
    BY <2>1
<1>2. ASSUME NEW k \in Nat, k \in T PROVE k + 1 \in T
  <2>1. PICK g : Begins(g, k)
    BY <1>2
  <2> DEFINE h == [s \in UpToSize(S, k + 1) |-> Filled(g, n, s)]
  <2>2. \A s \in UpToSize(S, k) : h[s] = g[s]
    <3>1. \A s \in UpToSize(S, k) : g[s] = Filled(g, n, s)
      BY <2>1
    <3> QED
      BY <3>1, SmallerSets
  <2>3. \A s \in UpToSize(S, k + 1) : Filled(h, n, s) = Filled(g, n, s)
    <3> HIDE DEF h
    <3> QED
      BY <2>2, SmallerSets DEF Filled
  <2>4. h = [s \in UpToSize(S, k + 1) |-> Filled(h, n, s)]
    <3> DEFINE e == [s \in UpToSize(S, k + 1) |-> Filled(h, n, s)]
    <3> HIDE DEF h
    <3>1. \A s \in UpToSize(S, k + 1) : e[s] = Filled(g, n, s)
      BY <2>3
    <3>2. h = e
      BY <3>1 DEF h
    <3> QED
      BY <3>2
  <2>5. Begins(h, k + 1)
    BY <2>4
  <2> HIDE DEF h
  <2> QED
    BY <2>5
<1>3. Cardinality(S) \in T
  <2> HIDE DEF T
  <2>1. Nat \subseteq T
    BY <1>1, <1>2, Induct
  <2> QED
    BY <2>1, FS_CardinalityType
<1> QED
  BY <1>3, SmallerSets DEF Fills

\* startDownload's bitfield says what the store has.
LEMMA BitfieldOfSets ==
    ASSUME NEW n \in Nat, NEW S \in SUBSET (0..(n - 1))
    PROVE  /\ BitfieldOf(n, S) \in Bitfields
           /\ BitfieldOf(n, S).totalChunks = n
           /\ AvailableIndices(BitfieldOf(n, S)) = S
<1>1. IsFiniteSet(S)
  <2>1. 0 \in Int /\ n - 1 \in Int
    OBVIOUS
  <2>2. IsFiniteSet(0..(n - 1))
    BY <2>1, FS_Interval
  <2> QED
    BY <2>2, FS_Subset
<1> DEFINE g == CHOOSE h : Fills(h, n, S)
<1>2. BitfieldOf(n, S) = g[S]
  BY Zenon DEF BitfieldOf, FoldSet, MapThenFoldSet, Fills, Filled, Chosen
<1>3. Fills(g, n, S)
  BY <1>1, FillingIsDefined, Zenon
<1> HIDE DEF g
<1> DEFINE Right(s) == g[s] \in Bitfields /\ g[s].totalChunks = n /\ AvailableIndices(g[s]) = s
           T == {k \in Nat : \A s \in UpToSize(S, k) : Right(s)}
<1>4. \A s \in SUBSET S : g[s] = Filled(g, n, s)
  BY <1>3 DEF Fills
<1>5. 0 \in T
  <2>1. g[{}] = EmptyBitfield(n)
    BY <1>4 DEF Filled
  <2>2. Right({})
    BY <2>1, EmptyIsEmpty
  <2> HIDE DEF Right
  <2> QED
    BY <1>1, <2>2, SmallerSets
<1>6. ASSUME NEW k \in Nat, k \in T PROVE k + 1 \in T
  <2>1. ASSUME NEW s \in UpToSize(S, k + 1), s # {} PROVE Right(s)
    <3> DEFINE x == Chosen(s)
               less == s \ {x}
    <3>1. x \in s /\ Right(less)
      BY <1>1, <1>6, <2>1, SmallerSets
    <3>2. g[s] = WithBit(g[less], x)
      BY <1>4, <2>1 DEF Filled, UpToSize
    <3>3. x \in Nat /\ x < n
      <4>1. s \subseteq 0..(n - 1)
        BY DEF UpToSize
      <4> HIDE DEF x
      <4> QED
        BY <3>1, <4>1
    <3> HIDE DEF x
    <3>4. /\ WithBit(g[less], x) \in Bitfields
          /\ WithBit(g[less], x).totalChunks = n
          /\ AvailableIndices(WithBit(g[less], x)) = less \cup {x}
      BY <3>1, <3>3, WithBitSets
    <3> QED
      BY <3>1, <3>2, <3>4
  <2>2. Right({})
    <3>1. g[{}] = EmptyBitfield(n)
      BY <1>4 DEF Filled
    <3> QED
      BY <3>1, EmptyIsEmpty
  <2> HIDE DEF Right
  <2> QED
    BY <2>1, <2>2
<1>7. Cardinality(S) \in T
  <2> HIDE DEF T
  <2>1. Nat \subseteq T
    BY <1>5, <1>6, Induct
  <2> QED
    BY <1>1, <2>1, FS_CardinalityType
<1>8. Right(S)
  BY <1>1, <1>7, SmallerSets
<1> QED
  BY <1>2, <1>8

\* What takes the value of a bit that is set away clears it and touches no other.
LEMMA TakingMask ==
    ASSUME NEW b \in Byte, NEW m \in Masks, (b \div m) % 2 = 1
    PROVE  /\ b - m \in Byte
           /\ \A k \in Masks : ((b - m) \div k) % 2 = 1 <=> k # m /\ (b \div k) % 2 = 1
<1> USE DEF Byte, Masks
<1>1. CASE m = 128
  BY <1>1, SMT
<1>2. CASE m = 64
  BY <1>2, SMT
<1>3. CASE m = 32
  BY <1>3, SMT
<1>4. CASE m = 16
  BY <1>4, SMT
<1>5. CASE m = 8
  BY <1>5, SMT
<1>6. CASE m = 4
  BY <1>6, SMT
<1>7. CASE m = 2
  BY <1>7, SMT
<1>8. CASE m = 1
  BY <1>8, SMT
<1> QED
  BY <1>1, <1>2, <1>3, <1>4, <1>5, <1>6, <1>7, <1>8

\* clear (bitfield.ts): the chunk's bit, and no other.
LEMMA WithoutBitClears ==
    ASSUME NEW bf \in Bitfields, NEW i \in Nat, i < bf.totalChunks
    PROVE  AvailableIndices(WithoutBit(bf, i)) = AvailableIndices(bf) \ {i}
<1> DEFINE n == bf.totalChunks
           B == ByteIndex(i)
           cleared == [bf.bytes EXCEPT ![B] = @ - Mask(i)]
           new == [totalChunks |-> n, bytes |-> cleared]
<1>1. /\ n \in Nat /\ bf.bytes \in Seq(Byte) /\ Len(bf.bytes) = ByteLength(n)
      /\ bf = [totalChunks |-> n, bytes |-> bf.bytes]
  BY DEF Bitfields, Fits
<1>2. B \in 1..Len(bf.bytes) /\ bf.bytes[B] \in Byte /\ Mask(i) \in Masks
  BY <1>1, Positions, MaskValues, ElementOfSeq
<1>3. CASE ~Has(bf, i)
  BY <1>1, <1>3 DEF WithoutBit, AvailableIndices, Indices
<1>4. CASE Has(bf, i)
  <2>1. WithoutBit(bf, i) = new
    BY <1>1, <1>4 DEF WithoutBit
  <2>2. (bf.bytes[B] \div Mask(i)) % 2 = 1
    BY <1>4 DEF Has, InBounds
  <2>3. /\ bf.bytes[B] - Mask(i) \in Byte
        /\ \A m \in Masks : ((bf.bytes[B] - Mask(i)) \div m) % 2 = 1
                               <=> m # Mask(i) /\ (bf.bytes[B] \div m) % 2 = 1
    BY <1>2, <2>2, TakingMask
  <2>4. /\ cleared[B] = bf.bytes[B] - Mask(i)
        /\ \A c \in 1..Len(bf.bytes) : c # B => cleared[c] = bf.bytes[c]
    BY <1>1, <1>2, <2>3, ExceptSeq
  <2> HIDE DEF cleared
  <2>5. ASSUME NEW k \in Nat, k < n
        PROVE  Has(new, k) <=> k # i /\ Has(bf, k)
    <3>1. ByteIndex(k) \in 1..Len(bf.bytes) /\ Mask(k) \in Masks
      BY <1>1, <2>5, Positions, MaskValues
    <3>2. /\ Has(new, k) <=> (cleared[ByteIndex(k)] \div Mask(k)) % 2 = 1
          /\ Has(bf, k) <=> (bf.bytes[ByteIndex(k)] \div Mask(k)) % 2 = 1
      BY <2>5 DEF Has, InBounds
    <3>3. CASE ByteIndex(k) = B
      <4>1. Mask(k) = Mask(i) <=> k = i
        BY <3>3, MaskValues, Positions
      <4> QED
        BY <2>3, <2>4, <3>1, <3>2, <3>3, <4>1
    <3>4. CASE ByteIndex(k) # B
      BY <2>4, <3>1, <3>2, <3>4
    <3> QED
      BY <3>3, <3>4
  <2>6. AvailableIndices(new) = AvailableIndices(bf) \ {i}
    BY <1>1, <2>5 DEF AvailableIndices, Indices
  <2> QED
    BY <2>1, <2>6
<1> QED
  BY <1>3, <1>4

\* A bitfield is complete when the chunks in it are all there are.
LEMMA CompleteIsAll ==
    ASSUME NEW bf \in Bitfields
    PROVE  IsComplete(bf) <=> AvailableIndices(bf) = 0..(bf.totalChunks - 1)
<1> DEFINE n == bf.totalChunks
           S == AvailableIndices(bf)
<1>1. n \in Nat /\ S \subseteq 0..(n - 1)
  BY DEF Bitfields, AvailableIndices, Indices
<1> HIDE DEF n, S
<1>2. IsFiniteSet(0..(n - 1)) /\ Cardinality(0..(n - 1)) = n
  <2>1. 0 \in Int /\ n - 1 \in Int
    BY <1>1
  <2>2. IsFiniteSet(0..(n - 1)) /\ Cardinality(0..(n - 1)) = IF 0 > n - 1 THEN 0 ELSE n - 1 - 0 + 1
    BY <2>1, FS_Interval
  <2> QED
    BY <1>1, <2>2
<1>3. S = 0..(n - 1) <=> Cardinality(S) = n
  BY <1>1, <1>2, FS_Subset
<1> QED
  BY <1>3 DEF IsComplete, Count, n, S

\* What bitfields do to the sets they stand for (BitfieldsFaithful), for every number of chunks.
LEMMA BitfieldsStandForSets ==
    ASSUME NEW n \in Nat, NEW s \in SUBSET (0..(n - 1))
    PROVE  LET bf == BitfieldOf(n, s)
           IN  /\ AvailableIndices(bf) = s
               /\ MissingIndices(bf) = (0..(n - 1)) \ s
               /\ IsComplete(bf) <=> bf = AllOf(n)
               /\ Fits(n, bf.bytes)
               /\ \A i \in 0..(n - 1) : /\ AvailableIndices(WithBit(bf, i)) = s \cup {i}
                                        /\ AvailableIndices(WithoutBit(bf, i)) = s \ {i}
<1> DEFINE bf == BitfieldOf(n, s)
           all == 0..(n - 1)
<1>1. bf \in Bitfields /\ bf.totalChunks = n /\ AvailableIndices(bf) = s
  BY BitfieldOfSets
<1>2. AvailableIndices(AllOf(n)) = all
  BY BitfieldOfSets DEF AllOf
<1>3. s = all => bf = AllOf(n)
  BY DEF AllOf
<1> HIDE DEF bf
<1>4. MissingIndices(bf) = all \ s
  BY <1>1 DEF MissingIndices, AvailableIndices, Indices
<1>5. IsComplete(bf) <=> bf = AllOf(n)
  <2>1. IsComplete(bf) <=> s = all
    BY <1>1, CompleteIsAll
  <2> QED
    BY <1>1, <1>2, <1>3, <2>1
<1>6. Fits(n, bf.bytes)
  BY <1>1 DEF Bitfields
<1>7. ASSUME NEW i \in all
      PROVE  /\ AvailableIndices(WithBit(bf, i)) = s \cup {i}
             /\ AvailableIndices(WithoutBit(bf, i)) = s \ {i}
  <2>1. i \in Nat /\ i < bf.totalChunks
    BY <1>1
  <2> QED
    BY <1>1, <2>1, WithBitSets, WithoutBitClears
<1> QED
  BY <1>1, <1>4, <1>5, <1>6, <1>7 DEF bf

-----------------------------------------------------------------------------
(***************************************************************************)
(* The codec: what encoders write, decodeMessage reads.                    *)
(***************************************************************************)
\* What getUint32 and setUint32 agree on, and resource ids encodeCommonHeader takes.
Uint32Limit == 65536 * 65536
ResourceIds == {id \in Seq(Byte) : Len(id) \in Byte}

\* getUint32 reads what setUint32 writes.
LEMMA Uint32Bytes ==
    ASSUME NEW n \in Nat, n < Uint32Limit
    PROVE  /\ Uint32(n) \in Seq(Byte) /\ Len(Uint32(n)) = 4
           /\ ReadUint32(Uint32(n), 0) = n
<1>0. n < 65536 * 65536
  BY DEF Uint32Limit
<1>1. /\ n \div 16777216 \in 0..255 /\ (n \div 65536) % 256 \in 0..255
      /\ (n \div 256) % 256 \in 0..255 /\ n % 256 \in 0..255
  BY <1>0, SMT
<1>2. n = 256 * (n \div 256) + (n % 256)
  BY SMT
<1>3. n \div 256 = 256 * (n \div 65536) + ((n \div 256) % 256)
  BY SMT
<1>4. n \div 65536 = 256 * (n \div 16777216) + ((n \div 65536) % 256)
  BY SMT
<1>5. n \div 256 \in Nat /\ n \div 65536 \in Nat
  BY SMT
<1>6. (n \div 16777216) * 16777216 + ((n \div 65536) % 256) * 65536 + ((n \div 256) % 256) * 256
        + (n % 256) = n
  BY <1>1, <1>2, <1>3, <1>4, <1>5, SMT
<1>7. Uint32(n) \in Seq(Byte) /\ Len(Uint32(n)) = 4
  BY <1>1, SMT DEF Uint32, Byte
<1> QED
  BY <1>6, <1>7, SMT DEF Uint32, ReadUint32

\* What every frame is, and what is where in it.
IsFrame(f, type, id, rest) ==
    /\ type \in Byte /\ id \in ResourceIds /\ rest \in Seq(Byte)
    /\ f = Header(type, id) \o rest
End(id) == 3 + Len(id)
Opened(f, type, id) ==
    f[1] = CAMPUS_MESH_PROTOCOL_VERSION /\ f[2] = type /\ f[3] = Len(id) /\ SubSeq(f, 4, End(id)) = id
Follows(f, at, rest) ==
    /\ f \in Seq(Byte) /\ Len(f) = at + Len(rest) /\ at \in Nat
    /\ \A k \in 1..Len(rest) : f[at + k] = rest[k]

LEMMA FrameInParts ==
    ASSUME NEW type \in Byte, NEW id \in ResourceIds, NEW a \in Seq(Byte), NEW b \in Seq(Byte)
    PROVE  IsFrame(Header(type, id) \o a \o b, type, id, a \o b)
<1> DEFINE h == Header(type, id)
<1>1. h \in Seq(Byte)
  BY DEF Header, CAMPUS_MESH_PROTOCOL_VERSION, ResourceIds, Byte
<1> HIDE DEF h
<1>2. (h \o a) \o b = h \o (a \o b)
  BY <1>1, ConcatAssociative
<1>3. a \o b \in Seq(Byte)
  OBVIOUS
<1> QED
  BY <1>2, <1>3 DEF IsFrame, h

LEMMA FrameParts ==
    ASSUME NEW f, NEW type, NEW id, NEW rest, IsFrame(f, type, id, rest)
    PROVE  Opened(f, type, id) /\ Follows(f, End(id), rest)
<1> DEFINE at == End(id)
<1>0. type \in Byte /\ id \in ResourceIds /\ rest \in Seq(Byte) /\ f = Header(type, id) \o rest
  BY DEF IsFrame
<1> DEFINE head == <<CAMPUS_MESH_PROTOCOL_VERSION, type, Len(id)>>
<1>1. /\ id \in Seq(Byte) /\ Len(id) \in Nat /\ Len(rest) \in Nat
      /\ at \in Nat /\ at = 3 + Len(id)
  BY <1>0 DEF ResourceIds, Byte, End
<1> HIDE DEF at
<1>2. head \in Seq(Byte) /\ Len(head) = 3 /\ head[1] = CAMPUS_MESH_PROTOCOL_VERSION
      /\ head[2] = type /\ head[3] = Len(id)
  BY <1>0 DEF CAMPUS_MESH_PROTOCOL_VERSION, ResourceIds, Byte
<1> HIDE DEF head
<1>3. Header(type, id) = head \o id
  BY DEF Header, head
<1> DEFINE whole == Header(type, id)
<1>4. /\ whole \in Seq(Byte) /\ Len(whole) = at
      /\ \A k \in 1..at : whole[k] = IF k <= 3 THEN head[k] ELSE id[k - 3]
  <2>1. /\ head \o id \in Seq(Byte) /\ Len(head \o id) = Len(head) + Len(id)
        /\ \A k \in 1..(Len(head) + Len(id)) :
              (head \o id)[k] = IF k <= Len(head) THEN head[k] ELSE id[k - Len(head)]
    BY <1>1, <1>2, ConcatProperties
  <2> QED
    BY <1>1, <1>2, <1>3, <2>1
<1> HIDE DEF whole
<1>5. /\ f \in Seq(Byte) /\ Len(f) = at + Len(rest)
      /\ \A k \in 1..(at + Len(rest)) : f[k] = IF k <= at THEN whole[k] ELSE rest[k - at]
  <2>1. f = whole \o rest
    BY <1>0 DEF whole
  <2>2. /\ whole \o rest \in Seq(Byte) /\ Len(whole \o rest) = Len(whole) + Len(rest)
        /\ \A k \in 1..(Len(whole) + Len(rest)) :
              (whole \o rest)[k] = IF k <= Len(whole) THEN whole[k] ELSE rest[k - Len(whole)]
    BY <1>0, <1>4, ConcatProperties
  <2> QED
    BY <1>4, <2>1, <2>2
<1>6. \A k \in 1..at : f[k] = IF k <= 3 THEN head[k] ELSE id[k - 3]
  BY <1>1, <1>4, <1>5
<1>7. \A k \in 1..Len(rest) : f[at + k] = rest[k]
  BY <1>1, <1>5
<1>8. f[1] = CAMPUS_MESH_PROTOCOL_VERSION /\ f[2] = type /\ f[3] = Len(id)
  BY <1>1, <1>2, <1>6
<1>9. SubSeq(f, 4, at) = id
  <2>1. \A k \in 4..at : f[k] \in Byte
    BY <1>1, <1>5, ElementOfSeq
  <2>2. /\ SubSeq(f, 4, at) \in Seq(Byte)
        /\ Len(SubSeq(f, 4, at)) = IF 4 <= at THEN at - 4 + 1 ELSE 0
        /\ \A k \in 1..(at - 4 + 1) : SubSeq(f, 4, at)[k] = f[4 + k - 1]
    BY <1>1, <2>1, SubSeqProperties
  <2>3. Len(SubSeq(f, 4, at)) = Len(id)
    BY <1>1, <2>2
  <2>4. \A k \in 1..Len(id) : SubSeq(f, 4, at)[k] = id[k]
    BY <1>1, <1>6, <2>2
  <2> QED
    BY <1>1, <2>2, <2>3, <2>4, SeqEqual
<1>10. Opened(f, type, id)
  BY <1>8, <1>9 DEF Opened, at
<1>11. Follows(f, at, rest)
  BY <1>1, <1>5, <1>7 DEF Follows
<1> QED
  BY <1>10, <1>11 DEF at

\* A frame and what follows its header.
Carries(f, type, id, rest) ==
    id \in ResourceIds /\ rest \in Seq(Byte) /\ Opened(f, type, id) /\ Follows(f, End(id), rest)

LEMMA FramesCarry ==
    ASSUME NEW f, NEW type, NEW id, NEW rest, IsFrame(f, type, id, rest)
    PROVE  Carries(f, type, id, rest)
BY FrameParts, Zenon DEF IsFrame, Carries

LEMMA CarriedFacts ==
    ASSUME NEW f, NEW type, NEW id, NEW rest, Carries(f, type, id, rest)
    PROVE  /\ id \in ResourceIds /\ rest \in Seq(Byte)
           /\ f \in Seq(Byte) /\ Len(f) \in Nat /\ Len(rest) \in Nat /\ Len(id) \in Nat
           /\ End(id) = 3 + Len(id) /\ Len(f) = End(id) + Len(rest)
           /\ f[1] = CAMPUS_MESH_PROTOCOL_VERSION /\ f[2] = type /\ f[3] = Len(id)
           /\ SubSeq(f, 4, End(id)) = id
           /\ \A k \in 1..Len(rest) : f[End(id) + k] = rest[k]
<1>1. /\ id \in ResourceIds /\ rest \in Seq(Byte)
      /\ f \in Seq(Byte) /\ Len(f) = End(id) + Len(rest)
      /\ f[1] = CAMPUS_MESH_PROTOCOL_VERSION /\ f[2] = type /\ f[3] = Len(id)
      /\ SubSeq(f, 4, End(id)) = id
      /\ \A k \in 1..Len(rest) : f[End(id) + k] = rest[k]
  BY DEF Carries, Opened, Follows
<1>2. Len(f) \in Nat /\ Len(rest) \in Nat /\ Len(id) \in Nat
  BY <1>1 DEF ResourceIds
<1> QED
  BY <1>1, <1>2 DEF End

\* The numbers and bytes of a frame are those of its rest.
ReadsAs(f, at, rest) ==
    /\ \A k \in Nat : k + 4 <= Len(rest) => ReadUint32(f, at + k) = ReadUint32(rest, k)
    /\ \A a \in Nat \ {0}, b \in Nat : b <= Len(rest) =>
         SubSeq(f, at + a, at + b) = SubSeq(rest, a, b)

LEMMA ReadsRest ==
    ASSUME NEW f, NEW type, NEW id, NEW rest, Carries(f, type, id, rest)
    PROVE  ReadsAs(f, End(id), rest)
<1> DEFINE at == End(id)
<1>1. /\ f \in Seq(Byte) /\ rest \in Seq(Byte) /\ at \in Nat /\ Len(rest) \in Nat
      /\ Len(f) = at + Len(rest) /\ \A k \in 1..Len(rest) : f[at + k] = rest[k]
  BY CarriedFacts
<1> HIDE DEF at
<1>2. ASSUME NEW k \in Nat, k + 4 <= Len(rest) PROVE ReadUint32(f, at + k) = ReadUint32(rest, k)
  <2>1. \A j \in {1, 2, 3, 4} : f[at + (k + j)] = rest[k + j]
    BY <1>1, <1>2
  <2>2. \A j \in {1, 2, 3, 4} : at + (k + j) = (at + k) + j
    BY <1>1
  <2>3. \A j \in {1, 2, 3, 4} : f[(at + k) + j] = rest[k + j]
    BY <2>1, <2>2
  <2>4. /\ f[(at + k) + 1] = rest[k + 1] /\ f[(at + k) + 2] = rest[k + 2]
        /\ f[(at + k) + 3] = rest[k + 3] /\ f[(at + k) + 4] = rest[k + 4]
    BY <2>3
  <2> QED
    BY <2>4, SMT DEF ReadUint32
<1>3. ASSUME NEW a \in Nat \ {0}, NEW b \in Nat, b <= Len(rest)
      PROVE  SubSeq(f, at + a, at + b) = SubSeq(rest, a, b)
  <2> DEFINE s == SubSeq(f, at + a, at + b)
             t == SubSeq(rest, a, b)
  <2>1. /\ t \in Seq(Byte) /\ Len(t) = IF a <= b THEN b - a + 1 ELSE 0
        /\ \A k \in 1..(b - a + 1) : t[k] = rest[a + k - 1]
    <3>1. \A k \in a..b : rest[k] \in Byte
      BY <1>1, <1>3, ElementOfSeq
    <3> QED
      BY <1>1, <3>1, SubSeqProperties
  <2>2. /\ s \in Seq(Byte) /\ Len(s) = IF at + a <= at + b THEN (at + b) - (at + a) + 1 ELSE 0
        /\ \A k \in 1..((at + b) - (at + a) + 1) : s[k] = f[at + a + k - 1]
    <3>1. \A k \in (at + a)..(at + b) : f[k] \in Byte
      BY <1>1, <1>3, ElementOfSeq
    <3>2. at + a \in Int /\ at + b \in Int
      BY <1>1
    <3> QED
      BY <3>1, <3>2, SubSeqProperties
  <2> HIDE DEF s, t
  <2>3. Len(s) = Len(t) /\ (at + b) - (at + a) + 1 = b - a + 1
    BY <1>1, <2>1, <2>2
  <2>4. Len(t) \in Nat /\ \A k \in 1..Len(t) : k \in 1..(b - a + 1)
    BY <1>1, <2>1
  <2>5. ASSUME NEW k \in 1..Len(t) PROVE s[k] = t[k]
    <3>1. s[k] = f[at + a + k - 1] /\ t[k] = rest[a + k - 1]
      BY <2>1, <2>2, <2>3, <2>4
    <3>2. at + a + k - 1 = at + (a + k - 1) /\ a + k - 1 \in 1..Len(rest)
      BY <1>1, <1>3, <2>1, <2>4
    <3> QED
      BY <1>1, <3>1, <3>2
  <2>6. s = t
    BY <2>1, <2>2, <2>3, <2>4, <2>5, SeqEqual
  <2> QED
    BY <2>6 DEF s, t
<1> QED
  BY <1>2, <1>3 DEF ReadsAs, at

\* decodeMessage, by the type of the frame.
LEMMA CarriedDecodes ==
    ASSUME NEW f, NEW type, NEW id, NEW rest, Carries(f, type, id, rest)
    PROVE  DecodeMessage(f) = DecodeBody(f, type, id, End(id))
<1> DEFINE at == End(id)
<1>2. /\ Len(f) = at + Len(rest) /\ Len(rest) \in Nat /\ Len(id) \in Nat /\ at = 3 + Len(id)
      /\ f[1] = CAMPUS_MESH_PROTOCOL_VERSION /\ f[2] = type /\ f[3] = Len(id)
      /\ SubSeq(f, 4, at) = id
  BY CarriedFacts
<1> HIDE DEF at
<1>3. /\ ~(Len(f) < 3 \/ f[1] # CAMPUS_MESH_PROTOCOL_VERSION \/ Len(f) < 3 + f[3])
      /\ 3 + f[3] = at
  BY <1>2
<1>4. DecodeMessage(f) = DecodeBody(f, f[2], SubSeq(f, 4, 3 + f[3]), 3 + f[3])
  BY <1>3, Zenon DEF DecodeMessage
<1>5. DecodeMessage(f) = DecodeBody(f, type, id, at)
  BY <1>2, <1>3, <1>4
<1> QED
  BY <1>5 DEF at

LEMMA BodiesDecode ==
    ASSUME NEW f, NEW id, NEW at
    PROVE  /\ DecodeBody(f, TypeBitfield, id, at) = DecodeBitfield(f, id, at)
           /\ DecodeBody(f, TypeHave, id, at) = DecodeIndex(f, TypeHave, id, at)
           /\ DecodeBody(f, TypeRequest, id, at) = DecodeIndex(f, TypeRequest, id, at)
           /\ DecodeBody(f, TypePiece, id, at) = DecodePiece(f, id, at)
           /\ DecodeBody(f, TypeChoke, id, at) = [type |-> TypeChoke, resource |-> id]
           /\ DecodeBody(f, TypeUnchoke, id, at) = [type |-> TypeUnchoke, resource |-> id]
<1> USE DEF TypeBitfield, TypeHave, TypeRequest, TypePiece, TypeChoke, TypeUnchoke
<1>1. DecodeBody(f, TypeBitfield, id, at) = DecodeBitfield(f, id, at)
  BY DEF DecodeBody
<1>2. DecodeBody(f, TypeHave, id, at) = DecodeIndex(f, TypeHave, id, at)
  BY DEF DecodeBody
<1>3. DecodeBody(f, TypeRequest, id, at) = DecodeIndex(f, TypeRequest, id, at)
  BY DEF DecodeBody
<1>4. DecodeBody(f, TypePiece, id, at) = DecodePiece(f, id, at)
  BY DEF DecodeBody
<1>5. DecodeBody(f, TypeChoke, id, at) = [type |-> TypeChoke, resource |-> id]
  BY DEF DecodeBody
<1>6. DecodeBody(f, TypeUnchoke, id, at) = [type |-> TypeUnchoke, resource |-> id]
  BY DEF DecodeBody
<1> QED
  BY <1>1, <1>2, <1>3, <1>4, <1>5, <1>6

\* A sequence that is cut short.
LEMMA CutFacts ==
    ASSUME NEW s \in Seq(Byte), NEW m \in 0..(Len(s) - 1)
    PROVE  /\ SubSeq(s, 1, m) \in Seq(Byte) /\ Len(SubSeq(s, 1, m)) = m
           /\ \A k \in 1..m : SubSeq(s, 1, m)[k] = s[k]
<1> DEFINE short == SubSeq(s, 1, m)
<1>1. m \in Nat /\ Len(s) \in Nat
  OBVIOUS
<1>2. \A k \in 1..m : s[k] \in Byte
  BY <1>1, ElementOfSeq
<1>3. /\ short \in Seq(Byte) /\ Len(short) = IF 1 <= m THEN m - 1 + 1 ELSE 0
      /\ \A k \in 1..(m - 1 + 1) : short[k] = s[1 + k - 1]
  BY <1>1, <1>2, SubSeqProperties
<1> HIDE DEF short
<1>4. Len(short) = m
  BY <1>1, <1>3
<1>5. ASSUME NEW k \in 1..m PROVE short[k] = s[k]
  <2>1. k \in 1..(m - 1 + 1) /\ 1 + k - 1 = k
    BY <1>1
  <2>2. short[k] = s[1 + k - 1]
    BY <1>3, <2>1
  <2> QED
    BY <2>1, <2>2
<1> QED
  BY <1>3, <1>4, <1>5 DEF short

\* What is left of a frame that is cut short is refused, or is a frame of the same type whose rest
\* is cut short.
LEMMA CutShort ==
    ASSUME NEW f, NEW type, NEW id, NEW rest, Carries(f, type, id, rest),
           NEW n \in 0..(Len(f) - 1)
    PROVE  LET g == SubSeq(f, 1, n)
           IN  \/ DecodeMessage(g) = Malformed
               \/ \E m \in 0..(Len(rest) - 1) : Carries(g, type, id, SubSeq(rest, 1, m))
<1> DEFINE g == SubSeq(f, 1, n)
           at == End(id)
           m == n - at
           short == SubSeq(rest, 1, m)
<1>1. /\ f \in Seq(Byte) /\ Len(f) \in Nat /\ Len(rest) \in Nat /\ Len(id) \in Nat
      /\ id \in ResourceIds /\ rest \in Seq(Byte)
      /\ at = 3 + Len(id) /\ Len(f) = at + Len(rest)
      /\ f[1] = CAMPUS_MESH_PROTOCOL_VERSION /\ f[2] = type /\ f[3] = Len(id)
      /\ SubSeq(f, 4, at) = id
      /\ \A k \in 1..Len(rest) : f[at + k] = rest[k]
  BY CarriedFacts
<1> HIDE DEF at
<1>2. g \in Seq(Byte) /\ Len(g) = n /\ \A k \in 1..n : g[k] = f[k]
  BY <1>1, CutFacts
<1> HIDE DEF g
<1>3. CASE n < 3
  <2>1. Len(g) < 3
    BY <1>2, <1>3
  <2> QED
    BY <2>1, Zenon DEF DecodeMessage, g
<1>4. CASE n >= 3 /\ n < at
  <2>1. Len(g) < 3 + g[3]
    BY <1>1, <1>2, <1>4
  <2> QED
    BY <2>1, Zenon DEF DecodeMessage, g
<1>5. CASE n >= 3 /\ n >= at
  <2>1. m \in 0..(Len(rest) - 1)
    BY <1>1, <1>5
  <2>2. short \in Seq(Byte) /\ Len(short) = m /\ \A k \in 1..m : short[k] = rest[k]
    BY <1>1, <2>1, CutFacts
  <2>3. SubSeq(g, 4, at) = id
    <3> DEFINE s == SubSeq(g, 4, at)
               t == SubSeq(f, 4, at)
    <3>1. ASSUME NEW k \in 4..at PROVE g[k] \in Byte /\ f[k] = g[k] /\ f[k] \in Byte
      <4>1. k \in 1..n /\ k \in 1..Len(f) /\ n \in Nat
        BY <1>1, <1>5
      <4> QED
        BY <1>1, <1>2, <4>1, ElementOfSeq
    <3>2. /\ s \in Seq(Byte) /\ Len(s) = IF 4 <= at THEN at - 4 + 1 ELSE 0
          /\ \A k \in 1..(at - 4 + 1) : s[k] = g[4 + k - 1]
      BY <1>1, <3>1, SubSeqProperties
    <3>3. /\ t \in Seq(Byte) /\ Len(t) = IF 4 <= at THEN at - 4 + 1 ELSE 0
          /\ \A k \in 1..(at - 4 + 1) : t[k] = f[4 + k - 1]
      BY <1>1, <3>1, SubSeqProperties
    <3> HIDE DEF s, t
    <3>4. \A k \in 1..Len(t) : s[k] = t[k]
      <4> SUFFICES ASSUME NEW k \in 1..Len(t) PROVE s[k] = t[k]
        OBVIOUS
      <4>1. k \in 1..(at - 4 + 1) /\ 4 + k - 1 \in 4..at
        BY <1>1, <3>3
      <4> QED
        BY <3>1, <3>2, <3>3, <4>1
    <3>5. s = t
      BY <3>2, <3>3, <3>4, SeqEqual
    <3> QED
      BY <1>1, <3>5 DEF s, t
  <2>4. g[1] = CAMPUS_MESH_PROTOCOL_VERSION /\ g[2] = type /\ g[3] = Len(id)
    BY <1>1, <1>2, <1>5
  <2> HIDE DEF short
  <2>5. Opened(g, type, id)
    BY <2>3, <2>4 DEF Opened, at
  <2>6. Follows(g, at, short)
    <3>1. Len(g) = at + Len(short) /\ at \in Nat
      BY <1>1, <1>2, <2>1, <2>2
    <3>2. ASSUME NEW k \in 1..Len(short) PROVE g[at + k] = short[k]
      <4>1. at + k \in 1..n /\ k \in 1..Len(rest) /\ k \in 1..m
        BY <1>1, <1>2, <2>1, <2>2
      <4> QED
        BY <1>1, <1>2, <2>2, <4>1
    <3> QED
      BY <1>2, <3>1, <3>2 DEF Follows
  <2>7. Carries(g, type, id, short)
    BY <1>1, <2>2, <2>5, <2>6 DEF Carries, at
  <2> QED
    BY <2>1, <2>7 DEF short, g
<1>6. n < 3 \/ (n >= 3 /\ n < at) \/ (n >= 3 /\ n >= at)
  BY <1>1
<1> QED
  BY <1>3, <1>4, <1>5, <1>6, Zenon DEF g

LEMMA ReadsUint32 ==
    ASSUME NEW f, NEW at \in Nat, NEW n \in Nat, n < Uint32Limit,
           \A k \in 1..4 : f[at + k] = Uint32(n)[k]
    PROVE  ReadUint32(f, at) = n
<1>1. ReadUint32(f, at) = ReadUint32(Uint32(n), 0)
  BY SMT DEF ReadUint32
<1> QED
  BY <1>1, Uint32Bytes

LEMMA ReadsNat ==
    ASSUME NEW s \in Seq(Byte), NEW at \in Nat, at + 4 <= Len(s)
    PROVE  ReadUint32(s, at) \in Nat
<1>1. s[at + 1] \in Nat /\ s[at + 2] \in Nat /\ s[at + 3] \in Nat /\ s[at + 4] \in Nat
  <2>1. ASSUME NEW k \in 1..4 PROVE s[at + k] \in Nat
    <3>1. at + k \in 1..Len(s)
      OBVIOUS
    <3>2. s[at + k] \in Byte
      BY <3>1, ElementOfSeq
    <3>3. Byte \subseteq Nat
      BY DEF Byte
    <3> QED
      BY <3>2, <3>3, Zenon
  <2> QED
    BY <2>1
<1> DEFINE a == s[at + 1]
           b == s[at + 2]
           c == s[at + 3]
           d == s[at + 4]
<1>2. ReadUint32(s, at) = a * 16777216 + b * 65536 + c * 256 + d
  BY SMT DEF ReadUint32
<1>3. a \in Nat /\ b \in Nat /\ c \in Nat /\ d \in Nat
  BY <1>1, Zenon
<1> HIDE DEF a, b, c, d
<1>4. a * 16777216 + b * 65536 + c * 256 + d \in Nat
  BY <1>3, SMT
<1> QED
  BY <1>2, <1>4, SMT

\* HAVE and REQUEST, by what follows the header.
LEMMA IndexDecodes ==
    ASSUME NEW f, NEW type \in {TypeHave, TypeRequest}, NEW id, NEW rest, Carries(f, type, id, rest)
    PROVE  DecodeMessage(f) = IF Len(rest) < 4 THEN Malformed
                              ELSE [type |-> type, resource |-> id, chunk |-> ReadUint32(rest, 0)]
<1> DEFINE at == End(id)
<1>1. Len(f) = at + Len(rest) /\ Len(rest) \in Nat /\ Len(id) \in Nat /\ at = 3 + Len(id)
  BY CarriedFacts
<1>2. DecodeMessage(f) = DecodeIndex(f, type, id, at)
  <2>1. DecodeMessage(f) = DecodeBody(f, type, id, at)
    BY CarriedDecodes, Zenon
  <2>2. DecodeBody(f, type, id, at) = DecodeIndex(f, type, id, at)
    BY BodiesDecode
  <2> QED
    BY <2>1, <2>2
<1>0. ReadsAs(f, at, rest)
  BY ReadsRest
<1> HIDE DEF at
<1>3. 4 <= Len(rest) => ReadUint32(f, at + 0) = ReadUint32(rest, 0)
  BY <1>0, <1>1 DEF ReadsAs
<1>4. (Len(f) < at + 4 <=> Len(rest) < 4) /\ (~(Len(rest) < 4) => 4 <= Len(rest)) /\ at + 0 = at
  BY <1>1
<1>5. ~(Len(rest) < 4) => ReadUint32(f, at) = ReadUint32(rest, 0)
  BY <1>3, <1>4
<1> QED
  BY <1>2, <1>4, <1>5, Zenon DEF DecodeIndex

\* BITFIELD: the number of chunks, and the bytes.
LEMMA BitfieldReads ==
    ASSUME NEW f, NEW id, NEW rest, Carries(f, TypeBitfield, id, rest)
    PROVE  DecodeMessage(f) =
             IF Len(rest) < 4 \/ ~Fits(ReadUint32(rest, 0), SubSeq(rest, 5, Len(rest))) THEN Malformed
             ELSE [type |-> TypeBitfield, resource |-> id,
                   bitfield |-> [totalChunks |-> ReadUint32(rest, 0),
                                 bytes |-> SubSeq(rest, 5, Len(rest))]]
<1> DEFINE at == End(id)
<1>1. Len(f) = at + Len(rest) /\ Len(rest) \in Nat /\ Len(id) \in Nat /\ at = 3 + Len(id)
  BY CarriedFacts
<1>2. DecodeMessage(f) = DecodeBitfield(f, id, at)
  <2>1. DecodeMessage(f) = DecodeBody(f, TypeBitfield, id, at)
    BY CarriedDecodes, Zenon
  <2> QED
    BY <2>1, BodiesDecode
<1>0. ReadsAs(f, at, rest)
  BY ReadsRest
<1> HIDE DEF at
<1>3. /\ 4 <= Len(rest) => ReadUint32(f, at + 0) = ReadUint32(rest, 0)
      /\ SubSeq(f, at + 5, at + Len(rest)) = SubSeq(rest, 5, Len(rest))
  <2>1. \A b \in Nat : b <= Len(rest) => SubSeq(f, at + 5, at + b) = SubSeq(rest, 5, b)
    <3>1. 5 \in Nat \ {0}
      OBVIOUS
    <3> QED
      BY <1>0, <3>1, Zenon DEF ReadsAs
  <2>2. 4 <= Len(rest) => ReadUint32(f, at + 0) = ReadUint32(rest, 0)
    BY <1>0, <1>1 DEF ReadsAs
  <2>3. Len(rest) <= Len(rest)
    BY <1>1
  <2> QED
    BY <1>1, <2>1, <2>2, <2>3, Zenon
<1>4. (Len(f) < at + 4 <=> Len(rest) < 4) /\ (~(Len(rest) < 4) => 4 <= Len(rest)) /\ at + 0 = at
  BY <1>1
<1>5. /\ ~(Len(rest) < 4) => ReadUint32(f, at) = ReadUint32(rest, 0)
      /\ SubSeq(f, at + 5, Len(f)) = SubSeq(rest, 5, Len(rest))
  BY <1>1, <1>3, <1>4
<1> QED
  BY <1>2, <1>4, <1>5, Zenon DEF DecodeBitfield

\* PIECE: four numbers, the last of them that of the bytes behind it.
LEMMA PieceReads ==
    ASSUME NEW f, NEW id, NEW rest, Carries(f, TypePiece, id, rest)
    PROVE  DecodeMessage(f) =
             IF Len(rest) < 16 \/ Len(rest) < 16 + ReadUint32(rest, 12) THEN Malformed
             ELSE [type |-> TypePiece, resource |-> id, chunk |-> ReadUint32(rest, 0),
                   beginOffset |-> ReadUint32(rest, 4), totalLength |-> ReadUint32(rest, 8),
                   data |-> SubSeq(rest, 17, 16 + ReadUint32(rest, 12))]
<1> DEFINE at == End(id)
           length == ReadUint32(rest, 12)
<1>1. /\ Len(f) = at + Len(rest) /\ Len(rest) \in Nat /\ Len(id) \in Nat /\ at = 3 + Len(id)
      /\ rest \in Seq(Byte)
  BY CarriedFacts
<1>2. DecodeMessage(f) = DecodePiece(f, id, at)
  <2>1. DecodeMessage(f) = DecodeBody(f, TypePiece, id, at)
    BY CarriedDecodes, Zenon
  <2> QED
    BY <2>1, BodiesDecode
<1>0. ReadsAs(f, at, rest)
  BY ReadsRest
<1> HIDE DEF at
<1>3. \A k \in {0, 4, 8, 12} : 16 <= Len(rest) => ReadUint32(f, at + k) = ReadUint32(rest, k)
  BY <1>0, <1>1 DEF ReadsAs
<1>4. 16 <= Len(rest) => length \in Nat
  BY <1>1, ReadsNat
<1>5. 16 <= Len(rest) /\ 16 + length <= Len(rest)
      => SubSeq(f, at + 17, at + (16 + length)) = SubSeq(rest, 17, 16 + length)
  <2>1. \A b \in Nat : b <= Len(rest) => SubSeq(f, at + 17, at + b) = SubSeq(rest, 17, b)
    <3>1. 17 \in Nat \ {0}
      OBVIOUS
    <3> QED
      BY <1>0, <3>1, Zenon DEF ReadsAs
  <2>2. 16 <= Len(rest) => 16 + length \in Nat
    BY <1>4
  <2> QED
    BY <2>1, <2>2, Zenon
<1> HIDE DEF length
<1>6. CASE Len(rest) < 16
  <2>1. Len(f) < at + 16
    BY <1>1, <1>6
  <2> QED
    BY <1>2, <1>6, <2>1, Zenon DEF DecodePiece
<1>7. CASE ~(Len(rest) < 16)
  <2>1. /\ ~(Len(f) < at + 16) /\ length \in Nat
        /\ Len(f) < at + 16 + length <=> Len(rest) < 16 + length
        /\ at + (16 + length) = at + 16 + length /\ at + 0 = at
    BY <1>1, <1>4, <1>7
  <2>2. /\ ReadUint32(f, at) = ReadUint32(rest, 0) /\ ReadUint32(f, at + 4) = ReadUint32(rest, 4)
        /\ ReadUint32(f, at + 8) = ReadUint32(rest, 8) /\ ReadUint32(f, at + 12) = length
    BY <1>1, <1>3, <1>7, <2>1 DEF length
  <2>3. ~(Len(rest) < 16 + length)
        => SubSeq(f, at + 17, at + 16 + length) = SubSeq(rest, 17, 16 + length)
    BY <1>1, <1>5, <1>7, <2>1
  <2>4. DecodePiece(f, id, at) =
          IF Len(rest) < 16 + length THEN Malformed
          ELSE [type |-> TypePiece, resource |-> id, chunk |-> ReadUint32(rest, 0),
                beginOffset |-> ReadUint32(rest, 4), totalLength |-> ReadUint32(rest, 8),
                data |-> SubSeq(rest, 17, 16 + length)]
    BY <2>1, <2>2, <2>3, Zenon DEF DecodePiece
  <2> QED
    BY <1>2, <1>7, <2>4, Zenon DEF length
<1> QED
  BY <1>6, <1>7

LEMMA CutReads ==
    ASSUME NEW s \in Seq(Byte), NEW m \in 0..(Len(s) - 1), NEW at \in Nat, at + 4 <= m
    PROVE  ReadUint32(SubSeq(s, 1, m), at) = ReadUint32(s, at)
<1> DEFINE short == SubSeq(s, 1, m)
<1>1. m \in Nat /\ \A k \in 1..m : short[k] = s[k]
  BY CutFacts
<1> HIDE DEF short
<1>2. /\ short[at + 1] = s[at + 1] /\ short[at + 2] = s[at + 2] /\ short[at + 3] = s[at + 3]
      /\ short[at + 4] = s[at + 4]
  BY <1>1
<1>3. ReadUint32(short, at) = ReadUint32(s, at)
  BY <1>2, SMT DEF ReadUint32
<1> QED
  BY <1>3 DEF short

\* A frame of another version is refused.
LEMMA OtherVersion ==
    ASSUME NEW f \in Seq(Byte), f # <<>>
    PROVE  DecodeMessage(<<CAMPUS_MESH_PROTOCOL_VERSION + 1>> \o Tail(f)) = Malformed
<1> DEFINE first == <<CAMPUS_MESH_PROTOCOL_VERSION + 1>>
           g == first \o Tail(f)
<1>1. Tail(f) \in Seq(Byte)
  OBVIOUS
<1>2. first \in Seq(Byte) /\ Len(first) = 1 /\ first[1] # CAMPUS_MESH_PROTOCOL_VERSION
  BY DEF CAMPUS_MESH_PROTOCOL_VERSION, Byte
<1> HIDE DEF first
<1>3. g[1] = first[1]
  <2>1. \A k \in 1..(Len(first) + Len(Tail(f))) :
          (first \o Tail(f))[k] = IF k <= Len(first) THEN first[k] ELSE Tail(f)[k - Len(first)]
    BY <1>1, <1>2, ConcatProperties
  <2> QED
    BY <1>1, <1>2, <2>1
<1> HIDE DEF g
<1>4. DecodeMessage(g) = Malformed
  BY <1>2, <1>3, Zenon DEF DecodeMessage
<1> QED
  BY <1>4 DEF g, first

\* What a frame is read as, from what its rest is read as, whole and cut short.
LEMMA OnlyAs ==
    ASSUME NEW f, NEW type, NEW id, NEW rest, NEW message, Carries(f, type, id, rest),
           DecodeMessage(f) = message,
           \A g : \A m \in 0..(Len(rest) - 1) :
              Carries(g, type, id, SubSeq(rest, 1, m)) => DecodeMessage(g) = Malformed
    PROVE  ReadOnlyAs(f, message)
<1>1. \A n \in 0..(Len(f) - 1) : DecodeMessage(SubSeq(f, 1, n)) = Malformed
  BY CutShort, Zenon
<1>2. f \in Seq(Byte) /\ f # <<>>
  <2>1. f \in Seq(Byte) /\ Len(f) = (3 + Len(id)) + Len(rest) /\ Len(rest) \in Nat /\ Len(id) \in Nat
    BY CarriedFacts
  <2> QED
    BY <2>1
<1>3. DecodeMessage(<<CAMPUS_MESH_PROTOCOL_VERSION + 1>> \o Tail(f)) = Malformed
  BY <1>2, OtherVersion
<1> QED
  BY <1>1, <1>3, Zenon DEF ReadOnlyAs

LEMMA TypesAreBytes ==
    /\ TypeBitfield \in Byte /\ TypeHave \in Byte /\ TypeRequest \in Byte /\ TypePiece \in Byte
    /\ TypeChoke \in Byte /\ TypeUnchoke \in Byte
BY DEF TypeBitfield, TypeHave, TypeRequest, TypePiece, TypeChoke, TypeUnchoke, Byte

\* What a sequence behind another is, and where.
LEMMA Behind ==
    ASSUME NEW a \in Seq(Byte), NEW b \in Seq(Byte)
    PROVE  /\ a \o b \in Seq(Byte) /\ Len(a \o b) = Len(a) + Len(b)
           /\ \A k \in 1..Len(a) : (a \o b)[k] = a[k]
           /\ \A k \in 1..Len(b) : (a \o b)[Len(a) + k] = b[k]
<1> DEFINE s == a \o b
<1>1. Len(a) \in Nat /\ Len(b) \in Nat
  OBVIOUS
<1>2. /\ s \in Seq(Byte) /\ Len(s) = Len(a) + Len(b)
      /\ \A k \in 1..(Len(a) + Len(b)) : s[k] = IF k <= Len(a) THEN a[k] ELSE b[k - Len(a)]
  BY ConcatProperties
<1> HIDE DEF s
<1>3. ASSUME NEW k \in 1..Len(a) PROVE s[k] = a[k]
  BY <1>1, <1>2
<1>4. ASSUME NEW k \in 1..Len(b) PROVE s[Len(a) + k] = b[k]
  <2>1. Len(a) + k \in 1..(Len(a) + Len(b)) /\ ~(Len(a) + k <= Len(a)) /\ (Len(a) + k) - Len(a) = k
    BY <1>1
  <2> QED
    BY <1>2, <2>1
<1> QED
  BY <1>2, <1>3, <1>4 DEF s

LEMMA PartBehind ==
    ASSUME NEW s \in Seq(Byte), NEW at \in Nat, NEW part \in Seq(Byte),
           Len(s) = at + Len(part), \A k \in 1..Len(part) : s[at + k] = part[k]
    PROVE  SubSeq(s, at + 1, at + Len(part)) = part
<1> DEFINE t == SubSeq(s, at + 1, at + Len(part))
<1>1. Len(part) \in Nat /\ at + 1 \in Int /\ at + Len(part) \in Int
  OBVIOUS
<1>2. \A k \in (at + 1)..(at + Len(part)) : s[k] \in Byte
  BY <1>1, ElementOfSeq
<1>3. /\ t \in Seq(Byte)
      /\ Len(t) = IF at + 1 <= at + Len(part) THEN (at + Len(part)) - (at + 1) + 1 ELSE 0
      /\ \A k \in 1..((at + Len(part)) - (at + 1) + 1) : t[k] = s[(at + 1) + k - 1]
  BY <1>1, <1>2, SubSeqProperties
<1> HIDE DEF t
<1>4. Len(t) = Len(part)
  BY <1>1, <1>3
<1>5. ASSUME NEW k \in 1..Len(part) PROVE t[k] = part[k]
  <2>1. k \in 1..((at + Len(part)) - (at + 1) + 1) /\ (at + 1) + k - 1 = at + k
    BY <1>1
  <2>2. t[k] = s[(at + 1) + k - 1]
    BY <1>3, <2>1
  <2> QED
    BY <2>1, <2>2
<1>6. t = part
  BY <1>3, <1>4, <1>5, SeqEqual
<1> QED
  BY <1>6 DEF t

\* HAVE and REQUEST.
LEMMA IndexOnlyAs ==
    ASSUME NEW type \in {TypeHave, TypeRequest}, NEW id \in ResourceIds,
           NEW i \in Nat, i < Uint32Limit
    PROVE  ReadOnlyAs(Header(type, id) \o Uint32(i), [type |-> type, resource |-> id, chunk |-> i])
<1> DEFINE rest == Uint32(i)
           f == Header(type, id) \o rest
<1>1. rest \in Seq(Byte) /\ Len(rest) = 4 /\ ReadUint32(rest, 0) = i
  BY Uint32Bytes
<1>2. IsFrame(f, type, id, rest)
  <2>1. type \in Byte
    BY TypesAreBytes
  <2> QED
    BY <1>1, <2>1, Zenon DEF IsFrame
<1>3. Carries(f, type, id, rest)
  BY <1>2, FramesCarry, Zenon
<1> HIDE DEF f, rest
<1>4. DecodeMessage(f) = [type |-> type, resource |-> id, chunk |-> i]
  <2>1. ~(Len(rest) < 4)
    BY <1>1
  <2> QED
    BY <1>1, <1>3, <2>1, IndexDecodes, Zenon
<1>5. ASSUME NEW g, NEW m \in 0..(Len(rest) - 1), Carries(g, type, id, SubSeq(rest, 1, m))
      PROVE  DecodeMessage(g) = Malformed
  <2>1. Len(SubSeq(rest, 1, m)) = m
    BY <1>1, CutFacts
  <2>2. Len(SubSeq(rest, 1, m)) < 4
    BY <1>1, <2>1
  <2> QED
    BY <1>5, <2>2, IndexDecodes, Zenon
<1>6. ReadOnlyAs(f, [type |-> type, resource |-> id, chunk |-> i])
  BY <1>3, <1>4, <1>5, OnlyAs, Zenon
<1> QED
  BY <1>6 DEF f, rest

\* CHOKE and UNCHOKE, which are their header.
LEMMA HeaderOnlyAs ==
    ASSUME NEW type \in {TypeChoke, TypeUnchoke}, NEW id \in ResourceIds
    PROVE  ReadOnlyAs(Header(type, id), [type |-> type, resource |-> id])
<1> DEFINE f == Header(type, id)
<1>1. type \in Byte
  BY TypesAreBytes
<1>2. f \in Seq(Byte)
  BY <1>1 DEF Header, CAMPUS_MESH_PROTOCOL_VERSION, ResourceIds, Byte
<1>3. f = f \o <<>>
  <2> HIDE DEF f
  <2> QED
    BY <1>2
<1>4. IsFrame(f, type, id, <<>>)
  <2>1. <<>> \in Seq(Byte)
    OBVIOUS
  <2> QED
    BY <1>1, <1>3, <2>1, Zenon DEF IsFrame
<1>5. Carries(f, type, id, <<>>)
  BY <1>4, FramesCarry, Zenon
<1>6. DecodeMessage(f) = [type |-> type, resource |-> id]
  <2>1. DecodeMessage(f) = DecodeBody(f, type, id, End(id))
    BY <1>5, CarriedDecodes, Zenon
  <2>2. DecodeBody(f, type, id, End(id)) = [type |-> type, resource |-> id]
    BY BodiesDecode
  <2> QED
    BY <2>1, <2>2
<1> HIDE DEF f
<1>7. 0..(Len(<<>>) - 1) = {}
  OBVIOUS
<1>8. ReadOnlyAs(f, [type |-> type, resource |-> id])
  BY <1>5, <1>6, <1>7, OnlyAs, Zenon
<1> QED
  BY <1>8 DEF f

\* BITFIELD: its number, then its bytes.
BitfieldRest(n, bf) == Uint32(n) \o bf.bytes

LEMMA BitfieldCarries ==
    ASSUME NEW id \in ResourceIds, NEW n \in Nat, n < Uint32Limit, NEW bf \in Bitfields
    PROVE  LET rest == BitfieldRest(n, bf)
           IN  /\ Carries(EncodeBitfield(id, n, bf), TypeBitfield, id, rest)
               /\ rest \in Seq(Byte) /\ Len(rest) = 4 + Len(bf.bytes) /\ Len(bf.bytes) \in Nat
               /\ ReadUint32(rest, 0) = n /\ SubSeq(rest, 5, Len(rest)) = bf.bytes
<1> DEFINE number == Uint32(n)
           body == bf.bytes
           rest == number \o body
           f == EncodeBitfield(id, n, bf)
<1>1. body \in Seq(Byte) /\ Len(body) \in Nat
  BY DEF Bitfields
<1>2. number \in Seq(Byte) /\ Len(number) = 4
  BY Uint32Bytes
<1>3. Carries(f, TypeBitfield, id, rest)
  <2>1. IsFrame(f, TypeBitfield, id, rest)
    BY <1>1, <1>2, TypesAreBytes, FrameInParts DEF EncodeBitfield
  <2> QED
    BY <2>1, FramesCarry, Zenon
<1> HIDE DEF f, body, number
<1>4. /\ rest \in Seq(Byte) /\ Len(rest) = 4 + Len(body)
      /\ \A k \in 1..4 : rest[k] = number[k]
      /\ \A k \in 1..Len(body) : rest[4 + k] = body[k]
  <2>1. /\ rest \in Seq(Byte) /\ Len(rest) = Len(number) + Len(body)
        /\ \A k \in 1..Len(number) : rest[k] = number[k]
        /\ \A k \in 1..Len(body) : rest[Len(number) + k] = body[k]
    BY <1>1, <1>2, Behind
  <2> HIDE DEF rest
  <2> QED
    BY <1>2, <2>1
<1> HIDE DEF rest
<1>5. ReadUint32(rest, 0) = n
  <2>1. \A k \in 1..4 : rest[0 + k] = Uint32(n)[k]
    BY <1>4 DEF number
  <2> QED
    BY <2>1, ReadsUint32
<1>6. SubSeq(rest, 5, Len(rest)) = body
  <2>1. SubSeq(rest, 4 + 1, 4 + Len(body)) = body
    BY <1>1, <1>4, PartBehind
  <2> QED
    BY <1>4, <2>1
<1> QED
  BY <1>1, <1>3, <1>4, <1>5, <1>6 DEF rest, number, body, f, BitfieldRest

\* It is refused if its bytes are not as many as the number it is sent with needs.
LEMMA BitfieldDecodes ==
    ASSUME NEW id \in ResourceIds, NEW n \in Nat, n < Uint32Limit, NEW bf \in Bitfields
    PROVE  DecodeMessage(EncodeBitfield(id, n, bf)) =
             IF ~Fits(n, bf.bytes) THEN Malformed
             ELSE [type |-> TypeBitfield, resource |-> id,
                   bitfield |-> [totalChunks |-> n, bytes |-> bf.bytes]]
<1> DEFINE rest == BitfieldRest(n, bf)
           bytes == bf.bytes
           f == EncodeBitfield(id, n, bf)
<1>1. /\ Carries(f, TypeBitfield, id, rest)
      /\ Len(rest) = 4 + Len(bf.bytes) /\ Len(bf.bytes) \in Nat
      /\ ReadUint32(rest, 0) = n /\ SubSeq(rest, 5, Len(rest)) = bf.bytes
  BY BitfieldCarries
<1> HIDE DEF rest, f
<1>2. ~(Len(rest) < 4)
  BY <1>1
<1>3. DecodeMessage(f) =
        IF Len(rest) < 4 \/ ~Fits(ReadUint32(rest, 0), SubSeq(rest, 5, Len(rest))) THEN Malformed
        ELSE [type |-> TypeBitfield, resource |-> id,
              bitfield |-> [totalChunks |-> ReadUint32(rest, 0),
                            bytes |-> SubSeq(rest, 5, Len(rest))]]
  BY <1>1, BitfieldReads
<1> HIDE DEF bytes
<1>4. ReadUint32(rest, 0) = n /\ SubSeq(rest, 5, Len(rest)) = bytes
  BY <1>1 DEF bytes
<1>5. DecodeMessage(f) = IF ~Fits(n, bytes) THEN Malformed
                         ELSE [type |-> TypeBitfield, resource |-> id,
                               bitfield |-> [totalChunks |-> n, bytes |-> bytes]]
  BY <1>2, <1>3, <1>4
<1> QED
  BY <1>5 DEF f, bytes

LEMMA BitfieldOnlyAs ==
    ASSUME NEW id \in ResourceIds, NEW n \in Nat, n < Uint32Limit,
           NEW bf \in Bitfields, bf.totalChunks = n
    PROVE  ReadOnlyAs(EncodeBitfield(id, n, bf),
                      [type |-> TypeBitfield, resource |-> id, bitfield |-> bf])
<1> DEFINE body == bf.bytes
           rest == BitfieldRest(n, bf)
           f == EncodeBitfield(id, n, bf)
           message == [type |-> TypeBitfield, resource |-> id, bitfield |-> bf]
<1>1. Len(body) = ByteLength(n) /\ Fits(n, body) /\ bf = [totalChunks |-> n, bytes |-> body]
  BY DEF Bitfields, Fits
<1>2. DecodeMessage(f) = message
  BY <1>1, BitfieldDecodes, Zenon
<1>3. /\ Carries(f, TypeBitfield, id, rest)
      /\ rest \in Seq(Byte) /\ Len(rest) = 4 + Len(body) /\ Len(body) \in Nat
      /\ ReadUint32(rest, 0) = n
  BY BitfieldCarries
<1> HIDE DEF f, body, rest, message
<1>4. ASSUME NEW g, NEW m \in 0..(Len(rest) - 1),
             Carries(g, TypeBitfield, id, SubSeq(rest, 1, m))
      PROVE  DecodeMessage(g) = Malformed
  <2> DEFINE short == SubSeq(rest, 1, m)
  <2>1. short \in Seq(Byte) /\ Len(short) = m /\ m \in Nat
    BY <1>3, CutFacts
  <2>2. CASE m < 4
    BY <1>4, <2>1, <2>2, BitfieldReads, Zenon
  <2>3. CASE ~(m < 4)
    <3>1. ReadUint32(short, 0) = n
      BY <1>3, <2>3, CutReads
    <3> HIDE DEF short
    <3>2. Len(SubSeq(short, 5, Len(short))) # ByteLength(n)
      <4>1. \A k \in 5..m : short[k] \in Byte
        BY <2>1, ElementOfSeq
      <4>2. Len(SubSeq(short, 5, m)) = IF 5 <= m THEN m - 5 + 1 ELSE 0
        BY <2>1, <4>1, SubSeqProperties
      <4>3. m < 4 + Len(body)
        BY <1>3
      <4>4. Len(SubSeq(short, 5, m)) # Len(body)
        BY <1>3, <2>1, <2>3, <4>2, <4>3
      <4> QED
        BY <1>1, <2>1, <4>4
    <3>3. ~Fits(n, SubSeq(short, 5, Len(short)))
      BY <3>2, Zenon DEF Fits
    <3>4. Carries(g, TypeBitfield, id, short)
      BY <1>4 DEF short
    <3> QED
      BY <3>1, <3>3, <3>4, BitfieldReads, Zenon
  <2> QED
    BY <2>2, <2>3
<1>5. ReadOnlyAs(f, message)
  BY <1>2, <1>3, <1>4, OnlyAs, Zenon
<1> QED
  BY <1>5 DEF f, message

\* PIECE.
Regroups(a, b, c) == (a \o b) \o c = a \o (b \o c)

LEMMA Regrouped ==
    ASSUME NEW a \in Seq(Byte), NEW b \in Seq(Byte), NEW c \in Seq(Byte)
    PROVE  Regroups(a, b, c) /\ b \o c \in Seq(Byte)
BY ConcatAssociative DEF Regroups

RowBehind(h, a, b, c, d, e) ==
    h \o a \o b \o c \o d \o e = h \o (a \o b \o c \o d \o e)

LEMMA HeaderBehind ==
    ASSUME NEW h \in Seq(Byte), NEW a \in Seq(Byte), NEW b \in Seq(Byte), NEW c \in Seq(Byte),
           NEW d \in Seq(Byte), NEW e \in Seq(Byte)
    PROVE  RowBehind(h, a, b, c, d, e)
<1> DEFINE ab == a \o b
           abc == ab \o c
           abcd == abc \o d
<1>1. Regroups(h, a, b) /\ ab \in Seq(Byte)
  BY Regrouped, Zenon
<1>2. Regroups(h, ab, c) /\ abc \in Seq(Byte)
  BY <1>1, Regrouped, Zenon
<1>3. Regroups(h, abc, d) /\ abcd \in Seq(Byte)
  BY <1>2, Regrouped, Zenon
<1>4. Regroups(h, abcd, e)
  BY <1>3, Regrouped, Zenon
<1> QED
  BY <1>1, <1>2, <1>3, <1>4, Zenon DEF Regroups, RowBehind

InARow(s, a, b, c, d, e) ==
    /\ s \in Seq(Byte) /\ Len(s) = 16 + Len(e)
    /\ \A k \in 1..4 : s[0 + k] = a[k] /\ s[4 + k] = b[k] /\ s[8 + k] = c[k] /\ s[12 + k] = d[k]
    /\ \A k \in 1..Len(e) : s[16 + k] = e[k]

LEMMA NumbersInARow ==
    ASSUME NEW a \in Seq(Byte), NEW b \in Seq(Byte), NEW c \in Seq(Byte), NEW d \in Seq(Byte),
           NEW e \in Seq(Byte), Len(a) = 4, Len(b) = 4, Len(c) = 4, Len(d) = 4
    PROVE  InARow(a \o b \o c \o d \o e, a, b, c, d, e)
<1> DEFINE ab == a \o b
           abc == ab \o c
           abcd == abc \o d
           s == abcd \o e
<1>1. /\ ab \in Seq(Byte) /\ Len(ab) = 8
      /\ \A k \in 1..4 : ab[k] = a[k]
      /\ \A k \in 1..4 : ab[4 + k] = b[k]
  <2>1. /\ ab \in Seq(Byte) /\ Len(ab) = Len(a) + Len(b)
        /\ \A k \in 1..Len(a) : ab[k] = a[k]
        /\ \A k \in 1..Len(b) : ab[Len(a) + k] = b[k]
    BY Behind
  <2> HIDE DEF ab
  <2> QED
    BY <2>1
<1> HIDE DEF ab
<1>2. /\ abc \in Seq(Byte) /\ Len(abc) = 12
      /\ \A k \in 1..8 : abc[k] = ab[k]
      /\ \A k \in 1..4 : abc[8 + k] = c[k]
  <2>1. /\ abc \in Seq(Byte) /\ Len(abc) = Len(ab) + Len(c)
        /\ \A k \in 1..Len(ab) : abc[k] = ab[k]
        /\ \A k \in 1..Len(c) : abc[Len(ab) + k] = c[k]
    BY <1>1, Behind
  <2> HIDE DEF abc
  <2> QED
    BY <1>1, <2>1
<1> HIDE DEF abc
<1>3. /\ abcd \in Seq(Byte) /\ Len(abcd) = 16
      /\ \A k \in 1..12 : abcd[k] = abc[k]
      /\ \A k \in 1..4 : abcd[12 + k] = d[k]
  <2>1. /\ abcd \in Seq(Byte) /\ Len(abcd) = Len(abc) + Len(d)
        /\ \A k \in 1..Len(abc) : abcd[k] = abc[k]
        /\ \A k \in 1..Len(d) : abcd[Len(abc) + k] = d[k]
    BY <1>2, Behind
  <2> HIDE DEF abcd
  <2> QED
    BY <1>2, <2>1
<1> HIDE DEF abcd
<1>4. /\ s \in Seq(Byte) /\ Len(s) = 16 + Len(e)
      /\ \A k \in 1..16 : s[k] = abcd[k]
      /\ \A k \in 1..Len(e) : s[16 + k] = e[k]
  <2>1. /\ s \in Seq(Byte) /\ Len(s) = Len(abcd) + Len(e)
        /\ \A k \in 1..Len(abcd) : s[k] = abcd[k]
        /\ \A k \in 1..Len(e) : s[Len(abcd) + k] = e[k]
    BY <1>3, Behind
  <2> HIDE DEF s
  <2> QED
    BY <1>3, <2>1
<1> HIDE DEF s
<1>5. ASSUME NEW k \in 1..4
      PROVE  s[0 + k] = a[k] /\ s[4 + k] = b[k] /\ s[8 + k] = c[k] /\ s[12 + k] = d[k]
  <2>1. /\ 0 + k = k /\ k \in 1..8 /\ k \in 1..12 /\ k \in 1..16
        /\ 4 + k \in 1..8 /\ 4 + k \in 1..12 /\ 4 + k \in 1..16
        /\ 8 + k \in 1..12 /\ 8 + k \in 1..16 /\ 12 + k \in 1..16
    OBVIOUS
  <2>2. s[k] = abcd[k] /\ abcd[k] = abc[k] /\ abc[k] = ab[k] /\ ab[k] = a[k]
    BY <1>1, <1>2, <1>3, <1>4, <2>1
  <2>3. /\ s[4 + k] = abcd[4 + k] /\ abcd[4 + k] = abc[4 + k] /\ abc[4 + k] = ab[4 + k]
        /\ ab[4 + k] = b[k]
    BY <1>1, <1>2, <1>3, <1>4, <2>1
  <2>4. s[8 + k] = abcd[8 + k] /\ abcd[8 + k] = abc[8 + k] /\ abc[8 + k] = c[k]
    BY <1>2, <1>3, <1>4, <2>1
  <2>5. s[12 + k] = abcd[12 + k] /\ abcd[12 + k] = d[k]
    BY <1>3, <1>4, <2>1
  <2> QED
    BY <2>1, <2>2, <2>3, <2>4, <2>5
<1>6. InARow(s, a, b, c, d, e)
  BY <1>4, <1>5 DEF InARow
<1> QED
  BY <1>6 DEF s, abcd, abc, ab

LEMMA PieceOnlyAs ==
    ASSUME NEW id \in ResourceIds, NEW i \in Nat, NEW b \in Nat, NEW t \in Nat,
           NEW data \in Seq(Byte),
           i < Uint32Limit, b < Uint32Limit, t < Uint32Limit, Len(data) < Uint32Limit
    PROVE  ReadOnlyAs(EncodePiece(id, i, b, t, data),
                      [type |-> TypePiece, resource |-> id, chunk |-> i, beginOffset |-> b,
                       totalLength |-> t, data |-> data])
<1> DEFINE n == Len(data)
           rest == Uint32(i) \o Uint32(b) \o Uint32(t) \o Uint32(n) \o data
           f == EncodePiece(id, i, b, t, data)
           message == [type |-> TypePiece, resource |-> id, chunk |-> i, beginOffset |-> b,
                       totalLength |-> t, data |-> data]
<1>1. n \in Nat /\ n < Uint32Limit
  OBVIOUS
<1>2. /\ Uint32(i) \in Seq(Byte) /\ Len(Uint32(i)) = 4
      /\ Uint32(b) \in Seq(Byte) /\ Len(Uint32(b)) = 4
      /\ Uint32(t) \in Seq(Byte) /\ Len(Uint32(t)) = 4
      /\ Uint32(n) \in Seq(Byte) /\ Len(Uint32(n)) = 4
  BY <1>1, Uint32Bytes
<1>3. InARow(rest, Uint32(i), Uint32(b), Uint32(t), Uint32(n), data)
  BY <1>2, NumbersInARow, Zenon
<1>4. Carries(f, TypePiece, id, rest)
  <2> DEFINE h == Header(TypePiece, id)
  <2>1. h \in Seq(Byte)
    BY TypesAreBytes DEF Header, CAMPUS_MESH_PROTOCOL_VERSION, ResourceIds, Byte
  <2>2. f = h \o Uint32(i) \o Uint32(b) \o Uint32(t) \o Uint32(n) \o data
    BY Zenon DEF EncodePiece
  <2> HIDE DEF h
  <2>3. f = h \o rest
    <3>1. h \o Uint32(i) \o Uint32(b) \o Uint32(t) \o Uint32(n) \o data = h \o rest
      <4>1. RowBehind(h, Uint32(i), Uint32(b), Uint32(t), Uint32(n), data)
        BY <1>2, <2>1, HeaderBehind, Zenon
      <4> QED
        BY <4>1, Zenon DEF RowBehind
    <3> HIDE DEF f, rest
    <3> QED
      BY <2>2, <3>1, Zenon
  <2>4. IsFrame(f, TypePiece, id, rest)
    BY <1>3, <2>3, TypesAreBytes, Zenon DEF IsFrame, InARow, h
  <2> QED
    BY <2>4, FramesCarry, Zenon
<1> HIDE DEF f, rest, n
<1>5. /\ ReadUint32(rest, 0) = i /\ ReadUint32(rest, 4) = b
      /\ ReadUint32(rest, 8) = t /\ ReadUint32(rest, 12) = n
  <2>1. /\ \A k \in 1..4 : rest[0 + k] = Uint32(i)[k]
        /\ \A k \in 1..4 : rest[4 + k] = Uint32(b)[k]
        /\ \A k \in 1..4 : rest[8 + k] = Uint32(t)[k]
        /\ \A k \in 1..4 : rest[12 + k] = Uint32(n)[k]
    BY <1>3 DEF InARow
  <2>2. ReadUint32(rest, 0) = i
    BY <2>1, ReadsUint32
  <2>3. ReadUint32(rest, 4) = b
    BY <2>1, ReadsUint32
  <2>4. ReadUint32(rest, 8) = t
    BY <2>1, ReadsUint32
  <2>5. ReadUint32(rest, 12) = n
    BY <1>1, <2>1, ReadsUint32
  <2> QED
    BY <2>2, <2>3, <2>4, <2>5
<1>6. SubSeq(rest, 17, 16 + n) = data
  <2>1. /\ rest \in Seq(Byte) /\ Len(rest) = 16 + Len(data)
        /\ \A k \in 1..Len(data) : rest[16 + k] = data[k]
    BY <1>3, Zenon DEF InARow
  <2>2. SubSeq(rest, 16 + 1, 16 + Len(data)) = data
    BY <2>1, PartBehind
  <2> QED
    BY <2>2 DEF n
<1>7. DecodeMessage(f) = message
  <2>1. ~(Len(rest) < 16) /\ ~(Len(rest) < 16 + n)
    BY <1>1, <1>3 DEF InARow, n
  <2> QED
    BY <1>4, <1>5, <1>6, <2>1, PieceReads, Zenon
<1>8. ASSUME NEW g, NEW m \in 0..(Len(rest) - 1), Carries(g, TypePiece, id, SubSeq(rest, 1, m))
      PROVE  DecodeMessage(g) = Malformed
  <2> DEFINE short == SubSeq(rest, 1, m)
  <2>1. Len(short) = m /\ m \in Nat /\ m < 16 + n
    <3>1. rest \in Seq(Byte) /\ Len(rest) = 16 + n
      BY <1>3, Zenon DEF InARow, n
    <3>2. Len(short) = m
      BY <3>1, CutFacts, Zenon
    <3> QED
      BY <1>1, <3>1, <3>2
  <2>2. CASE m < 16
    BY <1>8, <2>1, <2>2, PieceReads, Zenon
  <2>3. CASE ~(m < 16)
    <3>1. ReadUint32(short, 12) = n
      <4>1. 12 + 4 <= m
        BY <2>1, <2>3
      <4>2. rest \in Seq(Byte) /\ 12 \in Nat
        BY <1>3 DEF InARow
      <4>3. ReadUint32(SubSeq(rest, 1, m), 12) = ReadUint32(rest, 12)
        BY <4>1, <4>2, CutReads, Zenon
      <4> QED
        BY <1>5, <4>3
    <3> QED
      BY <1>8, <2>1, <3>1, PieceReads, Zenon
  <2> QED
    BY <2>2, <2>3
<1>9. ReadOnlyAs(f, message)
  BY <1>4, <1>7, <1>8, OnlyAs, Zenon
<1> QED
  BY <1>9 DEF f

\* What the encoders are tried with is within what they take.
LEMMA TriedInputs ==
    /\ \A id \in SomeIds : id \in ResourceIds
    /\ \A n \in SomeNumbers \cup SomeTotals : n \in Nat /\ n < Uint32Limit
    /\ \A data \in SomeDatas : data \in Seq(Byte) /\ Len(data) \in Nat /\ Len(data) < Uint32Limit
<1>1. \A n \in Nat : n \div 65536 < 65536 => n < 65536 * 65536
  BY SMT
<1>2. ASSUME NEW id \in SomeIds PROVE id \in ResourceIds
  <2>1. id \in Seq(0..255) /\ Len(id) <= 255 /\ Len(id) \in Nat
    BY InputsAssumption
  <2>2. id \in Seq(Byte) /\ Len(id) \in Byte
    <3>1. \A n \in Nat : n <= 255 => n \in Byte
      BY DEF Byte
    <3>2. id \in Seq(Byte)
      BY <2>1 DEF Byte
    <3> QED
      BY <2>1, <3>1, <3>2, Zenon
  <2> QED
    BY <2>2, Zenon DEF ResourceIds
<1>3. ASSUME NEW n \in SomeNumbers \cup SomeTotals PROVE n \in Nat /\ n < Uint32Limit
  BY <1>1, InputsAssumption DEF Uint32Limit
<1>4. ASSUME NEW data \in SomeDatas
      PROVE  data \in Seq(Byte) /\ Len(data) \in Nat /\ Len(data) < Uint32Limit
  <2>1. data \in Seq(0..255) /\ Len(data) \in Nat /\ Len(data) \div 65536 < 65536
    BY InputsAssumption
  <2> QED
    BY <1>1, <2>1 DEF Uint32Limit, Byte
<1> QED
  BY <1>2, <1>3, <1>4

LEMMA CodecIsFaithful == CodecFaithful
<1>1. ASSUME NEW id \in SomeIds
      PROVE  /\ ReadOnlyAs(EncodeChoke(id), [type |-> TypeChoke, resource |-> id])
             /\ ReadOnlyAs(EncodeUnchoke(id), [type |-> TypeUnchoke, resource |-> id])
  BY <1>1, TriedInputs, HeaderOnlyAs DEF EncodeChoke, EncodeUnchoke
<1>2. ASSUME NEW id \in SomeIds, NEW i \in SomeNumbers
      PROVE  /\ ReadOnlyAs(EncodeHave(id, i), [type |-> TypeHave, resource |-> id, chunk |-> i])
             /\ ReadOnlyAs(EncodeRequest(id, i), [type |-> TypeRequest, resource |-> id, chunk |-> i])
  <2>1. id \in ResourceIds /\ i \in Nat /\ i < Uint32Limit
    BY TriedInputs
  <2> QED
    BY <2>1, IndexOnlyAs DEF EncodeHave, EncodeRequest
<1>3. ASSUME NEW id \in SomeIds, NEW i \in SomeNumbers, NEW b \in SomeNumbers, NEW t \in SomeNumbers,
             NEW data \in SomeDatas
      PROVE  ReadOnlyAs(EncodePiece(id, i, b, t, data),
                        [type |-> TypePiece, resource |-> id, chunk |-> i, beginOffset |-> b,
                         totalLength |-> t, data |-> data])
  <2>1. /\ id \in ResourceIds /\ i \in Nat /\ i < Uint32Limit /\ b \in Nat /\ b < Uint32Limit
        /\ t \in Nat /\ t < Uint32Limit /\ data \in Seq(Byte) /\ Len(data) < Uint32Limit
    BY TriedInputs
  <2> QED
    BY <2>1, PieceOnlyAs, Zenon
<1>4. ASSUME NEW id \in SomeIds, NEW n \in SomeTotals, NEW s \in SUBSET (0..(n - 1))
      PROVE  ReadOnlyAs(EncodeBitfield(id, n, BitfieldOf(n, s)),
                        [type |-> TypeBitfield, resource |-> id, bitfield |-> BitfieldOf(n, s)])
  <2>1. id \in ResourceIds /\ n \in Nat /\ n < Uint32Limit
    BY TriedInputs
  <2>2. BitfieldOf(n, s) \in Bitfields /\ BitfieldOf(n, s).totalChunks = n
    BY <2>1, BitfieldOfSets
  <2> QED
    BY <2>1, <2>2, BitfieldOnlyAs, Zenon
<1> QED
  BY <1>1, <1>2, <1>3, <1>4, Zenon DEF CodecFaithful

LEMMA BitfieldsAreFaithful == BitfieldsFaithful
<1> SUFFICES ASSUME NEW n \in SomeTotals, NEW s \in SUBSET (0..(n - 1))
             PROVE  LET bf == BitfieldOf(n, s)
                    IN  /\ AvailableIndices(bf) = s
                        /\ MissingIndices(bf) = (0..(n - 1)) \ s
                        /\ IsComplete(bf) <=> bf = AllOf(n)
                        /\ Fits(n, bf.bytes)
                        /\ \A i \in 0..(n - 1) : /\ AvailableIndices(WithBit(bf, i)) = s \cup {i}
                                                 /\ AvailableIndices(WithoutBit(bf, i)) = s \ {i}
  BY Zenon DEF BitfieldsFaithful
<1>1. n \in Nat
  BY TriedInputs
<1> QED
  BY <1>1, BitfieldsStandForSets

\* No other frame is taken for one of the two.
LEMMA OthersAreOthers ==
    ASSUME NEW f, f[2] # TypeBitfield, f[2] # TypeHave
    PROVE  DecodeMessage(f).type # TypeBitfield /\ DecodeMessage(f).type # TypeHave
<1>1. ASSUME NEW id, NEW at
      PROVE  DecodeBody(f, f[2], id, at).type \in {f[2], 0}
  BY SMT DEF DecodeBody, DecodeIndex, DecodePiece, Malformed, TypeBitfield, TypeHave,
         TypeRequest, TypePiece, TypeChoke, TypeUnchoke
<1>2. DecodeMessage(f).type \in {f[2], 0}
  BY <1>1 DEF DecodeMessage, Malformed
<1> QED
  BY <1>2 DEF TypeBitfield, TypeHave

-----------------------------------------------------------------------------
(***************************************************************************)
(* The frames the sender writes.                                           *)
(***************************************************************************)
\* A frame whose type byte is type, whatever follows it.
Starts(f, type) == f \in Seq(Nat) /\ Len(f) >= 2 /\ f[2] = type

LEMMA Longer ==
    ASSUME NEW f, NEW type, Starts(f, type), NEW t \in Seq(Nat)
    PROVE  Starts(f \o t, type)
<1>1. f \in Seq(Nat) /\ Len(f) >= 2 /\ f[2] = type /\ Len(f) \in Nat /\ Len(t) \in Nat
  BY DEF Starts
<1>2. /\ f \o t \in Seq(Nat) /\ Len(f \o t) = Len(f) + Len(t)
      /\ \A k \in 1..(Len(f) + Len(t)) : (f \o t)[k] = IF k <= Len(f) THEN f[k] ELSE t[k - Len(f)]
  BY <1>1, ConcatProperties
<1>3. Len(f \o t) >= 2 /\ (f \o t)[2] = f[2]
  BY <1>1, <1>2
<1> QED
  BY <1>1, <1>2, <1>3, Zenon DEF Starts

LEMMA HeaderStarts ==
    ASSUME NEW id \in ResourceIds, NEW type \in Nat
    PROVE  Starts(Header(type, id), type)
<1>1. id \in Seq(Nat) /\ Len(id) \in Nat
  <2>1. Byte \subseteq Nat
    BY DEF Byte
  <2>2. id \in Seq(Byte) /\ Len(id) \in Nat
    BY <2>1 DEF ResourceIds
  <2>3. Seq(Byte) \subseteq Seq(Nat)
    BY <2>1, SeqMonotonic
  <2> QED
    BY <2>2, <2>3
<1>2. Starts(<<CAMPUS_MESH_PROTOCOL_VERSION, type, Len(id)>>, type)
  BY <1>1 DEF Starts, CAMPUS_MESH_PROTOCOL_VERSION
<1> QED
  BY <1>1, <1>2, Longer DEF Header

LEMMA Uint32Numbers == \A n \in Nat : Uint32(n) \in Seq(Nat)
<1> SUFFICES ASSUME NEW n \in Nat PROVE Uint32(n) \in Seq(Nat)
  OBVIOUS
<1>1. /\ n \div 16777216 \in Nat /\ (n \div 65536) % 256 \in Nat
      /\ (n \div 256) % 256 \in Nat /\ n % 256 \in Nat
  BY SMT
<1> QED
  BY <1>1, SMT DEF Uint32

LEMMA FramesStart ==
    ASSUME NEW id \in ResourceIds, NEW i \in Nat
    PROVE  /\ \A n \in Nat, bf \in Bitfields : Starts(EncodeBitfield(id, n, bf), TypeBitfield)
           /\ Starts(EncodeHave(id, i), TypeHave)
           /\ Starts(EncodeRequest(id, i), TypeRequest)
           /\ Starts(EncodeUnchoke(id), TypeUnchoke)
           /\ \A b \in Nat, t \in Nat, data \in Seq(Nat) :
                Starts(EncodePiece(id, i, b, t, data), TypePiece)
<1> USE DEF TypeBitfield, TypeHave, TypeRequest, TypeUnchoke, TypePiece
<1>1. \A type \in {TypeBitfield, TypeHave, TypeRequest, TypeUnchoke, TypePiece} :
         Starts(Header(type, id), type)
  BY HeaderStarts
<1> USE Uint32Numbers
<1>2. ASSUME NEW n \in Nat, NEW bf \in Bitfields
      PROVE  Starts(EncodeBitfield(id, n, bf), TypeBitfield)
  <2>1. bf.bytes \in Seq(Nat)
    <3>1. bf.bytes \in Seq(Byte) /\ Byte \subseteq Nat
      BY DEF Bitfields, Byte
    <3> QED
      BY <3>1, SeqMonotonic
  <2>2. Starts(Header(TypeBitfield, id) \o Uint32(n), TypeBitfield)
    BY <1>1, Longer
  <2>3. Starts((Header(TypeBitfield, id) \o Uint32(n)) \o bf.bytes, TypeBitfield)
    BY <2>1, <2>2, Longer
  <2> QED
    BY <2>3 DEF EncodeBitfield
<1>3. Starts(EncodeHave(id, i), TypeHave) /\ Starts(EncodeRequest(id, i), TypeRequest)
  BY <1>1, Longer DEF EncodeHave, EncodeRequest
<1>4. Starts(EncodeUnchoke(id), TypeUnchoke)
  BY <1>1 DEF EncodeUnchoke
<1>5. ASSUME NEW b \in Nat, NEW t \in Nat, NEW data \in Seq(Nat)
      PROVE  Starts(EncodePiece(id, i, b, t, data), TypePiece)
  <2>1. Uint32(Len(data)) \in Seq(Nat)
    OBVIOUS
  <2> DEFINE h == Header(TypePiece, id)
  <2>2. Starts(h, TypePiece)
    BY <1>1
  <2> HIDE DEF h
  <2>3. Starts(h \o Uint32(i), TypePiece)
    BY <2>2, Longer
  <2>4. Starts((h \o Uint32(i)) \o Uint32(b), TypePiece)
    BY <2>3, Longer
  <2>5. Starts(((h \o Uint32(i)) \o Uint32(b)) \o Uint32(t), TypePiece)
    BY <2>4, Longer
  <2>6. Starts((((h \o Uint32(i)) \o Uint32(b)) \o Uint32(t)) \o Uint32(Len(data)), TypePiece)
    BY <2>1, <2>5, Longer
  <2>7. Starts(((((h \o Uint32(i)) \o Uint32(b)) \o Uint32(t)) \o Uint32(Len(data))) \o data, TypePiece)
    BY <2>6, Longer
  <2> QED
    BY <2>7 DEF EncodePiece, h
<1> QED
  BY <1>2, <1>3, <1>4, <1>5

-----------------------------------------------------------------------------
(***************************************************************************)
(* What was sent and what was taken is true (NoFalseClaims).               *)
(***************************************************************************)
\* What decodeMessage makes of a frame is something the receiver can take.
WellFormed(m) ==
    /\ m.type = TypeBitfield => m.bitfield \in Bitfields
    /\ m.type = TypeHave => m.resource \in Resources /\ m.chunk \in 0..(TotalOf[m.resource] - 1)
Frames == {f \in Seq(Nat) : WellFormed(DecodeMessage(f))}

\* The chunks a message says the sender has.
Told(m) == CASE m.type = TypeBitfield -> AvailableIndices(m.bitfield)
             [] m.type = TypeHave -> {m.chunk}
             [] OTHER -> {}
HonestFrames(S) == {f \in Frames : Told(DecodeMessage(f)) \subseteq S}

\* A chunk is held only of a resource whose download was started, and the resources that the
\* sender names are among those.
SenderType ==
    /\ started \subseteq Resources /\ loaded \subseteq started
    /\ {manifest, offered} \subseteq started \cup {NoResource}
    /\ loading \in BOOLEAN /\ (loading => manifest # NoResource)
    /\ held \in [Resources -> SUBSET Nat]
    /\ \A s \in Resources : held[s] \subseteq IF s \in started THEN 0..(TotalOf[s] - 1) ELSE {}

EType ==
    /\ SenderType
    /\ {wanted, seeking} \subseteq Resources \cup {NoResource}
    /\ outbox \in Seq(Frames) /\ frames \in Seq(Frames) /\ Len(frames) = calls
    /\ view \in Bitfields /\ known \in Bitfields

\* Nothing handed over, sent or taken says of r, the only resource started, what is not so.
Truth(r) ==
    /\ outbox \in Seq(HonestFrames(held[r])) /\ frames \in Seq(HonestFrames(held[r]))
    /\ AvailableIndices(view) \cup AvailableIndices(known) \subseteq held[r]

EInv == EType /\ \A r \in Resources : started \subseteq {r} => Truth(r)

LEMMA ResourceFacts ==
    ASSUME NEW r \in Resources
    PROVE  r \in ResourceIds /\ TotalOf[r] \in Nat /\ TotalOf[r] < Uint32Limit /\ r # NoResource
           /\ Traded[r] \subseteq 0..(TotalOf[r] - 1)
<1>1. r \in Seq(Byte) /\ Len(r) \in Byte
  <2>1. r \in Seq(Byte) /\ Len(r) <= 255
    BY ResourcesAssumption DEF Byte
  <2>2. Len(r) \in Nat
    BY <2>1, LenProperties
  <2>3. \A n \in Nat : n <= 255 => n \in Byte
    BY DEF Byte
  <2> QED
    BY <2>1, <2>2, <2>3
<1>2. TotalOf[r] < 65536 * 65536
  BY ResourcesAssumption, SMT
<1> QED
  BY <1>1, <1>2, ResourcesAssumption DEF ResourceIds, Uint32Limit

\* What LocalBitfield says is what the sender has.
LEMMA LocalIsHeld ==
    ASSUME EType, NEW r \in Resources
    PROVE  /\ LocalBitfield(r) \in Bitfields
           /\ LocalBitfield(r).totalChunks = TotalOf[r]
           /\ AvailableIndices(LocalBitfield(r)) = held[r]
<1>1. TotalOf[r] \in Nat /\ held[r] \in SUBSET (0..(TotalOf[r] - 1))
  BY ResourceFacts DEF EType, SenderType
<1> QED
  BY <1>1, BitfieldOfSets DEF LocalBitfield

\* No frame but the BITFIELD and the HAVE tells anything.
LEMMA OthersTellNothing ==
    ASSUME NEW f \in Seq(Nat), f[2] # TypeBitfield, f[2] # TypeHave
    PROVE  f \in Frames /\ Told(DecodeMessage(f)) = {}
  BY OthersAreOthers DEF Frames, WellFormed, Told

LEMMA HaveTells ==
    ASSUME NEW r \in Resources, NEW c \in Traded[r]
    PROVE  /\ EncodeHave(r, c) \in Frames
           /\ Told(DecodeMessage(EncodeHave(r, c))) = {c}
           /\ DecodeMessage(EncodeHave(r, c)) = [type |-> TypeHave, resource |-> r, chunk |-> c]
<1>1. r \in ResourceIds /\ c \in Nat /\ c < TotalOf[r] /\ c \in 0..(TotalOf[r] - 1)
  BY ResourceFacts
<1>2. c < Uint32Limit
  BY <1>1, ResourceFacts DEF Uint32Limit
<1> DEFINE m == [type |-> TypeHave, resource |-> r, chunk |-> c]
<1>3. DecodeMessage(EncodeHave(r, c)) = m
  BY <1>1, <1>2, IndexOnlyAs DEF ReadOnlyAs, EncodeHave
<1>4. EncodeHave(r, c) \in Seq(Nat)
  BY <1>1, FramesStart DEF Starts
<1>5. WellFormed(m) /\ Told(m) = {c}
  BY <1>1 DEF WellFormed, Told, TypeHave, TypeBitfield
<1> HIDE DEF m
<1>6. EncodeHave(r, c) \in Frames /\ Told(DecodeMessage(EncodeHave(r, c))) = {c}
  BY <1>3, <1>4, <1>5 DEF Frames
<1> QED
  BY <1>3, <1>6 DEF m

\* A BITFIELD with the name of the resource it is of; one with another name, which
\* handleChannelOpen may write, is refused or taken as it is.
LEMMA BitfieldTells ==
    ASSUME NEW r \in Resources, NEW bf \in Bitfields
    PROVE  LET f == EncodeBitfield(r, TotalOf[r], bf)
           IN  /\ f \in Frames
               /\ bf.totalChunks = TotalOf[r] =>
                    /\ DecodeMessage(f) = [type |-> TypeBitfield, resource |-> r, bitfield |-> bf]
                    /\ Told(DecodeMessage(f)) = AvailableIndices(bf)
<1> DEFINE n == TotalOf[r]
           f == EncodeBitfield(r, n, bf)
           taken == [totalChunks |-> n, bytes |-> bf.bytes]
           m == [type |-> TypeBitfield, resource |-> r, bitfield |-> taken]
<1>1. r \in ResourceIds /\ n \in Nat /\ n < Uint32Limit
  BY ResourceFacts
<1>2. DecodeMessage(f) = IF ~Fits(n, bf.bytes) THEN Malformed ELSE m
  BY <1>1, BitfieldDecodes
<1>3. f \in Seq(Nat)
  BY <1>1, FramesStart DEF Starts
<1>4. bf = [totalChunks |-> bf.totalChunks, bytes |-> bf.bytes] /\ Fits(bf.totalChunks, bf.bytes)
      /\ bf.bytes \in Seq(Byte)
  BY DEF Bitfields
<1>5. Fits(n, bf.bytes) => taken \in Bitfields
  BY <1>1, <1>4 DEF Bitfields
<1>6. WellFormed(Malformed)
  BY DEF WellFormed, Malformed, TypeBitfield, TypeHave
<1>7. m.type = TypeBitfield /\ m.bitfield = taken
  OBVIOUS
<1> HIDE DEF f, m
<1>8. Fits(n, bf.bytes) => WellFormed(m)
  BY <1>5, <1>7 DEF WellFormed, TypeBitfield, TypeHave
<1>9. f \in Frames
  BY <1>2, <1>3, <1>6, <1>8 DEF Frames
<1>10. Told(m) = AvailableIndices(taken)
  <2> HIDE DEF taken
  <2>1. m.type = TypeBitfield /\ m.bitfield = taken
    BY <1>7
  <2> QED
    BY <2>1 DEF Told, TypeBitfield, TypeHave
<1>11. ASSUME bf.totalChunks = n
       PROVE  /\ DecodeMessage(f) = [type |-> TypeBitfield, resource |-> r, bitfield |-> bf]
              /\ Told(DecodeMessage(f)) = AvailableIndices(bf)
  <2>1. taken = bf /\ DecodeMessage(f) = m
    BY <1>2, <1>4, <1>11
  <2> QED
    BY <1>10, <2>1 DEF m
<1> QED
  BY <1>9, <1>11 DEF f

\* A bit that is out of bounds changes the number of no chunks.
LEMMA WithBitKeepsTotal ==
    ASSUME NEW bf \in Bitfields, NEW i
    PROVE  WithBit(bf, i).totalChunks = bf.totalChunks
<1>1. bf \in [totalChunks : Nat, bytes : Seq(Byte)]
  BY DEF Bitfields
<1> QED
  BY <1>1 DEF WithBit

\* set, where it does not throw.
LEMMA SettingInBounds ==
    ASSUME NEW bf \in Bitfields, NEW i \in Nat, InBounds(bf, i)
    PROVE  /\ WithBit(bf, i) \in Bitfields
           /\ WithBit(bf, i).totalChunks = bf.totalChunks
           /\ AvailableIndices(WithBit(bf, i)) = AvailableIndices(bf) \cup {i}
  BY WithBitSets DEF InBounds

LEMMA NoViewIsEmpty == NoView \in Bitfields /\ NoView.totalChunks = 0 /\ AvailableIndices(NoView) = {}
  BY EmptyIsEmpty DEF NoView

\* What the receiver makes of a message: it takes nothing for available but what it was told.
LEMMA TakesWhatItIsTold ==
    ASSUME EType, NEW m, WellFormed(m), Take(m)
    PROVE  /\ UNCHANGED <<wanted, seeking>>
           /\ view' \in Bitfields /\ known' \in Bitfields
           /\ AvailableIndices(view') \cup AvailableIndices(known') \subseteq
                AvailableIndices(view) \cup AvailableIndices(known) \cup Told(m)
<1> DEFINE Before == AvailableIndices(view) \cup AvailableIndices(known)
           After == AvailableIndices(view') \cup AvailableIndices(known')
<1> USE DEF TypeBitfield, TypeHave
<1>1. view \in Bitfields /\ known \in Bitfields /\ {wanted, seeking} \subseteq Resources \cup {NoResource}
  BY DEF EType
<1>2. CASE m.type = TypeBitfield
  <2>1. TakeBitfield(m) /\ m.bitfield \in Bitfields /\ Told(m) = AvailableIndices(m.bitfield)
    BY <1>2 DEF Take, WellFormed, Told
  <2>2. view' = m.bitfield /\ known' \in {m.bitfield, known} /\ UNCHANGED <<wanted, seeking>>
    BY <2>1 DEF TakeBitfield
  <2>3. After \subseteq Before \cup Told(m)
    BY <2>1, <2>2
  <2> QED
    BY <1>1, <2>1, <2>2, <2>3
<1>3. CASE m.type = TypeHave
  <2> DEFINE i == m.chunk
             bf == IF view = NoView /\ wanted # NoResource THEN EmptyBitfield(TotalOf[wanted]) ELSE view
             own == IF shared THEN WithBit(bf, i)
                    ELSE IF known = NoView THEN EmptyBitfield(TotalOf[seeking]) ELSE known
  <2>1. TakeHave(m) /\ m.resource \in Resources /\ i \in Nat /\ Told(m) = {i}
    BY <1>3, ResourceFacts DEF Take, WellFormed, Told
  <2>2. bf \in Bitfields /\ AvailableIndices(bf) \subseteq AvailableIndices(view)
    BY <1>1, EmptyIsEmpty, ResourceFacts
  <2>3. /\ UNCHANGED <<wanted, seeking, shared>>
        /\ IF bf # NoView /\ ~InBounds(bf, i)
           THEN view' = bf /\ UNCHANGED known
           ELSE /\ view' = IF bf = NoView THEN view ELSE WithBit(bf, i)
                /\ known' = IF m.resource = seeking /\ InBounds(own, i) THEN WithBit(own, i)
                            ELSE IF shared THEN view' ELSE known
    BY <2>1, Zenon DEF TakeHave
  <2> HIDE DEF bf
  <2>4. CASE bf # NoView /\ ~InBounds(bf, i)
    BY <1>1, <2>2, <2>3, <2>4
  <2>5. CASE ~(bf # NoView /\ ~InBounds(bf, i))
    <3>1. bf # NoView => /\ WithBit(bf, i) \in Bitfields
                         /\ AvailableIndices(WithBit(bf, i)) = AvailableIndices(bf) \cup {i}
      BY <2>1, <2>2, <2>5, SettingInBounds
    <3>2. view' \in Bitfields /\ AvailableIndices(view') \subseteq AvailableIndices(view) \cup {i}
      BY <1>1, <2>2, <2>3, <2>5, <3>1
    <3>3. ASSUME m.resource = seeking, InBounds(own, i)
          PROVE  own \in Bitfields /\ AvailableIndices(own) \subseteq Before \cup {i}
      <4>1. CASE shared
        <5>1. own = WithBit(bf, i) /\ own.totalChunks = bf.totalChunks
          BY <2>2, <4>1, WithBitKeepsTotal
        <5>2. bf # NoView
          BY <2>1, <3>3, <5>1, NoViewIsEmpty DEF InBounds
        <5> QED
          BY <2>2, <3>1, <5>1, <5>2
      <4>2. CASE ~shared
        <5>1. own \in {EmptyBitfield(TotalOf[m.resource]), known}
          BY <3>3, <4>2
        <5>2. /\ EmptyBitfield(TotalOf[m.resource]) \in Bitfields
              /\ AvailableIndices(EmptyBitfield(TotalOf[m.resource])) = {}
          BY <2>1, EmptyIsEmpty, ResourceFacts
        <5> QED
          BY <1>1, <5>1, <5>2
      <4> QED
        BY <4>1, <4>2
    <3> HIDE DEF own
    <3>4. CASE m.resource = seeking /\ InBounds(own, i)
      <4>1. /\ known' = WithBit(own, i) /\ known' \in Bitfields
            /\ AvailableIndices(known') = AvailableIndices(own) \cup {i}
        BY <2>1, <2>3, <2>5, <3>3, <3>4, SettingInBounds
      <4> QED
        BY <2>1, <2>3, <3>2, <3>3, <3>4, <4>1
    <3>5. CASE ~(m.resource = seeking /\ InBounds(own, i))
      <4>1. known' = view' \/ known' = known
        BY <2>3, <2>5, <3>5
      <4> QED
        BY <1>1, <2>1, <2>3, <3>2, <4>1
    <3> QED
      BY <3>4, <3>5
  <2> QED
    BY <2>4, <2>5
<1>4. CASE m.type # TypeBitfield /\ m.type # TypeHave
  <2>1. UNCHANGED receiverVars
    BY <1>4 DEF Take
  <2> QED
    BY <1>1, <2>1 DEF receiverVars
<1> QED
  BY <1>2, <1>3, <1>4

-----------------------------------------------------------------------------
\* The sender's handlers, one after the other.
LEMMA ShortSequences ==
    \A S : <<>> \in Seq(S) /\ \A f \in S : <<f>> \in Seq(S)
  OBVIOUS

LEMMA HonestGrows ==
    ASSUME NEW S, NEW T, S \subseteq T
    PROVE  Seq(HonestFrames(S)) \subseteq Seq(HonestFrames(T))
<1>1. HonestFrames(S) \subseteq HonestFrames(T)
  BY DEF HonestFrames
<1> QED
  BY <1>1, SeqMonotonic

\* A handler of the sender that hands over honest frames.
LEMMA HandlerKeeps ==
    ASSUME EInv, UNCHANGED <<calls, frames, receiverVars>>, SenderType', outbox' \in Seq(Frames),
           started \subseteq started', \A s \in Resources : held[s] \subseteq held'[s],
           \A s \in Resources : started' \subseteq {s} => outbox' \in Seq(HonestFrames(held'[s]))
    PROVE  EInv'
<1>1. EType'
  BY DEF EInv, EType, receiverVars
<1>2. ASSUME NEW s \in Resources, started' \subseteq {s} PROVE Truth(s)'
  <2>1. Truth(s)
    BY <1>2 DEF EInv
  <2>2. frames \in Seq(HonestFrames(held'[s]))
    BY <2>1, HonestGrows DEF Truth
  <2>3. AvailableIndices(view) \cup AvailableIndices(known) \subseteq held'[s]
    BY <2>1 DEF Truth
  <2> QED
    BY <1>2, <2>2, <2>3 DEF Truth, receiverVars
<1> QED
  BY <1>1, <1>2 DEF EInv

\* The same for a handler that leaves the downloads alone.
LEMMA WriterKeeps ==
    ASSUME EInv, UNCHANGED <<calls, frames, receiverVars, senderVars>>, outbox' \in Seq(Frames),
           \A s \in Resources : started \subseteq {s} => outbox' \in Seq(HonestFrames(held[s]))
    PROVE  EInv'
<1>1. SenderType'
  BY DEF EInv, EType, SenderType, senderVars
<1> QED
  BY <1>1, HandlerKeeps DEF senderVars

\* Frames that tell nothing are honest.
LEMMA SilentFrames ==
    ASSUME NEW f, NEW type, Starts(f, type), type # TypeBitfield, type # TypeHave
    PROVE  f \in Frames /\ \A S : f \in HonestFrames(S)
<1>1. f \in Seq(Nat) /\ f[2] # TypeBitfield /\ f[2] # TypeHave
  BY DEF Starts
<1>2. f \in Frames /\ Told(DecodeMessage(f)) = {}
  BY <1>1, OthersTellNothing
<1> QED
  BY <1>2 DEF HonestFrames

\* The chunks of earlier visits are loaded; nothing was said of the resource before.
LEMMA StartKeeps == ASSUME EInv, NEW r \in Resources, StartDownload(r) PROVE EInv'
<1>1. /\ r \notin started /\ ~loading /\ started' = started \cup {r} /\ manifest' = r /\ loading' = TRUE
      /\ UNCHANGED <<calls, frames, receiverVars, offered, loaded, outbox>>
  BY DEF StartDownload, vars
<1>2. PICK chunks \in Visited[r] : held' = [held EXCEPT ![r] = chunks]
  BY DEF StartDownload
<1>3. chunks \subseteq 0..(TotalOf[r] - 1) /\ r # NoResource /\ 0..(TotalOf[r] - 1) \subseteq Nat
  BY <1>2, ResourcesAssumption
<1>4. SenderType /\ outbox \in Seq(Frames) /\ held \in [Resources -> SUBSET Nat] /\ held[r] = {}
  BY <1>1 DEF EInv, EType, SenderType
<1>5. /\ held' \in [Resources -> SUBSET Nat] /\ held'[r] = chunks
      /\ \A s \in Resources : s # r => held'[s] = held[s]
  BY <1>2, <1>3, <1>4
<1>6. SenderType'
  BY <1>1, <1>3, <1>4, <1>5 DEF SenderType
<1>7. \A s \in Resources : held[s] \subseteq held'[s]
  BY <1>4, <1>5
<1>8. ASSUME NEW s \in Resources, started' \subseteq {s} PROVE outbox' \in Seq(HonestFrames(held'[s]))
  <2>1. outbox \in Seq(HonestFrames(held[s]))
    BY <1>1, <1>8 DEF EInv, Truth
  <2> QED
    BY <1>1, <1>7, <2>1, HonestGrows
<1> QED
  BY <1>1, <1>4, <1>6, <1>7, <1>8, HandlerKeeps

LEMMA ResumeKeeps == ASSUME EInv, Resume PROVE EInv'
<1> DEFINE f == EncodeBitfield(manifest, TotalOf[manifest], LocalBitfield(manifest))
<1>1. /\ loading /\ loading' = FALSE /\ offered' = manifest /\ loaded' = loaded \cup {manifest}
      /\ outbox' \in {<<>>, <<f>>}
      /\ UNCHANGED <<calls, frames, receiverVars, started, manifest, held>>
  BY DEF Resume, Broadcast, vars
<1>2. EType /\ SenderType /\ manifest \in started /\ manifest \in Resources
  BY <1>1 DEF EInv, EType, SenderType
<1>3. SenderType'
  BY <1>1, <1>2 DEF SenderType
<1>4. f \in Frames /\ Told(DecodeMessage(f)) = held[manifest]
  BY <1>2, LocalIsHeld, BitfieldTells
<1> HIDE DEF f
<1>5. \A s \in Resources : started \subseteq {s} => f \in HonestFrames(held[s])
  BY <1>2, <1>4 DEF HonestFrames
<1>6. outbox' \in Seq(Frames)
  BY <1>1, <1>4, ShortSequences
<1>7. \A s \in Resources : started' \subseteq {s} => outbox' \in Seq(HonestFrames(held'[s]))
  BY <1>1, <1>5, ShortSequences
<1> QED
  BY <1>1, <1>3, <1>6, <1>7, HandlerKeeps

LEMMA StoresKeeps == ASSUME EInv, NEW r \in Resources, NEW c \in Traded[r], Stores(r, c) PROVE EInv'
<1> DEFINE f == EncodeHave(r, c)
<1>1. /\ r \in loaded /\ held' = [held EXCEPT ![r] = @ \cup {c}] /\ outbox' \in {<<>>, <<f>>}
      /\ UNCHANGED <<calls, frames, receiverVars, started, manifest, loading, offered, loaded>>
  BY DEF Stores, Broadcast, vars
<1>2. SenderType /\ r \in started /\ held \in [Resources -> SUBSET Nat]
  BY <1>1 DEF EInv, EType, SenderType
<1>3. c \in 0..(TotalOf[r] - 1) /\ c \in Nat
  BY ResourceFacts
<1>4. /\ held' \in [Resources -> SUBSET Nat] /\ held'[r] = held[r] \cup {c}
      /\ \A s \in Resources : s # r => held'[s] = held[s]
  BY <1>1, <1>2, <1>3
<1>5. SenderType'
  BY <1>1, <1>2, <1>3, <1>4 DEF SenderType
<1>6. f \in Frames /\ Told(DecodeMessage(f)) = {c}
  BY HaveTells
<1> HIDE DEF f
<1>7. \A s \in Resources : started \subseteq {s} => f \in HonestFrames(held'[s])
  BY <1>2, <1>4, <1>6 DEF HonestFrames
<1>8. outbox' \in Seq(Frames)
  BY <1>1, <1>6, ShortSequences
<1>9. \A s \in Resources : held[s] \subseteq held'[s]
  BY <1>4
<1>10. \A s \in Resources : started' \subseteq {s} => outbox' \in Seq(HonestFrames(held'[s]))
  BY <1>1, <1>7, ShortSequences
<1> QED
  BY <1>1, <1>5, <1>8, <1>9, <1>10, HandlerKeeps

LEMMA OpenKeeps == ASSUME EInv, OnChannelOpen PROVE EInv'
<1> DEFINE f == EncodeBitfield(manifest, TotalOf[manifest], LocalBitfield(offered))
           g == EncodeUnchoke(manifest)
<1>1. /\ outbox' = IF manifest = NoResource \/ offered = NoResource THEN <<>> ELSE <<f, g>>
      /\ UNCHANGED <<calls, frames, receiverVars, senderVars>>
  BY DEF OnChannelOpen, ChannelOpens
<1>2. CASE manifest = NoResource \/ offered = NoResource
  <2>1. outbox' = <<>>
    BY <1>1, <1>2
  <2>2. outbox' \in Seq(Frames) /\ \A S : outbox' \in Seq(HonestFrames(S))
    BY <2>1, ShortSequences
  <2> QED
    BY <1>1, <2>2, WriterKeeps
<1>3. CASE ~(manifest = NoResource \/ offered = NoResource)
  <2>1. EType /\ {manifest, offered} \subseteq started /\ {manifest, offered} \subseteq Resources
    BY <1>3 DEF EInv, EType, SenderType
  <2>2. /\ f \in Frames
        /\ manifest = offered => Told(DecodeMessage(f)) = held[offered]
    BY <2>1, LocalIsHeld, BitfieldTells
  <2>3. Starts(g, TypeUnchoke)
    BY <2>1, ResourceFacts, FramesStart
  <2>4. g \in Frames /\ \A S : g \in HonestFrames(S)
    BY <2>3, SilentFrames DEF TypeUnchoke, TypeBitfield, TypeHave
  <2> HIDE DEF f, g
  <2>5. \A s \in Resources : started \subseteq {s} => f \in HonestFrames(held[s])
    BY <2>1, <2>2 DEF HonestFrames
  <2>6. outbox' = <<f, g>>
    BY <1>1, <1>3
  <2>7. outbox' \in Seq(Frames)
    BY <2>2, <2>4, <2>6
  <2>8. \A s \in Resources : started \subseteq {s} => outbox' \in Seq(HonestFrames(held[s]))
    BY <2>4, <2>5, <2>6
  <2> QED
    BY <1>1, <2>7, <2>8, WriterKeeps
<1> QED
  BY <1>2, <1>3

LEMMA ServeKeeps == ASSUME EInv, NEW r \in Resources, NEW c \in Traded[r], Serve(r, c) PROVE EInv'
<1> DEFINE data == ChunkData(r, c)
           block(k) == EncodePiece(r, c, k - 1, Len(data), <<data[k]>>)
           blocks == [k \in DOMAIN data |-> block(k)]
<1>1. outbox' \in {<<>>, blocks} /\ UNCHANGED <<calls, frames, receiverVars, senderVars>>
  BY DEF Serve, vars
<1>2. c \in Nat /\ r \in ResourceIds
  BY ResourceFacts
<1>3. data = <<c % 256, c % 256>> /\ DOMAIN data = 1..2 /\ Len(data) = 2 /\ c % 256 \in Nat
  BY <1>2 DEF ChunkData
<1>4. ASSUME NEW k \in 1..2 PROVE block(k) \in Frames /\ \A S : block(k) \in HonestFrames(S)
  <2>1. k - 1 \in Nat /\ <<data[k]>> \in Seq(Nat) /\ Len(data) \in Nat
    BY <1>2, <1>3
  <2>2. Starts(block(k), TypePiece)
    BY <1>2, <2>1, FramesStart
  <2> QED
    BY <2>2, SilentFrames DEF TypePiece, TypeBitfield, TypeHave
<1> HIDE DEF block
<1>5. blocks = [k \in 1..2 |-> block(k)]
  BY <1>3
<1>6. ASSUME NEW S, \A k \in 1..2 : block(k) \in S PROVE blocks \in Seq(S) /\ <<>> \in Seq(S)
  <2>1. [k \in 1..2 |-> block(k)] \in [1..2 -> S]
    BY <1>6
  <2>2. [k \in 1..2 |-> block(k)] \in Seq(S)
    BY <2>1, SeqDef
  <2> QED
    BY <1>5, <2>2
<1> HIDE DEF blocks, data
<1>7. outbox' \in Seq(Frames)
  BY <1>1, <1>4, <1>6
<1>8. ASSUME NEW S PROVE outbox' \in Seq(HonestFrames(S))
  BY <1>1, <1>4, <1>6
<1> QED
  BY <1>1, <1>7, <1>8, WriterKeeps

LEMMA AskKeeps == ASSUME EInv, NEW r \in Resources, NEW c \in Traded[r], Ask(c) PROVE EInv'
<1> DEFINE f == EncodeRequest(offered, c)
<1>1. offered # NoResource /\ outbox' = <<f>> /\ UNCHANGED <<calls, frames, receiverVars, senderVars>>
  BY DEF Ask, vars
<1>2. offered \in Resources /\ c \in Nat
  BY <1>1, ResourceFacts DEF EInv, EType, SenderType
<1>3. Starts(f, TypeRequest)
  BY <1>2, ResourceFacts, FramesStart
<1>4. f \in Frames /\ \A S : f \in HonestFrames(S)
  BY <1>3, SilentFrames DEF TypeRequest, TypeBitfield, TypeHave
<1> HIDE DEF f
<1>5. outbox' \in Seq(Frames) /\ \A s \in Resources : outbox' \in Seq(HonestFrames(held[s]))
  BY <1>1, <1>4
<1> QED
  BY <1>1, <1>5, WriterKeeps

-----------------------------------------------------------------------------
\* The next frame goes from the handler's frames to those that were sent.
LEMMA SendNextKeeps == ASSUME SInv, EInv, SendNext PROVE EInv'
<1>1. /\ outbox # <<>> /\ calls' = calls + 1
      /\ frames' = Append(frames, Head(outbox)) /\ outbox' = Tail(outbox)
      /\ UNCHANGED <<senderVars, receiverVars>>
  BY DEF SendNext, SendRefused, SendQueues, SendPasses, SendThrows, Call
<1>2. ASSUME NEW S, outbox \in Seq(S), frames \in Seq(S)
      PROVE  outbox' \in Seq(S) /\ frames' \in Seq(S) /\ Len(frames') = Len(frames) + 1
  BY <1>1, <1>2, HeadTailProperties, AppendProperties
<1>3. EType'
  <2>1. outbox' \in Seq(Frames) /\ frames' \in Seq(Frames) /\ Len(frames') = calls'
    BY <1>1, <1>2 DEF EInv, EType
  <2> QED
    BY <1>1, <2>1 DEF EInv, EType, SenderType, senderVars, receiverVars
<1>4. ASSUME NEW s \in Resources, started' \subseteq {s} PROVE Truth(s)'
  <2>1. Truth(s) /\ UNCHANGED <<held, view, known>>
    BY <1>1, <1>4 DEF EInv, senderVars, receiverVars
  <2>2. outbox' \in Seq(HonestFrames(held[s])) /\ frames' \in Seq(HonestFrames(held[s]))
    BY <1>2, <2>1 DEF Truth
  <2> QED
    BY <2>1, <2>2 DEF Truth
<1> QED
  BY <1>3, <1>4 DEF EInv

\* The frame that arrives is one of those that were sent.
LEMMA ArrivesKeeps == ASSUME SInv, EInv, Arrives PROVE EInv'
<1> DEFINE n == Head(buffer).id
           m == DecodeMessage(frames[n])
<1>1. Take(m) /\ buffer # <<>> /\ UNCHANGED <<calls, senderVars, outbox, frames>>
  BY DEF Arrives, Transmit
<1>2. n \in 1..Len(frames)
  <2>1. Head(buffer) \in UpTo(calls)
    BY <1>1, HeadTailProperties DEF SInv
  <2> QED
    BY <2>1 DEF UpTo, EInv, EType
<1>3. frames[n] \in Frames
  BY <1>2, ElementOfSeq DEF EInv, EType
<1>4. EType /\ WellFormed(m)
  BY <1>3 DEF EInv, Frames
<1> HIDE DEF m, n
<1>5. /\ UNCHANGED <<wanted, seeking>> /\ view' \in Bitfields /\ known' \in Bitfields
      /\ AvailableIndices(view') \cup AvailableIndices(known') \subseteq
           AvailableIndices(view) \cup AvailableIndices(known) \cup Told(m)
  BY <1>1, <1>4, TakesWhatItIsTold
<1>6. EType'
  BY <1>1, <1>4, <1>5 DEF EType, SenderType, senderVars
<1>7. ASSUME NEW s \in Resources, started' \subseteq {s} PROVE Truth(s)'
  <2>1. Truth(s) /\ UNCHANGED <<held, outbox, frames>>
    BY <1>1, <1>7 DEF EInv, senderVars
  <2>2. frames[n] \in HonestFrames(held[s])
    BY <1>2, <2>1, ElementOfSeq DEF Truth
  <2>3. Told(m) \subseteq held[s]
    BY <2>2 DEF HonestFrames, m
  <2> QED
    BY <1>5, <2>1, <2>3 DEF Truth
<1> QED
  BY <1>6, <1>7 DEF EInv

\* Steps of the receiver that give it nothing new.
LEMMA ReceiverKeeps ==
    ASSUME EInv, UNCHANGED <<calls, senderVars, outbox, frames>>,
           {wanted', seeking'} \subseteq Resources \cup {NoResource},
           {view', known'} \subseteq {view, known, NoView}
    PROVE  EInv'
<1>1. EType'
  BY NoViewIsEmpty DEF EInv, EType, SenderType, senderVars
<1>2. ASSUME NEW s \in Resources, started' \subseteq {s} PROVE Truth(s)'
  <2>1. Truth(s) /\ UNCHANGED <<held, outbox, frames>>
    BY <1>2 DEF EInv, senderVars
  <2> QED
    BY <2>1, NoViewIsEmpty DEF Truth
<1> QED
  BY <1>1, <1>2 DEF EInv

LEMMA EInvStarts == ExchangeInit => EInv
<1> SUFFICES ASSUME ExchangeInit PROVE EInv
  OBVIOUS
<1>1. \A S : <<>> \in Seq(S) /\ Len(<<>>) = 0
  OBVIOUS
<1>2. EType
  BY <1>1, NoViewIsEmpty DEF ExchangeInit, Init, EType, SenderType
<1>3. \A r \in Resources : Truth(r)
  BY <1>1, NoViewIsEmpty DEF ExchangeInit, Truth
<1> QED
  BY <1>2, <1>3 DEF EInv

LEMMA EInvKept == SInv /\ EInv /\ [ExchangeNext]_allVars => EInv'
<1> SUFFICES ASSUME SInv, EInv, [ExchangeNext]_allVars PROVE EInv'
  OBVIOUS
<1>1. EType
  BY DEF EInv
<1>2. {wanted, seeking} \subseteq Resources \cup {NoResource}
  BY <1>1 DEF EType
<1>3. CASE UNCHANGED allVars
  BY <1>2, <1>3, ReceiverKeeps DEF allVars, exchangeVars, receiverVars, vars
<1>4. ASSUME NEW r \in Resources, StartDownload(r) PROVE EInv'
  BY <1>4, StartKeeps
<1>5. ASSUME NEW r \in Resources, Seek(r) PROVE EInv'
  BY <1>2, <1>5, ReceiverKeeps DEF Seek, vars
<1>6. ASSUME NEW r \in Resources, NEW c \in Traded[r], Stores(r, c) \/ Serve(r, c) \/ Ask(c) PROVE EInv'
  BY <1>6, StoresKeeps, ServeKeeps, AskKeeps
<1>7. ASSUME NEW c \in AvailableIndices(known), Request(c) PROVE EInv'
  BY <1>2, <1>7, ReceiverKeeps DEF Request, receiverVars, vars
<1>8. CASE Resume
  BY <1>8, ResumeKeeps
<1>9. CASE ResumeWithNothing
  <2>1. /\ UNCHANGED <<calls, frames, receiverVars, started, manifest, offered, loaded, held, outbox>>
        /\ loading' = FALSE
    BY <1>9 DEF ResumeWithNothing, vars
  <2>2. SenderType'
    BY <1>1, <2>1 DEF EType, SenderType
  <2>3. \A s \in Resources : started' \subseteq {s} => outbox' \in Seq(HonestFrames(held'[s]))
    BY <2>1 DEF EInv, Truth
  <2>4. outbox' \in Seq(Frames)
    BY <1>1, <2>1 DEF EType
  <2> QED
    BY <2>1, <2>2, <2>3, <2>4, HandlerKeeps
<1>10. CASE SeekLoaded
  BY <1>2, <1>10, ReceiverKeeps DEF SeekLoaded, vars
<1>11. CASE OnChannelOpen
  BY <1>11, OpenKeeps
<1>12. CASE SendNext
  BY <1>12, SendNextKeeps
<1>13. CASE OnLow
  BY <1>2, <1>13, ReceiverKeeps DEF OnLow, OnBufferedAmountLow, exchangeVars, receiverVars
<1>14. CASE Arrives
  BY <1>14, ArrivesKeeps
<1>15. CASE GoesDown
  BY <1>2, <1>15, ReceiverKeeps DEF GoesDown, ChannelCloses, Close
<1> QED
  BY <1>3, <1>4, <1>5, <1>6, <1>7, <1>8, <1>9, <1>10, <1>11, <1>12, <1>13, <1>14, <1>15
  DEF ExchangeNext

LEMMA ExchangeKeepsSInv == SInv /\ [ExchangeNext]_allVars => SInv'
<1>1. [ExchangeNext]_allVars => [ChannelStep]_vars
  BY ExchangeNextIsChannelStep DEF allVars
<1> QED
  BY <1>1, SInvKept

\* As long as both have downloaded the same resource only, the receiver takes no chunk for
\* available that the sender does not have, in its coordinator or its scheduler: for every number
\* of chunks and all orders of opening, storing, sending and closing (handleChannelOpen,
\* startDownload, handleDataMessage).
THEOREM ClaimsAreTrue == ExchangeSpec => []NoFalseClaims
<1>1. ExchangeInit => SInv /\ EInv
  BY SInvStarts, EInvStarts DEF ExchangeInit
<1>2. SInv /\ EInv /\ [ExchangeNext]_allVars => SInv' /\ EInv'
  BY ExchangeKeepsSInv, EInvKept
<1>3. EInv => NoFalseClaims
  BY DEF EInv, Truth, NoFalseClaims
<1> QED
  BY <1>1, <1>2, <1>3, PTL DEF ExchangeSpec

-----------------------------------------------------------------------------
(***************************************************************************)
(* What was written can be read (WireFaithful).                            *)
(***************************************************************************)
\* A frame that is not a BITFIELD is not refused.
Readable(f) == f[2] # TypeBitfield => DecodeMessage(f) # Malformed
ReadableFrames == {f \in Frames : Readable(f)}
RInv == outbox \in Seq(ReadableFrames) /\ frames \in Seq(ReadableFrames)

LEMMA ReadAsSomething ==
    ASSUME NEW f, NEW message, ReadOnlyAs(f, message), message.type # 0
    PROVE  Readable(f)
BY DEF ReadOnlyAs, Malformed, Readable

\* What the sender's handlers write is readable.
LEMMA WrittenIsReadable ==
    ASSUME NEW id \in Resources, NEW c \in 0..(TotalOf[id] - 1)
    PROVE  /\ \A n \in Nat, bf \in Bitfields : Readable(EncodeBitfield(id, n, bf))
           /\ Readable(EncodeHave(id, c)) /\ Readable(EncodeRequest(id, c))
           /\ \A b \in Nat, t \in Nat, data \in Seq(Byte) :
                b < Uint32Limit /\ t < Uint32Limit /\ Len(data) < Uint32Limit
                => Readable(EncodePiece(id, c, b, t, data))
<1>1. id \in ResourceIds /\ c \in Nat /\ c < Uint32Limit
  BY ResourceFacts DEF Uint32Limit
<1>2. ASSUME NEW n \in Nat, NEW bf \in Bitfields PROVE Readable(EncodeBitfield(id, n, bf))
  BY <1>1, FramesStart DEF Starts, Readable
<1>3. Readable(EncodeHave(id, c))
  <2>1. ReadOnlyAs(EncodeHave(id, c), [type |-> TypeHave, resource |-> id, chunk |-> c])
    BY <1>1, IndexOnlyAs DEF EncodeHave
  <2> QED
    BY <2>1, ReadAsSomething DEF TypeHave
<1>4. Readable(EncodeRequest(id, c))
  <2>1. ReadOnlyAs(EncodeRequest(id, c), [type |-> TypeRequest, resource |-> id, chunk |-> c])
    BY <1>1, IndexOnlyAs DEF EncodeRequest
  <2> QED
    BY <2>1, ReadAsSomething DEF TypeRequest
<1>5. ASSUME NEW b \in Nat, NEW t \in Nat, NEW data \in Seq(Byte),
             b < Uint32Limit, t < Uint32Limit, Len(data) < Uint32Limit
      PROVE  Readable(EncodePiece(id, c, b, t, data))
  <2> DEFINE message == [type |-> TypePiece, resource |-> id, chunk |-> c, beginOffset |-> b,
                         totalLength |-> t, data |-> data]
  <2>1. ReadOnlyAs(EncodePiece(id, c, b, t, data), message)
    BY <1>1, <1>5, PieceOnlyAs, Zenon
  <2>2. message.type # 0
    BY DEF TypePiece
  <2> QED
    BY <2>1, <2>2, ReadAsSomething, Zenon
<1> QED
  BY <1>2, <1>3, <1>4, <1>5

LEMMA UnchokeIsReadable == ASSUME NEW id \in Resources PROVE Readable(EncodeUnchoke(id))
<1>1. ReadOnlyAs(EncodeUnchoke(id), [type |-> TypeUnchoke, resource |-> id])
  BY ResourceFacts, HeaderOnlyAs DEF EncodeUnchoke
<1> QED
  BY <1>1, ReadAsSomething DEF TypeUnchoke

\* What a handler hands over is typed (EInv') and readable.
LEMMA ReadableSeq ==
    ASSUME NEW s \in Seq(Frames), \A k \in 1..Len(s) : Readable(s[k])
    PROVE  s \in Seq(ReadableFrames)
<1>1. Len(s) \in Nat /\ s \in [1..Len(s) -> Frames]
  BY LenProperties
<1>2. s \in [1..Len(s) -> ReadableFrames]
  BY <1>1 DEF ReadableFrames
<1> QED
  BY <1>1, <1>2, SeqDef

LEMMA ServedIsReadable ==
    ASSUME EInv', NEW r \in Resources, NEW c \in Traded[r], Serve(r, c)
    PROVE  outbox' \in Seq(ReadableFrames)
<1> DEFINE data == ChunkData(r, c)
           block(k) == EncodePiece(r, c, k - 1, Len(data), <<data[k]>>)
           blocks == [k \in DOMAIN data |-> block(k)]
<1>1. outbox' \in {<<>>, blocks} /\ outbox' \in Seq(Frames)
  BY DEF Serve, EInv, EType
<1>2. c \in 0..(TotalOf[r] - 1) /\ c \in Nat
  BY ResourceFacts
<1>3. /\ DOMAIN data = 1..2 /\ Len(data) = 2 /\ c % 256 \in 0..255
      /\ data[1] = c % 256 /\ data[2] = c % 256
  BY <1>2 DEF ChunkData
<1>4. ASSUME NEW k \in 1..2 PROVE Readable(block(k))
  <2>1. k - 1 \in Nat /\ k - 1 < Uint32Limit /\ Len(data) \in Nat /\ Len(data) < Uint32Limit
    BY <1>3 DEF Uint32Limit
  <2>2. <<data[k]>> \in Seq(Byte) /\ Len(<<data[k]>>) < Uint32Limit
    BY <1>3 DEF Byte, Uint32Limit
  <2> QED
    BY <1>2, <2>1, <2>2, WrittenIsReadable, Zenon
<1> HIDE DEF block
<1>5. DOMAIN blocks = 1..2 /\ \A k \in 1..2 : blocks[k] = block(k)
  BY <1>3
<1> HIDE DEF blocks
<1>6. \A k \in 1..Len(outbox') : Readable(outbox'[k])
  <2>1. CASE outbox' = <<>>
    BY <2>1
  <2>2. CASE outbox' = blocks
    <3>1. DOMAIN outbox' = 1..Len(outbox')
      BY <1>1, LenProperties
    <3> QED
      BY <1>4, <1>5, <2>2, <3>1
  <2> QED
    BY <1>1, <2>1, <2>2
<1> QED
  BY <1>1, <1>6, ReadableSeq

LEMMA RInvKept == SInv /\ EInv /\ EInv' /\ RInv /\ [ExchangeNext]_allVars => RInv'
<1> SUFFICES ASSUME SInv, EInv, EInv', RInv, [ExchangeNext]_allVars PROVE RInv'
  OBVIOUS
<1>1. EType /\ SenderType /\ outbox' \in Seq(Frames)
  BY DEF EInv, EType
<1>2. CASE UNCHANGED <<outbox, frames>>
  BY <1>2 DEF RInv
<1>3. ASSUME UNCHANGED frames, \A k \in 1..Len(outbox') : Readable(outbox'[k]) PROVE RInv'
  BY <1>1, <1>3, ReadableSeq DEF RInv
<1>4. ASSUME NEW f, Readable(f), UNCHANGED frames, outbox' \in {<<>>, <<f>>} PROVE RInv'
  <2>1. \A k \in 1..Len(outbox') : Readable(outbox'[k])
    BY <1>4
  <2> QED
    BY <1>3, <1>4, <2>1
<1>5. CASE Resume
  <2> DEFINE f == EncodeBitfield(manifest, TotalOf[manifest], LocalBitfield(manifest))
  <2>1. outbox' \in {<<>>, <<f>>} /\ UNCHANGED frames /\ manifest \in Resources
    BY <1>1, <1>5 DEF Resume, Broadcast, SenderType
  <2>2. TotalOf[manifest] \in Nat /\ LocalBitfield(manifest) \in Bitfields
    BY <1>1, <2>1, ResourceFacts, LocalIsHeld
  <2>3. Readable(f)
    <3>1. Starts(f, TypeBitfield)
      BY <2>1, <2>2, ResourceFacts, FramesStart
    <3> QED
      BY <3>1 DEF Starts, Readable
  <2> HIDE DEF f
  <2> QED
    BY <1>4, <2>1, <2>3
<1>6. ASSUME NEW r \in Resources, NEW c \in Traded[r], Stores(r, c) PROVE RInv'
  <2> DEFINE f == EncodeHave(r, c)
  <2>1. outbox' \in {<<>>, <<f>>} /\ UNCHANGED frames
    BY <1>6 DEF Stores, Broadcast
  <2>2. Readable(f)
    BY ResourceFacts, WrittenIsReadable
  <2> HIDE DEF f
  <2> QED
    BY <1>4, <2>1, <2>2
<1>7. ASSUME NEW r \in Resources, NEW c \in Traded[r], Serve(r, c) PROVE RInv'
  <2>1. UNCHANGED frames /\ outbox' \in Seq(ReadableFrames)
    BY <1>7, ServedIsReadable DEF Serve
  <2> QED
    BY <2>1 DEF RInv
<1>8. ASSUME NEW r \in Resources, NEW c \in Traded[r], Ask(c) PROVE RInv'
  <2> DEFINE f == EncodeRequest(offered, c)
  <2>1. /\ outbox' = <<f>> /\ UNCHANGED frames /\ offered \in Resources
        /\ c \in Traded[offered]
    BY <1>1, <1>8 DEF Ask, SenderType
  <2>2. Readable(f)
    BY <2>1, ResourceFacts, WrittenIsReadable
  <2> HIDE DEF f
  <2> QED
    BY <1>4, <2>1, <2>2
<1>9. CASE OnChannelOpen
  <2> DEFINE f == EncodeBitfield(manifest, TotalOf[manifest], LocalBitfield(offered))
             g == EncodeUnchoke(manifest)
  <2>1. /\ outbox' = IF manifest = NoResource \/ offered = NoResource THEN <<>> ELSE <<f, g>>
        /\ UNCHANGED frames
    BY <1>9 DEF OnChannelOpen
  <2>2. CASE manifest = NoResource \/ offered = NoResource
    <3>1. \A k \in 1..Len(outbox') : Readable(outbox'[k])
      BY <2>1, <2>2
    <3> QED
      BY <1>3, <2>1, <3>1
  <2>3. CASE ~(manifest = NoResource \/ offered = NoResource)
    <3>1. manifest \in Resources /\ offered \in Resources
      BY <1>1, <2>3 DEF SenderType
    <3>2. TotalOf[manifest] \in Nat /\ LocalBitfield(offered) \in Bitfields
      BY <1>1, <3>1, ResourceFacts, LocalIsHeld
    <3>3. Readable(f)
      <4>1. Starts(f, TypeBitfield)
        BY <3>1, <3>2, ResourceFacts, FramesStart
      <4> QED
        BY <4>1 DEF Starts, Readable
    <3>4. Readable(g)
      BY <3>1, UnchokeIsReadable
    <3> HIDE DEF f, g
    <3>5. outbox' = <<f, g>>
      BY <2>1, <2>3
    <3>6. \A k \in 1..Len(outbox') : Readable(outbox'[k])
      BY <3>3, <3>4, <3>5
    <3> QED
      BY <1>3, <2>1, <3>6
  <2> QED
    BY <2>2, <2>3
<1>10. CASE SendNext
  <2>1. outbox # <<>> /\ frames' = Append(frames, Head(outbox)) /\ outbox' = Tail(outbox)
    BY <1>10 DEF SendNext
  <2> QED
    BY <2>1, HeadTailProperties, AppendProperties DEF RInv
<1>11. CASE UNCHANGED allVars
  BY <1>2, <1>11 DEF allVars, exchangeVars
<1>12. ASSUME NEW r \in Resources, StartDownload(r) \/ Seek(r) PROVE RInv'
  BY <1>2, <1>12 DEF StartDownload, Seek
<1>13. ASSUME NEW c \in AvailableIndices(known), Request(c) PROVE RInv'
  BY <1>2, <1>13 DEF Request
<1>14. CASE ResumeWithNothing \/ SeekLoaded \/ OnLow \/ Arrives \/ GoesDown
  BY <1>2, <1>14 DEF ResumeWithNothing, SeekLoaded, OnLow, Arrives, GoesDown, exchangeVars
<1> QED
  BY <1>5, <1>6, <1>7, <1>8, <1>9, <1>10, <1>11, <1>12, <1>13, <1>14 DEF ExchangeNext

\* What an encoder has written decodes to what it was given, whole and of the right version only, and
\* a frame of the sender that is not a BITFIELD is never refused (protocol.wire.ts, bitfield.ts): for
\* all ids of at most 255 bytes, numbers of 32 bits, data and sets of chunks, and in every state of
\* the exchange.
THEOREM WireHolds == ExchangeSpec => []WireFaithful
<1>1. ExchangeInit => SInv /\ EInv /\ RInv
  BY SInvStarts, EInvStarts, ShortSequences DEF ExchangeInit, RInv
<1>2. SInv /\ EInv /\ RInv /\ [ExchangeNext]_allVars => SInv' /\ EInv' /\ RInv'
  BY ExchangeKeepsSInv, EInvKept, RInvKept
<1>3. RInv => WireFaithful
  <2> SUFFICES ASSUME RInv, NEW n \in DOMAIN frames PROVE Readable(frames[n])
    BY CodecIsFaithful, BitfieldsAreFaithful DEF WireFaithful, Readable
  <2>1. frames \in Seq(ReadableFrames) /\ DOMAIN frames = 1..Len(frames)
    BY LenProperties DEF RInv
  <2>2. frames[n] \in ReadableFrames
    BY <2>1, ElementOfSeq
  <2> QED
    BY <2>2 DEF ReadableFrames
<1> QED
  BY <1>1, <1>2, <1>3, PTL DEF ExchangeSpec

-----------------------------------------------------------------------------
(***************************************************************************)
(* The frames on their way to the receiver, oldest first: those the        *)
(* channel holds, those that wait in the queue, and those the handler that *)
(* runs is about to hand to send.                                          *)
(***************************************************************************)
Named(fs, s) == [i \in 1..Len(s) |-> fs[s[i].id]]
OnTheWay == Named(frames, buffer \o sendQueue) \o outbox

LEMMA NamedSeq ==
    ASSUME NEW F, NEW fs \in Seq(F), NEW s \in Seq(UpTo(Len(fs)))
    PROVE  /\ Named(fs, s) \in Seq(F) /\ Len(Named(fs, s)) = Len(s)
           /\ \A i \in 1..Len(s) : s[i].id \in 1..Len(fs) /\ Named(fs, s)[i] = fs[s[i].id]
<1>1. Len(s) \in Nat /\ Len(fs) \in Nat
  OBVIOUS
<1>2. \A i \in 1..Len(s) : s[i].id \in 1..Len(fs) /\ fs[s[i].id] \in F
  <2>1. \A i \in 1..Len(s) : s[i] \in UpTo(Len(fs))
    BY ElementOfSeq
  <2>2. \A m \in UpTo(Len(fs)) : m.id \in 1..Len(fs)
    BY DEF UpTo
  <2> QED
    BY <2>1, <2>2, ElementOfSeq
<1>3. Named(fs, s) \in [1..Len(s) -> F]
  BY <1>2 DEF Named
<1>4. Named(fs, s) \in Seq(F)
  BY <1>1, <1>3, SeqDef
<1>5. DOMAIN Named(fs, s) = 1..Len(s)
  BY DEF Named
<1>6. Len(Named(fs, s)) = Len(s)
  BY <1>1, <1>4, <1>5, LenProperties
<1> QED
  BY <1>2, <1>4, <1>6 DEF Named

\* A frame is sent: it comes last, and those before it keep their numbers.
LEMMA NamedAppend ==
    ASSUME NEW F, NEW fs \in Seq(F), NEW s \in Seq(UpTo(Len(fs))), NEW f \in F,
           NEW m \in UpTo(Len(fs) + 1), m.id = Len(fs) + 1
    PROVE  Named(Append(fs, f), Append(s, m)) = Append(Named(fs, s), f)
<1> DEFINE gs == Append(fs, f)
           t == Append(s, m)
           u == Named(gs, t)
           v == Append(Named(fs, s), f)
<1>1. /\ Len(fs) \in Nat /\ Len(s) \in Nat
      /\ gs \in Seq(F) /\ Len(gs) = Len(fs) + 1 /\ gs[Len(fs) + 1] = f
      /\ \A i \in 1..Len(fs) : gs[i] = fs[i]
  BY AppendProperties
<1>2. s \in Seq(UpTo(Len(fs) + 1))
  <2>1. UpTo(Len(fs)) \subseteq UpTo(Len(fs) + 1)
    BY <1>1 DEF UpTo
  <2> QED
    BY <2>1, SeqMonotonic
<1>3. /\ t \in Seq(UpTo(Len(gs))) /\ Len(t) = Len(s) + 1 /\ t[Len(s) + 1] = m
      /\ \A i \in 1..Len(s) : t[i] = s[i]
  BY <1>1, <1>2, AppendProperties
<1>4. /\ Named(fs, s) \in Seq(F) /\ Len(Named(fs, s)) = Len(s)
      /\ \A i \in 1..Len(s) : s[i].id \in 1..Len(fs) /\ Named(fs, s)[i] = fs[s[i].id]
  BY NamedSeq
<1>5. /\ v \in Seq(F) /\ Len(v) = Len(s) + 1 /\ v[Len(s) + 1] = f
      /\ \A i \in 1..Len(s) : v[i] = Named(fs, s)[i]
  BY <1>4, AppendProperties
<1> HIDE DEF gs, t, v
<1>6. /\ u \in Seq(F) /\ Len(u) = Len(t) /\ \A i \in 1..Len(t) : u[i] = gs[t[i].id]
  BY <1>1, <1>3, NamedSeq
<1> HIDE DEF u
<1>7. ASSUME NEW i \in 1..Len(u) PROVE u[i] = v[i]
  <2>1. CASE i = Len(s) + 1
    BY <1>1, <1>3, <1>5, <1>6, <2>1
  <2>2. CASE i # Len(s) + 1
    <3>1. i \in 1..Len(s)
      BY <1>1, <1>3, <1>6, <1>7, <2>2
    <3>2. u[i] = gs[s[i].id] /\ s[i].id \in 1..Len(fs)
      BY <1>3, <1>4, <1>6, <1>7, <3>1
    <3> QED
      BY <1>1, <1>4, <1>5, <3>1, <3>2
  <2> QED
    BY <2>1, <2>2
<1>8. u = v
  BY <1>3, <1>5, <1>6, <1>7, SeqEqual
<1> QED
  BY <1>8 DEF u, v, gs, t

LEMMA NamedTail ==
    ASSUME NEW F, NEW fs \in Seq(F), NEW s \in Seq(UpTo(Len(fs))), s # <<>>
    PROVE  /\ Named(fs, s) # <<>> /\ Head(Named(fs, s)) = fs[Head(s).id]
           /\ Tail(Named(fs, s)) = Named(fs, Tail(s))
<1> DEFINE n == Named(fs, s)
           t == Tail(s)
           u == Named(fs, t)
<1>1. Len(s) \in Nat \ {0} /\ Head(s) = s[1]
  BY EmptySeq
<1>2. /\ n \in Seq(F) /\ Len(n) = Len(s)
      /\ \A i \in 1..Len(s) : n[i] = fs[s[i].id]
  BY NamedSeq
<1>3. /\ t \in Seq(UpTo(Len(fs))) /\ Len(t) = Len(s) - 1
      /\ \A i \in 1..Len(t) : t[i] = s[i + 1]
  BY HeadTailProperties
<1> HIDE DEF n, t
<1>4. n # <<>> /\ Head(n) = n[1]
  BY <1>1, <1>2, EmptySeq
<1>5. Tail(n) \in Seq(F) /\ Len(Tail(n)) = Len(n) - 1 /\ \A i \in 1..Len(Tail(n)) : Tail(n)[i] = n[i + 1]
  BY <1>2, <1>4, HeadTailProperties
<1>6. u \in Seq(F) /\ Len(u) = Len(t) /\ \A i \in 1..Len(t) : u[i] = fs[t[i].id]
  BY <1>3, NamedSeq
<1> HIDE DEF u
<1>7. ASSUME NEW i \in 1..Len(u) PROVE u[i] = Tail(n)[i]
  <2>1. i \in 1..Len(t) /\ i + 1 \in 1..Len(s) /\ i \in 1..Len(Tail(n))
    BY <1>1, <1>2, <1>3, <1>5, <1>6, <1>7
  <2>2. u[i] = fs[t[i].id] /\ t[i] = s[i + 1] /\ n[i + 1] = fs[s[i + 1].id] /\ Tail(n)[i] = n[i + 1]
    BY <1>2, <1>3, <1>5, <1>6, <2>1
  <2> QED
    BY <2>2
<1>8. Len(u) = Len(Tail(n))
  BY <1>2, <1>3, <1>5, <1>6
<1>9. u = Tail(n)
  BY <1>5, <1>6, <1>7, <1>8, SeqEqual
<1>10. Head(n) = fs[Head(s).id]
  BY <1>1, <1>2, <1>4
<1> QED
  BY <1>4, <1>9, <1>10 DEF n, t, u

\* The head of what comes behind goes over.
LEMMA HeadGoesOver ==
    ASSUME NEW S, NEW b \in Seq(S), NEW q \in Seq(S), q # <<>>
    PROVE  Append(b, Head(q)) \o Tail(q) = b \o q
<1> DEFINE h == Head(q)
           t == Tail(q)
           one == <<h>>
<1>1. h \in S /\ t \in Seq(S) /\ Len(t) = Len(q) - 1 /\ \A i \in 1..Len(t) : t[i] = q[i + 1]
  BY HeadTailProperties
<1>2. h = q[1] /\ Len(q) \in Nat \ {0}
  BY EmptySeq
<1> HIDE DEF h, t
<1>3. one \in Seq(S) /\ Len(one) = 1 /\ one[1] = h
  BY <1>1
<1>4. Append(b, h) = b \o one
  BY <1>1, AppendIsConcat
<1> HIDE DEF one
<1>5. one \o t = q
  <2> DEFINE v == one \o t
  <2>1. /\ v \in Seq(S) /\ Len(v) = 1 + Len(t)
        /\ \A i \in 1..(1 + Len(t)) : v[i] = IF i <= 1 THEN one[i] ELSE t[i - 1]
    <3>0. one \in Seq(S) /\ t \in Seq(S)
      BY <1>1, <1>3
    <3>1. /\ v \in Seq(S) /\ Len(v) = Len(one) + Len(t)
          /\ \A i \in 1..(Len(one) + Len(t)) : v[i] = IF i <= Len(one) THEN one[i] ELSE t[i - Len(one)]
      BY <3>0, ConcatProperties
    <3> QED
      BY <1>3, <3>1
  <2> HIDE DEF v
  <2>2. Len(v) = Len(q)
    BY <1>1, <1>2, <2>1
  <2>3. ASSUME NEW i \in 1..Len(v) PROVE v[i] = q[i]
    <3>1. CASE i = 1
      BY <1>2, <1>3, <2>1, <2>3, <3>1
    <3>2. CASE i # 1
      <4>1. i - 1 \in 1..Len(t) /\ (i - 1) + 1 = i /\ ~(i <= 1)
        BY <1>1, <1>2, <2>2, <2>3, <3>2
      <4> QED
        BY <1>1, <2>1, <2>3, <4>1
    <3> QED
      BY <3>1, <3>2
  <2>4. v = q
    BY <2>1, <2>2, <2>3, SeqEqual
  <2> QED
    BY <2>4 DEF v
<1>6. (b \o one) \o t = b \o (one \o t)
  <2>1. one \in Seq(S) /\ t \in Seq(S)
    BY <1>1, <1>3
  <2> QED
    BY <2>1, ConcatAssociative
<1> QED
  BY <1>4, <1>5, <1>6 DEF h, t

\* How the steps move them.
LEMMA OnTheWayTyped ==
    ASSUME SInv, EType
    PROVE  /\ buffer \o sendQueue \in Seq(UpTo(Len(frames))) /\ frames \in Seq(Frames)
           /\ Named(frames, buffer \o sendQueue) \in Seq(Frames) /\ outbox \in Seq(Frames)
           /\ OnTheWay \in Seq(Frames)
<1>1. /\ buffer \in Seq(UpTo(Len(frames))) /\ sendQueue \in Seq(UpTo(Len(frames)))
      /\ frames \in Seq(Frames) /\ outbox \in Seq(Frames)
  BY DEF SInv, EType
<1>2. buffer \o sendQueue \in Seq(UpTo(Len(frames)))
  BY <1>1, ConcatProperties
<1>3. Named(frames, buffer \o sendQueue) \in Seq(Frames)
  BY <1>1, <1>2, NamedSeq
<1>4. OnTheWay \in Seq(Frames)
  BY <1>1, <1>3, ConcatProperties DEF OnTheWay
<1> QED
  BY <1>1, <1>2, <1>3, <1>4

LEMMA HandlersAppend ==
    ASSUME SInv, EType, outbox = <<>>, UNCHANGED <<buffer, sendQueue, frames>>
    PROVE  OnTheWay' = OnTheWay \o outbox'
<1>1. Named(frames, buffer \o sendQueue) \o <<>> = Named(frames, buffer \o sendQueue)
  BY OnTheWayTyped, ConcatEmptySeq
<1> QED
  BY <1>1 DEF OnTheWay

LEMMA SendMoves ==
    ASSUME SInv, EType, SendNext, Usable, ~thrown'
    PROVE  OnTheWay' = OnTheWay
<1> DEFINE s == buffer \o sendQueue
           z == SizeOf(Head(outbox))
           b == Named(frames, s)
<1>1. /\ outbox # <<>> /\ frames' = Append(frames, Head(outbox)) /\ outbox' = Tail(outbox)
      /\ SendQueues(z) \/ SendPasses(z) \/ SendThrows(z)
  BY DEF SendNext, SendRefused
<1>2. z \in Nat
  BY DEF SizeOf
<1>3. buffer' \o sendQueue' = Append(s, Handed(z))
  BY <1>1, <1>2, HandedGoesBehind
<1>4. /\ s \in Seq(UpTo(Len(frames))) /\ frames \in Seq(Frames) /\ b \in Seq(Frames)
      /\ outbox \in Seq(Frames)
  BY OnTheWayTyped
<1>5. Handed(z) \in UpTo(Len(frames) + 1) /\ Handed(z).id = Len(frames) + 1
  <2>1. calls = Len(frames) /\ calls \in Nat
    BY <1>4, LenProperties DEF EType
  <2> QED
    BY <1>2, <2>1 DEF Handed, UpTo
<1> HIDE DEF s, z
<1>6. Head(outbox) \in Frames
  BY <1>1, <1>4, HeadTailProperties
<1>7. Named(frames', Append(s, Handed(z))) = Append(b, Head(outbox))
  BY <1>1, <1>4, <1>5, <1>6, NamedAppend
<1> HIDE DEF b
<1>8. Append(b, Head(outbox)) \o Tail(outbox) = b \o outbox
  BY <1>1, <1>4, HeadGoesOver
<1> QED
  BY <1>1, <1>3, <1>7, <1>8 DEF OnTheWay, b, s

LEMMA LowMoves ==
    ASSUME SInv, EType, OnLow, ~thrown'
    PROVE  OnTheWay' = OnTheWay
<1>1. UNCHANGED <<frames, outbox>>
  BY DEF OnLow, exchangeVars
<1>2. buffer \in Seq(Message) /\ sendQueue \in Seq(Message)
  BY BoundsAssumption, UpToGrows DEF SInv
<1>3. buffer' \o sendQueue' = buffer \o sendQueue
  <2>1. ASSUME NEW n \in 0..Len(sendQueue), Drains(n)
        PROVE  buffer' \o sendQueue' = buffer \o sendQueue
    BY <1>2, <2>1, QueueGoesOver DEF Drains
  <2> QED
    BY <2>1 DEF OnLow, OnBufferedAmountLow, DrainThrows
<1> QED
  BY <1>1, <1>3 DEF OnTheWay

LEMMA ArrivesTakesTheHead ==
    ASSUME SInv, EType, Arrives
    PROVE  /\ OnTheWay # <<>> /\ Head(OnTheWay) = frames[Head(buffer).id]
           /\ OnTheWay' = Tail(OnTheWay)
<1> DEFINE s == buffer \o sendQueue
           b == Named(frames, s)
<1>1. /\ buffer # <<>> /\ buffer' = Tail(buffer) /\ UNCHANGED <<sendQueue, frames, outbox>>
  BY DEF Arrives, Transmit
<1>2. buffer \in Seq(Message) /\ sendQueue \in Seq(Message)
  BY BoundsAssumption, UpToGrows DEF SInv
<1>3. s # <<>> /\ Head(s) = Head(buffer) /\ buffer' \o sendQueue' = Tail(s)
  BY <1>1, <1>2, QueueBehindBuffer
<1>4. /\ s \in Seq(UpTo(Len(frames))) /\ frames \in Seq(Frames) /\ b \in Seq(Frames)
      /\ outbox \in Seq(Frames)
  BY OnTheWayTyped
<1> HIDE DEF s
<1>5. b # <<>> /\ Head(b) = frames[Head(s).id] /\ Tail(b) = Named(frames, Tail(s))
  BY <1>3, <1>4, NamedTail
<1> HIDE DEF b
<1>6. b \o outbox # <<>> /\ Head(b \o outbox) = Head(b) /\ Tail(b) \o outbox = Tail(b \o outbox)
  BY <1>4, <1>5, OneBehindTheOther
<1>7. OnTheWay = b \o outbox
  BY DEF OnTheWay, b, s
<1>8. OnTheWay' = Tail(b) \o outbox
  BY <1>1, <1>3, <1>5 DEF OnTheWay
<1> QED
  BY <1>3, <1>5, <1>6, <1>7, <1>8

-----------------------------------------------------------------------------
(***************************************************************************)
(* What the receiver will know of resource r, of which the sender has the  *)
(* chunks S, when the frames p on their way have arrived.                  *)
(***************************************************************************)
IsBitfield(f) == DecodeMessage(f).type = TypeBitfield
Tells(f, r, c) == DecodeMessage(f) = [type |-> TypeHave, resource |-> r, chunk |-> c]

\* bf, and the HAVEs of p after the first i frames, say all.
Covers(bf, p, i, r, S) ==
    /\ bf.totalChunks = TotalOf[r]
    /\ \A c \in S : c \in AvailableIndices(bf) \/ \E j \in 1..Len(p) : j > i /\ Tells(p[j], r, c)

\* The last BITFIELD on its way is of r, and the HAVEs behind it tell the rest.
ToCome(p, r, S) ==
    \E i \in 1..Len(p) :
        /\ IsBitfield(p[i]) /\ DecodeMessage(p[i]).resource = r
        /\ \A j \in 1..Len(p) : j > i => ~IsBitfield(p[j])
        /\ Covers(DecodeMessage(p[i]).bitfield, p, i, r, S)

\* No BITFIELD is on its way, and the HAVEs tell what is missing in what was taken.
\* of: the resource of the scheduler.
Taken(p, r, S, bf, own, of) ==
    /\ \A j \in 1..Len(p) : ~IsBitfield(p[j])
    /\ Covers(bf, p, 0, r, S)
    /\ of = r => Covers(own, p, 0, r, S)

\* When the receiver is to know: the channel is up, no send has thrown, and the sender is not
\* between two resources.
Settled == Usable /\ ~thrown /\ ~loading /\ offered = manifest /\ offered # NoResource

\* KnowsWhatIsOffered by itself is not inductive: it says nothing while frames are on their way.
\* Informed says what will be known when they have arrived.
Informed == Settled => \/ ToCome(OnTheWay, offered, held[offered])
                       \/ Taken(OnTheWay, offered, held[offered], view, known, seeking)

KInv ==
    /\ loading => offered # manifest
    /\ offered # NoResource => TotalOf[offered] > 0
    /\ Informed

-----------------------------------------------------------------------------
\* The sender hands over the frames q, no BITFIELD among them, which tell what is new in T.
LEMMA CoversMore ==
    ASSUME NEW p \in Seq(Frames), NEW q \in Seq(Frames), NEW i \in 0..Len(p),
           NEW bf, NEW r, NEW S, NEW T, Covers(bf, p, i, r, S),
           \A c \in T \ S : \E k \in 1..Len(q) : Tells(q[k], r, c)
    PROVE  Covers(bf, p \o q, i, r, T)
<1> DEFINE w == p \o q
<1>1. Len(p) \in Nat /\ Len(q) \in Nat
  OBVIOUS
<1>2. /\ Len(w) = Len(p) + Len(q)
      /\ \A j \in 1..(Len(p) + Len(q)) : w[j] = IF j <= Len(p) THEN p[j] ELSE q[j - Len(p)]
  BY ConcatProperties
<1> HIDE DEF w
<1>3. ASSUME NEW c \in T, c \notin AvailableIndices(bf)
      PROVE  \E j \in 1..Len(w) : j > i /\ Tells(w[j], r, c)
  <2>1. CASE c \in S
    <3>1. PICK j \in 1..Len(p) : j > i /\ Tells(p[j], r, c)
      BY <1>3, <2>1 DEF Covers
    <3>2. w[j] = p[j] /\ j \in 1..Len(w)
      BY <1>1, <1>2
    <3> QED
      BY <3>1, <3>2
  <2>2. CASE c \notin S
    <3>1. PICK k \in 1..Len(q) : Tells(q[k], r, c)
      BY <1>3, <2>2
    <3>2. /\ Len(p) + k \in 1..Len(w) /\ Len(p) + k > i
          /\ ~(Len(p) + k <= Len(p)) /\ (Len(p) + k) - Len(p) = k
      BY <1>1, <1>2
    <3>3. w[Len(p) + k] = q[k]
      BY <1>2, <3>2
    <3> QED
      BY <3>1, <3>2, <3>3
  <2> QED
    BY <2>1, <2>2
<1>4. bf.totalChunks = TotalOf[r]
  BY DEF Covers
<1> QED
  BY <1>3, <1>4 DEF Covers, w

LEMMA MoreSilent ==
    ASSUME NEW p \in Seq(Frames), NEW q \in Seq(Frames), NEW i \in 0..Len(p),
           \A j \in 1..Len(p) : j > i => ~IsBitfield(p[j]),
           \A k \in 1..Len(q) : ~IsBitfield(q[k])
    PROVE  \A j \in 1..Len(p \o q) : j > i => ~IsBitfield((p \o q)[j])
<1> DEFINE w == p \o q
<1>1. Len(p) \in Nat /\ Len(q) \in Nat
  OBVIOUS
<1>2. /\ Len(w) = Len(p) + Len(q)
      /\ \A j \in 1..(Len(p) + Len(q)) : w[j] = IF j <= Len(p) THEN p[j] ELSE q[j - Len(p)]
  BY ConcatProperties
<1> HIDE DEF w
<1>3. ASSUME NEW j \in 1..Len(w), j > i PROVE ~IsBitfield(w[j])
  <2>1. CASE j <= Len(p)
    BY <1>1, <1>2, <1>3, <2>1
  <2>2. CASE ~(j <= Len(p))
    <3>1. j - Len(p) \in 1..Len(q) /\ w[j] = q[j - Len(p)]
      BY <1>1, <1>2, <1>3, <2>2
    <3> QED
      BY <3>1
  <2> QED
    BY <2>1, <2>2
<1> QED
  BY <1>3 DEF w

LEMMA ToComeMore ==
    ASSUME NEW p \in Seq(Frames), NEW q \in Seq(Frames), NEW r, NEW S, NEW T,
           ToCome(p, r, S),
           \A k \in 1..Len(q) : ~IsBitfield(q[k]),
           \A c \in T \ S : \E k \in 1..Len(q) : Tells(q[k], r, c)
    PROVE  ToCome(p \o q, r, T)
<1>1. PICK i \in 1..Len(p) :
        /\ IsBitfield(p[i]) /\ DecodeMessage(p[i]).resource = r
        /\ \A j \in 1..Len(p) : j > i => ~IsBitfield(p[j])
        /\ Covers(DecodeMessage(p[i]).bitfield, p, i, r, S)
  BY DEF ToCome
<1>2. i \in 0..Len(p) /\ Len(p) \in Nat /\ Len(q) \in Nat
  OBVIOUS
<1>3. i \in 1..Len(p \o q) /\ (p \o q)[i] = p[i]
  <2>1. /\ Len(p \o q) = Len(p) + Len(q)
        /\ \A j \in 1..(Len(p) + Len(q)) :
              (p \o q)[j] = IF j <= Len(p) THEN p[j] ELSE q[j - Len(p)]
    BY ConcatProperties
  <2> QED
    BY <1>2, <2>1
<1>4. \A j \in 1..Len(p \o q) : j > i => ~IsBitfield((p \o q)[j])
  BY <1>1, <1>2, MoreSilent
<1>5. Covers(DecodeMessage(p[i]).bitfield, p \o q, i, r, T)
  BY <1>1, <1>2, CoversMore
<1> QED
  BY <1>1, <1>3, <1>4, <1>5 DEF ToCome

LEMMA TakenMore ==
    ASSUME NEW p \in Seq(Frames), NEW q \in Seq(Frames), NEW r, NEW S, NEW T, NEW bf, NEW own, NEW of,
           Taken(p, r, S, bf, own, of),
           \A k \in 1..Len(q) : ~IsBitfield(q[k]),
           \A c \in T \ S : \E k \in 1..Len(q) : Tells(q[k], r, c)
    PROVE  Taken(p \o q, r, T, bf, own, of)
<1>1. 0 \in 0..Len(p) /\ Len(p) \in Nat /\ Len(p \o q) \in Nat
  OBVIOUS
<1>2. \A j \in 1..Len(p \o q) : ~IsBitfield((p \o q)[j])
  <2>1. \A j \in 1..Len(p) : j > 0 => ~IsBitfield(p[j])
    BY DEF Taken
  <2>2. \A j \in 1..Len(p \o q) : j > 0 => ~IsBitfield((p \o q)[j])
    BY <1>1, <2>1, MoreSilent
  <2> QED
    BY <1>1, <2>2
<1>3. Covers(bf, p \o q, 0, r, T)
  BY <1>1, CoversMore DEF Taken
<1>4. of = r => Covers(own, p \o q, 0, r, T)
  BY <1>1, CoversMore DEF Taken
<1> QED
  BY <1>2, <1>3, <1>4 DEF Taken

-----------------------------------------------------------------------------
\* The oldest frame has arrived, and new says all that old said, and what the frame told.
LEMMA CoversTail ==
    ASSUME NEW p \in Seq(Frames), p # <<>>, NEW old, NEW new, NEW r, NEW S,
           Covers(old, p, 0, r, S), new.totalChunks = old.totalChunks,
           AvailableIndices(old) \subseteq AvailableIndices(new),
           \A c \in S : Tells(Head(p), r, c) => c \in AvailableIndices(new)
    PROVE  Covers(new, Tail(p), 0, r, S)
<1> DEFINE t == Tail(p)
<1>1. Len(p) \in Nat \ {0} /\ Head(p) = p[1]
  BY EmptySeq
<1>2. Len(t) = Len(p) - 1 /\ \A j \in 1..Len(t) : t[j] = p[j + 1]
  BY HeadTailProperties
<1> HIDE DEF t
<1>3. ASSUME NEW c \in S, c \notin AvailableIndices(new)
      PROVE  \E j \in 1..Len(t) : j > 0 /\ Tells(t[j], r, c)
  <2>1. PICK j \in 1..Len(p) : j > 0 /\ Tells(p[j], r, c)
    BY <1>3 DEF Covers
  <2>2. j # 1
    BY <1>1, <1>3, <2>1
  <2>3. j - 1 \in 1..Len(t) /\ (j - 1) + 1 = j /\ j - 1 > 0
    BY <1>1, <1>2, <2>2
  <2>4. t[j - 1] = p[j]
    BY <1>2, <2>3
  <2> QED
    BY <2>1, <2>3, <2>4
<1>4. new.totalChunks = TotalOf[r]
  BY DEF Covers
<1> QED
  BY <1>3, <1>4 DEF Covers, t

\* The receiver takes a BITFIELD of r, the last on its way.
LEMMA BitfieldTaken ==
    ASSUME NEW p \in Seq(Frames), p # <<>>, NEW r, NEW S, ToCome(p, r, S),
           Take(DecodeMessage(Head(p)))
    PROVE  ToCome(Tail(p), r, S) \/ Taken(Tail(p), r, S, view', known', seeking')
<1> DEFINE t == Tail(p)
           m == DecodeMessage(Head(p))
<1>1. PICK i \in 1..Len(p) :
        /\ IsBitfield(p[i]) /\ DecodeMessage(p[i]).resource = r
        /\ \A j \in 1..Len(p) : j > i => ~IsBitfield(p[j])
        /\ Covers(DecodeMessage(p[i]).bitfield, p, i, r, S)
  BY DEF ToCome
<1>2. Len(p) \in Nat \ {0} /\ Head(p) = p[1]
  BY EmptySeq
<1>3. Len(t) = Len(p) - 1 /\ \A j \in 1..Len(t) : t[j] = p[j + 1]
  BY HeadTailProperties
<1> HIDE DEF t
<1> DEFINE bf == DecodeMessage(p[i]).bitfield
<1>4. ASSUME NEW k \in 0..Len(p), k = i - 1 PROVE Covers(bf, t, k, r, S)
  <2>1. ASSUME NEW c \in S, c \notin AvailableIndices(bf)
        PROVE  \E j \in 1..Len(t) : j > k /\ Tells(t[j], r, c)
    <3>1. PICK j \in 1..Len(p) : j > i /\ Tells(p[j], r, c)
      BY <1>1, <2>1 DEF Covers
    <3>2. j - 1 \in 1..Len(t) /\ (j - 1) + 1 = j /\ j - 1 > k
      BY <1>2, <1>3, <1>4, <3>1
    <3>3. t[j - 1] = p[j]
      BY <1>3, <3>2
    <3> QED
      BY <3>1, <3>2, <3>3
  <2>2. bf.totalChunks = TotalOf[r]
    BY <1>1 DEF Covers
  <2> QED
    BY <2>1, <2>2 DEF Covers
<1>5. ASSUME NEW j \in 1..Len(t), j > i - 1 PROVE ~IsBitfield(t[j])
  <2>1. j + 1 \in 1..Len(p) /\ j + 1 > i /\ t[j] = p[j + 1]
    BY <1>2, <1>3, <1>5
  <2> QED
    BY <1>1, <2>1
<1>6. CASE i = 1
  <2>1. m.type = TypeBitfield /\ m.resource = r /\ m.bitfield = bf
    BY <1>1, <1>2, <1>6 DEF IsBitfield
  <2> HIDE DEF m, bf
  <2>2. TakeBitfield(m)
    BY <2>1 DEF Take, TypeBitfield, TypeHave, m
  <2>3. view' = bf /\ seeking' = seeking /\ (seeking = r => known' = bf)
    BY <2>1, <2>2 DEF TakeBitfield
  <2>4. Covers(bf, t, 0, r, S)
    BY <1>2, <1>4, <1>6
  <2>5. \A j \in 1..Len(t) : ~IsBitfield(t[j])
    BY <1>2, <1>5, <1>6
  <2>6. Taken(t, r, S, view', known', seeking')
    BY <2>3, <2>4, <2>5 DEF Taken
  <2> QED
    BY <2>6 DEF t
<1>7. CASE i # 1
  <2>1. i - 1 \in 1..Len(t) /\ t[i - 1] = p[i] /\ i - 1 \in 0..Len(p)
    BY <1>2, <1>3, <1>7
  <2>2. Covers(bf, t, i - 1, r, S)
    BY <1>4, <2>1
  <2>3. ToCome(t, r, S)
    BY <1>1, <1>5, <2>1, <2>2 DEF ToCome
  <2> QED
    BY <2>3 DEF t
<1> QED
  BY <1>6, <1>7

\* The receiver takes a HAVE, or what tells nothing, after the last BITFIELD.
LEMMA HaveTaken ==
    ASSUME EType, NEW p \in Seq(Frames), p # <<>>, NEW r \in Resources, TotalOf[r] > 0, NEW S,
           Taken(p, r, S, view, known, seeking), Take(DecodeMessage(Head(p)))
    PROVE  Taken(Tail(p), r, S, view', known', seeking')
<1> DEFINE m == DecodeMessage(Head(p))
           i == m.chunk
<1>0. \A j \in 1..Len(Tail(p)) : ~IsBitfield(Tail(p)[j])
  <2>1. Len(p) \in Nat \ {0}
    BY EmptySeq
  <2>2. Len(Tail(p)) = Len(p) - 1 /\ \A j \in 1..Len(Tail(p)) : Tail(p)[j] = p[j + 1]
    BY HeadTailProperties
  <2>3. \A j \in 1..Len(p) : ~IsBitfield(p[j])
    BY DEF Taken
  <2> QED
    BY <2>1, <2>2, <2>3
<1>1. m.type # TypeBitfield /\ WellFormed(m)
  <2>1. Len(p) \in Nat \ {0} /\ Head(p) = p[1] /\ Head(p) \in Frames
    BY EmptySeq, HeadTailProperties
  <2> QED
    BY <2>1 DEF Taken, IsBitfield, Frames
<1>2. /\ view \in Bitfields /\ known \in Bitfields /\ Covers(view, p, 0, r, S)
      /\ seeking = r => Covers(known, p, 0, r, S)
  BY DEF EType, Taken
<1>3. view.totalChunks = TotalOf[r] /\ view # NoView
  BY <1>2, NoViewIsEmpty DEF Covers
<1>4. seeking = r => known.totalChunks = TotalOf[r] /\ known # NoView
  BY <1>2, NoViewIsEmpty DEF Covers
<1>5. ASSUME NEW c, Tells(Head(p), r, c) PROVE m.type = TypeHave /\ m.resource = r /\ i = c
  BY <1>5 DEF Tells
<1> HIDE DEF m
<1>6. CASE m.type # TypeHave
  <2>1. UNCHANGED receiverVars
    BY <1>1, <1>6 DEF Take, m
  <2>2. Covers(view, Tail(p), 0, r, S)
    BY <1>2, <1>5, <1>6, CoversTail
  <2>3. seeking = r => Covers(known, Tail(p), 0, r, S)
    BY <1>2, <1>5, <1>6, CoversTail
  <2> QED
    BY <1>0, <2>1, <2>2, <2>3 DEF Taken, receiverVars
<1>7. CASE m.type = TypeHave
  <2> DEFINE own == IF shared THEN WithBit(view, i)
                    ELSE IF known = NoView THEN EmptyBitfield(TotalOf[seeking]) ELSE known
  <2>1. TakeHave(m) /\ m.resource \in Resources /\ i \in Nat /\ i < TotalOf[m.resource]
    BY <1>1, <1>7, ResourceFacts DEF Take, WellFormed, m
  <2>2. /\ seeking' = seeking
        /\ IF ~InBounds(view, i)
           THEN view' = view /\ UNCHANGED known
           ELSE /\ view' = WithBit(view, i)
                /\ known' = IF m.resource = seeking /\ InBounds(own, i) THEN WithBit(own, i)
                            ELSE IF shared THEN view' ELSE known
    BY <1>3, <2>1 DEF TakeHave
  <2>3. CASE ~InBounds(view, i)
    <3>1. m.resource # r
      BY <1>3, <2>1, <2>3 DEF InBounds
    <3>2. \A c \in S : ~Tells(Head(p), r, c)
      BY <1>5, <3>1
    <3>3. Covers(view, Tail(p), 0, r, S)
      BY <1>2, <3>2, CoversTail
    <3>4. seeking = r => Covers(known, Tail(p), 0, r, S)
      BY <1>2, <3>2, CoversTail
    <3> QED
      BY <1>0, <2>2, <2>3, <3>3, <3>4 DEF Taken
  <2>4. CASE InBounds(view, i)
    <3>1. /\ WithBit(view, i) \in Bitfields /\ WithBit(view, i).totalChunks = view.totalChunks
          /\ AvailableIndices(WithBit(view, i)) = AvailableIndices(view) \cup {i}
      BY <1>2, <2>1, <2>4, SettingInBounds
    <3>2. \A c \in S : Tells(Head(p), r, c) => c = i /\ m.resource = r
      BY <1>5
    <3>3. view' = WithBit(view, i)
      BY <2>2, <2>4
    <3>4. Covers(WithBit(view, i), Tail(p), 0, r, S)
      BY <1>2, <3>1, <3>2, CoversTail
    <3>5. ASSUME seeking = r PROVE Covers(known', Tail(p), 0, r, S)
      <4>1. CASE shared
        <5>1. own = WithBit(view, i)
          BY <4>1
        <5>2. CASE m.resource = seeking /\ InBounds(own, i)
          <6>1. known' = WithBit(own, i)
            BY <2>2, <2>4, <5>2
          <6>2. /\ WithBit(own, i).totalChunks = view.totalChunks
                /\ AvailableIndices(WithBit(own, i)) = AvailableIndices(view) \cup {i}
            BY <2>1, <3>1, <5>1, <5>2, SettingInBounds
          <6>3. Covers(WithBit(own, i), Tail(p), 0, r, S)
            BY <1>2, <3>2, <6>2, CoversTail
          <6> QED
            BY <6>1, <6>3
        <5>3. CASE ~(m.resource = seeking /\ InBounds(own, i))
          <6>1. known' = view'
            BY <2>2, <2>4, <4>1, <5>3
          <6> QED
            BY <3>3, <3>4, <6>1
        <5> QED
          BY <5>2, <5>3
      <4>2. CASE ~shared
        <5>1. own = known
          BY <1>4, <3>5, <4>2
        <5> HIDE DEF own
        <5>2. CASE m.resource = r
          <6>1. InBounds(known, i)
            BY <1>4, <2>1, <3>5, <5>2 DEF InBounds
          <6>2. known' = WithBit(known, i)
            BY <2>2, <2>4, <3>5, <5>1, <5>2, <6>1
          <6>3. /\ WithBit(known, i).totalChunks = known.totalChunks
                /\ AvailableIndices(WithBit(known, i)) = AvailableIndices(known) \cup {i}
            BY <1>2, <2>1, <6>1, SettingInBounds
          <6>4. Covers(WithBit(known, i), Tail(p), 0, r, S)
            BY <1>2, <3>2, <3>5, <6>3, CoversTail
          <6> QED
            BY <6>2, <6>4
        <5>3. CASE m.resource # r
          <6>1. known' = known
            BY <2>2, <2>4, <3>5, <4>2, <5>3
          <6>2. \A c \in S : ~Tells(Head(p), r, c)
            BY <3>2, <5>3
          <6>3. Covers(known, Tail(p), 0, r, S)
            BY <1>2, <3>5, <6>2, CoversTail
          <6> QED
            BY <6>1, <6>3
        <5> QED
          BY <5>2, <5>3
      <4> QED
        BY <4>1, <4>2
    <3> QED
      BY <1>0, <2>2, <3>3, <3>4, <3>5 DEF Taken
  <2> QED
    BY <2>3, <2>4
<1> QED
  BY <1>6, <1>7

LEMMA SilentAreNoBitfields ==
    ASSUME NEW f, NEW type, Starts(f, type), type # TypeBitfield, type # TypeHave
    PROVE  ~IsBitfield(f)
<1>1. f[2] # TypeBitfield /\ f[2] # TypeHave
  BY DEF Starts
<1> QED
  BY <1>1, OthersAreOthers DEF IsBitfield

\* A BITFIELD that says all is handed over, and no other one after it.
LEMMA BitfieldHandedOver ==
    ASSUME NEW p \in Seq(Frames), NEW q \in Seq(Frames), q # <<>>, NEW r, NEW S, NEW bf,
           DecodeMessage(q[1]) = [type |-> TypeBitfield, resource |-> r, bitfield |-> bf],
           bf.totalChunks = TotalOf[r], S \subseteq AvailableIndices(bf),
           \A k \in 1..Len(q) : k > 1 => ~IsBitfield(q[k])
    PROVE  ToCome(p \o q, r, S)
<1> DEFINE w == p \o q
           i == Len(p) + 1
<1>1. Len(p) \in Nat /\ Len(q) \in Nat \ {0}
  BY EmptySeq
<1>2. /\ Len(w) = Len(p) + Len(q)
      /\ \A j \in 1..(Len(p) + Len(q)) : w[j] = IF j <= Len(p) THEN p[j] ELSE q[j - Len(p)]
  BY ConcatProperties
<1> HIDE DEF w
<1>3. i \in 1..Len(w) /\ ~(i <= Len(p)) /\ i - Len(p) = 1
  BY <1>1, <1>2
<1>4. w[i] = q[1]
  BY <1>2, <1>3
<1>5. /\ IsBitfield(w[i]) /\ DecodeMessage(w[i]).resource = r
      /\ DecodeMessage(w[i]).bitfield = bf
  BY <1>4 DEF IsBitfield
<1>6. ASSUME NEW j \in 1..Len(w), j > i PROVE ~IsBitfield(w[j])
  <2>1. j - Len(p) \in 1..Len(q) /\ j - Len(p) > 1 /\ ~(j <= Len(p))
    BY <1>1, <1>2, <1>6
  <2>2. w[j] = q[j - Len(p)]
    BY <1>2, <1>6, <2>1
  <2> QED
    BY <2>1, <2>2
<1>7. Covers(bf, w, i, r, S)
  BY DEF Covers
<1> HIDE DEF i
<1>8. ToCome(w, r, S)
  BY <1>3, <1>5, <1>6, <1>7 DEF ToCome
<1> QED
  BY <1>8 DEF w

\* A handler that hands over no BITFIELD, and tells of what it stores.
LEMMA HandlerInforms ==
    ASSUME SInv, EType, Informed, outbox = <<>>, outbox' \in Seq(Frames),
           UNCHANGED <<vars, frames, receiverVars, manifest, loading, offered>>,
           \A k \in 1..Len(outbox') : ~IsBitfield(outbox'[k]),
           Settled => \A c \in held'[offered] \ held[offered] :
                        \E k \in 1..Len(outbox') : Tells(outbox'[k], offered, c)
    PROVE  Informed'
<1>1. OnTheWay' = OnTheWay \o outbox' /\ OnTheWay \in Seq(Frames)
  BY HandlersAppend, OnTheWayTyped DEF vars
<1>2. Settled' <=> Settled
  BY DEF Settled, Usable, vars
<1>3. ASSUME Settled, ToCome(OnTheWay, offered, held[offered])
      PROVE  ToCome(OnTheWay \o outbox', offered, held'[offered])
  BY <1>1, <1>3, ToComeMore
<1>4. ASSUME Settled, Taken(OnTheWay, offered, held[offered], view, known, seeking)
      PROVE  Taken(OnTheWay \o outbox', offered, held'[offered], view, known, seeking)
  BY <1>1, <1>4, TakenMore
<1> QED
  BY <1>1, <1>2, <1>3, <1>4 DEF Informed, receiverVars

\* Steps that leave the frames on their way as they are.
LEMMA NothingMoves ==
    ASSUME Informed, OnTheWay' = OnTheWay,
           UNCHANGED <<readyState, isClosed, thrown, senderVars, view, known, seeking>>
    PROVE  Informed'
  BY DEF Informed, Settled, Usable, senderVars

LEMMA ResumeInforms ==
    ASSUME SInv, EInv, EInv', Informed, Resume
    PROVE  Informed'
<1> DEFINE r == manifest
           f == EncodeBitfield(r, TotalOf[r], LocalBitfield(r))
<1> SUFFICES ASSUME Settled' PROVE ToCome(OnTheWay', offered', held'[offered'])
  BY DEF Informed
<1>1. /\ outbox = <<>> /\ loading /\ offered' = r /\ held' = held
      /\ UNCHANGED <<readyState, isClosed, buffer, sendQueue, frames>>
  BY DEF Resume, Handler, vars
<1>2. outbox' = <<f>>
  BY <1>1 DEF Resume, Broadcast, Settled, Usable
<1>3. EType /\ r \in Resources /\ outbox' \in Seq(Frames)
  BY <1>1 DEF EInv, EType, SenderType
<1>4. /\ LocalBitfield(r) \in Bitfields /\ LocalBitfield(r).totalChunks = TotalOf[r]
      /\ AvailableIndices(LocalBitfield(r)) = held[r]
  BY <1>3, LocalIsHeld
<1>5. DecodeMessage(f) = [type |-> TypeBitfield, resource |-> r, bitfield |-> LocalBitfield(r)]
  BY <1>3, <1>4, BitfieldTells
<1> HIDE DEF f
<1>6. OnTheWay' = OnTheWay \o outbox' /\ OnTheWay \in Seq(Frames)
  BY <1>1, <1>3, HandlersAppend, OnTheWayTyped
<1>7. outbox' # <<>> /\ outbox'[1] = f /\ \A k \in 1..Len(outbox') : k > 1 => ~IsBitfield(outbox'[k])
  BY <1>2
<1>8. ToCome(OnTheWay \o outbox', r, held[r])
  BY <1>3, <1>4, <1>5, <1>6, <1>7, BitfieldHandedOver
<1> QED
  BY <1>1, <1>6, <1>8

LEMMA OpenInforms ==
    ASSUME SInv, EInv, EInv', Informed, OnChannelOpen
    PROVE  Informed'
<1> DEFINE r == offered
           f == EncodeBitfield(manifest, TotalOf[manifest], LocalBitfield(offered))
           g == EncodeUnchoke(manifest)
<1> SUFFICES ASSUME Settled' PROVE ToCome(OnTheWay', offered', held'[offered'])
  BY DEF Informed
<1>1. /\ outbox = <<>> /\ UNCHANGED <<senderVars, buffer, sendQueue, frames>>
      /\ offered = manifest /\ offered # NoResource
  BY DEF OnChannelOpen, Handler, ChannelOpens, Settled, senderVars
<1>2. outbox' = <<f, g>>
  BY <1>1 DEF OnChannelOpen
<1>3. EType /\ r \in Resources /\ outbox' \in Seq(Frames)
  BY <1>1 DEF EInv, EType, SenderType
<1>4. /\ LocalBitfield(r) \in Bitfields /\ LocalBitfield(r).totalChunks = TotalOf[r]
      /\ AvailableIndices(LocalBitfield(r)) = held[r]
  BY <1>3, LocalIsHeld
<1>5. DecodeMessage(f) = [type |-> TypeBitfield, resource |-> r, bitfield |-> LocalBitfield(r)]
  BY <1>1, <1>3, <1>4, BitfieldTells
<1>6. ~IsBitfield(g)
  <2>1. Starts(g, TypeUnchoke)
    BY <1>1, <1>3, ResourceFacts, FramesStart
  <2> QED
    BY <2>1, SilentAreNoBitfields DEF TypeUnchoke, TypeBitfield, TypeHave
<1> HIDE DEF f, g
<1>7. OnTheWay' = OnTheWay \o outbox' /\ OnTheWay \in Seq(Frames)
  BY <1>1, <1>3, HandlersAppend, OnTheWayTyped
<1>8. outbox' # <<>> /\ outbox'[1] = f /\ \A k \in 1..Len(outbox') : k > 1 => ~IsBitfield(outbox'[k])
  BY <1>2, <1>6
<1>9. ToCome(OnTheWay \o outbox', r, held[r])
  BY <1>3, <1>4, <1>5, <1>7, <1>8, BitfieldHandedOver
<1> QED
  BY <1>1, <1>7, <1>9 DEF senderVars

LEMMA StoresInforms ==
    ASSUME SInv, EInv, EInv', Informed, NEW r \in Resources, NEW c \in Traded[r], Stores(r, c)
    PROVE  Informed'
<1> DEFINE f == EncodeHave(r, c)
<1>1. /\ outbox = <<>> /\ held' = [held EXCEPT ![r] = @ \cup {c}]
      /\ outbox' = IF Usable THEN <<f>> ELSE <<>>
      /\ UNCHANGED <<vars, frames, receiverVars, manifest, loading, offered>>
  BY DEF Stores, Handler, Broadcast
<1>2. EType /\ outbox' \in Seq(Frames) /\ held \in [Resources -> SUBSET Nat]
  BY DEF EInv, EType, SenderType
<1>3. DecodeMessage(f) = [type |-> TypeHave, resource |-> r, chunk |-> c]
  BY HaveTells
<1> HIDE DEF f
<1>4. ~IsBitfield(f) /\ Tells(f, r, c)
  BY <1>3 DEF IsBitfield, Tells, TypeHave, TypeBitfield
<1>5. \A k \in 1..Len(outbox') : ~IsBitfield(outbox'[k])
  BY <1>1, <1>4
<1>6. ASSUME Settled, NEW d \in held'[offered] \ held[offered]
      PROVE  \E k \in 1..Len(outbox') : Tells(outbox'[k], offered, d)
  <2>1. offered = r /\ d = c
    BY <1>1, <1>2, <1>6
  <2>2. outbox' = <<f>>
    BY <1>1, <1>6 DEF Settled
  <2>3. 1 \in 1..Len(outbox') /\ outbox'[1] = f
    BY <2>2
  <2> QED
    BY <1>4, <2>1, <2>3
<1> QED
  BY <1>1, <1>2, <1>5, <1>6, HandlerInforms

LEMMA ServeInforms ==
    ASSUME SInv, EInv, EInv', Informed, NEW r \in Resources, NEW c \in Traded[r], Serve(r, c)
    PROVE  Informed'
<1> DEFINE data == ChunkData(r, c)
           block(k) == EncodePiece(r, c, k - 1, Len(data), <<data[k]>>)
           blocks == [k \in DOMAIN data |-> block(k)]
<1>1. /\ outbox = <<>> /\ outbox' \in {<<>>, blocks}
      /\ UNCHANGED <<vars, frames, receiverVars, senderVars>>
  BY DEF Serve, Handler
<1>2. c \in Nat /\ r \in ResourceIds
  BY ResourceFacts
<1>3. data = <<c % 256, c % 256>> /\ DOMAIN data = 1..2 /\ Len(data) = 2 /\ c % 256 \in Nat
  BY <1>2 DEF ChunkData
<1>4. ASSUME NEW k \in 1..2 PROVE ~IsBitfield(block(k))
  <2>1. k - 1 \in Nat /\ <<data[k]>> \in Seq(Nat) /\ Len(data) \in Nat
    BY <1>2, <1>3
  <2>2. Starts(block(k), TypePiece)
    BY <1>2, <2>1, FramesStart
  <2> QED
    BY <2>2, SilentAreNoBitfields DEF TypePiece, TypeBitfield, TypeHave
<1> HIDE DEF block
<1>5. DOMAIN blocks = 1..2 /\ \A k \in 1..2 : blocks[k] = block(k)
  BY <1>3
<1> HIDE DEF blocks
<1>6. EType /\ outbox' \in Seq(Frames)
  BY DEF EInv, EType
<1>7. \A k \in 1..Len(outbox') : ~IsBitfield(outbox'[k])
  <2>1. CASE outbox' = <<>>
    BY <2>1
  <2>2. CASE outbox' = blocks
    <3>1. DOMAIN outbox' = 1..Len(outbox')
      BY <1>6, LenProperties
    <3> QED
      BY <1>4, <1>5, <2>2, <3>1
  <2> QED
    BY <1>1, <2>1, <2>2
<1> QED
  BY <1>1, <1>6, <1>7, HandlerInforms DEF senderVars

LEMMA AskInforms ==
    ASSUME SInv, EInv, EInv', Informed, NEW r \in Resources, NEW c \in Traded[r], Ask(c)
    PROVE  Informed'
<1> DEFINE f == EncodeRequest(offered, c)
<1>1. /\ outbox = <<>> /\ offered # NoResource /\ outbox' = <<f>>
      /\ UNCHANGED <<vars, frames, receiverVars, senderVars>>
  BY DEF Ask, Handler
<1>2. EType /\ outbox' \in Seq(Frames) /\ offered \in Resources /\ c \in Nat
  BY <1>1, ResourceFacts DEF EInv, EType, SenderType
<1>3. Starts(f, TypeRequest)
  BY <1>2, ResourceFacts, FramesStart
<1>4. ~IsBitfield(f)
  BY <1>3, SilentAreNoBitfields DEF TypeRequest, TypeBitfield, TypeHave
<1> HIDE DEF f
<1>5. \A k \in 1..Len(outbox') : ~IsBitfield(outbox'[k])
  BY <1>1, <1>4
<1> QED
  BY <1>1, <1>2, <1>5, HandlerInforms DEF senderVars

LEMMA ArrivesInforms ==
    ASSUME SInv, EInv, KInv, Arrives
    PROVE  Informed'
<1> DEFINE p == OnTheWay
           r == offered
<1>1. /\ p # <<>> /\ OnTheWay' = Tail(p) /\ Take(DecodeMessage(Head(p)))
      /\ UNCHANGED <<readyState, isClosed, thrown, senderVars>>
  BY ArrivesTakesTheHead DEF Arrives, Transmit, EInv
<1>2. p \in Seq(Frames) /\ EType
  BY OnTheWayTyped DEF EInv
<1> HIDE DEF p
<1> SUFFICES ASSUME Settled
             PROVE  \/ ToCome(Tail(p), r, held[r])
                    \/ Taken(Tail(p), r, held[r], view', known', seeking')
  BY <1>1 DEF Informed, Settled, Usable, senderVars
<1>3. TotalOf[r] > 0 /\ r \in Resources
  BY <1>2 DEF KInv, Settled, EType, SenderType
<1>4. CASE ToCome(p, r, held[r])
  BY <1>1, <1>2, <1>4, BitfieldTaken
<1>5. CASE Taken(p, r, held[r], view, known, seeking)
  BY <1>1, <1>2, <1>3, <1>5, HaveTaken
<1> QED
  BY <1>4, <1>5 DEF KInv, Informed, p

-----------------------------------------------------------------------------
LEMMA KInvStarts == ExchangeInit => KInv
<1> SUFFICES ASSUME ExchangeInit PROVE KInv
  OBVIOUS
<1>1. loading = FALSE /\ offered = NoResource
  BY DEF ExchangeInit
<1> QED
  BY <1>1 DEF KInv, Informed, Settled

\* A download that resumes has chunks missing: there are chunks.
LEMMA ResumeOfSome ==
    ASSUME EType, Resume
    PROVE  TotalOf[manifest] > 0
<1>1. manifest \in Resources /\ ~IsComplete(LocalBitfield(manifest))
  BY DEF Resume, EType, SenderType
<1>2. /\ LocalBitfield(manifest).totalChunks = TotalOf[manifest] /\ TotalOf[manifest] \in Nat
      /\ AvailableIndices(LocalBitfield(manifest)) = held[manifest]
      /\ held[manifest] \subseteq 0..(TotalOf[manifest] - 1)
  BY <1>1, LocalIsHeld, ResourceFacts DEF EType, SenderType
<1>3. CASE TotalOf[manifest] = 0
  <2>1. held[manifest] = {}
    BY <1>2, <1>3
  <2>2. Cardinality({}) = 0
    BY FS_EmptySet
  <2>3. IsComplete(LocalBitfield(manifest))
    BY <1>2, <1>3, <2>1, <2>2 DEF IsComplete, Count
  <2> QED
    BY <1>1, <2>3
<1> QED
  BY <1>2, <1>3

LEMMA KInvKept == SInv /\ EInv /\ EInv' /\ KInv /\ [ExchangeNext]_allVars => KInv'
<1> SUFFICES ASSUME SInv, EInv, EInv', KInv, [ExchangeNext]_allVars PROVE KInv'
  OBVIOUS
<1>1. EType /\ Informed
  BY DEF EInv, KInv
<1>2. ASSUME UNCHANGED senderVars, Informed' PROVE KInv'
  BY <1>2 DEF KInv, senderVars
<1>3. CASE UNCHANGED allVars
  <2>1. OnTheWay' = OnTheWay
    BY <1>3 DEF allVars, exchangeVars, vars, OnTheWay
  <2> QED
    BY <1>1, <1>2, <1>3, <2>1, NothingMoves DEF allVars, exchangeVars, vars, receiverVars
<1>4. ASSUME NEW r \in Resources, StartDownload(r) PROVE KInv'
  <2>1. manifest' = r /\ r \notin started /\ loading' = TRUE /\ offered' = offered
    BY <1>4 DEF StartDownload
  <2>2. offered' # manifest'
    BY <1>1, <2>1, ResourceFacts DEF EType, SenderType
  <2> QED
    BY <2>1, <2>2 DEF KInv, Informed, Settled
<1>5. ASSUME NEW r \in Resources, Seek(r) PROVE KInv'
  <2>1. OnTheWay' = OnTheWay
    BY <1>5 DEF Seek, vars, OnTheWay
  <2> QED
    BY <1>1, <1>2, <1>5, <2>1, NothingMoves DEF Seek, vars
<1>6. ASSUME NEW r \in Resources, NEW c \in Traded[r], Stores(r, c) PROVE KInv'
  <2>1. Informed'
    BY <1>1, <1>6, StoresInforms
  <2> QED
    BY <1>6, <2>1 DEF Stores, KInv
<1>7. ASSUME NEW r \in Resources, NEW c \in Traded[r], Serve(r, c) PROVE KInv'
  <2>1. Informed'
    BY <1>1, <1>7, ServeInforms
  <2> QED
    BY <1>2, <1>7, <2>1 DEF Serve
<1>8. ASSUME NEW r \in Resources, NEW c \in Traded[r], Ask(c) PROVE KInv'
  <2>1. Informed'
    BY <1>1, <1>8, AskInforms
  <2> QED
    BY <1>2, <1>8, <2>1 DEF Ask
<1>9. ASSUME NEW c \in AvailableIndices(known), Request(c) PROVE KInv'
  <2>1. OnTheWay' = OnTheWay
    BY <1>9 DEF Request, vars, OnTheWay
  <2> QED
    BY <1>1, <1>2, <1>9, <2>1, NothingMoves DEF Request, vars, receiverVars
<1>10. CASE Resume
  <2>1. Informed'
    BY <1>1, <1>10, ResumeInforms
  <2>2. loading' = FALSE /\ offered' = manifest
    BY <1>10 DEF Resume
  <2>3. TotalOf[offered'] > 0
    BY <1>1, <1>10, <2>2, ResumeOfSome
  <2> QED
    BY <2>1, <2>2, <2>3 DEF KInv
<1>11. CASE ResumeWithNothing
  <2>1. loading /\ loading' = FALSE /\ UNCHANGED <<offered, manifest>>
    BY <1>11 DEF ResumeWithNothing
  <2> QED
    BY <2>1 DEF KInv, Informed, Settled
<1>12. CASE SeekLoaded
  <2>1. OnTheWay' = OnTheWay /\ UNCHANGED senderVars /\ view' = view /\ known' = view
        /\ UNCHANGED <<readyState, isClosed, thrown>>
    BY <1>12 DEF SeekLoaded, vars, OnTheWay
  <2>2. Informed'
    BY <1>1, <2>1 DEF Informed, Settled, Usable, Taken, senderVars
  <2> QED
    BY <1>2, <2>1, <2>2
<1>13. CASE OnChannelOpen
  <2>1. Informed'
    BY <1>1, <1>13, OpenInforms
  <2> QED
    BY <1>2, <1>13, <2>1 DEF OnChannelOpen
<1>14. CASE SendNext
  <2>1. /\ UNCHANGED <<senderVars, receiverVars, readyState, isClosed>>
        /\ ~thrown' => ~thrown \/ thrown' = thrown
    BY <1>14 DEF SendNext, SendRefused, SendQueues, SendPasses, SendThrows
  <2>2. ASSUME Settled' PROVE UNCHANGED thrown /\ Usable /\ OnTheWay' = OnTheWay
    <3>1. Usable /\ ~thrown'
      BY <2>1, <2>2 DEF Settled, Usable
    <3>2. UNCHANGED thrown
      BY <1>14, <3>1 DEF SendNext, SendRefused, SendQueues, SendPasses, SendThrows
    <3> QED
      BY <1>1, <1>14, <3>1, <3>2, SendMoves
  <2>3. Informed'
    BY <1>1, <2>1, <2>2, NothingMoves DEF receiverVars, Informed
  <2> QED
    BY <1>2, <2>1, <2>3
<1>15. CASE OnLow
  <2>1. UNCHANGED <<senderVars, receiverVars, readyState, isClosed>>
    BY <1>15 DEF OnLow, OnBufferedAmountLow, exchangeVars
  <2>2. ASSUME Settled' PROVE UNCHANGED thrown /\ OnTheWay' = OnTheWay
    <3>1. ~thrown' /\ Usable
      BY <2>1, <2>2 DEF Settled, Usable
    <3>2. UNCHANGED thrown
      BY <1>15, <3>1 DEF OnLow, OnBufferedAmountLow, Drains, DrainThrows
    <3> QED
      BY <1>1, <1>15, <3>1, <3>2, LowMoves
  <2>3. Informed'
    BY <1>1, <2>1, <2>2, NothingMoves DEF receiverVars, Informed
  <2> QED
    BY <1>2, <2>1, <2>3
<1>16. CASE Arrives
  <2>1. Informed'
    BY <1>16, ArrivesInforms
  <2> QED
    BY <1>2, <1>16, <2>1 DEF Arrives
<1>17. CASE GoesDown
  <2>1. UNCHANGED senderVars /\ readyState' = "closed"
    BY <1>17 DEF GoesDown, ChannelCloses, Close
  <2>2. Informed'
    BY <2>1 DEF Informed, Settled, Usable
  <2> QED
    BY <1>2, <2>1, <2>2
<1> QED
  BY <1>3, <1>4, <1>5, <1>6, <1>7, <1>8, <1>9, <1>10, <1>11, <1>12, <1>13, <1>14, <1>15, <1>16, <1>17
  DEF ExchangeNext

LEMMA KInvSuffices == SInv /\ EInv /\ KInv => KnowsWhatIsOffered
<1> SUFFICES ASSUME SInv, EInv, KInv, Quiet, Settled, offered = seeking
             PROVE  held[offered] \subseteq AvailableIndices(known)
  BY DEF KnowsWhatIsOffered, Settled
<1>1. buffer \o sendQueue = <<>> /\ outbox = <<>>
  BY DEF Quiet
<1>2. Named(frames, <<>>) = <<>>
  BY DEF Named
<1>3. Len(OnTheWay) = 0
  BY <1>1, <1>2 DEF OnTheWay
<1>4. Taken(OnTheWay, offered, held[offered], view, known, seeking)
  BY <1>3 DEF KInv, Informed, ToCome
<1>5. Covers(known, OnTheWay, 0, offered, held[offered])
  BY <1>4 DEF Taken
<1> QED
  BY <1>3, <1>5 DEF Covers

\* Once everything sent has arrived, the receiver's scheduler knows of every chunk the sender has
\* of the resource both download: no HAVE is lost between a BITFIELD and the chunks stored after
\* it, none is set in a bitfield that a later one replaces, and a BITFIELD that was sent under the
\* name of another resource is made good by the next (handleChannelOpen, startDownload,
\* handleDataMessage, send, drainSendQueue).
THEOREM AllIsKnown == ExchangeSpec => []KnowsWhatIsOffered
<1>1. ExchangeInit => SInv /\ EInv /\ KInv
  BY SInvStarts, EInvStarts, KInvStarts DEF ExchangeInit
<1>2. SInv /\ EInv /\ KInv /\ [ExchangeNext]_allVars => SInv' /\ EInv' /\ KInv'
  BY ExchangeKeepsSInv, EInvKept, KInvKept
<1>3. SInv /\ EInv /\ KInv => KnowsWhatIsOffered
  BY KInvSuffices
<1> QED
  BY <1>1, <1>2, <1>3, PTL DEF ExchangeSpec
=============================================================================
