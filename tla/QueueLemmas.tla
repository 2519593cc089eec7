----------------------------- MODULE QueueLemmas -----------------------------
(* What the queues of the node keep: jobs join at the end, leave at the    *)
(* front, or are taken out of the middle.                                  *)
EXTENDS Integers, Sequences, SequenceTheorems, TLAPS

Has(q, x) == \E i \in 1..Len(q) : q[i] = x

Distinct(q) == \A i, j \in 1..Len(q) : q[i] = q[j] => i = j

\* q without its k-th element.
Removed(q, k) == SubSeq(q, 1, k - 1) \o SubSeq(q, k + 1, Len(q))

\* Nothing is in an empty queue, and something in any other.
LEMMA EmptyQueue ==
  /\ Distinct(<< >>)
  /\ \A x : ~ Has(<< >>, x)
BY DEF Distinct, Has

LEMMA QueueFront ==
  ASSUME NEW S, NEW q \in Seq(S)
  PROVE  /\ Len(q) \in Nat
         /\ \A x : Has(q, x) => x \in S
         /\ q # << >> => /\ Head(q) = q[1]
                         /\ Head(q) \in S
                         /\ Has(q, Head(q))
                         /\ 1 \in 1..Len(q)
BY DEF Has

\* What joins is in the queue.
LEMMA QueueJoins ==
  ASSUME NEW S, NEW q \in Seq(S), NEW e \in S
  PROVE  /\ Append(q, e) \in Seq(S)
         /\ Len(Append(q, e)) = Len(q) + 1
         /\ \A x : Has(Append(q, e), x) <=> Has(q, x) \/ x = e
         /\ Distinct(q) /\ ~ Has(q, e) => Distinct(Append(q, e))
<1>1. /\ Len(q) \in Nat
      /\ Append(q, e) \in Seq(S)
      /\ Len(Append(q, e)) = Len(q) + 1
      /\ \A i \in 1..Len(q) : Append(q, e)[i] = q[i]
      /\ Append(q, e)[Len(q) + 1] = e
  BY AppendProperties
<1>2. \A i \in 1..(Len(q) + 1) : i \in 1..Len(q) \/ i = Len(q) + 1
  BY <1>1
<1>3. \A x : Has(Append(q, e), x) <=> Has(q, x) \/ x = e
  BY <1>1, <1>2 DEF Has
<1>4. Distinct(q) /\ ~ Has(q, e) => Distinct(Append(q, e))
  BY <1>1, <1>2 DEF Has, Distinct
<1> QED
  BY <1>1, <1>3, <1>4

\* What is taken out leaves the others, in their order.
LEMMA QueueLoses ==
  ASSUME NEW S, NEW q \in Seq(S), NEW k \in 1..Len(q)
  PROVE  /\ Removed(q, k) \in Seq(S)
         /\ Len(Removed(q, k)) = Len(q) - 1
         /\ \A x : Has(Removed(q, k), x) => Has(q, x)
         /\ \A x : Has(q, x) => x = q[k] \/ Has(Removed(q, k), x)
         /\ Distinct(q) =>
              Distinct(Removed(q, k)) /\ ~ Has(Removed(q, k), q[k])
<1> DEFINE front == SubSeq(q, 1, k - 1)
           back == SubSeq(q, k + 1, Len(q))
           r == Removed(q, k)
<1>1. /\ Len(q) \in Nat /\ k \in Nat /\ k <= Len(q) /\ k >= 1
      /\ \A i \in 1..Len(q) : q[i] \in S
  BY ElementOfSeq, LenProperties
<1>2. /\ front \in Seq(S) /\ Len(front) = k - 1
      /\ \A i \in 1..(k - 1) : front[i] = q[i]
  <2>1. \A i \in 1..(k - 1) : q[i] \in S
    BY <1>1
  <2>2. /\ front \in Seq(S)
        /\ Len(front) = IF 1 <= k - 1 THEN (k - 1) - 1 + 1 ELSE 0
        /\ \A i \in 1..((k - 1) - 1 + 1) : front[i] = q[1 + i - 1]
    BY <1>1, <2>1, SubSeqProperties
  <2> QED
    BY <1>1, <2>2
<1>3. /\ back \in Seq(S) /\ Len(back) = Len(q) - k
      /\ \A i \in 1..(Len(q) - k) : back[i] = q[k + i]
  <2>1. \A i \in (k + 1)..Len(q) : q[i] \in S
    BY <1>1
  <2>2. /\ back \in Seq(S)
        /\ Len(back) = IF k + 1 <= Len(q) THEN Len(q) - (k + 1) + 1 ELSE 0
        /\ \A i \in 1..(Len(q) - (k + 1) + 1) : back[i] = q[(k + 1) + i - 1]
    BY <1>1, <2>1, SubSeqProperties
  <2> QED
    BY <1>1, <2>2
<1> HIDE DEF front, back
<1>4. /\ r \in Seq(S) /\ Len(r) = Len(q) - 1
      /\ \A i \in 1..(Len(q) - 1) : r[i] = IF i < k THEN q[i] ELSE q[i + 1]
  <2> DEFINE c == front \o back
  <2>1. /\ c \in Seq(S) /\ Len(c) = Len(front) + Len(back)
        /\ \A i \in 1..(Len(front) + Len(back)) :
             c[i] = IF i <= Len(front) THEN front[i] ELSE back[i - Len(front)]
    <3>1. front \in Seq(S) /\ back \in Seq(S)
      BY <1>2, <1>3
    <3> QED
      BY ONLY <3>1, ConcatProperties
  <2>2. r = c
    BY DEF Removed, front, back
  <2> HIDE DEF c, r
  <2>3. Len(front) + Len(back) = Len(q) - 1
    BY <1>1, <1>2, <1>3
  <2>4. ASSUME NEW i \in 1..(Len(q) - 1)
        PROVE  c[i] = IF i < k THEN q[i] ELSE q[i + 1]
    <3>1. CASE i < k
      <4>1. i <= Len(front) /\ i \in 1..(k - 1)
        BY <1>1, <1>2, <3>1
      <4> QED
        BY <1>2, <2>1, <2>3, <3>1, <4>1
    <3>2. CASE ~ (i < k)
      <4>1. /\ ~ (i <= Len(front)) /\ i - Len(front) \in 1..(Len(q) - k)
            /\ k + (i - Len(front)) = i + 1
        BY <1>1, <1>2, <3>2
      <4>2. c[i] = back[i - Len(front)]
        BY <2>1, <2>3, <4>1
      <4> QED
        BY <1>3, <3>2, <4>1, <4>2
    <3> QED
      BY <3>1, <3>2
  <2> QED
    BY <2>1, <2>2, <2>3, <2>4
<1>0. r = Removed(q, k)
  OBVIOUS
<1> HIDE DEF r
<1>5. \A x : Has(r, x) => Has(q, x)
  BY <1>1, <1>4 DEF Has
<1>6. ASSUME NEW x, Has(q, x), x # q[k] PROVE Has(r, x)
  <2>1. PICK i \in 1..Len(q) : q[i] = x
    BY <1>6 DEF Has
  <2>2. CASE i < k
    BY <1>1, <1>4, <2>1, <2>2 DEF Has
  <2>3. CASE i > k
    <3>1. i - 1 \in 1..(Len(q) - 1) /\ ~ (i - 1 < k) /\ (i - 1) + 1 = i
      BY <1>1, <2>1, <2>3
    <3>2. r[i - 1] = q[i]
      BY <1>4, <3>1
    <3> QED
      BY <1>4, <2>1, <3>1, <3>2 DEF Has
  <2>4. i < k \/ i > k
    BY <1>1, <1>6, <2>1
  <2> QED
    BY <2>2, <2>3, <2>4
<1>7. ASSUME Distinct(q) PROVE Distinct(r) /\ ~ Has(r, q[k])
  BY <1>1, <1>4, <1>7 DEF Distinct, Has
<1> QED
  BY <1>0, <1>4, <1>5, <1>6, <1>7

\* Its front is taken out the same way.
LEMMA QueueMoves ==
  ASSUME NEW S, NEW q \in Seq(S), q # << >>
  PROVE  /\ Tail(q) \in Seq(S)
         /\ Len(Tail(q)) = Len(q) - 1
         /\ \A x : Has(Tail(q), x) => Has(q, x)
         /\ \A x : Has(q, x) => x = Head(q) \/ Has(Tail(q), x)
         /\ Distinct(q) => Distinct(Tail(q)) /\ ~ Has(Tail(q), Head(q))
<1>1. /\ Len(q) \in Nat /\ 1 \in 1..Len(q) /\ Head(q) = q[1]
      /\ Tail(q) \in Seq(S) /\ Len(Tail(q)) = Len(q) - 1
      /\ \A i \in 1..(Len(q) - 1) : Tail(q)[i] = q[i + 1]
  BY HeadTailProperties, QueueFront
<1> DEFINE r == Tail(q)
<1> HIDE DEF r
<1>2. /\ Len(r) = Len(q) - 1 /\ \A i \in 1..(Len(q) - 1) : r[i] = q[i + 1]
  BY <1>1 DEF r
<1>3. \A x : Has(r, x) => Has(q, x)
  BY <1>1, <1>2 DEF Has
<1>4. ASSUME NEW x, Has(q, x), x # q[1] PROVE Has(r, x)
  <2>1. PICK i \in 1..Len(q) : q[i] = x
    BY <1>4 DEF Has
  <2>2. i - 1 \in 1..(Len(q) - 1) /\ (i - 1) + 1 = i
    BY <1>1, <1>4, <2>1
  <2>3. r[i - 1] = q[(i - 1) + 1]
    BY <1>2, <2>2
  <2> QED
    BY <1>2, <2>1, <2>2, <2>3 DEF Has
<1>5. Distinct(q) => Distinct(r) /\ ~ Has(r, q[1])
  BY <1>1, <1>2 DEF Distinct, Has
<1> QED
  BY <1>1, <1>3, <1>4, <1>5 DEF r
=============================================================================
