---------------------------- MODULE CommonLemmas ----------------------------
(***************************************************************************)
(* Facts about numbers and sequences that several of the proofs need.      *)
(***************************************************************************)
EXTENDS Integers, Sequences, WellFoundedInduction, TLAPS

-----------------------------------------------------------------------------
(* Numbers.                                                                *)

\* A set of numbers that is not empty has a least element.
LEMMA LeastNat ==
  ASSUME NEW T \in SUBSET Nat, T # {}
  PROVE  \E x \in T : \A y \in T : x <= y
<1> DEFINE R == OpToRel(<, Nat)
<1>1. IsWellFoundedOn(R, Nat)
  BY NatLessThanWellFounded
<1>2. R = {ss \in Nat \X Nat : ss[1] < ss[2]}
  BY DEF OpToRel
<1> HIDE DEF R
<1>3. PICK x \in T : \A y \in T : ~(<<y, x>> \in R)
  BY <1>1, WFMin
<1>4. ASSUME NEW y \in T
      PROVE  x <= y
  <2>1. <<y, x>> \in Nat \X Nat /\ <<y, x>>[1] = y /\ <<y, x>>[2] = x
    OBVIOUS
  <2>2. ~(y < x)
    BY <1>2, <1>3, <2>1
  <2>3. QED
    BY <2>2
<1>5. QED
  BY <1>4

-----------------------------------------------------------------------------
(* Sequences are equal when their elements are.                            *)

LEMMA SameElements ==
  ASSUME NEW S, NEW p \in Seq(S), NEW q \in Seq(S), NEW n \in Nat,
         Len(p) = n, Len(q) = n, \A i \in 1..n : p[i] = q[i]
  PROVE  p = q
<1>1. p = [i \in 1..n |-> p[i]]
  OBVIOUS
<1>2. q = [i \in 1..n |-> q[i]]
  OBVIOUS
<1>3. [i \in 1..n |-> p[i]] = [i \in 1..n |-> q[i]]
  BY Zenon
<1>4. QED
  BY <1>1, <1>2, <1>3

-----------------------------------------------------------------------------
(* Sequences of messages, seen as the sequences of their numbers that the  *)
(* refinement mappings to LossyFifo use.                                   *)

\* The numbers of the messages of a sequence.
Lines(s) == [i \in 1..Len(s) |-> s[i].line]

\* Appending a message appends its number.
LEMMA Lines_Append ==
  ASSUME NEW S, NEW s \in Seq(S), NEW e \in S
  PROVE  Lines(Append(s, e)) = Append(Lines(s), e.line)
<1>1. /\ Lines(s) \in Seq({s[i].line : i \in 1..Len(s)})
      /\ Len(Lines(s)) = Len(s)
  BY DEF Lines
<1>2. /\ Len(Append(s, e)) = Len(s) + 1
      /\ \A i \in 1..Len(s) : Append(s, e)[i] = s[i]
      /\ Append(s, e)[Len(s) + 1] = e
  OBVIOUS
<1>3. Append(Lines(s), e.line)
        = [i \in 1..Len(s) + 1 |-> IF i = Len(s) + 1 THEN e.line ELSE s[i].line]
  BY <1>1 DEF Lines
<1>4. QED
  BY <1>2, <1>3 DEF Lines

\* Taking the first message takes the first number.
LEMMA Lines_HeadTail ==
  ASSUME NEW S, NEW s \in Seq(S), s # <<>>
  PROVE  /\ Lines(s) # <<>>
         /\ Head(Lines(s)) = Head(s).line
         /\ Lines(Tail(s)) = Tail(Lines(s))
<1>1. /\ Lines(s) \in Seq({s[i].line : i \in 1..Len(s)})
      /\ Len(Lines(s)) = Len(s)
      /\ Len(s) \in Nat \ {0}
  BY DEF Lines
<1>2. /\ Lines(s) # <<>>
      /\ Head(Lines(s)) = Head(s).line
  BY <1>1 DEF Lines
<1>3. /\ Len(Tail(s)) = Len(s) - 1
      /\ \A i \in 1..Len(s) - 1 : Tail(s)[i] = s[i + 1]
  BY <1>1
<1>4. Tail(Lines(s)) = [i \in 1..Len(s) - 1 |-> s[i + 1].line]
  BY <1>1 DEF Lines
<1>5. QED
  BY <1>2, <1>3, <1>4 DEF Lines

\* The first message has the first number.
LEMMA Lines_Cons ==
  ASSUME NEW S, NEW s \in Seq(S), NEW e \in S
  PROVE  /\ Lines(<<e>> \o s) # <<>>
         /\ Head(Lines(<<e>> \o s)) = e.line
         /\ Tail(Lines(<<e>> \o s)) = Lines(s)
<1> DEFINE t == <<e>> \o s
<1>1. /\ t \in Seq(S) /\ t # <<>>
      /\ Head(t) = e
      /\ Tail(t) = s
  OBVIOUS
<1> HIDE DEF t
<1>2. QED
  BY <1>1, Lines_HeadTail DEF t

-----------------------------------------------------------------------------
(* The order of the messages of a LossyFifo.                               *)

\* The inductive strengthening of LossyFifo's InOrder, for n messages offered,
\* those in the queue q and those in d delivered: what is queued is increasing
\* too, and newer than everything delivered.
Ordered(n, q, d) ==
  /\ n \in Nat /\ q \in Seq(Nat) /\ d \in Seq(Nat)
  /\ \A i, j \in 1..Len(d) : i < j => d[i] < d[j]
  /\ \A i \in 1..Len(d) : d[i] \in 1..n
  /\ \A i, j \in 1..Len(q) : i < j => q[i] < q[j]
  /\ \A i \in 1..Len(q) :
        /\ q[i] \in 1..n
        /\ \A j \in 1..Len(d) : d[j] < q[i]

\* Offering a message preserves the order: its number is the largest so far.
LEMMA Ordered_Offer ==
  ASSUME NEW n, NEW q, NEW d, Ordered(n, q, d), NEW t \in {q, Append(q, n + 1)}
  PROVE  Ordered(n + 1, t, d)
<1>1. n \in Nat /\ q \in Seq(Nat) /\ d \in Seq(Nat)
  BY DEF Ordered
<1>2. CASE t = q
  BY <1>1, <1>2 DEF Ordered
<1>3. CASE t = Append(q, n + 1)
  <2>1. /\ Len(q) \in Nat /\ t \in Seq(Nat) /\ Len(t) = Len(q) + 1
        /\ \A i \in 1..Len(q) : t[i] = q[i]
        /\ t[Len(q) + 1] = n + 1
    BY <1>1, <1>3
  <2>2. ASSUME NEW i \in 1..Len(t)
        PROVE  /\ t[i] \in 1..n + 1
               /\ \A j \in 1..Len(d) : d[j] < t[i]
    <3>1. CASE i \in 1..Len(q)
      <4>1. /\ t[i] = q[i] /\ q[i] \in 1..n
            /\ \A j \in 1..Len(d) : d[j] < q[i]
        BY <2>1, <3>1 DEF Ordered
      <4>2. QED
        BY <1>1, <4>1
    <3>2. CASE i = Len(q) + 1
      <4>1. t[i] = n + 1 /\ \A j \in 1..Len(d) : d[j] \in 1..n
        BY <2>1, <3>2 DEF Ordered
      <4>2. QED
        BY <1>1, <4>1
    <3>3. QED
      BY <2>1, <3>1, <3>2
  <2>3. ASSUME NEW i \in 1..Len(t), NEW j \in 1..Len(t), i < j
        PROVE  t[i] < t[j]
    <3>1. i \in 1..Len(q) /\ t[i] = q[i] /\ q[i] \in 1..n
      BY <2>1, <2>3 DEF Ordered
    <3>2. CASE j \in 1..Len(q)
      BY <2>1, <2>3, <3>1, <3>2 DEF Ordered
    <3>3. CASE j = Len(q) + 1
      BY <1>1, <2>1, <3>1, <3>3
    <3>4. QED
      BY <2>1, <3>2, <3>3
  <2>4. \A i \in 1..Len(d) : d[i] \in 1..n + 1
    BY <1>1 DEF Ordered
  <2>5. QED
    BY <1>1, <2>1, <2>2, <2>3, <2>4 DEF Ordered
<1>4. QED
  BY <1>2, <1>3

\* Delivering the head preserves the order: it is newer than everything
\* delivered before and older than the rest of the queue.
LEMMA Ordered_Deliver ==
  ASSUME NEW n, NEW q, NEW d, Ordered(n, q, d), q # <<>>
  PROVE  Ordered(n, Tail(q), Append(d, Head(q)))
<1> DEFINE rest == Tail(q)
           all == Append(d, Head(q))
<1>1. /\ n \in Nat /\ q \in Seq(Nat) /\ d \in Seq(Nat)
      /\ Len(q) \in Nat \ {0} /\ Len(d) \in Nat
      /\ Head(q) = q[1] /\ q[1] \in 1..n
  BY DEF Ordered
<1>2. /\ rest \in Seq(Nat) /\ Len(rest) = Len(q) - 1
      /\ \A i \in 1..Len(rest) : i + 1 \in 1..Len(q) /\ rest[i] = q[i + 1]
  BY <1>1
<1>3. /\ all \in Seq(Nat) /\ Len(all) = Len(d) + 1
      /\ \A i \in 1..Len(d) : all[i] = d[i]
      /\ all[Len(d) + 1] = q[1]
  BY <1>1
<1> HIDE DEF rest, all
<1>4. ASSUME NEW i \in 1..Len(rest), NEW j \in 1..Len(rest), i < j
      PROVE  rest[i] < rest[j]
  <2>1. /\ i + 1 \in 1..Len(q) /\ j + 1 \in 1..Len(q) /\ i + 1 < j + 1
        /\ rest[i] = q[i + 1] /\ rest[j] = q[j + 1]
    BY <1>1, <1>2, <1>4
  <2>2. QED
    BY <2>1 DEF Ordered
<1>5. ASSUME NEW i \in 1..Len(all)
      PROVE  /\ all[i] \in 1..n
             /\ i \in 1..Len(d) => all[i] < q[1]
             /\ i \notin 1..Len(d) => all[i] = q[1]
  <2>1. CASE i \in 1..Len(d)
    <3>1. all[i] = d[i] /\ d[i] \in 1..n
      BY <1>3, <2>1 DEF Ordered
    <3>2. 1 \in 1..Len(q)
      BY <1>1
    <3>3. d[i] < q[1]
      BY <2>1, <3>2 DEF Ordered
    <3>4. QED
      BY <2>1, <3>1, <3>3
  <2>2. CASE i \notin 1..Len(d)
    <3>1. i = Len(d) + 1
      BY <1>1, <1>3, <2>2
    <3>2. QED
      BY <1>1, <1>3, <2>2, <3>1
  <2>3. QED
    BY <2>1, <2>2
<1>6. ASSUME NEW i \in 1..Len(all), NEW j \in 1..Len(all), i < j
      PROVE  all[i] < all[j]
  <2>1. i \in 1..Len(d)
    BY <1>1, <1>3, <1>6
  <2>2. CASE j \in 1..Len(d)
    BY <1>3, <1>6, <2>1, <2>2 DEF Ordered
  <2>3. CASE j \notin 1..Len(d)
    BY <1>5, <2>1, <2>3
  <2>4. QED
    BY <2>2, <2>3
<1>7. ASSUME NEW i \in 1..Len(rest)
      PROVE  /\ rest[i] \in 1..n
             /\ \A j \in 1..Len(all) : all[j] < rest[i]
  <2>1. /\ i + 1 \in 1..Len(q) /\ 1 \in 1..Len(q) /\ 1 < i + 1
        /\ rest[i] = q[i + 1]
    BY <1>1, <1>2
  <2>2. rest[i] \in 1..n /\ q[1] < rest[i]
    BY <2>1 DEF Ordered
  <2>3. ASSUME NEW j \in 1..Len(all)
        PROVE  all[j] < rest[i]
    <3>1. all[j] \in 1..n /\ (all[j] < q[1] \/ all[j] = q[1])
      BY <1>1, <1>5
    <3>2. QED
      BY <1>1, <2>2, <3>1
  <2>4. QED
    BY <2>2, <2>3
<1>8. Ordered(n, rest, all)
  BY <1>1, <1>2, <1>3, <1>4, <1>5, <1>6, <1>7 DEF Ordered
<1>9. QED
  BY <1>8 DEF rest, all

-----------------------------------------------------------------------------
(* Chunks of a sequence.                                                   *)

\* The elements of a concatenation.
LEMMA ConcatElements ==
  ASSUME NEW S, NEW s \in Seq(S), NEW t \in Seq(S)
  PROVE  /\ s \o t \in Seq(S) /\ Len(s \o t) = Len(s) + Len(t)
         /\ \A i \in 1..Len(s) + Len(t) :
              (s \o t)[i] = IF i <= Len(s) THEN s[i] ELSE t[i - Len(s)]
OBVIOUS

\* The elements of the end of a sequence.
LEMMA Segment ==
  ASSUME NEW S, NEW s \in Seq(S), NEW n \in 0..Len(s)
  PROVE  /\ SubSeq(s, n + 1, Len(s)) \in Seq(S)
         /\ Len(SubSeq(s, n + 1, Len(s))) = Len(s) - n
         /\ \A i \in 1..Len(s) - n : SubSeq(s, n + 1, Len(s))[i] = s[i + n]
<1> DEFINE back == SubSeq(s, n + 1, Len(s))
<1>1. Len(s) \in Nat /\ n <= Len(s) /\ Len(s) - n \in Nat
  OBVIOUS
<1>2. back = [i \in 1..Len(s) - n |-> s[i + n]]
  BY <1>1
<1>3. \A i \in 1..Len(s) - n : i + n \in 1..Len(s)
  BY <1>1
<1>4. \A i \in 1..Len(s) - n : s[i + n] \in S
  BY <1>3
<1> HIDE DEF back
<1>5. back \in Seq(S) /\ Len(back) = Len(s) - n
      /\ \A i \in 1..Len(s) - n : back[i] = s[i + n]
  BY <1>1, <1>2, <1>4
<1>6. QED
  BY <1>5 DEF back

\* Concatenation is associative.
LEMMA ConcatAssociative ==
  ASSUME NEW S, NEW s \in Seq(S), NEW t \in Seq(S), NEW u \in Seq(S)
  PROVE  (s \o t) \o u = s \o (t \o u)
<1> DEFINE st == s \o t
           tu == t \o u
<1>1. /\ st \in Seq(S) /\ Len(st) = Len(s) + Len(t)
      /\ \A i \in 1..Len(s) + Len(t) :
           st[i] = IF i <= Len(s) THEN s[i] ELSE t[i - Len(s)]
  BY ConcatElements
<1>2. /\ tu \in Seq(S) /\ Len(tu) = Len(t) + Len(u)
      /\ \A i \in 1..Len(t) + Len(u) :
           tu[i] = IF i <= Len(t) THEN t[i] ELSE u[i - Len(t)]
  BY ConcatElements
<1> HIDE DEF st, tu
<1> DEFINE n == Len(s) + Len(t) + Len(u)
<1>3. /\ st \o u \in Seq(S) /\ Len(st \o u) = n
      /\ \A i \in 1..n :
           (st \o u)[i] = IF i <= Len(s) + Len(t) THEN st[i]
                          ELSE u[i - (Len(s) + Len(t))]
  <2>1. st \in Seq(S)
    BY <1>1
  <2>2. /\ st \o u \in Seq(S) /\ Len(st \o u) = Len(st) + Len(u)
        /\ \A i \in 1..Len(st) + Len(u) :
             (st \o u)[i] = IF i <= Len(st) THEN st[i] ELSE u[i - Len(st)]
    BY <2>1, ConcatElements
  <2>3. QED
    BY <1>1, <2>2
<1>4. /\ s \o tu \in Seq(S) /\ Len(s \o tu) = n
      /\ \A i \in 1..n :
           (s \o tu)[i] = IF i <= Len(s) THEN s[i] ELSE tu[i - Len(s)]
  <2>1. tu \in Seq(S)
    BY <1>2
  <2>2. /\ s \o tu \in Seq(S) /\ Len(s \o tu) = Len(s) + Len(tu)
        /\ \A i \in 1..Len(s) + Len(tu) :
             (s \o tu)[i] = IF i <= Len(s) THEN s[i] ELSE tu[i - Len(s)]
    BY <2>1, ConcatElements
  <2>3. Len(s) + Len(tu) = n
    BY <1>2
  <2>4. QED
    BY <2>2, <2>3
<1>5. ASSUME NEW i \in 1..n
      PROVE  (st \o u)[i] = (s \o tu)[i]
  <2>1. CASE i <= Len(s)
    BY <2>1, <1>1, <1>3, <1>4
  <2>2. CASE i > Len(s) /\ i <= Len(s) + Len(t)
    <3>1. i - Len(s) \in 1..Len(t) + Len(u) /\ i - Len(s) <= Len(t)
      BY <2>2
    <3>2. tu[i - Len(s)] = t[i - Len(s)]
      BY <3>1, <1>2
    <3>3. st[i] = t[i - Len(s)]
      BY <2>2, <1>1
    <3>4. (s \o tu)[i] = tu[i - Len(s)]
      BY <2>2, <1>4
    <3>5. (st \o u)[i] = st[i]
      BY <2>2, <1>3
    <3>6. QED
      BY <3>2, <3>3, <3>4, <3>5
  <2>3. CASE i > Len(s) + Len(t)
    <3>1. i - Len(s) \in 1..Len(t) + Len(u) /\ i - Len(s) > Len(t)
      BY <2>3
    <3>2. tu[i - Len(s)] = u[(i - Len(s)) - Len(t)]
      <4>1. ~(i - Len(s) <= Len(t))
        BY <3>1
      <4>2. QED
        BY <3>1, <4>1, <1>2
    <3>3. (i - Len(s)) - Len(t) = i - (Len(s) + Len(t)) /\ ~(i <= Len(s))
      BY <2>3
    <3>4. (s \o tu)[i] = tu[i - Len(s)]
      BY <3>3, <1>4
    <3>5. (st \o u)[i] = u[i - (Len(s) + Len(t))]
      BY <2>3, <1>3
    <3>6. QED
      BY <3>2, <3>3, <3>4, <3>5
  <2>4. i <= Len(s) \/ (i > Len(s) /\ i <= Len(s) + Len(t)) \/ i > Len(s) + Len(t)
    OBVIOUS
  <2>5. QED
    BY <2>1, <2>2, <2>3, <2>4
<1>6. st \o u = s \o tu
  <2> DEFINE p == st \o u
             q == s \o tu
  <2>1. /\ p \in Seq(S) /\ q \in Seq(S) /\ n \in Nat /\ Len(p) = n /\ Len(q) = n
        /\ \A i \in 1..n : p[i] = q[i]
    BY <1>3, <1>4, <1>5
  <2> HIDE DEF p, q, n
  <2>2. p = q
    BY <2>1, SameElements
  <2>3. QED
    BY <2>2 DEF p, q
<1>7. QED
  BY <1>6 DEF st, tu

\* Moving the first n elements of one queue to the end of another does not
\* change the two taken together.
LEMMA MoveChunk ==
  ASSUME NEW S, NEW s \in Seq(S), NEW t \in Seq(S), NEW n \in 0..Len(t)
  PROVE  (s \o SubSeq(t, 1, n)) \o SubSeq(t, n + 1, Len(t)) = s \o t
<1> DEFINE front == SubSeq(t, 1, n)
           back == SubSeq(t, n + 1, Len(t))
<1>0. Len(t) \in Nat /\ n <= Len(t)
  OBVIOUS
<1>1. /\ front \in Seq(S) /\ Len(front) = n
      /\ \A i \in 1..n : front[i] = t[i]
  OBVIOUS
<1>2. /\ back \in Seq(S) /\ Len(back) = Len(t) - n
      /\ \A i \in 1..Len(t) - n : back[i] = t[i + n]
  BY Segment
<1> HIDE DEF front, back
<1> DEFINE u == s \o front
<1>3. /\ u \in Seq(S) /\ Len(u) = Len(s) + n
      /\ \A i \in 1..Len(s) + n :
           u[i] = IF i <= Len(s) THEN s[i] ELSE t[i - Len(s)]
  BY <1>1
<1> HIDE DEF u
<1>4. /\ Len(s) \in Nat /\ Len(t) \in Nat
      /\ (Len(s) + n) + (Len(t) - n) = Len(s) + Len(t)
  OBVIOUS
<1>5. /\ u \o back \in Seq(S) /\ Len(u \o back) = Len(s) + Len(t)
      /\ \A i \in 1..Len(s) + Len(t) :
           (u \o back)[i] = IF i <= Len(s) + n THEN u[i]
                            ELSE back[i - (Len(s) + n)]
  <2>1. /\ u \o back \in Seq(S) /\ Len(u \o back) = Len(u) + Len(back)
        /\ \A i \in 1..Len(u) + Len(back) :
             (u \o back)[i] = IF i <= Len(u) THEN u[i] ELSE back[i - Len(u)]
    BY <1>2, <1>3, ConcatElements
  <2>2. QED
    BY <2>1, <1>4, <1>2, <1>3
<1>6. /\ s \o t \in Seq(S) /\ Len(s \o t) = Len(s) + Len(t)
      /\ \A i \in 1..Len(s) + Len(t) :
           (s \o t)[i] = IF i <= Len(s) THEN s[i] ELSE t[i - Len(s)]
  BY ConcatElements
<1>7. ASSUME NEW i \in 1..Len(s) + Len(t)
      PROVE  (u \o back)[i] = (s \o t)[i]
  <2>1. CASE i <= Len(s) + n
    <3>1. (u \o back)[i] = u[i]
      BY <2>1, <1>5
    <3>2. i \in 1..Len(s) + n
      BY <2>1, <1>4
    <3>3. u[i] = IF i <= Len(s) THEN s[i] ELSE t[i - Len(s)]
      BY <1>3, <3>2
    <3>4. (s \o t)[i] = IF i <= Len(s) THEN s[i] ELSE t[i - Len(s)]
      BY <1>6
    <3>5. QED
      BY <3>1, <3>3, <3>4
  <2>2. CASE i > Len(s) + n
    <3>1. (u \o back)[i] = back[i - (Len(s) + n)]
      BY <2>2, <1>5
    <3>2. i - (Len(s) + n) \in 1..Len(t) - n
      BY <2>2
    <3>3. back[i - (Len(s) + n)] = t[(i - (Len(s) + n)) + n]
      BY <3>2, <1>2
    <3>4. (i - (Len(s) + n)) + n = i - Len(s)
      OBVIOUS
    <3>5. (s \o t)[i] = t[i - Len(s)]
      BY <2>2, <1>6
    <3>6. QED
      BY <3>1, <3>3, <3>4, <3>5
  <2>3. i <= Len(s) + n \/ i > Len(s) + n
    BY <1>4
  <2>4. QED
    BY <2>1, <2>2, <2>3
<1>8. u \o back = s \o t
  <2> DEFINE p == u \o back
             q == s \o t
             m == Len(s) + Len(t)
  <2>1. /\ p \in Seq(S) /\ q \in Seq(S) /\ m \in Nat /\ Len(p) = m /\ Len(q) = m
        /\ \A i \in 1..m : p[i] = q[i]
    BY <1>4, <1>5, <1>6, <1>7
  <2> HIDE DEF p, q, m
  <2>2. p = q
    BY <2>1, SameElements
  <2>3. QED
    BY <2>2 DEF p, q
<1>9. QED
  BY <1>8 DEF u, front, back

\* A segment is not changed by what is appended to the sequence.
LEMMA SegmentKept ==
  ASSUME NEW S, NEW s \in Seq(S), NEW e \in S,
         NEW m \in Nat, NEW n \in Nat, n <= Len(s)
  PROVE  SubSeq(Append(s, e), m + 1, n) = SubSeq(s, m + 1, n)
<1> DEFINE t == Append(s, e)
<1>1. /\ t \in Seq(S) /\ Len(t) = Len(s) + 1 /\ Len(s) \in Nat
      /\ \A i \in 1..Len(s) : t[i] = s[i]
  OBVIOUS
<1> HIDE DEF t
<1>2. SubSeq(t, m + 1, n) = [i \in 1..n - m |-> t[i + m]]
  BY <1>1
<1>3. SubSeq(s, m + 1, n) = [i \in 1..n - m |-> s[i + m]]
  OBVIOUS
<1>4. \A i \in 1..n - m : t[i + m] = s[i + m]
  BY <1>1
<1>5. QED
  BY <1>2, <1>3, <1>4 DEF t

\* A segment at the end of the sequence grows with it.
LEMMA SegmentGrows ==
  ASSUME NEW S, NEW s \in Seq(S), NEW e \in S, NEW m \in Nat, m <= Len(s)
  PROVE  SubSeq(Append(s, e), m + 1, Len(s) + 1)
           = Append(SubSeq(s, m + 1, Len(s)), e)
<1> DEFINE t == Append(s, e)
           u == SubSeq(s, m + 1, Len(s))
           n == Len(s)
<1>1. /\ t \in Seq(S) /\ Len(t) = n + 1 /\ n \in Nat
      /\ \A i \in 1..n : t[i] = s[i]
      /\ t[n + 1] = e
  OBVIOUS
<1>2. /\ u \in Seq(S) /\ Len(u) = n - m
      /\ \A i \in 1..n - m : u[i] = s[i + m]
  OBVIOUS
<1> HIDE DEF t, u, n
<1>3. /\ Append(u, e) \in Seq(S) /\ Len(Append(u, e)) = Len(u) + 1
      /\ \A i \in 1..Len(u) + 1 :
           Append(u, e)[i] = IF i = Len(u) + 1 THEN e ELSE u[i]
  <2>1. u \in Seq(S)
    BY <1>2
  <2>2. QED
    BY <2>1
<1>4. SubSeq(t, m + 1, n + 1) = [i \in 1..(n + 1) - m |-> t[i + m]]
  BY <1>1
<1>5. (n + 1) - m = Len(u) + 1 /\ m <= n /\ Len(u) + m = n
  BY <1>1, <1>2 DEF n
<1>6. ASSUME NEW i \in 1..Len(u) + 1
      PROVE  t[i + m] = IF i = Len(u) + 1 THEN e ELSE u[i]
  <2>1. CASE i = Len(u) + 1
    <3>1. i + m = n + 1
      BY <1>1, <1>2, <2>1
    <3>2. QED
      BY <1>1, <2>1, <3>1
  <2>2. CASE i # Len(u) + 1
    <3>1. i \in 1..n - m /\ i + m \in 1..n
      BY <1>1, <1>2, <1>5, <2>2
    <3>2. QED
      BY <1>1, <1>2, <2>2, <3>1
  <2>3. QED
    BY <2>1, <2>2
<1>7. SubSeq(t, m + 1, n + 1) = Append(u, e)
  BY <1>3, <1>4, <1>5, <1>6
<1>8. QED
  BY <1>7 DEF t, u, n

-----------------------------------------------------------------------------
(* The order of the bytes of a LossyStream: the same, chunk by chunk.      *)

\* Accepting the first k of m bytes offered preserves the order.
LEMMA Ordered_OfferChunk ==
  ASSUME NEW n, NEW q, NEW d, Ordered(n, q, d), NEW m \in Nat, NEW k \in 0..m
  PROVE  Ordered(n + m, q \o [i \in 1..k |-> n + i], d)
<1> DEFINE new == [i \in 1..k |-> n + i]
           t == q \o new
<1>1. /\ n \in Nat /\ q \in Seq(Nat) /\ d \in Seq(Nat) /\ Len(q) \in Nat
      /\ Len(d) \in Nat /\ k \in Nat /\ k <= m /\ n + m \in Nat
  BY DEF Ordered
<1>2. /\ new \in Seq(Nat) /\ Len(new) = k
      /\ \A i \in 1..k : new[i] = n + i
  BY <1>1
<1> HIDE DEF new
<1>3. /\ t \in Seq(Nat) /\ Len(t) = Len(q) + k
      /\ \A i \in 1..Len(q) + k :
           t[i] = IF i <= Len(q) THEN q[i] ELSE new[i - Len(q)]
  BY <1>1, <1>2, ConcatElements
<1> HIDE DEF t
<1>4. ASSUME NEW i \in 1..Len(t), i <= Len(q)
      PROVE  /\ i \in 1..Len(q) /\ t[i] = q[i] /\ t[i] \in 1..n
             /\ \A j \in 1..Len(d) : d[j] < t[i]
  <2>1. i \in 1..Len(q)
    BY <1>1, <1>4
  <2>2. i \in 1..Len(q) + k
    BY <1>3
  <2>3. t[i] = q[i]
    BY <1>3, <1>4, <2>2
  <2>4. QED
    BY <2>1, <2>3 DEF Ordered
<1>5. ASSUME NEW i \in 1..Len(t), ~(i <= Len(q))
      PROVE  t[i] = n + (i - Len(q)) /\ i - Len(q) \in 1..k
  <2>1. i \in 1..Len(q) + k
    BY <1>3
  <2>2. i - Len(q) \in 1..k
    BY <1>1, <1>5, <2>1
  <2>3. t[i] = new[i - Len(q)]
    BY <1>3, <1>5, <2>1
  <2>4. QED
    BY <1>2, <2>2, <2>3
<1>6. ASSUME NEW i \in 1..Len(t)
      PROVE  /\ t[i] \in 1..n + m
             /\ \A j \in 1..Len(d) : d[j] < t[i]
  <2>1. CASE i <= Len(q)
    <3>1. t[i] \in 1..n /\ \A j \in 1..Len(d) : d[j] < t[i]
      BY <1>4, <2>1
    <3>2. QED
      BY <1>1, <3>1
  <2>2. CASE ~(i <= Len(q))
    <3>1. t[i] = n + (i - Len(q)) /\ i - Len(q) \in 1..k
      BY <1>5, <2>2
    <3>2. t[i] \in 1..n + m /\ n < t[i]
      BY <1>1, <3>1
    <3>3. ASSUME NEW j \in 1..Len(d)
          PROVE  d[j] < t[i]
      <4>1. d[j] \in 1..n
        BY DEF Ordered
      <4>2. QED
        BY <1>1, <3>2, <4>1
    <3>4. QED
      BY <3>2, <3>3
  <2>3. QED
    BY <2>1, <2>2
<1>7. ASSUME NEW i \in 1..Len(t), NEW j \in 1..Len(t), i < j
      PROVE  t[i] < t[j]
  <2>1. CASE j <= Len(q)
    <3>1. i <= Len(q)
      BY <1>1, <1>7, <2>1
    <3>2. /\ i \in 1..Len(q) /\ j \in 1..Len(q)
          /\ t[i] = q[i] /\ t[j] = q[j]
      BY <1>4, <2>1, <3>1
    <3>3. QED
      BY <1>7, <3>2 DEF Ordered
  <2>2. CASE ~(j <= Len(q)) /\ i <= Len(q)
    <3>1. t[i] \in 1..n
      BY <1>4, <2>2
    <3>2. t[j] = n + (j - Len(q)) /\ j - Len(q) \in 1..k
      BY <1>5, <2>2
    <3>3. QED
      BY <1>1, <3>1, <3>2
  <2>3. CASE ~(j <= Len(q)) /\ ~(i <= Len(q))
    <3>1. t[i] = n + (i - Len(q)) /\ t[j] = n + (j - Len(q))
      BY <1>5, <2>3
    <3>2. QED
      BY <1>1, <1>7, <3>1
  <2>4. QED
    BY <2>1, <2>2, <2>3
<1>8. \A i \in 1..Len(d) : d[i] \in 1..n + m
  <2> SUFFICES ASSUME NEW i \in 1..Len(d)
               PROVE  d[i] \in 1..n + m
    OBVIOUS
  <2>1. d[i] \in 1..n
    BY DEF Ordered
  <2>2. QED
    BY <1>1, <2>1
<1>9. \A i, j \in 1..Len(d) : i < j => d[i] < d[j]
  BY DEF Ordered
<1>10. Ordered(n + m, t, d)
  BY <1>1, <1>3, <1>6, <1>7, <1>8, <1>9 DEF Ordered
<1>11. QED
  BY <1>10 DEF t, new

\* Taking out n bytes and delivering the first k of them preserves the order.
LEMMA Ordered_DeliverChunk ==
  ASSUME NEW c, NEW q, NEW d, Ordered(c, q, d), NEW n \in 0..Len(q), NEW k \in 0..n
  PROVE  Ordered(c, SubSeq(q, n + 1, Len(q)), d \o SubSeq(q, 1, k))
<1> DEFINE rest == SubSeq(q, n + 1, Len(q))
           sent == SubSeq(q, 1, k)
           all == d \o sent
<1>1. /\ c \in Nat /\ q \in Seq(Nat) /\ d \in Seq(Nat)
      /\ Len(q) \in Nat /\ Len(d) \in Nat /\ n \in Nat /\ k \in Nat
      /\ n <= Len(q) /\ k <= n
  BY DEF Ordered
<1>2. /\ rest \in Seq(Nat) /\ Len(rest) = Len(q) - n
      /\ \A i \in 1..Len(q) - n : rest[i] = q[i + n]
  BY <1>1, Segment
<1>3. /\ sent \in Seq(Nat) /\ Len(sent) = k
      /\ \A i \in 1..k : sent[i] = q[i]
  BY <1>1
<1> HIDE DEF rest, sent
<1>4. /\ all \in Seq(Nat) /\ Len(all) = Len(d) + k
      /\ \A i \in 1..Len(d) + k :
           all[i] = IF i <= Len(d) THEN d[i] ELSE sent[i - Len(d)]
  BY <1>1, <1>3, ConcatElements
<1> HIDE DEF all
<1>5. ASSUME NEW i \in 1..Len(rest)
      PROVE  i + n \in 1..Len(q) /\ rest[i] = q[i + n] /\ n < i + n
  BY <1>1, <1>2
<1>6. ASSUME NEW i \in 1..Len(all), i <= Len(d)
      PROVE  i \in 1..Len(d) /\ all[i] = d[i]
  BY <1>1, <1>4, <1>6
<1>7. ASSUME NEW i \in 1..Len(all), ~(i <= Len(d))
      PROVE  /\ i - Len(d) \in 1..Len(q) /\ i - Len(d) <= n
             /\ all[i] = q[i - Len(d)]
  <2>1. i \in 1..Len(d) + k
    BY <1>4
  <2>2. i - Len(d) \in 1..k
    BY <1>1, <1>7, <2>1
  <2>3. all[i] = sent[i - Len(d)]
    BY <1>4, <1>7, <2>1
  <2>4. sent[i - Len(d)] = q[i - Len(d)]
    BY <1>3, <2>2
  <2>5. QED
    BY <1>1, <2>2, <2>3, <2>4
<1>8. ASSUME NEW i \in 1..Len(rest), NEW j \in 1..Len(rest), i < j
      PROVE  rest[i] < rest[j]
  <2>1. i + n < j + n
    BY <1>1, <1>8
  <2>2. QED
    BY <1>5, <2>1 DEF Ordered
<1>9. ASSUME NEW i \in 1..Len(all), NEW j \in 1..Len(all), i < j
      PROVE  all[i] < all[j]
  <2>1. CASE j <= Len(d)
    <3>1. i <= Len(d)
      BY <1>1, <1>9, <2>1
    <3>2. /\ i \in 1..Len(d) /\ j \in 1..Len(d)
          /\ all[i] = d[i] /\ all[j] = d[j]
      BY <1>6, <2>1, <3>1
    <3>3. QED
      BY <1>9, <3>2 DEF Ordered
  <2>2. CASE ~(j <= Len(d)) /\ i <= Len(d)
    <3>1. i \in 1..Len(d) /\ all[i] = d[i]
      BY <1>6, <2>2
    <3>2. j - Len(d) \in 1..Len(q) /\ all[j] = q[j - Len(d)]
      BY <1>7, <2>2
    <3>3. QED
      BY <3>1, <3>2 DEF Ordered
  <2>3. CASE ~(j <= Len(d)) /\ ~(i <= Len(d))
    <3>1. /\ i - Len(d) \in 1..Len(q) /\ all[i] = q[i - Len(d)]
          /\ j - Len(d) \in 1..Len(q) /\ all[j] = q[j - Len(d)]
      BY <1>7, <2>3
    <3>2. i - Len(d) < j - Len(d)
      BY <1>1, <1>9
    <3>3. QED
      BY <3>1, <3>2 DEF Ordered
  <2>4. QED
    BY <2>1, <2>2, <2>3
<1>10. ASSUME NEW i \in 1..Len(all)
       PROVE  all[i] \in 1..c
  <2>1. CASE i <= Len(d)
    BY <1>6, <2>1 DEF Ordered
  <2>2. CASE ~(i <= Len(d))
    BY <1>7, <2>2 DEF Ordered
  <2>3. QED
    BY <2>1, <2>2
<1>11. ASSUME NEW i \in 1..Len(rest)
       PROVE  /\ rest[i] \in 1..c
              /\ \A j \in 1..Len(all) : all[j] < rest[i]
  <2>1. /\ i + n \in 1..Len(q) /\ rest[i] = q[i + n] /\ n < i + n
    BY <1>5
  <2>2. rest[i] \in 1..c
    BY <2>1 DEF Ordered
  <2>3. ASSUME NEW j \in 1..Len(all)
        PROVE  all[j] < rest[i]
    <3>1. CASE j <= Len(d)
      <4>1. j \in 1..Len(d) /\ all[j] = d[j]
        BY <1>6, <3>1
      <4>2. QED
        BY <2>1, <4>1 DEF Ordered
    <3>2. CASE ~(j <= Len(d))
      <4>1. /\ j - Len(d) \in 1..Len(q) /\ j - Len(d) <= n
            /\ all[j] = q[j - Len(d)]
        BY <1>7, <3>2
      <4>2. j - Len(d) < i + n
        BY <1>1, <2>1, <4>1
      <4>3. QED
        BY <2>1, <4>1, <4>2 DEF Ordered
    <3>3. QED
      BY <3>1, <3>2
  <2>4. QED
    BY <2>2, <2>3
<1>12. Ordered(c, rest, all)
  BY <1>1, <1>2, <1>4, <1>8, <1>9, <1>10, <1>11 DEF Ordered
<1>13. QED
  BY <1>12 DEF rest, sent, all

\* So every step of a LossyStream preserves it: m, t and e are the new values.
LEMMA Ordered_StreamStep ==
  ASSUME NEW n, NEW q, NEW d, NEW m, NEW t, NEW e, Ordered(n, q, d),
         \/ /\ m \in Nat /\ m > n
            /\ \E k \in 0..m - n : t = q \o [i \in 1..k |-> n + i]
            /\ e = d
         \/ /\ \E j \in 1..Len(q) :
                 /\ t = SubSeq(q, j + 1, Len(q))
                 /\ \E k \in 0..j : e = d \o SubSeq(q, 1, k)
            /\ m = n
         \/ m = n /\ t = q /\ e = d
  PROVE  Ordered(m, t, e)
<1>1. ASSUME m \in Nat, m > n, e = d,
             NEW k \in 0..m - n, t = q \o [i \in 1..k |-> n + i]
      PROVE  Ordered(m, t, e)
  <2> DEFINE more == m - n
  <2>1. n \in Nat
    BY DEF Ordered
  <2>2. more \in Nat /\ n + more = m
    BY <1>1, <2>1
  <2>3. k \in 0..more
    OBVIOUS
  <2> HIDE DEF more
  <2>4. Ordered(n + more, q \o [i \in 1..k |-> n + i], d)
    BY <2>2, <2>3, Ordered_OfferChunk
  <2>5. QED
    BY <1>1, <2>2, <2>4
<1>2. ASSUME m = n, NEW j \in 1..Len(q), t = SubSeq(q, j + 1, Len(q)),
             NEW k \in 0..j, e = d \o SubSeq(q, 1, k)
      PROVE  Ordered(m, t, e)
  <2>1. j \in 0..Len(q)
    OBVIOUS
  <2>2. Ordered(n, SubSeq(q, j + 1, Len(q)), d \o SubSeq(q, 1, k))
    BY <2>1, Ordered_DeliverChunk
  <2>3. QED
    BY <1>2, <2>2
<1>3. QED
  BY <1>1, <1>2
=============================================================================
