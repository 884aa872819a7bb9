--------------------------- MODULE SequenceLemmas ---------------------------
(***************************************************************************)
(* What the proofs need to know of the operators on sequences the modules  *)
(* are built from.                                                         *)
(***************************************************************************)
EXTENDS Integers, Sequences, SequencesExt, SequenceTheorems, WellFoundedInduction, TLAPS

\* A nonempty set of positive numbers has its minimum as an element.
LEMMA MinInSet ==
  ASSUME NEW S \in SUBSET Nat, S # {}
  PROVE  Min(S) \in S /\ \A y \in S : Min(S) <= y
<1>1. \E x \in S : \A y \in S : ~ (<<y, x>> \in OpToRel(<, Nat))
  BY NatLessThanWellFounded, WFMin, Zenon
<1>2. OpToRel(<, Nat) = {ss \in Nat \X Nat : ss[1] < ss[2]}
  BY Zenon DEF OpToRel
<1>3. \E x \in S : \A y \in S : x <= y
  <2>1. PICK x \in S : \A y \in S : ~ (<<y, x>> \in OpToRel(<, Nat))
    BY <1>1
  <2>2. ASSUME NEW y \in S PROVE x <= y
    <3>1. <<y, x>> \in Nat \X Nat /\ <<y, x>>[1] = y /\ <<y, x>>[2] = x
      OBVIOUS
    <3>2. <<y, x>> \notin {ss \in Nat \X Nat : ss[1] < ss[2]}
      BY <2>1, <1>2
    <3>3. ~ (y < x)
      BY <3>1, <3>2
    <3> QED BY <3>3
  <2> QED BY <2>2
<1> QED
  BY <1>3 DEF Min

\* RemoveAt takes one element out and keeps the order of the others.
LEMMA RemoveAtProperties ==
  ASSUME NEW T, NEW s \in Seq(T), NEW i \in 1..Len(s)
  PROVE  /\ RemoveAt(s, i) \in Seq(T)
         /\ Len(RemoveAt(s, i)) = Len(s) - 1
         /\ \A a \in 1..Len(s) - 1 :
              RemoveAt(s, i)[a] = IF a < i THEN s[a] ELSE s[a + 1]
<1> DEFINE u == SubSeq(s, 1, i - 1)
           v == SubSeq(s, i + 1, Len(s))
<1>0. Len(s) \in Nat /\ i \in Nat /\ \A a \in 1..Len(s) : s[a] \in T
  BY ElementOfSeq, LenProperties
<1>1. u \in Seq(T) /\ Len(u) = i - 1 /\ \A a \in 1..i - 1 : u[a] = s[a]
  BY <1>0, SubSeqProperties
<1>2. v \in Seq(T) /\ Len(v) = Len(s) - i /\ \A a \in 1..Len(s) - i : v[a] = s[i + a]
  BY <1>0, SubSeqProperties
<1>3. u \o v \in Seq(T) /\ Len(u \o v) = Len(u) + Len(v)
      /\ \A a \in 1..Len(u) + Len(v) :
           (u \o v)[a] = IF a <= Len(u) THEN u[a] ELSE v[a - Len(u)]
  BY <1>1, <1>2, ConcatProperties
<1>4. RemoveAt(s, i) = u \o v
  BY DEF RemoveAt
<1> HIDE DEF u, v
<1>5. Len(RemoveAt(s, i)) = Len(s) - 1
  <2>1. Len(RemoveAt(s, i)) = Len(u) + Len(v)
    BY <1>3, <1>4
  <2>2. Len(u) = i - 1 /\ Len(v) = Len(s) - i
    BY <1>1, <1>2
  <2>3. Len(s) \in Int /\ i \in Int
    BY <1>0
  <2> QED BY <2>1, <2>2, <2>3
<1>6. ASSUME NEW a \in 1..Len(s) - 1
      PROVE  RemoveAt(s, i)[a] = IF a < i THEN s[a] ELSE s[a + 1]
  <2>1. a \in 1..Len(u) + Len(v)
    BY <1>0, <1>1, <1>2
  <2>2. CASE a < i
    <3>1. a <= Len(u) /\ a \in 1..i - 1
      BY <2>2, <1>0, <1>1
    <3> QED BY <2>1, <2>2, <3>1, <1>1, <1>3, <1>4
  <2>3. CASE ~ (a < i)
    <3>1. ~ (a <= Len(u)) /\ a - Len(u) \in 1..Len(s) - i /\ i + (a - Len(u)) = a + 1
      BY <2>3, <1>0, <1>1
    <3> QED BY <2>1, <2>3, <3>1, <1>2, <1>3, <1>4
  <2> QED BY <2>2, <2>3
<1> QED
  BY <1>3, <1>4, <1>5, <1>6

-----------------------------------------------------------------------------
(***************************************************************************)
(* Three queues one behind the other.                                      *)
(***************************************************************************)

\* Sequence l has the elements of a, then those of b, then those of c.
InTurn(l, a, b, c) ==
  /\ Len(l) = Len(a) + Len(b) + Len(c)
  /\ \A k \in 1..Len(a) : l[k] = a[k]
  /\ \A k \in 1..Len(b) : l[Len(a) + k] = b[k]
  /\ \A k \in 1..Len(c) : l[Len(a) + Len(b) + k] = c[k]

\* Sequence y is l without its element at i.
Without(y, l, i) ==
  /\ Len(y) = Len(l) - 1
  /\ \A k \in 1..Len(l) - 1 : y[k] = IF k < i THEN l[k] ELSE l[k + 1]

\* The element at k of a, b and c one after the other.
At(k, a, b, c) ==
  IF k <= Len(a) THEN a[k]
  ELSE IF k <= Len(a) + Len(b) THEN b[k - Len(a)]
  ELSE c[k - (Len(a) + Len(b))]

LEMMA RemoveAtWithout ==
  ASSUME NEW T, NEW s \in Seq(T), NEW i \in 1..Len(s)
  PROVE  RemoveAt(s, i) \in Seq(T) /\ Without(RemoveAt(s, i), s, i)
  BY RemoveAtProperties DEF Without

LEMMA ConcatInTurn ==
  ASSUME NEW T, NEW a \in Seq(T), NEW b \in Seq(T), NEW c \in Seq(T)
  PROVE  a \o b \o c \in Seq(T) /\ InTurn(a \o b \o c, a, b, c)
<1>1. Len(a) \in Nat /\ Len(b) \in Nat /\ Len(c) \in Nat
  BY LenProperties
<1>2. PICK u : u = a \o b
  OBVIOUS
<1>3. u \in Seq(T)
  BY <1>2, ConcatProperties
<1>4. Len(u) = Len(a) + Len(b)
  BY <1>2, ConcatProperties
<1>5. \A k \in 1..Len(a) + Len(b) : u[k] = IF k <= Len(a) THEN a[k] ELSE b[k - Len(a)]
  BY <1>2, ConcatProperties
<1>6. PICK l : l = u \o c
  OBVIOUS
<1>7. /\ l \in Seq(T)
      /\ Len(l) = Len(u) + Len(c)
      /\ \A k \in 1..Len(u) + Len(c) : l[k] = IF k <= Len(u) THEN u[k] ELSE c[k - Len(u)]
  BY <1>3, <1>6, ConcatProperties
<1>8. InTurn(l, a, b, c)
  <2>1. ASSUME NEW k \in 1..Len(a) PROVE l[k] = a[k]
    BY <1>1, <1>4, <1>5, <1>7
  <2>2. ASSUME NEW k \in 1..Len(b) PROVE l[Len(a) + k] = b[k]
    <3>1. Len(a) + k \in 1..Len(a) + Len(b) /\ (Len(a) + k) - Len(a) = k
      BY <1>1
    <3>2. u[Len(a) + k] = b[k]
      BY <1>1, <1>5, <3>1
    <3> QED BY <1>1, <1>4, <1>7, <3>1, <3>2
  <2>3. ASSUME NEW k \in 1..Len(c) PROVE l[Len(a) + Len(b) + k] = c[k]
    <3>1. /\ (Len(a) + Len(b) + k) - Len(u) = k
          /\ Len(a) + Len(b) + k \in 1..Len(u) + Len(c)
          /\ ~(Len(a) + Len(b) + k <= Len(u))
      BY <1>1, <1>4
    <3> QED BY <1>7, <3>1
  <2>4. Len(l) = Len(a) + Len(b) + Len(c)
    BY <1>1, <1>4, <1>7
  <2> QED BY <2>1, <2>2, <2>3, <2>4 DEF InTurn
<1> QED
  BY <1>2, <1>6, <1>7, <1>8

\* The three determine the whole.
LEMMA InTurnAt ==
  ASSUME NEW a, NEW b, NEW c, NEW l, InTurn(l, a, b, c),
         Len(a) \in Nat, Len(b) \in Nat, Len(c) \in Nat,
         NEW k \in 1..Len(a) + Len(b) + Len(c)
  PROVE  l[k] = At(k, a, b, c)
<1>1. CASE k <= Len(a)
  BY <1>1 DEF InTurn, At
<1>2. CASE k > Len(a) /\ k <= Len(a) + Len(b)
  <2>1. k - Len(a) \in 1..Len(b) /\ Len(a) + (k - Len(a)) = k
    BY <1>2
  <2>2. l[Len(a) + (k - Len(a))] = b[k - Len(a)]
    BY <2>1 DEF InTurn
  <2> QED BY <1>2, <2>1, <2>2 DEF At
<1>3. CASE k > Len(a) + Len(b)
  <2>1. /\ k - (Len(a) + Len(b)) \in 1..Len(c)
        /\ Len(a) + Len(b) + (k - (Len(a) + Len(b))) = k
    BY <1>3
  <2>2. l[Len(a) + Len(b) + (k - (Len(a) + Len(b)))] = c[k - (Len(a) + Len(b))]
    BY <2>1 DEF InTurn
  <2> QED BY <1>3, <2>1, <2>2 DEF At
<1> QED
  BY <1>1, <1>2, <1>3

\* Taking an element out of the first queue takes it out of the whole.
LEMMA RemoveFromFirst ==
  ASSUME NEW T, NEW a \in Seq(T), NEW b \in Seq(T), NEW c \in Seq(T),
         NEW i \in 1..Len(a)
  PROVE  RemoveAt(a, i) \o b \o c = RemoveAt(a \o b \o c, i)
<1>1. Len(a) \in Nat /\ Len(b) \in Nat /\ Len(c) \in Nat
  BY LenProperties
<1>2. PICK l \in Seq(T) : l = a \o b \o c /\ InTurn(l, a, b, c)
  BY ConcatInTurn
<1>3. PICK r \in Seq(T) : r = RemoveAt(a, i) /\ Without(r, a, i)
  BY RemoveAtWithout
<1>4. PICK x \in Seq(T) : x = r \o b \o c /\ InTurn(x, r, b, c)
  BY ConcatInTurn
<1>5. Len(l) = Len(a) + Len(b) + Len(c) /\ Len(r) = Len(a) - 1 /\ Len(r) \in Nat
  BY <1>1, <1>2, <1>3 DEF InTurn, Without
<1>6. i \in 1..Len(l)
  BY <1>1, <1>5
<1>7. PICK y \in Seq(T) : y = RemoveAt(l, i) /\ Without(y, l, i)
  BY <1>6, RemoveAtWithout
<1>8. Len(x) = Len(l) - 1 /\ Len(y) = Len(l) - 1
  BY <1>1, <1>4, <1>5, <1>7 DEF InTurn, Without
<1>9. ASSUME NEW k \in 1..Len(x)
      PROVE  x[k] = y[k]
  <2>1. /\ k \in 1..Len(r) + Len(b) + Len(c)
        /\ k \in 1..Len(a) + Len(b) + Len(c) /\ k + 1 \in 1..Len(a) + Len(b) + Len(c)
    BY <1>1, <1>5, <1>8
  <2>2. y[k] = IF k < i THEN l[k] ELSE l[k + 1]
    BY <1>1, <1>5, <1>7, <1>8 DEF Without
  <2>3. x[k] = At(k, r, b, c)
    BY <1>1, <1>4, <1>5, <2>1, InTurnAt
  <2>4. l[k] = At(k, a, b, c)
    BY <1>1, <1>2, <2>1, InTurnAt
  <2>5. l[k + 1] = At(k + 1, a, b, c)
    BY <1>1, <1>2, <2>1, InTurnAt
  <2>6. CASE k < Len(a)
    <3>1. k \in 1..Len(a) - 1
      BY <1>1, <2>1, <2>6
    <3>2. r[k] = IF k < i THEN a[k] ELSE a[k + 1]
      BY <3>1, <1>3 DEF Without
    <3> QED BY <1>1, <1>5, <2>1, <2>2, <2>3, <2>4, <2>5, <2>6, <3>2 DEF At
  <2>7. CASE k >= Len(a)
    <3>1. y[k] = At(k + 1, a, b, c)
      BY <1>1, <2>1, <2>2, <2>5, <2>7
    <3>2. CASE k <= Len(r) + Len(b)
      <4>1. ~(k <= Len(r)) /\ ~(k + 1 <= Len(a)) /\ k + 1 <= Len(a) + Len(b)
            /\ k - Len(r) = (k + 1) - Len(a)
        BY <1>1, <1>5, <2>1, <2>7, <3>2
      <4> QED BY <2>3, <3>1, <3>2, <4>1 DEF At
    <3>3. CASE ~(k <= Len(r) + Len(b))
      <4>1. ~(k <= Len(r)) /\ ~(k + 1 <= Len(a)) /\ ~(k + 1 <= Len(a) + Len(b))
            /\ k - (Len(r) + Len(b)) = (k + 1) - (Len(a) + Len(b))
        BY <1>1, <1>5, <2>1, <2>7, <3>3
      <4> QED BY <2>3, <3>1, <3>3, <4>1 DEF At
    <3> QED BY <3>2, <3>3
  <2> QED BY <2>1, <2>6, <2>7, <1>1
<1> QED
  BY <1>2, <1>3, <1>4, <1>7, <1>8, <1>9, SeqEqual

\* Taking the head of the second queue takes it out of the whole.
LEMMA RemoveFromSecond ==
  ASSUME NEW T, NEW a \in Seq(T), NEW b \in Seq(T), NEW c \in Seq(T), b # <<>>
  PROVE  /\ Len(a) + 1 \in 1..Len(a \o b \o c)
         /\ (a \o b \o c)[Len(a) + 1] = Head(b)
         /\ a \o Tail(b) \o c = RemoveAt(a \o b \o c, Len(a) + 1)
<1>0. Head(b) = b[1]
  OBVIOUS
<1>1. Len(a) \in Nat /\ Len(b) \in Nat /\ Len(c) \in Nat /\ Len(b) >= 1
  BY LenProperties, EmptySeq
<1>2. PICK l \in Seq(T) : l = a \o b \o c /\ InTurn(l, a, b, c)
  BY ConcatInTurn
<1>3. PICK r \in Seq(T) : /\ r = Tail(b)
                           /\ Len(r) = Len(b) - 1 /\ \A k \in 1..Len(r) : r[k] = b[k + 1]
  BY HeadTailProperties
<1>4. PICK x \in Seq(T) : x = a \o r \o c /\ InTurn(x, a, r, c)
  BY ConcatInTurn
<1>5. Len(l) = Len(a) + Len(b) + Len(c) /\ Len(r) \in Nat
  BY <1>1, <1>2, <1>3 DEF InTurn
<1>6. Len(a) + 1 \in 1..Len(l) /\ l[Len(a) + 1] = b[1]
  BY <1>1, <1>2, <1>5 DEF InTurn
<1>7. PICK y \in Seq(T) : y = RemoveAt(l, Len(a) + 1) /\ Without(y, l, Len(a) + 1)
  BY <1>6, RemoveAtWithout
<1>8. Len(x) = Len(l) - 1 /\ Len(y) = Len(l) - 1
  BY <1>1, <1>3, <1>4, <1>5, <1>7 DEF InTurn, Without
<1>9. ASSUME NEW k \in 1..Len(x)
      PROVE  x[k] = y[k]
  <2>1. /\ k \in 1..Len(a) + Len(r) + Len(c)
        /\ k \in 1..Len(a) + Len(b) + Len(c) /\ k + 1 \in 1..Len(a) + Len(b) + Len(c)
    BY <1>1, <1>3, <1>5, <1>8
  <2>2. y[k] = IF k < Len(a) + 1 THEN l[k] ELSE l[k + 1]
    BY <1>1, <1>5, <1>7, <1>8 DEF Without
  <2>3. x[k] = At(k, a, r, c)
    BY <1>1, <1>4, <1>5, <2>1, InTurnAt
  <2>4. l[k] = At(k, a, b, c)
    BY <1>1, <1>2, <2>1, InTurnAt
  <2>5. l[k + 1] = At(k + 1, a, b, c)
    BY <1>1, <1>2, <2>1, InTurnAt
  <2>6. CASE k <= Len(a)
    BY <1>1, <2>1, <2>2, <2>3, <2>4, <2>6 DEF At
  <2>7. CASE k > Len(a) /\ k <= Len(a) + Len(r)
    <3>1. k - Len(a) \in 1..Len(r) /\ (k - Len(a)) + 1 = (k + 1) - Len(a)
      BY <1>1, <1>5, <2>1, <2>7
    <3>2. r[k - Len(a)] = b[(k + 1) - Len(a)]
      BY <1>3, <3>1
    <3> QED BY <1>1, <1>3, <1>5, <2>1, <2>2, <2>3, <2>5, <2>7, <3>2 DEF At
  <2>8. CASE k > Len(a) + Len(r)
    <3>1. k - (Len(a) + Len(r)) = (k + 1) - (Len(a) + Len(b))
      BY <1>1, <1>3, <2>1
    <3> QED BY <1>1, <1>3, <1>5, <2>1, <2>2, <2>3, <2>5, <2>8, <3>1, SMTT(20) DEF At
  <2> QED BY <1>1, <1>5, <2>1, <2>6, <2>7, <2>8
<1>10. x = y
  BY <1>8, <1>9, SeqEqual
<1> QED
  BY <1>0, <1>2, <1>3, <1>4, <1>6, <1>7, <1>10

\* Moving the head of the second queue to the end of the first changes nothing.
LEMMA MoveToFirst ==
  ASSUME NEW T, NEW a \in Seq(T), NEW b \in Seq(T), NEW c \in Seq(T), b # <<>>
  PROVE  Append(a, Head(b)) \o Tail(b) \o c = a \o b \o c
<1>0. Head(b) = b[1]
  OBVIOUS
<1>1. Len(a) \in Nat /\ Len(b) \in Nat /\ Len(c) \in Nat /\ Len(b) >= 1
  BY LenProperties, EmptySeq
<1>2. PICK l \in Seq(T) : l = a \o b \o c /\ InTurn(l, a, b, c)
  BY ConcatInTurn
<1>3. PICK r \in Seq(T) : /\ r = Tail(b)
                           /\ Len(r) = Len(b) - 1 /\ \A k \in 1..Len(r) : r[k] = b[k + 1]
  BY HeadTailProperties
<1>4. Head(b) \in T
  BY HeadTailProperties
<1>5. PICK p \in Seq(T) :
        /\ p = Append(a, Head(b))
        /\ Len(p) = Len(a) + 1
        /\ \A k \in 1..Len(a) : p[k] = a[k]
        /\ p[Len(a) + 1] = b[1]
  <2>1. PICK h \in T : h = Head(b)
    BY <1>4
  <2>2. /\ Append(a, h) \in Seq(T)
        /\ Len(Append(a, h)) = Len(a) + 1
        /\ \A k \in 1..Len(a) : Append(a, h)[k] = a[k]
        /\ Append(a, h)[Len(a) + 1] = h
    BY AppendProperties
  <2> QED BY <1>0, <2>1, <2>2
<1>6. PICK x \in Seq(T) : x = p \o r \o c /\ InTurn(x, p, r, c)
  BY ConcatInTurn
<1>7. Len(r) \in Nat /\ Len(p) \in Nat /\ Len(x) = Len(a) + Len(b) + Len(c) /\ Len(l) = Len(x)
  BY <1>1, <1>2, <1>3, <1>5, <1>6 DEF InTurn
<1>8. ASSUME NEW k \in 1..Len(x)
      PROVE  x[k] = l[k]
  <2>1. /\ k \in 1..Len(p) + Len(r) + Len(c)
        /\ k \in 1..Len(a) + Len(b) + Len(c)
    BY <1>1, <1>3, <1>5, <1>7
  <2>2. x[k] = At(k, p, r, c)
    BY <1>1, <1>6, <1>7, <2>1, InTurnAt
  <2>3. l[k] = At(k, a, b, c)
    BY <1>1, <1>2, <2>1, InTurnAt
  <2>4. CASE k <= Len(a)
    BY <1>1, <1>5, <2>1, <2>2, <2>3, <2>4 DEF At
  <2>5. CASE k = Len(a) + 1
    <3>1. x[k] = b[1]
      BY <1>1, <1>5, <2>2, <2>5 DEF At
    <3>2. k - Len(a) = 1 /\ l[k] = b[k - Len(a)]
      BY <1>1, <2>1, <2>3, <2>5 DEF At
    <3> QED BY <3>1, <3>2
  <2>6. CASE k > Len(a) + 1 /\ k <= Len(a) + Len(b)
    <3>1. k - Len(p) \in 1..Len(r) /\ (k - Len(p)) + 1 = k - Len(a)
      BY <1>1, <1>3, <1>5, <1>7, <2>1, <2>6
    <3>2. r[k - Len(p)] = b[k - Len(a)]
      BY <1>3, <3>1
    <3> QED BY <1>1, <1>3, <1>5, <1>7, <2>1, <2>2, <2>3, <2>6, <3>2 DEF At
  <2>7. CASE k > Len(a) + Len(b)
    <3>1. k - (Len(p) + Len(r)) = k - (Len(a) + Len(b))
      BY <1>1, <1>3, <1>5, <2>1
    <3> QED BY <1>1, <1>3, <1>5, <1>7, <2>1, <2>2, <2>3, <2>7, <3>1 DEF At
  <2> QED BY <1>1, <2>1, <2>4, <2>5, <2>6, <2>7
<1>9. x = l
  BY <1>7, <1>8, SeqEqual
<1> QED
  BY <1>2, <1>3, <1>5, <1>6, <1>9

=============================================================================
