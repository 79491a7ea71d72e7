----------------------------- MODULE ClientProofs -----------------------------
(***************************************************************************)
(* Proofs about the services inside the client: the large-M2 arena         *)
(* (M2Arena) and the drain of completed reads (AsyncDrain).                *)
(***************************************************************************)
EXTENDS M2Arena, AsyncDrain, SequenceTheorems, FiniteSetTheorems, WellFoundedInduction, TLAPS

-----------------------------------------------------------------------------
(* The arena.                                                              *)

USE ArenaAssumption DEF ArenaAssumption

LEMMA Remainder ==
    ASSUME NEW x \in Nat, NEW p \in Nat \ {0}
    PROVE  x % p \in Nat /\ x % p <= x
  OBVIOUS

LEMMA NeedIsNatural == \A asked \in Requests : Need(asked) \in Nat
<1> SUFFICES ASSUME NEW asked \in Requests PROVE Need(asked) \in Nat
  OBVIOUS
<1>1. (asked + Padding) % Modulus \in Nat
  OBVIOUS
<1> DEFINE n == (asked + Padding) % Modulus
           x == (n + PageSize - 1) % Modulus
<1>2. n \in Nat
  BY <1>1
<1> HIDE DEF n
<1>3. n + PageSize - 1 \in Nat
  BY <1>2
<1>4. x \in Nat
  BY <1>3
<1> HIDE DEF x
<1>5. x % PageSize \in Nat /\ x % PageSize <= x
  BY <1>4, Remainder
<1>6. x - (x % PageSize) \in Nat
  BY <1>4, <1>5
<1>7. QED
  BY <1>6 DEF Need, AlignUp, x, n

-----------------------------------------------------------------------------
(* The free list.                                                          *)

Span == [offset : Nat, size : Nat]
Canonical(s) ==
    /\ \A i \in DOMAIN s : s[i].size > 0
    /\ \A i, j \in DOMAIN s : i < j => s[i].offset + s[i].size < s[j].offset
Covers(s, b) == \E i \in DOMAIN s : b \in Bytes(s[i])

LEMMA LeastExists ==
    ASSUME NEW S, S \subseteq Nat, S # {}
    PROVE  \E x \in S : \A y \in S : x <= y
<1> DEFINE R == OpToRel(<, Nat)
<1>1. IsWellFoundedOn(R, Nat)
  BY NatLessThanWellFounded
<1>2. R = {ss \in Nat \X Nat : ss[1] < ss[2]}
  BY DEF OpToRel
<1> HIDE DEF R
<1>3. PICK x \in S : \A y \in S : ~(<<y, x>> \in R)
  BY <1>1, WFMin
<1>4. \A y \in S : ~(y < x)
  BY <1>2, <1>3
<1>5. QED
  BY <1>3, <1>4

(* The place is behind the ranges that begin before the offset.            *)
LEMMA PlaceFound ==
    ASSUME NEW s \in Seq(Span), Canonical(s), NEW offset \in Nat
    PROVE  LET k == PlaceFor(s, offset)
           IN  /\ k \in 1 .. Len(s) + 1
               /\ \A j \in 1 .. k - 1 : s[j].offset < offset
               /\ \A j \in k .. Len(s) : s[j].offset >= offset
<1> DEFINE later == {i \in 1 .. Len(s) + 1 : i <= Len(s) => s[i].offset >= offset}
           Here(k) == /\ \A j \in 1 .. k - 1 : s[j].offset < offset
                      /\ k <= Len(s) => s[k].offset >= offset
<1>1. later \subseteq Nat /\ later # {}
  <2>1. Len(s) + 1 \in later
    OBVIOUS
  <2>2. QED
    BY <2>1
<1>2. PICK k \in later : \A i \in later : k <= i
  BY <1>1, LeastExists
<1>3. k \in 1 .. Len(s) + 1 /\ Here(k)
  <2>1. k \in 1 .. Len(s) + 1 /\ (k <= Len(s) => s[k].offset >= offset)
    BY <1>2
  <2>2. ASSUME NEW j \in 1 .. k - 1 PROVE s[j].offset < offset
    <3>1. j \in 1 .. Len(s) + 1 /\ j \notin later /\ j <= Len(s)
      BY <1>2, <2>1
    <3>2. s[j] \in Span
      BY <3>1
    <3>3. QED
      BY <3>1, <3>2 DEF Span
  <2>3. QED
    BY <2>1, <2>2
<1>4. PlaceFor(s, offset) \in 1 .. Len(s) + 1 /\ Here(PlaceFor(s, offset))
  <2>1. \E x \in 1 .. Len(s) + 1 : Here(x)
    BY <1>3
  <2>2. PlaceFor(s, offset) = CHOOSE x \in 1 .. Len(s) + 1 : Here(x)
    BY DEF PlaceFor
  <2> HIDE DEF Here
  <2>3. QED
    BY <2>1, <2>2
<1>5. ASSUME NEW p \in 1 .. Len(s) + 1, Here(p), NEW j \in p .. Len(s) PROVE s[j].offset >= offset
  <2>1. CASE j = p
    BY <1>5, <2>1
  <2>2. CASE p < j
    <3>1. s[p] \in Span /\ s[j] \in Span /\ s[p].offset + s[p].size < s[j].offset /\ s[p].offset >= offset
      BY <1>5, <2>2 DEF Canonical
    <3>2. QED
      BY <3>1 DEF Span
  <2>3. QED
    BY <2>1, <2>2
<1> HIDE DEF Here
<1>6. \A j \in 1 .. PlaceFor(s, offset) - 1 : s[j].offset < offset
  BY <1>4 DEF Here
<1>7. QED
  BY <1>4, <1>5, <1>6

(* A list whose middle is replaced by one range.                           *)
Splice(s, a, m, b) == SubSeq(s, 1, a) \o <<m>> \o SubSeq(s, b, Len(s))

IsSpliced(t, s, a, m, b) ==
    /\ t \in Seq(Span) /\ Len(t) = a + 1 + (Len(s) + 1 - b)
    /\ \A i \in 1 .. a : t[i] = s[i]
    /\ t[a + 1] = m
    /\ \A i \in a + 2 .. Len(t) : t[i] = s[i - a - 2 + b]

LEMMA Spliced ==
    ASSUME NEW s \in Seq(Span), NEW a \in 0 .. Len(s), NEW b \in 1 .. Len(s) + 1, a < b, NEW m \in Span
    PROVE  IsSpliced(Splice(s, a, m, b), s, a, m, b)
<1> DEFINE front == SubSeq(s, 1, a)
           back == SubSeq(s, b, Len(s))
<1>1. front \in Seq(Span) /\ Len(front) = a /\ \A i \in 1 .. a : front[i] = s[i]
  <2>1. a \in 1 - 1 .. Len(s)
    OBVIOUS
  <2>2. QED
    BY <2>1, SubSeqProperties
<1>2. back \in Seq(Span) /\ Len(back) = Len(s) + 1 - b /\ \A i \in 1 .. Len(s) + 1 - b : back[i] = s[b + i - 1]
  BY SubSeqProperties
<1> HIDE DEF front, back
<1>3. <<m>> \in Seq(Span) /\ Len(<<m>>) = 1 /\ <<m>>[1] = m
  OBVIOUS
<1> DEFINE mid == front \o <<m>>
           t == Splice(s, a, m, b)
<1>4. /\ mid \in Seq(Span) /\ Len(mid) = a + 1
      /\ \A i \in 1 .. a : mid[i] = s[i]
      /\ mid[a + 1] = m
  BY <1>1, <1>3, ConcatProperties
<1>45. t = mid \o back
  BY DEF Splice, front, back
<1> HIDE DEF mid, t
<1>5. /\ t \in Seq(Span) /\ Len(t) = a + 1 + (Len(s) + 1 - b)
      /\ \A i \in 1 .. Len(mid) + Len(back) : t[i] = IF i <= Len(mid) THEN mid[i] ELSE back[i - Len(mid)]
  <2>1. mid \in Seq(Span) /\ back \in Seq(Span)
    BY <1>2, <1>4
  <2>2. /\ t \in Seq(Span) /\ Len(t) = Len(mid) + Len(back)
        /\ \A i \in 1 .. Len(mid) + Len(back) : t[i] = IF i <= Len(mid) THEN mid[i] ELSE back[i - Len(mid)]
    BY <1>45, <2>1, ConcatProperties
  <2>3. QED
    BY <1>2, <1>4, <2>2
<1>6. \A i \in 1 .. a : t[i] = s[i]
  BY <1>2, <1>4, <1>5
<1>7. t[a + 1] = m
  BY <1>2, <1>4, <1>5
<1>8. ASSUME NEW i \in a + 2 .. Len(t) PROVE t[i] = s[i - a - 2 + b]
  <2>1. t[i] = back[i - (a + 1)]
    BY <1>2, <1>4, <1>5, <1>8
  <2>2. i - (a + 1) \in 1 .. Len(s) + 1 - b /\ b + (i - (a + 1)) - 1 = i - a - 2 + b
    BY <1>5, <1>8
  <2>3. QED
    BY <1>2, <2>1, <2>2
<1>9. QED
  BY <1>5, <1>6, <1>7, <1>8 DEF t, IsSpliced

LEMMA SpansOf ==
    ASSUME NEW s \in Seq(Span), Canonical(s)
    PROVE  \A i \in 1 .. Len(s) : s[i] \in Span /\ s[i].offset \in Nat /\ s[i].size \in Nat /\ s[i].size > 0
<1>1. ASSUME NEW i \in 1 .. Len(s) PROVE s[i] \in Span /\ s[i].size > 0
  BY DEF Canonical
<1>2. QED
  BY <1>1 DEF Span

(* With room around it the list stays canonical, and loses the bytes it    *)
(* had between a and b only.                                               *)
LEMMA SplicedCovers ==
    ASSUME NEW s \in Seq(Span), Canonical(s), NEW a \in 0 .. Len(s), NEW b \in 1 .. Len(s) + 1, a < b,
           NEW m \in Span, m.size > 0,
           \A i \in 1 .. a : s[i].offset + s[i].size < m.offset,
           \A i \in b .. Len(s) : m.offset + m.size < s[i].offset
    PROVE  LET t == Splice(s, a, m, b)
           IN  /\ t \in Seq(Span) /\ Canonical(t)
               /\ \A x \in Int : Covers(t, x) <=>
                    \/ x \in Bytes(m)
                    \/ \E i \in 1 .. Len(s) : (i <= a \/ b <= i) /\ x \in Bytes(s[i])
<1> DEFINE t == Splice(s, a, m, b)
<1>1. /\ t \in Seq(Span) /\ Len(t) = a + 1 + (Len(s) + 1 - b)
      /\ \A i \in 1 .. a : t[i] = s[i]
      /\ t[a + 1] = m
      /\ \A i \in a + 2 .. Len(t) : t[i] = s[i - a - 2 + b]
  <2>1. IsSpliced(t, s, a, m, b)
    BY Spliced
  <2> HIDE DEF t
  <2>2. QED
    BY <2>1 DEF IsSpliced
<1> HIDE DEF t
<1>2. \A i \in 1 .. Len(s) : s[i] \in Span /\ s[i].offset \in Nat /\ s[i].size \in Nat /\ s[i].size > 0
  BY SpansOf
<1>3. m.offset \in Nat /\ m.size \in Nat
  BY DEF Span
<1>4. DOMAIN t = 1 .. Len(t) /\ DOMAIN s = 1 .. Len(s) /\ Len(s) \in Nat /\ Len(t) \in Nat
  BY <1>1
<1>5. ASSUME NEW i \in 1 .. Len(t)
      PROVE  \/ i \in 1 .. a /\ t[i] = s[i]
             \/ i = a + 1 /\ t[i] = m
             \/ i \in a + 2 .. Len(t) /\ t[i] = s[i - a - 2 + b] /\ i - a - 2 + b \in b .. Len(s)
  BY <1>1, <1>4
<1>6. \A i \in 1 .. Len(t) : t[i].size > 0
  BY <1>2, <1>5
<1>7. ASSUME NEW i \in 1 .. Len(t), NEW j \in 1 .. Len(t), i < j
      PROVE  t[i].offset + t[i].size < t[j].offset
  <2>0. \A k, l \in 1 .. Len(s) : k < l => s[k].offset + s[k].size < s[l].offset
    BY <1>4 DEF Canonical
  <2>1. CASE i \in 1 .. a /\ t[i] = s[i]
    <3>1. CASE j \in 1 .. a /\ t[j] = s[j]
      BY <1>7, <2>0, <2>1, <3>1
    <3>2. CASE j = a + 1 /\ t[j] = m
      BY <2>1, <3>2
    <3>3. CASE j \in a + 2 .. Len(t) /\ t[j] = s[j - a - 2 + b] /\ j - a - 2 + b \in b .. Len(s)
      BY <2>0, <2>1, <3>3
    <3>4. QED
      BY <1>5, <3>1, <3>2, <3>3
  <2>2. CASE i = a + 1 /\ t[i] = m
    <3>1. j \in a + 2 .. Len(t) /\ t[j] = s[j - a - 2 + b] /\ j - a - 2 + b \in b .. Len(s)
      BY <1>5, <1>7, <2>2
    <3>2. QED
      BY <2>2, <3>1
  <2>3. CASE i \in a + 2 .. Len(t) /\ t[i] = s[i - a - 2 + b] /\ i - a - 2 + b \in b .. Len(s)
    <3>1. j \in a + 2 .. Len(t) /\ t[j] = s[j - a - 2 + b] /\ j - a - 2 + b \in b .. Len(s)
      BY <1>5, <1>7, <2>3
    <3>2. QED
      BY <1>7, <2>0, <2>3, <3>1
  <2>4. QED
    BY <1>5, <2>1, <2>2, <2>3
<1>8. Canonical(t)
  BY <1>4, <1>6, <1>7 DEF Canonical
<1>9. ASSUME NEW x \in Int, Covers(t, x)
      PROVE  \/ x \in Bytes(m)
             \/ \E i \in 1 .. Len(s) : (i <= a \/ b <= i) /\ x \in Bytes(s[i])
  <2>1. PICK i \in 1 .. Len(t) : x \in Bytes(t[i])
    BY <1>4, <1>9 DEF Covers
  <2>2. QED
    BY <1>5, <2>1
<1>10. ASSUME NEW x \in Int,
              \/ x \in Bytes(m)
              \/ \E i \in 1 .. Len(s) : (i <= a \/ b <= i) /\ x \in Bytes(s[i])
       PROVE  Covers(t, x)
  <2>1. CASE x \in Bytes(m)
    <3>1. a + 1 \in 1 .. Len(t)
      BY <1>1
    <3>2. QED
      BY <1>1, <1>4, <2>1, <3>1 DEF Covers
  <2>2. ASSUME NEW i \in 1 .. Len(s), i <= a \/ b <= i, x \in Bytes(s[i]) PROVE Covers(t, x)
    <3>1. CASE i <= a
      <4>1. i \in 1 .. Len(t) /\ t[i] = s[i]
        BY <1>1, <2>2, <3>1
      <4>2. QED
        BY <1>4, <2>2, <4>1 DEF Covers
    <3>2. CASE b <= i
      <4>1. i - b + a + 2 \in a + 2 .. Len(t) /\ (i - b + a + 2) - a - 2 + b = i
        BY <1>1, <2>2, <3>2
      <4>2. t[i - b + a + 2] = s[i] /\ i - b + a + 2 \in 1 .. Len(t)
        BY <1>1, <4>1
      <4>3. QED
        BY <1>4, <2>2, <4>2 DEF Covers
    <3>3. QED
      BY <2>2, <3>1, <3>2
  <2>3. QED
    BY <1>10, <2>1, <2>2
<1>11. QED
  BY <1>1, <1>8, <1>9, <1>10 DEF t

(* Inserting a range that no byte of the list is in.                       *)
LEMMA InsertCovers ==
    ASSUME NEW s \in Seq(Span), Canonical(s), NEW offset \in Nat, NEW size \in Nat,
           \A x \in offset .. offset + size - 1 : ~Covers(s, x)
    PROVE  LET t == InsertRange(s, offset, size)
           IN  /\ t \in Seq(Span) /\ Canonical(t)
               /\ \A x \in Int : Covers(t, x) <=> x \in offset .. offset + size - 1 \/ Covers(s, x)
<1>1. CASE size = 0
  <2>1. InsertRange(s, offset, size) = s
    BY <1>1 DEF InsertRange
  <2>2. \A x \in Int : x \notin offset .. offset + size - 1
    BY <1>1
  <2>3. QED
    BY <2>1, <2>2
<1>2. CASE size # 0
  <2> DEFINE k == PlaceFor(s, offset)
             joinsPrev == k > 1 /\ s[k - 1].offset + s[k - 1].size = offset
             joinsNext == k <= Len(s) /\ offset + size = s[k].offset
             a == IF joinsPrev THEN k - 2 ELSE k - 1
             b == IF joinsNext THEN k + 1 ELSE k
             first == IF joinsPrev THEN s[k - 1].offset ELSE offset
             total == size + (IF joinsPrev THEN s[k - 1].size ELSE 0)
                           + (IF joinsNext THEN s[k].size ELSE 0)
             m == [offset |-> first, size |-> total]
  <2>1. InsertRange(s, offset, size) = Splice(s, a, m, b)
    BY <1>2 DEF InsertRange, Splice
  <2>2. /\ k \in 1 .. Len(s) + 1
        /\ \A j \in 1 .. k - 1 : s[j].offset < offset
        /\ \A j \in k .. Len(s) : s[j].offset >= offset
    BY PlaceFound
  <2> HIDE DEF k
  <2>3. \A i \in 1 .. Len(s) : s[i].offset \in Nat /\ s[i].size \in Nat /\ s[i].size > 0
    BY SpansOf
  <2>4. \A i, j \in 1 .. Len(s) : i < j => s[i].offset + s[i].size < s[j].offset
    BY DEF Canonical
  <2>5. \A i \in 1 .. k - 1 : s[i].offset + s[i].size <= offset
    <3> SUFFICES ASSUME NEW i \in 1 .. k - 1, s[i].offset + s[i].size > offset PROVE FALSE
      BY <2>2, <2>3
    <3>1. i \in 1 .. Len(s) /\ s[i].offset < offset
      BY <2>2
    <3>2. offset \in Bytes(s[i])
      BY <2>3, <3>1 DEF Bytes
    <3>3. offset \in offset .. offset + size - 1 /\ Covers(s, offset)
      BY <1>2, <3>1, <3>2 DEF Covers
    <3>4. QED
      BY <3>3
  <2>6. \A i \in k .. Len(s) : offset + size <= s[i].offset
    <3> SUFFICES ASSUME NEW i \in k .. Len(s), offset + size > s[i].offset PROVE FALSE
      BY <2>2, <2>3
    <3>1. i \in 1 .. Len(s) /\ s[i].offset >= offset
      BY <2>2
    <3>2. s[i].offset \in Bytes(s[i]) /\ s[i].offset \in offset .. offset + size - 1
      BY <2>3, <3>1 DEF Bytes
    <3>3. Covers(s, s[i].offset)
      BY <3>1, <3>2 DEF Covers
    <3>4. QED
      BY <3>2, <3>3
  <2>7. a \in 0 .. Len(s) /\ b \in 1 .. Len(s) + 1 /\ a < b
    BY <2>2
  <2>75. /\ joinsPrev => k - 1 \in 1 .. Len(s) /\ s[k - 1].offset \in Nat /\ s[k - 1].size \in Nat
         /\ joinsNext => k \in 1 .. Len(s) /\ s[k].offset \in Nat /\ s[k].size \in Nat
    BY <2>2, <2>3
  <2>76. /\ m.offset = first /\ m.size = total
         /\ first \in Nat /\ total \in Nat /\ total >= size
         /\ first + total = offset + size + (IF joinsNext THEN s[k].size ELSE 0)
    <3>1. m.offset = first /\ m.size = total
      OBVIOUS
    <3> HIDE DEF m
    <3>2. CASE joinsPrev
      <4>1. CASE joinsNext
        <5>1. /\ first = s[k - 1].offset /\ total = size + s[k - 1].size + s[k].size
              /\ s[k - 1].offset + s[k - 1].size = offset
              /\ (IF joinsNext THEN s[k].size ELSE 0) = s[k].size
          BY <3>2, <4>1
        <5>2. s[k - 1].offset \in Nat /\ s[k - 1].size \in Nat /\ s[k].size \in Nat
          BY <2>75, <3>2, <4>1
        <5> DEFINE o == s[k - 1].offset
                   p == s[k - 1].size
                   q == s[k].size
        <5>25. \A x, y, z, w \in Nat : w + y + z \in Nat /\ w + y + z >= w /\ x + (w + y + z) = (x + y) + w + z
          OBVIOUS
        <5> HIDE DEF first, total, joinsPrev, joinsNext, o, p, q
        <5>26. o \in Nat /\ p \in Nat /\ q \in Nat
          BY <5>2 DEF o, p, q
        <5>27. size + p + q \in Nat /\ size + p + q >= size /\ o + (size + p + q) = (o + p) + size + q
          BY <5>25, <5>26
        <5>28. first = o /\ total = size + p + q /\ o + p = offset
          BY <5>1 DEF o, p, q
        <5>3. first \in Nat /\ total \in Nat /\ total >= size /\ first + total = offset + size + s[k].size
          BY <5>26, <5>27, <5>28 DEF q
        <5>4. QED
          BY <3>1, <5>1, <5>3
      <4>2. CASE ~joinsNext
        <5>1. /\ first = s[k - 1].offset /\ total = size + s[k - 1].size + 0
              /\ s[k - 1].offset + s[k - 1].size = offset
              /\ (IF joinsNext THEN s[k].size ELSE 0) = 0
          BY <3>2, <4>2
        <5>2. s[k - 1].offset \in Nat /\ s[k - 1].size \in Nat
          BY <2>75, <3>2
        <5> DEFINE o == s[k - 1].offset
                   p == s[k - 1].size
        <5>25. \A x, y, w \in Nat : w + y + 0 \in Nat /\ w + y + 0 >= w /\ x + (w + y + 0) = (x + y) + w + 0
          OBVIOUS
        <5> HIDE DEF first, total, joinsPrev, joinsNext, o, p
        <5>26. o \in Nat /\ p \in Nat
          BY <5>2 DEF o, p
        <5>27. size + p + 0 \in Nat /\ size + p + 0 >= size /\ o + (size + p + 0) = (o + p) + size + 0
          BY <5>25, <5>26
        <5>28. first = o /\ total = size + p + 0 /\ o + p = offset
          BY <5>1 DEF o, p
        <5>3. first \in Nat /\ total \in Nat /\ total >= size /\ first + total = offset + size + 0
          BY <5>26, <5>27, <5>28
        <5>4. QED
          BY <3>1, <5>1, <5>3
      <4>3. QED
        BY <4>1, <4>2
    <3>3. CASE ~joinsPrev
      <4>1. CASE joinsNext
        BY <2>75, <3>1, <3>3, <4>1
      <4>2. CASE ~joinsNext
        BY <2>75, <3>1, <3>3, <4>2
      <4>3. QED
        BY <4>1, <4>2
    <3>4. QED
      BY <3>2, <3>3
  <2>8. m \in Span /\ m.size > 0
    BY <1>2, <2>76 DEF Span
  <2>9. \A i \in 1 .. a : s[i].offset + s[i].size < m.offset
    <3> HIDE DEF m
    <3>1. CASE joinsPrev
      <4>1. a = k - 2 /\ m.offset = s[k - 1].offset
        BY <2>76, <3>1
      <4>2. QED
        BY <2>2, <2>4, <2>75, <3>1, <4>1
    <3>2. CASE ~joinsPrev
      <4>1. a = k - 1 /\ m.offset = offset
        BY <2>76, <3>2
      <4>2. ASSUME NEW i \in 1 .. k - 1 PROVE s[i].offset + s[i].size < offset
        <5>1. CASE i = k - 1
          <6>1. k > 1 /\ s[k - 1].offset + s[k - 1].size # offset
            BY <2>2, <3>2, <5>1
          <6>2. s[k - 1].offset + s[k - 1].size <= offset /\ k - 1 \in 1 .. Len(s)
            BY <2>2, <2>5, <6>1
          <6>3. s[k - 1].offset + s[k - 1].size < offset
            <7>1. \A e \in Nat : e <= offset /\ e # offset => e < offset
              OBVIOUS
            <7>2. s[k - 1].offset + s[k - 1].size \in Nat
              BY <2>3, <6>2
            <7>3. QED
              BY <6>1, <6>2, <7>1, <7>2
          <6>4. QED
            BY <5>1, <6>3
        <5>2. CASE i < k - 1
          <6>1. i \in 1 .. Len(s) /\ k - 1 \in 1 .. Len(s) /\ s[i].offset + s[i].size < s[k - 1].offset
            BY <2>2, <2>4, <5>2
          <6>2. QED
            BY <2>2, <2>3, <6>1
        <5>3. QED
          BY <2>2, <5>1, <5>2
      <4>3. QED
        BY <4>1, <4>2
    <3>3. QED
      BY <3>1, <3>2
  <2>10. \A i \in b .. Len(s) : m.offset + m.size < s[i].offset
    <3> HIDE DEF m
    <3>1. CASE joinsNext
      <4>1. b = k + 1 /\ m.offset + m.size = s[k].offset + s[k].size
        BY <2>76, <3>1
      <4>2. QED
        BY <2>2, <2>4, <2>75, <3>1, <4>1
    <3>2. CASE ~joinsNext
      <4>1. b = k /\ m.offset + m.size = offset + size
        BY <2>76, <3>2
      <4>2. ASSUME NEW i \in k .. Len(s) PROVE offset + size < s[i].offset
        <5>1. CASE i = k
          BY <2>2, <2>3, <2>6, <3>2, <5>1
        <5>2. CASE k < i
          <6>1. i \in 1 .. Len(s) /\ k \in 1 .. Len(s) /\ k \in k .. Len(s) /\ s[k].offset + s[k].size < s[i].offset
            BY <2>2, <2>4, <5>2
          <6>2. QED
            BY <2>3, <2>6, <6>1
        <5>3. QED
          BY <2>2, <5>1, <5>2
      <4>3. QED
        BY <4>1, <4>2
    <3>3. QED
      BY <3>1, <3>2
  <2>11. \A x \in Int : x \in Bytes(m) <=>
            \/ x \in offset .. offset + size - 1
            \/ joinsPrev /\ x \in Bytes(s[k - 1])
            \/ joinsNext /\ x \in Bytes(s[k])
    <3> SUFFICES ASSUME NEW x \in Int
                 PROVE  x \in Bytes(m) <=>
                          \/ x \in offset .. offset + size - 1
                          \/ joinsPrev /\ x \in Bytes(s[k - 1])
                          \/ joinsNext /\ x \in Bytes(s[k])
      OBVIOUS
    <3>1. x \in Bytes(m) <=> first <= x /\ x < offset + size + (IF joinsNext THEN s[k].size ELSE 0)
      BY <2>76 DEF Bytes
    <3>2. joinsPrev => (x \in Bytes(s[k - 1]) <=> first <= x /\ x < offset)
      BY <2>75 DEF Bytes
    <3>3. joinsNext => (x \in Bytes(s[k]) <=> offset + size <= x /\ x < offset + size + s[k].size)
      BY <2>75 DEF Bytes
    <3>4. ~joinsPrev => first = offset
      OBVIOUS
    <3>5. joinsPrev => first <= offset
      BY <2>75
    <3> HIDE DEF first
    <3>6. first \in Nat /\ (joinsNext => s[k].size \in Nat)
      BY <2>75, <2>76
    <3> HIDE DEF joinsPrev, joinsNext, m
    <3>7. QED
      BY <3>1, <3>2, <3>3, <3>4, <3>5, <3>6
  <2>12. \A i \in 1 .. Len(s) :
            \/ i <= a \/ b <= i
            \/ joinsPrev /\ i = k - 1
            \/ joinsNext /\ i = k
    BY <2>2
  <2> DEFINE t == Splice(s, a, m, b)
  <2>13. /\ t \in Seq(Span) /\ Canonical(t)
         /\ \A x \in Int : Covers(t, x) <=>
              \/ x \in Bytes(m)
              \/ \E i \in 1 .. Len(s) : (i <= a \/ b <= i) /\ x \in Bytes(s[i])
    <3> HIDE DEF a, b, m
    <3>1. QED
      BY <2>7, <2>8, <2>9, <2>10, SplicedCovers
  <2>14. \A x \in Int : Covers(t, x) <=> x \in offset .. offset + size - 1 \/ Covers(s, x)
    <3> SUFFICES ASSUME NEW x \in Int
                 PROVE  Covers(t, x) <=> x \in offset .. offset + size - 1 \/ Covers(s, x)
      OBVIOUS
    <3>1. k - 1 >= 1 /\ joinsPrev => k - 1 \in 1 .. Len(s)
      BY <2>2
    <3>2. joinsNext => k \in 1 .. Len(s)
      BY <2>2
    <3>3. joinsPrev => k - 1 >= 1
      BY <2>2
    <3>4. DOMAIN s = 1 .. Len(s)
      OBVIOUS
    <3> HIDE DEF a, b, m, t, joinsPrev, joinsNext
    <3>5. ASSUME Covers(t, x) PROVE x \in offset .. offset + size - 1 \/ Covers(s, x)
      BY <2>11, <2>13, <3>1, <3>2, <3>3, <3>4, <3>5 DEF Covers
    <3>6. ASSUME x \in offset .. offset + size - 1 PROVE Covers(t, x)
      BY <2>11, <2>13, <3>6
    <3>7. ASSUME Covers(s, x) PROVE Covers(t, x)
      <4>1. PICK i \in 1 .. Len(s) : x \in Bytes(s[i])
        BY <3>4, <3>7 DEF Covers
      <4>2. QED
        BY <2>11, <2>12, <2>13, <4>1
    <3>8. QED
      BY <3>5, <3>6, <3>7
  <2> HIDE DEF a, b, m
  <2>15. QED
    BY <2>1, <2>13, <2>14
<1>3. QED
  BY <1>1, <1>2

(* Cutting the front off a range.                                          *)
LEMMA CutCovers ==
    ASSUME NEW s \in Seq(Span), Canonical(s), NEW i \in DOMAIN s, NEW need \in Nat, need <= s[i].size
    PROVE  LET t == CutRange(s, i, need)
           IN  /\ t \in Seq(Span) /\ Canonical(t)
               /\ \A x \in Int : Covers(t, x) <=>
                    Covers(s, x) /\ x \notin s[i].offset .. s[i].offset + need - 1
<1> DEFINE t == CutRange(s, i, need)
<1>0. /\ DOMAIN s = 1 .. Len(s) /\ Len(s) \in Nat /\ i \in 1 .. Len(s)
      /\ \A j \in 1 .. Len(s) : s[j] \in Span /\ s[j].offset \in Nat /\ s[j].size \in Nat /\ s[j].size > 0
      /\ \A j, k \in 1 .. Len(s) : j < k => s[j].offset + s[j].size < s[k].offset
  BY SpansOf DEF Canonical
(* No byte of a range is in another.                                       *)
<1>1. ASSUME NEW x \in Int, NEW j \in 1 .. Len(s), NEW k \in 1 .. Len(s), x \in Bytes(s[j]), x \in Bytes(s[k])
      PROVE  j = k
  BY <1>0, <1>1 DEF Bytes
<1>2. CASE s[i].size = need
  <2>1. /\ t \in Seq(Span) /\ Len(t) = Len(s) - 1
        /\ \A j \in 1 .. i - 1 : t[j] = s[j]
        /\ \A j \in i .. Len(t) : t[j] = s[j + 1]
    <3> DEFINE front == SubSeq(s, 1, i - 1)
               back == SubSeq(s, i + 1, Len(s))
    <3>1. front \in Seq(Span) /\ Len(front) = i - 1 /\ \A j \in 1 .. i - 1 : front[j] = s[j]
      BY <1>0, SubSeqProperties
    <3>2. back \in Seq(Span) /\ Len(back) = Len(s) - i /\ \A j \in 1 .. Len(s) - i : back[j] = s[i + j]
      BY <1>0, SubSeqProperties
    <3>3. t = front \o back
      BY <1>2 DEF CutRange, RemoveAt
    <3> HIDE DEF front, back, t
    <3>4. /\ front \o back \in Seq(Span) /\ Len(front \o back) = Len(front) + Len(back)
          /\ \A j \in 1 .. Len(front) + Len(back) :
               (front \o back)[j] = IF j <= Len(front) THEN front[j] ELSE back[j - Len(front)]
      BY <3>1, <3>2, ConcatProperties
    <3>5. t \in Seq(Span) /\ Len(t) = Len(s) - 1
      BY <1>0, <3>1, <3>2, <3>3, <3>4
    <3>6. \A j \in 1 .. i - 1 : t[j] = s[j]
      BY <1>0, <3>1, <3>2, <3>3, <3>4
    <3>7. ASSUME NEW j \in i .. Len(t) PROVE t[j] = s[j + 1]
      <4>1. t[j] = back[j - (i - 1)] /\ j - (i - 1) \in 1 .. Len(s) - i
        BY <1>0, <3>1, <3>2, <3>3, <3>4, <3>5, <3>7
      <4>2. back[j - (i - 1)] = s[i + (j - (i - 1))] /\ i + (j - (i - 1)) = j + 1
        BY <1>0, <3>2, <4>1
      <4>3. QED
        BY <4>1, <4>2
    <3>8. QED
      BY <3>5, <3>6, <3>7
  <2> HIDE DEF t
  <2>2. DOMAIN t = 1 .. Len(t) /\ Len(t) \in Nat
    BY <2>1
  <2>3. \A j \in 1 .. Len(t) :
          \/ j \in 1 .. i - 1 /\ t[j] = s[j] /\ j \in 1 .. Len(s)
          \/ j \in i .. Len(t) /\ t[j] = s[j + 1] /\ j + 1 \in 1 .. Len(s)
    BY <1>0, <2>1, <2>2
  <2>4. Canonical(t)
    <3>1. \A j \in 1 .. Len(t) : t[j].size > 0
      BY <1>0, <2>3
    <3>2. \A j, k \in 1 .. Len(t) : j < k => t[j].offset + t[j].size < t[k].offset
      <4> SUFFICES ASSUME NEW j \in 1 .. Len(t), NEW k \in 1 .. Len(t), j < k
                   PROVE  t[j].offset + t[j].size < t[k].offset
        OBVIOUS
      <4>1. PICK l \in 1 .. Len(s) : t[j] = s[l] /\ ((l = j /\ j < i) \/ (l = j + 1 /\ i <= j))
        BY <2>3
      <4>2. PICK n \in 1 .. Len(s) : t[k] = s[n] /\ ((n = k /\ k < i) \/ (n = k + 1 /\ i <= k))
        BY <2>3
      <4>3. l < n
        BY <1>0, <2>2, <4>1, <4>2
      <4>4. QED
        BY <1>0, <4>1, <4>2, <4>3
    <3>3. QED
      BY <2>2, <3>1, <3>2 DEF Canonical
  <2>5. ASSUME NEW x \in Int, Covers(t, x)
        PROVE  Covers(s, x) /\ x \notin s[i].offset .. s[i].offset + need - 1
    <3>1. PICK j \in 1 .. Len(t) : x \in Bytes(t[j])
      BY <2>2, <2>5 DEF Covers
    <3>2. PICK k \in 1 .. Len(s) : k # i /\ t[j] = s[k]
      BY <1>0, <2>3
    <3>3. x \in Bytes(s[k]) /\ x \notin Bytes(s[i])
      BY <1>0, <1>1, <3>1, <3>2
    <3>4. QED
      BY <1>0, <1>2, <3>3 DEF Covers, Bytes
  <2>6. ASSUME NEW x \in Int, Covers(s, x), x \notin s[i].offset .. s[i].offset + need - 1
        PROVE  Covers(t, x)
    <3>1. PICK k \in 1 .. Len(s) : x \in Bytes(s[k])
      BY <1>0, <2>6 DEF Covers
    <3>2. k # i
      BY <1>0, <1>2, <2>6, <3>1 DEF Bytes
    <3>3. \E j \in 1 .. Len(t) : t[j] = s[k]
      <4>1. CASE k < i
        <5>1. k \in 1 .. i - 1 /\ k \in 1 .. Len(t)
          BY <1>0, <2>1, <4>1
        <5>2. t[k] = s[k]
          BY <2>1, <5>1
        <5>3. QED
          BY <5>1, <5>2
      <4>2. CASE i < k
        <5>1. k - 1 \in i .. Len(t) /\ k - 1 \in 1 .. Len(t) /\ (k - 1) + 1 = k
          BY <1>0, <2>1, <4>2
        <5>2. t[k - 1] = s[k]
          BY <2>1, <5>1
        <5>3. QED
          BY <5>1, <5>2
      <4>3. QED
        BY <3>2, <4>1, <4>2
    <3>4. QED
      BY <2>2, <3>1, <3>3 DEF Covers
  <2>7. QED
    BY <2>1, <2>4, <2>5, <2>6 DEF t
<1>3. CASE s[i].size # need
  <2> DEFINE cut == [offset |-> s[i].offset + need, size |-> s[i].size - need]
  <2>1. /\ cut \in Span /\ cut.offset = s[i].offset + need /\ cut.size = s[i].size - need
        /\ cut.offset \in Nat /\ cut.size \in Nat /\ cut.size > 0
    BY <1>0, <1>3 DEF Span
  <2>2. t = [s EXCEPT ![i] = cut]
    BY <1>3 DEF CutRange
  <2> HIDE DEF cut
  <2>3. /\ t \in Seq(Span) /\ Len(t) = Len(s) /\ DOMAIN t = 1 .. Len(s) /\ t[i] = cut
        /\ \A j \in 1 .. Len(s) : j # i => t[j] = s[j]
    BY <1>0, <2>1, <2>2
  <2> HIDE DEF t
  <2>4. Canonical(t)
    <3>1. \A j \in 1 .. Len(s) : t[j].size > 0
      BY <1>0, <2>1, <2>3
    <3>2. ASSUME NEW j \in 1 .. Len(s), NEW k \in 1 .. Len(s), j < k
          PROVE  t[j].offset + t[j].size < t[k].offset
      <4>1. CASE j = i
        BY <1>0, <2>1, <2>3, <3>2, <4>1
      <4>2. CASE k = i
        BY <1>0, <2>1, <2>3, <3>2, <4>2
      <4>3. CASE j # i /\ k # i
        BY <1>0, <2>3, <3>2, <4>3
      <4>4. QED
        BY <4>1, <4>2, <4>3
    <3>3. QED
      BY <2>3, <3>1, <3>2 DEF Canonical
  <2>5. ASSUME NEW x \in Int
        PROVE  x \in Bytes(cut) <=> x \in Bytes(s[i]) /\ x \notin s[i].offset .. s[i].offset + need - 1
    <3>1. s[i].offset \in Nat /\ s[i].size \in Nat
      BY <1>0
    <3>2. x \in Bytes(cut) <=> s[i].offset + need <= x /\ x <= s[i].offset + s[i].size - 1
      BY <2>1, <3>1 DEF Bytes
    <3>3. x \in Bytes(s[i]) <=> s[i].offset <= x /\ x <= s[i].offset + s[i].size - 1
      BY <3>1 DEF Bytes
    <3>4. QED
      BY <3>1, <3>2, <3>3
  <2>6. ASSUME NEW x \in Int, NEW j \in 1 .. Len(s), j # i, x \in Bytes(s[j])
        PROVE  x \notin s[i].offset .. s[i].offset + need - 1
    BY <1>0, <1>1, <2>6 DEF Bytes
  <2>7. \A x \in Int : Covers(t, x) <=>
                    Covers(s, x) /\ x \notin s[i].offset .. s[i].offset + need - 1
    BY <1>0, <2>3, <2>5, <2>6 DEF Covers
  <2>8. QED
    BY <2>3, <2>4, <2>7 DEF t
<1>4. QED
  BY <1>2, <1>3

-----------------------------------------------------------------------------
(* The invariant.  With the arena reserved, or as it will be when it is,   *)
(* every byte is in exactly one place.                                     *)

Calls == [at : {"idle", "commit", "giveBack"}, offset : Nat, size : Nat]
Extents == [offset : Nat, size : Nat \ {0}]

ArenaTypes ==
    /\ base \in BOOLEAN /\ free \in Seq(Span)
    /\ owned \subseteq Extents /\ op \in [Threads -> Calls]
    /\ \A t \in Threads : op[t].at = "idle" => op[t].size = 0
    /\ ~base => free = << >> /\ owned = {} /\ committed = {} /\ \A t \in Threads : op[t] = Idle

Held(b) == \E r \in owned : b \in Bytes(r)
Moving(b) == \E t \in Threads : b \in Bytes(op[t])

ArenaInv ==
    /\ ArenaTypes /\ Canonical(Ensured)
    /\ \A b \in Int : b \in 0 .. ArenaSize - 1 <=> Covers(Ensured, b) \/ Held(b) \/ Moving(b)
    /\ \A b \in Int : Covers(Ensured, b) => ~Held(b) /\ ~Moving(b)
    /\ \A b \in Int : Held(b) => ~Moving(b)
    /\ \A b \in Int : \A r, q \in owned : b \in Bytes(r) /\ b \in Bytes(q) => r = q
    /\ \A b \in Int : \A t, u \in Threads : b \in Bytes(op[t]) /\ b \in Bytes(op[u]) => t = u
    /\ committed \subseteq Int /\ \A b \in Int : b \in committed <=> Held(b)

LEMMA WholeArena ==
    /\ Whole \in Seq(Span) /\ Canonical(Whole)
    /\ \A b \in Int : Covers(Whole, b) <=> b \in 0 .. ArenaSize - 1
<1>1. Whole \in Seq(Span) /\ Len(Whole) = 1 /\ Whole[1] = [offset |-> 0, size |-> ArenaSize] /\ DOMAIN Whole = {1}
  BY DEF Whole, Span
<1>2. Canonical(Whole)
  BY <1>1 DEF Canonical
<1>3. QED
  BY <1>1, <1>2 DEF Covers, Bytes

LEMMA ArenaInitInv == ArenaInit => ArenaInv
<1> SUFFICES ASSUME ArenaInit PROVE ArenaInv
  OBVIOUS
<1> USE DEF ArenaInit
<1>1. Idle \in Calls /\ Idle.at = "idle" /\ Idle.size = 0 /\ Bytes(Idle) = {}
  BY DEF Idle, Calls, Bytes
<1>2. ArenaTypes
  <2>1. free \in Seq(Span) /\ owned \subseteq Extents /\ op \in [Threads -> Calls] /\ base = FALSE
    BY <1>1
  <2>2. \A t \in Threads : op[t] = Idle
    OBVIOUS
  <2>3. QED
    BY <1>1, <2>1, <2>2 DEF ArenaTypes
<1>3. Ensured = Whole /\ \A b : ~Held(b) /\ ~Moving(b)
  BY <1>1 DEF Ensured, Held, Moving
<1>4. QED
  BY <1>1, <1>2, <1>3, WholeArena DEF ArenaInv

LEMMA ArenaInvHolds == ArenaInv => Partition
<1> SUFFICES ASSUME ArenaInv PROVE Partition
  OBVIOUS
<1>1. ArenaTypes
  BY DEF ArenaInv
<1>2. ASSUME NEW r \in Extents, Bytes(r) \subseteq 0 .. ArenaSize - 1
      PROVE  r.offset \in 0 .. ArenaSize /\ r.size \in 1 .. ArenaSize /\ r \in [offset : 0 .. ArenaSize, size : 1 .. ArenaSize]
  <2>1. r.offset \in Nat /\ r.size \in Nat \ {0}
    BY DEF Extents
  <2>2. r.offset \in Bytes(r) /\ r.offset + r.size - 1 \in Bytes(r)
    BY <2>1 DEF Bytes
  <2>3. r.offset \in 0 .. ArenaSize - 1 /\ r.offset + r.size - 1 \in 0 .. ArenaSize - 1
    BY <1>2, <2>2
  <2>4. r.offset \in 0 .. ArenaSize /\ r.size \in 1 .. ArenaSize
    BY <2>1, <2>3
  <2>5. QED
    BY <2>4 DEF Extents
<1>3. \A r \in owned : \A b \in Bytes(r) : b \in Int
  BY DEF Bytes
<1>4. \A r \in owned : Bytes(r) \subseteq 0 .. ArenaSize - 1
  BY <1>3 DEF ArenaInv, Held
<1>5. \A r \in owned : r \in [offset : 0 .. ArenaSize, size : 1 .. ArenaSize]
  BY <1>1, <1>2, <1>4 DEF ArenaTypes
<1>6. committed \subseteq 0 .. ArenaSize - 1
  BY DEF ArenaInv
<1>7. free \in Seq(FreeRange)
  <2>1. CASE base
    <3>1. free = Ensured /\ Canonical(free) /\ DOMAIN free = 1 .. Len(free) /\ free \in Seq(Span)
      BY <1>1, <2>1 DEF Ensured, ArenaInv, ArenaTypes
    <3>2. ASSUME NEW i \in 1 .. Len(free) PROVE free[i] \in FreeRange
      <4>1. free[i] \in Span /\ free[i].size > 0
        BY <3>1, SpansOf
      <4>2. free[i] \in Extents
        BY <4>1 DEF Extents, Span
      <4>3. Bytes(free[i]) \subseteq 0 .. ArenaSize - 1
        BY <3>1 DEF ArenaInv, Covers, Bytes
      <4>4. QED
        BY <1>2, <4>1, <4>2, <4>3 DEF FreeRange, Span
    <3>3. Len(free) \in Nat /\ free = [i \in 1 .. Len(free) |-> free[i]]
      BY <3>1
    <3>4. free \in [1 .. Len(free) -> FreeRange]
      BY <3>2, <3>3
    <3>5. QED
      BY <3>3, <3>4, SeqDef
  <2>2. CASE ~base
    BY <1>1, <2>2 DEF ArenaTypes
  <2>3. QED
    BY <2>1, <2>2
<1>8. ArenaTypeOK
  BY <1>1, <1>5, <1>6, <1>7 DEF ArenaTypeOK, ArenaTypes, Calls
<1>9. ASSUME base
      PROVE  /\ FreeListCanonical
             /\ \A b \in Int : b \in FreeBytes <=> Covers(Ensured, b)
             /\ FreeBytes \subseteq Int
  BY <1>9 DEF Ensured, ArenaInv, Canonical, FreeListCanonical, FreeBytes, Covers, Bytes
<1>10. /\ \A t \in Threads \ InFlight : Bytes(op[t]) = {}
       /\ \A t \in Threads : Bytes(op[t]) \subseteq Int
  <2>1. ASSUME NEW t \in Threads \ InFlight PROVE Bytes(op[t]) = {}
    <3>1. op[t].at = "idle" /\ op[t].size = 0 /\ op[t].offset \in Nat
      BY <1>1 DEF InFlight, ArenaTypes, Calls
    <3>2. QED
      BY <3>1 DEF Bytes
  <2>2. QED
    BY <2>1 DEF Bytes
<1>11. ASSUME base PROVE 0 .. ArenaSize - 1 = FreeBytes \cup (UNION {Bytes(r) : r \in owned})
                                   \cup (UNION {Bytes(op[t]) : t \in InFlight})
  BY <1>3, <1>9, <1>10, <1>11 DEF ArenaInv, Held, Moving, InFlight
<1>12. committed = UNION {Bytes(r) : r \in owned}
  <2>1. \A b : b \in UNION {Bytes(r) : r \in owned} <=> \E r \in owned : b \in Bytes(r)
    OBVIOUS
  <2>2. \A b : (\E r \in owned : b \in Bytes(r)) => b \in Int
    BY <1>3
  <2>3. \A b : b \in committed <=> b \in Int /\ Held(b)
    BY DEF ArenaInv
  <2> HIDE DEF Bytes
  <2>4. QED
    BY <2>1, <2>2, <2>3 DEF Held
<1>13. ASSUME base
       PROVE /\ \A r \in owned : Bytes(r) \cap FreeBytes = {}
             /\ \A r, q \in owned : r # q => Bytes(r) \cap Bytes(q) = {}
  BY <1>3, <1>9, <1>13 DEF ArenaInv, Held
<1>14. ASSUME base, NEW t \in InFlight
       PROVE  /\ Bytes(op[t]) \cap FreeBytes = {}
              /\ \A r \in owned : Bytes(op[t]) \cap Bytes(r) = {}
              /\ \A u \in InFlight : t # u => Bytes(op[t]) \cap Bytes(op[u]) = {}
  BY <1>9, <1>10, <1>14 DEF ArenaInv, Held, Moving, InFlight
<1>15. QED
  BY <1>8, <1>9, <1>11, <1>12, <1>13, <1>14 DEF Partition

-----------------------------------------------------------------------------
(* One lemma per action.  Each moves the bytes of one range, from one of   *)
(* the three places a byte can be in to another.                           *)

(* What a call that changes thread t's record to c changes of Moving.      *)
LEMMA OneCallMoves ==
    ASSUME ArenaTypes, NEW t \in Threads, NEW c \in Calls, op' = [op EXCEPT ![t] = c]
    PROVE  /\ op' \in [Threads -> Calls] /\ op'[t] = c
           /\ \A u \in Threads : u # t => op'[u] = op[u]
           /\ \A b : Moving(b)' <=>
                b \in Bytes(c) \/ \E u \in Threads : u # t /\ b \in Bytes(op[u])
<1>1. op \in [Threads -> Calls]
  BY DEF ArenaTypes
<1>2. op' \in [Threads -> Calls] /\ op'[t] = c /\ \A u \in Threads : u # t => op'[u] = op[u]
  BY <1>1
<1>3. \A b : Moving(b)' <=> \E u \in Threads : b \in Bytes(op'[u])
  BY DEF Moving, Bytes
<1>4. QED
  BY <1>2, <1>3

LEMMA IdleHoldsNothing ==
    ASSUME ArenaTypes, NEW t \in Threads, op[t].at = "idle"
    PROVE  Bytes(op[t]) = {}
<1>1. op[t].size = 0 /\ op[t].offset \in Nat
  BY DEF ArenaTypes, Calls
<1>2. QED
  BY <1>1 DEF Bytes

LEMMA EnsuredIsList ==
    ASSUME ArenaInv
    PROVE  Ensured \in Seq(Span) /\ Canonical(Ensured)
  BY WholeArena DEF ArenaInv, ArenaTypes, Ensured

(* Reserving changes nothing: the bytes were as good as free.              *)
LEMMA ReserveSame ==
    ASSUME ArenaInv, base' = TRUE, free' = Ensured, UNCHANGED <<committed, owned, op>>
    PROVE  ArenaInv'
<1>1. Ensured' = Ensured
  BY DEF Ensured
<1>2. ArenaTypes'
  BY EnsuredIsList DEF ArenaInv, ArenaTypes
<1>3. \A b : (Held(b)' <=> Held(b)) /\ (Moving(b)' <=> Moving(b)) /\ (Covers(Ensured, b)' <=> Covers(Ensured, b))
  BY <1>1 DEF Held, Moving
<1>4. QED
  BY <1>1, <1>2, <1>3 DEF ArenaInv

(* Alloc's reservation: from the list to the call.                         *)
LEMMA AllocReserveStep ==
    ASSUME ArenaInv, NEW t \in Threads, NEW asked \in Requests, AllocReserve(t, asked)
    PROVE  ArenaInv'
<1>1. PICK i \in DOMAIN Ensured :
        /\ FirstFit(Ensured, Need(asked), i)
        /\ free' = CutRange(Ensured, i, Need(asked))
        /\ op' = [op EXCEPT ![t] = [at |-> "commit", offset |-> Ensured[i].offset, size |-> Need(asked)]]
  BY DEF AllocReserve
<1> DEFINE c == [at |-> "commit", offset |-> Ensured[i].offset, size |-> Need(asked)]
           need == Need(asked)
           S == Ensured[i].offset .. Ensured[i].offset + need - 1
<1>2. /\ op[t].at = "idle" /\ base' = TRUE /\ committed' = committed /\ owned' = owned
  BY DEF AllocReserve
<1>3. /\ Ensured \in Seq(Span) /\ Canonical(Ensured) /\ i \in 1 .. Len(Ensured)
      /\ Ensured[i].offset \in Nat /\ Ensured[i].size \in Nat
      /\ need \in Nat /\ need <= Ensured[i].size
  <2>1. Ensured \in Seq(Span) /\ Canonical(Ensured) /\ i \in 1 .. Len(Ensured)
    BY EnsuredIsList
  <2>2. need \in Nat
    BY NeedIsNatural
  <2>3. Ensured[i].offset \in Nat /\ Ensured[i].size \in Nat
    BY <2>1, SpansOf
  <2>4. QED
    BY <1>1, <2>1, <2>2, <2>3 DEF FirstFit
<1>4. ArenaTypes
  BY DEF ArenaInv
<1> HIDE DEF need
<1>5. /\ free' \in Seq(Span) /\ Canonical(free')
      /\ \A b \in Int : Covers(free', b) <=> Covers(Ensured, b) /\ b \notin S
  <2>1. free' = CutRange(Ensured, i, need)
    BY <1>1 DEF need
  <2>2. QED
    BY <1>3, <2>1, CutCovers
<1>6. Ensured' = free'
  BY <1>2 DEF Ensured
<1>7. c \in Calls /\ Bytes(c) = S /\ c.at = "commit" /\ op' = [op EXCEPT ![t] = c]
  BY <1>1, <1>3 DEF Calls, Bytes, need
<1> HIDE DEF c
<1>8. S \subseteq Int /\ \A b \in S : Covers(Ensured, b)
  BY <1>3 DEF Covers, Bytes
<1> HIDE DEF S
<1>9. /\ op' \in [Threads -> Calls] /\ op'[t] = c
      /\ \A u \in Threads : u # t => op'[u] = op[u]
      /\ \A b : Moving(b)' <=> b \in S \/ \E u \in Threads : u # t /\ b \in Bytes(op[u])
  BY <1>4, <1>7, OneCallMoves
<1>10. \A b : Moving(b)' <=> Moving(b) \/ b \in S
  BY <1>2, <1>4, <1>9, IdleHoldsNothing DEF Moving
<1>11. \A b : Held(b)' <=> Held(b)
  BY <1>2 DEF Held
<1>12. ArenaTypes'
  BY <1>2, <1>4, <1>5, <1>7, <1>9 DEF ArenaTypes
<1>13. \A b \in Int : \A u, v \in Threads : b \in Bytes(op'[u]) /\ b \in Bytes(op'[v]) => u = v
  <2> SUFFICES ASSUME NEW b \in Int, NEW u \in Threads, NEW v \in Threads,
                      b \in Bytes(op'[u]), b \in Bytes(op'[v])
               PROVE  u = v
    OBVIOUS
  <2>1. CASE b \in S
    <3>1. ~Moving(b)
      BY <1>8, <2>1 DEF ArenaInv
    <3>2. QED
      BY <1>9, <3>1 DEF Moving
  <2>2. CASE b \notin S
    BY <1>7, <1>9, <2>2 DEF ArenaInv
  <2>3. QED
    BY <2>1, <2>2
<1>14. \A b \in Int : b \in 0 .. ArenaSize - 1 <=> Covers(free', b) \/ Held(b)' \/ Moving(b)'
  BY <1>5, <1>8, <1>10, <1>11 DEF ArenaInv
<1>15. \A b \in Int : Covers(free', b) => ~Held(b)' /\ ~Moving(b)'
  BY <1>5, <1>10, <1>11 DEF ArenaInv
<1>16. \A b \in Int : Held(b)' => ~Moving(b)'
  BY <1>8, <1>10, <1>11 DEF ArenaInv
<1>17. QED
  BY <1>2, <1>5, <1>6, <1>11, <1>12, <1>13, <1>14, <1>15, <1>16 DEF ArenaInv

(* A call that fails leaves the arena as it was, reserved or not.          *)
LEMMA AllocExhaustedStep ==
    ASSUME ArenaInv, NEW t \in Threads, NEW asked \in Requests, AllocExhausted(t, asked)
    PROVE  ArenaInv'
<1>1. UNCHANGED <<committed, owned, op>>
  BY DEF AllocExhausted
<1>2. CASE base' = TRUE /\ free' = Ensured
  BY <1>1, <1>2, ReserveSame
<1>3. CASE UNCHANGED <<base, free>>
  <2>1. ArenaTypes' /\ Ensured' = Ensured
    BY <1>1, <1>3 DEF ArenaInv, ArenaTypes, Ensured
  <2>2. \A b : (Held(b)' <=> Held(b)) /\ (Moving(b)' <=> Moving(b))
    BY <1>1 DEF Held, Moving
  <2>3. QED
    BY <1>1, <2>1, <2>2 DEF ArenaInv
<1>4. QED
  BY <1>2, <1>3 DEF AllocExhausted

LEMMA SameArena ==
    ASSUME ArenaInv, UNCHANGED arenaVars
    PROVE  ArenaInv'
<1>1. UNCHANGED <<base, free, committed, owned, op>>
  BY DEF arenaVars
<1>2. ArenaTypes' /\ Ensured' = Ensured
  BY <1>1 DEF ArenaInv, ArenaTypes, Ensured
<1>3. \A b : (Held(b)' <=> Held(b)) /\ (Moving(b)' <=> Moving(b))
  BY <1>1 DEF Held, Moving
<1>4. QED
  BY <1>1, <1>2, <1>3 DEF ArenaInv

(* A range in flight is there because the arena is reserved.               *)
LEMMA BusyIsReserved ==
    ASSUME ArenaTypes, NEW t \in Threads, op[t].at # "idle"
    PROVE  base = TRUE
  BY DEF ArenaTypes, Idle

(* The commit: from the call to its caller, or on to the list.             *)
LEMMA AllocCommitStep ==
    ASSUME ArenaInv, NEW t \in Threads, AllocCommit(t)
    PROVE  ArenaInv'
<1>1. ArenaTypes /\ op[t] \in Calls /\ op[t].offset \in Nat /\ op[t].size \in Nat /\ op[t].at = "commit"
  BY DEF ArenaInv, ArenaTypes, Calls, AllocCommit
<1>2. base = TRUE /\ base' = base /\ free' = free /\ Ensured' = Ensured
  BY <1>1, BusyIsReserved DEF AllocCommit, Ensured
<1> DEFINE S == Bytes(op[t])
           r == [offset |-> op[t].offset, size |-> op[t].size]
<1>3. S \subseteq Int /\ \A b \in S : Moving(b)
  BY <1>1 DEF Moving, Bytes
<1>4. CASE /\ Committable(op[t])
           /\ committed' = committed \cup Bytes(op[t])
           /\ owned' = owned \cup {[offset |-> op[t].offset, size |-> op[t].size]}
           /\ op' = [op EXCEPT ![t] = Idle]
  <2>1. r \in Extents /\ Bytes(r) = S /\ owned' = owned \cup {r} /\ committed' = committed \cup S
    BY <1>1, <1>4 DEF Extents, Bytes, Committable
  <2>2. Idle \in Calls /\ Bytes(Idle) = {} /\ Idle.size = 0
    BY DEF Idle, Calls, Bytes
  <2>3. /\ op' \in [Threads -> Calls] /\ op'[t] = Idle
        /\ \A u \in Threads : u # t => op'[u] = op[u]
        /\ \A b : Moving(b)' <=> \E u \in Threads : u # t /\ b \in Bytes(op[u])
    BY <1>1, <1>4, <2>2, OneCallMoves
  <2> HIDE DEF S, r
  <2>4. \A b : Held(b)' <=> Held(b) \/ b \in S
    <3>1. \A b : Held(b)' <=> \E q \in owned' : b \in Bytes(q)
      BY DEF Held, Bytes
    <3>2. QED
      BY <2>1, <3>1 DEF Held
  <2>5. \A b \in Int : Moving(b)' <=> Moving(b) /\ b \notin S
    BY <2>3 DEF ArenaInv, Moving, S
  <2>6. ArenaTypes'
    BY <1>1, <1>2, <2>1, <2>2, <2>3 DEF ArenaTypes
  <2>7. \A b \in Int : \A q, p \in owned' : b \in Bytes(q) /\ b \in Bytes(p) => q = p
    <3> SUFFICES ASSUME NEW b \in Int, NEW q \in owned', NEW p \in owned', b \in Bytes(q), b \in Bytes(p)
                 PROVE  q = p
      OBVIOUS
    <3>1. CASE b \in S
      <4>1. ~Held(b)
        BY <1>3, <3>1 DEF ArenaInv
      <4>2. QED
        BY <2>1, <4>1 DEF Held
    <3>2. CASE b \notin S
      BY <2>1, <3>2 DEF ArenaInv
    <3>3. QED
      BY <3>1, <3>2
  <2>8. \A b \in Int : \A u, v \in Threads : b \in Bytes(op'[u]) /\ b \in Bytes(op'[v]) => u = v
    BY <2>2, <2>3 DEF ArenaInv
  <2>9. \A b \in Int : b \in 0 .. ArenaSize - 1 <=> Covers(Ensured', b) \/ Held(b)' \/ Moving(b)'
    BY <1>2, <1>3, <2>4, <2>5 DEF ArenaInv
  <2>10. \A b \in Int : Covers(Ensured', b) => ~Held(b)' /\ ~Moving(b)'
    BY <1>2, <1>3, <2>4, <2>5 DEF ArenaInv
  <2>11. \A b \in Int : Held(b)' => ~Moving(b)'
    BY <2>4, <2>5 DEF ArenaInv
  <2>12. committed' \subseteq Int /\ \A b \in Int : b \in committed' <=> Held(b)'
    BY <1>3, <2>1, <2>4 DEF ArenaInv
  <2>13. QED
    BY <1>2, <2>6, <2>7, <2>8, <2>9, <2>10, <2>11, <2>12 DEF ArenaInv
<1>5. CASE op' = [op EXCEPT ![t].at = "giveBack"] /\ UNCHANGED <<committed, owned>>
  <2> DEFINE c == [at |-> "giveBack", offset |-> op[t].offset, size |-> op[t].size]
  <2>1. c \in Calls /\ Bytes(c) = S /\ c.at = "giveBack"
    BY <1>1 DEF Calls, Bytes
  <2>2. op' = [op EXCEPT ![t] = c]
    <3>1. [op[t] EXCEPT !.at = "giveBack"] = c
      BY <1>1 DEF Calls
    <3>2. QED
      BY <1>5, <3>1
  <2> HIDE DEF c
  <2>3. /\ op' \in [Threads -> Calls] /\ op'[t] = c
        /\ \A u \in Threads : u # t => op'[u] = op[u]
        /\ \A b : Moving(b)' <=> b \in S \/ \E u \in Threads : u # t /\ b \in Bytes(op[u])
    BY <1>1, <2>1, <2>2, OneCallMoves
  <2> HIDE DEF r
  <2>4. \A u \in Threads : Bytes(op'[u]) = Bytes(op[u])
    BY <2>1, <2>3
  <2>5. \A b : (Moving(b)' <=> Moving(b)) /\ (Held(b)' <=> Held(b))
    BY <1>5, <2>3 DEF Moving, Held
  <2>6. ArenaTypes'
    BY <1>1, <1>2, <1>5, <2>1, <2>3 DEF ArenaTypes
  <2>7. QED
    BY <1>2, <1>5, <2>4, <2>5, <2>6 DEF ArenaInv
<1>6. QED
  BY <1>4, <1>5 DEF AllocCommit

(* The end of a Free: from the call to the list.                           *)
LEMMA ListInsertStep ==
    ASSUME ArenaInv, NEW t \in Threads, ListInsert(t)
    PROVE  ArenaInv'
<1>1. ArenaTypes /\ op[t] \in Calls /\ op[t].offset \in Nat /\ op[t].size \in Nat /\ op[t].at = "giveBack"
  BY DEF ArenaInv, ArenaTypes, Calls, ListInsert
<1>2. base = TRUE /\ base' = base /\ Ensured = free /\ Ensured' = free' /\ committed' = committed /\ owned' = owned
  BY <1>1, BusyIsReserved DEF ListInsert, Ensured
<1> DEFINE S == op[t].offset .. op[t].offset + op[t].size - 1
<1>3. S = Bytes(op[t]) /\ S \subseteq Int /\ \A b \in S : Moving(b)
  BY <1>1 DEF Moving, Bytes
<1>4. free \in Seq(Span) /\ Canonical(free) /\ \A b \in S : ~Covers(free, b)
  BY <1>2, <1>3, EnsuredIsList DEF ArenaInv
<1>5. /\ free' \in Seq(Span) /\ Canonical(free')
      /\ \A b \in Int : Covers(free', b) <=> b \in S \/ Covers(free, b)
  <2>1. free' = InsertRange(free, op[t].offset, op[t].size)
    BY DEF ListInsert
  <2>2. QED
    BY <1>1, <1>4, <2>1, InsertCovers
<1> HIDE DEF S
<1>6. Idle \in Calls /\ Bytes(Idle) = {} /\ Idle.size = 0
  BY DEF Idle, Calls, Bytes
<1>7. /\ op' \in [Threads -> Calls] /\ op'[t] = Idle
      /\ \A u \in Threads : u # t => op'[u] = op[u]
      /\ \A b : Moving(b)' <=> \E u \in Threads : u # t /\ b \in Bytes(op[u])
  BY <1>1, <1>6, OneCallMoves DEF ListInsert
<1>8. \A b \in Int : Moving(b)' <=> Moving(b) /\ b \notin S
  BY <1>3, <1>7 DEF ArenaInv, Moving
<1>9. \A b : Held(b)' <=> Held(b)
  BY <1>2 DEF Held
<1>10. ArenaTypes'
  BY <1>1, <1>2, <1>5, <1>6, <1>7 DEF ArenaTypes
<1>11. \A b \in Int : \A u, v \in Threads : b \in Bytes(op'[u]) /\ b \in Bytes(op'[v]) => u = v
  BY <1>6, <1>7 DEF ArenaInv
<1>12. \A b \in Int : b \in 0 .. ArenaSize - 1 <=> Covers(free', b) \/ Held(b)' \/ Moving(b)'
  BY <1>2, <1>3, <1>5, <1>8, <1>9 DEF ArenaInv
<1>13. \A b \in Int : Covers(free', b) => ~Held(b)' /\ ~Moving(b)'
  BY <1>2, <1>3, <1>5, <1>8, <1>9 DEF ArenaInv
<1>14. \A b \in Int : Held(b)' => ~Moving(b)'
  BY <1>8, <1>9 DEF ArenaInv
<1>15. QED
  BY <1>2, <1>5, <1>9, <1>10, <1>11, <1>12, <1>13, <1>14 DEF ArenaInv

(* The start of a Free: from its owner to the call, its pages gone.        *)
LEMMA FreeDecommitStep ==
    ASSUME ArenaInv, NEW t \in Threads, NEW r \in owned, FreeDecommit(t, r)
    PROVE  ArenaInv'
<1>1. ArenaTypes /\ r \in Extents /\ r.offset \in Nat /\ r.size \in Nat /\ op[t].at = "idle"
  BY DEF ArenaInv, ArenaTypes, Extents, FreeDecommit
<1>2. base = TRUE /\ base' = base /\ free' = free /\ Ensured' = Ensured
  BY <1>1 DEF ArenaTypes, FreeDecommit, Ensured
<1> DEFINE c == [at |-> "giveBack", offset |-> r.offset, size |-> r.size]
           S == Bytes(r)
<1>3. c \in Calls /\ Bytes(c) = S /\ c.at = "giveBack" /\ op' = [op EXCEPT ![t] = c]
  BY <1>1 DEF Calls, Bytes, FreeDecommit
<1>4. S \subseteq Int /\ \A b \in S : Held(b)
  BY <1>1 DEF Held, Bytes
<1>5. owned' = owned \ {r} /\ committed' = committed \ S
  BY DEF FreeDecommit
<1> HIDE DEF c, S
<1>6. /\ op' \in [Threads -> Calls] /\ op'[t] = c
      /\ \A u \in Threads : u # t => op'[u] = op[u]
      /\ \A b : Moving(b)' <=> b \in S \/ \E u \in Threads : u # t /\ b \in Bytes(op[u])
  BY <1>1, <1>3, OneCallMoves
<1>7. \A b : Moving(b)' <=> Moving(b) \/ b \in S
  BY <1>1, <1>6, IdleHoldsNothing DEF Moving
<1>8. \A b \in Int : Held(b)' <=> Held(b) /\ b \notin S
  <2>1. \A b : Held(b)' <=> \E q \in owned' : b \in Bytes(q)
    BY DEF Held, Bytes
  <2>2. \A b \in Int : \A q \in owned : b \in Bytes(q) /\ b \in S => q = r
    BY DEF ArenaInv, S
  <2>3. QED
    BY <1>5, <2>1, <2>2 DEF Held, S
<1>9. ArenaTypes'
  BY <1>1, <1>2, <1>3, <1>5, <1>6 DEF ArenaTypes
<1>10. \A b \in Int : \A u, v \in Threads : b \in Bytes(op'[u]) /\ b \in Bytes(op'[v]) => u = v
  <2> SUFFICES ASSUME NEW b \in Int, NEW u \in Threads, NEW v \in Threads,
                      b \in Bytes(op'[u]), b \in Bytes(op'[v])
               PROVE  u = v
    OBVIOUS
  <2>1. CASE b \in S
    <3>1. ~Moving(b)
      BY <1>4, <2>1 DEF ArenaInv
    <3>2. QED
      BY <1>6, <3>1 DEF Moving
  <2>2. CASE b \notin S
    BY <1>3, <1>6, <2>2 DEF ArenaInv
  <2>3. QED
    BY <2>1, <2>2
<1>11. \A b \in Int : b \in 0 .. ArenaSize - 1 <=> Covers(Ensured', b) \/ Held(b)' \/ Moving(b)'
  BY <1>2, <1>4, <1>7, <1>8 DEF ArenaInv
<1>12. \A b \in Int : Covers(Ensured', b) => ~Held(b)' /\ ~Moving(b)'
  BY <1>2, <1>4, <1>7, <1>8 DEF ArenaInv
<1>13. \A b \in Int : Held(b)' => ~Moving(b)'
  BY <1>7, <1>8 DEF ArenaInv
<1>14. committed' \subseteq Int /\ \A b \in Int : b \in committed' <=> Held(b)'
  BY <1>5, <1>8 DEF ArenaInv
<1>15. \A b \in Int : \A q, p \in owned' : b \in Bytes(q) /\ b \in Bytes(p) => q = p
  BY <1>5 DEF ArenaInv
<1>16. QED
  BY <1>2, <1>9, <1>10, <1>11, <1>12, <1>13, <1>14, <1>15 DEF ArenaInv

(* Every byte of the arena is always in exactly one place, whichever       *)
(* threads allocate and free what, and in whatever order their steps run:  *)
(* no two callers share a byte, no failed commit or racing Free loses one, *)
(* and the free list stays sorted and coalesced.                           *)
THEOREM PartitionAlways == ArenaSpec => []Partition
<1>1. ASSUME ArenaInv, ArenaNext PROVE ArenaInv'
  <2>1. CASE ReserveM2Arena
    BY <1>1, <2>1, ReserveSame DEF ReserveM2Arena
  <2>2. ASSUME NEW t \in Threads, Step(t) PROVE ArenaInv'
    <3>1. ASSUME NEW asked \in Requests, AllocReserve(t, asked) PROVE ArenaInv'
      BY <1>1, <3>1, AllocReserveStep
    <3>2. ASSUME NEW asked \in Requests, AllocExhausted(t, asked) PROVE ArenaInv'
      BY <1>1, <3>2, AllocExhaustedStep
    <3>3. CASE AllocCommit(t)
      BY <1>1, <3>3, AllocCommitStep
    <3>4. ASSUME NEW r \in owned, FreeDecommit(t, r) PROVE ArenaInv'
      BY <1>1, <3>4, FreeDecommitStep
    <3>5. CASE ListInsert(t)
      BY <1>1, <3>5, ListInsertStep
    <3>6. QED
      BY <2>2, <3>1, <3>2, <3>3, <3>4, <3>5 DEF Step
  <2>3. QED
    BY <1>1, <2>1, <2>2 DEF ArenaNext
<1>2. ArenaInv /\ [ArenaNext]_arenaVars => ArenaInv'
  BY <1>1, SameArena
<1>3. QED
  BY <1>2, ArenaInitInv, ArenaInvHolds, PTL DEF ArenaSpec

HIDE ArenaAssumption DEF ArenaAssumption

-----------------------------------------------------------------------------
(* The drain.                                                              *)

USE DrainAssumption DEF DrainAssumption

Textures == Reads \cup {Direct, None}
Frames == [kind : {"drain", "complete", "built", "upload", "copied", "wait"}, of : Textures,
           snap : [taken : BOOLEAN, of : Textures]]

OfBuild(c) == c.kind \in {"complete", "built"}
OfUpload(c) == c.kind \in {"upload", "copied"}
Taken(c) == OfBuild(c) /\ c.snap.taken = TRUE
Kept(tab, of) == tab = of \/ (of = Direct /\ tab = None)

(* What a call can be made from, and what the thread's first call can be.  *)
Sits(c, d) ==
    \/ OfUpload(c) /\ d.kind = "built" /\ c.of = d.of
    \/ c.kind = "wait" /\ d.kind = "upload"
    \/ c.kind = "drain" /\ d.kind = "wait"
    \/ OfBuild(c) /\ d.kind = "drain" /\ ~Taken(c)
    \/ Taken(c) /\ d.kind = "wait"
Bottom(c) ==
    \/ OfUpload(c) /\ c.of = Direct
    \/ c.kind = "drain"
    \/ Taken(c) /\ c.snap.of = None

(* A pump inside a wait is the outermost one only if the upload that waits *)
(* is the client's own; otherwise it keeps that upload's table safe.       *)
Two(c, e) ==
    /\ c.kind = "drain" => e.of = Direct
    /\ Taken(c) => Kept(c.snap.of, e.of)

Well(c) ==
    /\ OfBuild(c) => c.of \in Reads
    /\ OfUpload(c) => c.of \in Reads \cup {Direct}
    /\ c.kind = "wait" => c.of \in Reads

Waits(s) == \E i \in 1 .. Len(s) : s[i].kind = "wait"
Drains(s) == \E i \in 1 .. Len(s) : s[i].kind = "drain"
Builds(s, r) == \E i \in 1 .. Len(s) : OfBuild(s[i]) /\ s[i].of = r
Snaps(s) == \E i \in 1 .. Len(s) : Taken(s[i])
Alike(c, d) ==
    \/ c.kind = "wait" /\ d.kind = "wait"
    \/ c.kind = "drain" /\ d.kind = "drain"
    \/ OfBuild(c) /\ OfBuild(d) /\ c.of = d.of

Nested(s) ==
    /\ s \in Seq(Frames) /\ \A i \in 1 .. Len(s) : Well(s[i])
    /\ s # << >> => Bottom(s[Len(s)])
    /\ \A i \in 1 .. Len(s) - 1 : Sits(s[i], s[i + 1])
    /\ \A i \in 1 .. Len(s) - 2 : Two(s[i], s[i + 2])
    /\ \A i, j \in 1 .. Len(s) : Alike(s[i], s[j]) => i = j

LEMMA Pushed ==
    ASSUME NEW S, NEW s \in Seq(S), NEW c \in S
    PROVE  /\ <<c>> \o s \in Seq(S) /\ Len(<<c>> \o s) = Len(s) + 1 /\ Len(s) \in Nat
           /\ (<<c>> \o s)[1] = c
           /\ \A i \in 1 .. Len(s) : (<<c>> \o s)[i + 1] = s[i]
           /\ \A i \in 2 .. Len(s) + 1 : (<<c>> \o s)[i] = s[i - 1]
<1> DEFINE one == <<c>>
           t == one \o s
<1>1. one \in Seq(S) /\ Len(one) = 1 /\ one[1] = c
  OBVIOUS
<1> HIDE DEF one
<1>2. /\ t \in Seq(S) /\ Len(t) = Len(one) + Len(s)
      /\ \A i \in 1 .. Len(one) + Len(s) : t[i] = IF i <= Len(one) THEN one[i] ELSE s[i - Len(one)]
  BY <1>1, ConcatProperties
<1> HIDE DEF t
<1>3. Len(s) \in Nat /\ Len(t) = Len(s) + 1 /\ t[1] = c
  BY <1>1, <1>2
<1>4. \A i \in 2 .. Len(s) + 1 : t[i] = s[i - 1]
  BY <1>1, <1>2
<1>5. ASSUME NEW i \in 1 .. Len(s) PROVE t[i + 1] = s[i]
  <2>1. i + 1 \in 2 .. Len(s) + 1 /\ (i + 1) - 1 = i
    BY <1>3
  <2>2. QED
    BY <1>4, <2>1
<1>6. QED
  BY <1>2, <1>3, <1>4, <1>5 DEF t, one

(* A call on top of the others.                                            *)
LEMMA NestedPush ==
    ASSUME NEW s, Nested(s), NEW c \in Frames, Well(c),
           s = << >> => Bottom(c),
           s # << >> => Sits(c, s[1]) /\ (Len(s) > 1 => Two(c, s[2])),
           \A i \in 1 .. Len(s) : ~Alike(c, s[i]) /\ ~Alike(s[i], c)
    PROVE  Nested(<<c>> \o s)
<1> DEFINE t == <<c>> \o s
<1>1. /\ t \in Seq(Frames) /\ Len(t) = Len(s) + 1 /\ Len(s) \in Nat /\ t[1] = c
      /\ \A i \in 2 .. Len(s) + 1 : t[i] = s[i - 1]
  BY Pushed DEF Nested
<1> HIDE DEF t
<1>2. \A i \in 1 .. Len(t) : (i = 1 /\ t[i] = c) \/ (i \in 2 .. Len(s) + 1 /\ t[i] = s[i - 1] /\ i - 1 \in 1 .. Len(s))
  BY <1>1
<1>3. \A i \in 1 .. Len(t) : Well(t[i])
  BY <1>2 DEF Nested
<1>4. Bottom(t[Len(t)])
  <2>1. CASE s = << >>
    BY <1>1, <2>1
  <2>2. CASE s # << >>
    <3>1. Len(s) \in 1 .. Len(s)
      BY <2>2 DEF Nested
    <3>2. Len(s) + 1 \in 2 .. Len(s) + 1 /\ (Len(s) + 1) - 1 = Len(s)
      BY <1>1, <3>1
    <3>3. t[Len(t)] = s[Len(s)]
      BY <1>1, <3>2
    <3>4. QED
      BY <2>2, <3>3 DEF Nested
  <2>3. QED
    BY <2>1, <2>2
<1>5. ASSUME NEW i \in 1 .. Len(t) - 1 PROVE Sits(t[i], t[i + 1])
  <2>1. i \in 1 .. Len(s) /\ t[i + 1] = s[i]
    <3>1. i \in 1 .. Len(s) /\ i + 1 \in 2 .. Len(s) + 1 /\ (i + 1) - 1 = i
      BY <1>1
    <3>2. QED
      BY <1>1, <3>1
  <2>2. CASE i = 1
    BY <1>1, <2>1, <2>2 DEF Nested
  <2>3. CASE i # 1
    <3>1. t[i] = s[i - 1] /\ i - 1 \in 1 .. Len(s) - 1 /\ (i - 1) + 1 = i
      BY <1>1, <2>1, <2>3
    <3>2. Sits(s[i - 1], s[(i - 1) + 1])
      BY <3>1 DEF Nested
    <3>3. QED
      BY <2>1, <3>1, <3>2
  <2>4. QED
    BY <2>2, <2>3
<1>6. ASSUME NEW i \in 1 .. Len(t) - 2 PROVE Two(t[i], t[i + 2])
  <2>1. i + 1 \in 1 .. Len(s) /\ t[i + 2] = s[i + 1]
    <3>1. i + 1 \in 1 .. Len(s) /\ i + 2 \in 2 .. Len(s) + 1 /\ (i + 2) - 1 = i + 1
      BY <1>1
    <3>2. QED
      BY <1>1, <3>1
  <2>2. CASE i = 1
    BY <1>1, <2>1, <2>2 DEF Nested
  <2>3. CASE i # 1
    <3>1. t[i] = s[i - 1] /\ i - 1 \in 1 .. Len(s) - 2 /\ (i - 1) + 2 = i + 1
      BY <1>1, <2>1, <2>3
    <3>2. Two(s[i - 1], s[(i - 1) + 2])
      BY <3>1 DEF Nested
    <3>3. QED
      BY <2>1, <3>1, <3>2
  <2>4. QED
    BY <2>2, <2>3
<1>7. ASSUME NEW i \in 1 .. Len(t), NEW j \in 1 .. Len(t), Alike(t[i], t[j]) PROVE i = j
  <2>1. CASE i = 1 /\ j = 1
    BY <2>1
  <2>2. CASE i = 1 /\ j # 1
    BY <1>1, <1>2, <1>7, <2>2
  <2>3. CASE i # 1 /\ j = 1
    BY <1>1, <1>2, <1>7, <2>3
  <2>4. CASE i # 1 /\ j # 1
    <3>1. i - 1 \in 1 .. Len(s) /\ j - 1 \in 1 .. Len(s) /\ Alike(s[i - 1], s[j - 1])
      BY <1>2, <1>7, <2>4
    <3>2. i - 1 = j - 1
      BY <3>1 DEF Nested
    <3>3. QED
      BY <1>1, <3>2
  <2>5. QED
    BY <2>1, <2>2, <2>3, <2>4
<1>8. QED
  BY <1>1, <1>3, <1>4, <1>5, <1>6, <1>7 DEF Nested, t

(* The calls left when the first g are gone.                               *)
LEMMA Dropped ==
    ASSUME NEW S, NEW s \in Seq(S), NEW g \in 0 .. Len(s)
    PROVE  LET t == SubSeq(s, g + 1, Len(s))
           IN  /\ t \in Seq(S) /\ Len(t) = Len(s) - g /\ Len(s) \in Nat
               /\ \A i \in 1 .. Len(s) - g : t[i] = s[i + g]
<1>1. g + 1 \in 1 .. Len(s) + 1 /\ Len(s) \in g + 1 - 1 .. Len(s) /\ Len(s) \in Nat
  OBVIOUS
<1> DEFINE t == SubSeq(s, g + 1, Len(s))
<1>2. /\ t \in Seq(S) /\ Len(t) = Len(s) - (g + 1) + 1
      /\ \A i \in 1 .. Len(s) - (g + 1) + 1 : t[i] = s[g + 1 + i - 1]
  BY <1>1, SubSeqProperties
<1> HIDE DEF t
<1>3. Len(t) = Len(s) - g
  BY <1>1, <1>2
<1>4. ASSUME NEW i \in 1 .. Len(s) - g PROVE t[i] = s[i + g]
  <2>1. i \in 1 .. Len(s) - (g + 1) + 1 /\ g + 1 + i - 1 = i + g
    BY <1>1
  <2>2. QED
    BY <1>2, <2>1
<1>5. QED
  BY <1>1, <1>2, <1>3, <1>4 DEF t

LEMMA NestedDrop ==
    ASSUME NEW s, Nested(s), NEW g \in 0 .. Len(s)
    PROVE  Nested(SubSeq(s, g + 1, Len(s)))
<1> DEFINE t == SubSeq(s, g + 1, Len(s))
<1>1. /\ t \in Seq(Frames) /\ Len(t) = Len(s) - g /\ Len(s) \in Nat /\ s \in Seq(Frames)
      /\ \A i \in 1 .. Len(s) - g : t[i] = s[i + g]
  BY Dropped DEF Nested
<1> HIDE DEF t
<1>2. \A i \in 1 .. Len(t) : i + g \in 1 .. Len(s) /\ t[i] = s[i + g]
  BY <1>1
<1>3. \A i \in 1 .. Len(t) : Well(t[i])
  BY <1>2 DEF Nested
<1>4. t # << >> => Bottom(t[Len(t)])
  <2> SUFFICES ASSUME t # << >> PROVE Bottom(t[Len(t)])
    OBVIOUS
  <2>1. Len(t) \in 1 .. Len(t) /\ Len(t) + g = Len(s)
    BY <1>1
  <2>2. t[Len(t)] = s[Len(s)] /\ s # << >>
    BY <1>1, <1>2, <2>1
  <2>3. QED
    BY <2>2 DEF Nested
<1>5. ASSUME NEW i \in 1 .. Len(t) - 1 PROVE Sits(t[i], t[i + 1])
  <2>1. i \in 1 .. Len(t) /\ i + 1 \in 1 .. Len(t) /\ i + g \in 1 .. Len(s) - 1 /\ (i + 1) + g = (i + g) + 1
    BY <1>1
  <2>2. t[i] = s[i + g] /\ t[i + 1] = s[(i + g) + 1]
    BY <1>2, <2>1
  <2>3. Sits(s[i + g], s[(i + g) + 1])
    BY <2>1 DEF Nested
  <2>4. QED
    BY <2>2, <2>3
<1>6. ASSUME NEW i \in 1 .. Len(t) - 2 PROVE Two(t[i], t[i + 2])
  <2>1. i \in 1 .. Len(t) /\ i + 2 \in 1 .. Len(t) /\ i + g \in 1 .. Len(s) - 2 /\ (i + 2) + g = (i + g) + 2
    BY <1>1
  <2>2. t[i] = s[i + g] /\ t[i + 2] = s[(i + g) + 2]
    BY <1>2, <2>1
  <2>3. Two(s[i + g], s[(i + g) + 2])
    BY <2>1 DEF Nested
  <2>4. QED
    BY <2>2, <2>3
<1>7. ASSUME NEW i \in 1 .. Len(t), NEW j \in 1 .. Len(t), Alike(t[i], t[j]) PROVE i = j
  <2>1. i + g \in 1 .. Len(s) /\ j + g \in 1 .. Len(s) /\ Alike(s[i + g], s[j + g])
    BY <1>2, <1>7
  <2>2. i + g = j + g
    BY <2>1 DEF Nested
  <2>3. QED
    BY <1>1, <2>2
<1>8. QED
  BY <1>1, <1>3, <1>4, <1>5, <1>6, <1>7 DEF Nested, t

(* The innermost call goes on.                                             *)
LEMMA NestedGoesOn ==
    ASSUME NEW s, Nested(s), s # << >>, NEW c \in Frames, Well(c),
           c.of = s[1].of, c.snap = s[1].snap,
           (OfBuild(c) /\ OfBuild(s[1])) \/ (OfUpload(c) /\ OfUpload(s[1]))
    PROVE  Nested(<<c>> \o Tail(s))
<1> DEFINE t == Tail(s)
<1>1. s \in Seq(Frames) /\ Len(s) \in Nat /\ 1 \in 1 .. Len(s) /\ 1 \in 0 .. Len(s)
  BY DEF Nested
<1>2. t = SubSeq(s, 1 + 1, Len(s))
  BY <1>1, TailIsSubSeq
<1> HIDE DEF t
<1>3. Nested(t) /\ Len(t) = Len(s) - 1 /\ \A i \in 1 .. Len(s) - 1 : t[i] = s[i + 1]
  <2>1. Nested(SubSeq(s, 1 + 1, Len(s)))
    BY <1>1, NestedDrop
  <2>2. /\ Len(SubSeq(s, 1 + 1, Len(s))) = Len(s) - 1
        /\ \A i \in 1 .. Len(s) - 1 : SubSeq(s, 1 + 1, Len(s))[i] = s[i + 1]
    BY <1>1, Dropped
  <2>3. QED
    BY <1>2, <2>1, <2>2
<1>4. s[1] \in Frames /\ c.kind \in {"complete", "built", "upload", "copied"}
      /\ s[1].kind \in {"complete", "built", "upload", "copied"}
  BY <1>1 DEF OfBuild, OfUpload
<1>5. \A d : /\ Sits(s[1], d) => Sits(c, d)
             /\ Two(s[1], d) => Two(c, d)
             /\ Alike(c, d) => Alike(s[1], d)
             /\ Alike(d, c) => Alike(d, s[1])
  BY <1>4 DEF Sits, Two, Alike, OfBuild, OfUpload, Taken, Kept
<1>6. Bottom(s[1]) => Bottom(c)
  BY <1>4 DEF Bottom, OfBuild, OfUpload, Taken
<1>7. t = << >> => Bottom(c)
  <2>1. t = << >> => Len(s) = 1
    BY <1>1, <1>3
  <2>2. QED
    BY <1>6, <2>1 DEF Nested
<1>8. ASSUME t # << >> PROVE Sits(c, t[1]) /\ (Len(t) > 1 => Two(c, t[2]))
  <2>1. t \in Seq(Frames)
    BY <1>3 DEF Nested
  <2>2. 1 \in 1 .. Len(s) - 1 /\ t[1] = s[1 + 1]
    BY <1>1, <1>3, <1>8, <2>1
  <2>3. Sits(s[1], s[1 + 1])
    BY <2>2 DEF Nested
  <2>4. ASSUME Len(t) > 1 PROVE t[2] = s[1 + 2] /\ Two(s[1], s[1 + 2])
    <3>1. 1 \in 1 .. Len(s) - 2 /\ 2 \in 1 .. Len(s) - 1 /\ 2 + 1 = 1 + 2
      BY <1>1, <1>3, <2>4
    <3>2. QED
      BY <1>3, <3>1 DEF Nested
  <2>5. QED
    BY <1>5, <2>2, <2>3, <2>4
<1>9. ASSUME NEW i \in 1 .. Len(t) PROVE ~Alike(c, t[i]) /\ ~Alike(t[i], c)
  <2>1. i + 1 \in 1 .. Len(s) /\ i + 1 # 1 /\ t[i] = s[i + 1]
    BY <1>1, <1>3
  <2>2. ~Alike(s[1], s[i + 1]) /\ ~Alike(s[i + 1], s[1])
    BY <1>1, <2>1 DEF Nested
  <2>3. QED
    BY <1>5, <2>1, <2>2
<1>10. QED
  BY <1>3, <1>7, <1>8, <1>9, NestedPush DEF t

LEMMA Popped ==
    ASSUME NEW s, Nested(s), s # << >>
    PROVE  /\ Nested(Tail(s)) /\ Len(Tail(s)) = Len(s) - 1 /\ Len(s) \in Nat \ {0}
           /\ \A i \in 1 .. Len(s) - 1 : Tail(s)[i] = s[i + 1]
<1>1. s \in Seq(Frames) /\ Len(s) \in Nat \ {0} /\ 1 \in 0 .. Len(s)
  BY DEF Nested
<1>2. Tail(s) = SubSeq(s, 1 + 1, Len(s))
  BY <1>1, TailIsSubSeq
<1>3. Nested(SubSeq(s, 1 + 1, Len(s)))
  BY <1>1, NestedDrop
<1>4. /\ Len(SubSeq(s, 1 + 1, Len(s))) = Len(s) - 1
      /\ \A i \in 1 .. Len(s) - 1 : SubSeq(s, 1 + 1, Len(s))[i] = s[i + 1]
  BY <1>1, Dropped
<1>5. QED
  BY <1>1, <1>2, <1>3, <1>4

-----------------------------------------------------------------------------
(* The invariant.                                                          *)

Stages == {"idle", "reading", "queued", "serving", "done"}
Counted == {r \in Reads : read[r] \in {"reading", "queued", "serving"}}

DrainTypes ==
    /\ read \in [Reads -> Stages] /\ queue \in Seq(Reads) /\ awaited \in Reads \cup {None}
    /\ waiting \in BOOLEAN /\ depth \in 0 .. 1 /\ table \in Textures
    /\ faults \in Nat /\ unwound \in Nat /\ pending \in Int

(* What the table holds, by the innermost call.                            *)
Fits(s, tab) ==
    /\ s = << >> => tab = None
    /\ s # << >> =>
        /\ OfUpload(s[1]) => Kept(tab, s[1].of)
        /\ s[1].kind = "wait" => Kept(tab, s[2].of)
        /\ s[1].kind = "drain" => tab = None \/ (tab = Direct /\ Len(s) > 1)
        /\ OfBuild(s[1]) /\ ~Taken(s[1]) => tab = None \/ (tab = Direct /\ Len(s) > 2)

QueueOK ==
    /\ \A r \in Reads : read[r] = "queued" <=> \E i \in 1 .. Len(queue) : queue[i] = r
    /\ \A i, j \in 1 .. Len(queue) : queue[i] = queue[j] => i = j

(* The calls agree with the wait guard, the depth and the reads.           *)
Sound(s, w, d, f, rd) ==
    /\ Nested(s)
    /\ Waits(s) => w = TRUE
    /\ Drains(s) \/ Snaps(s) => d = 1
    /\ f = 0 /\ d = 1 => Drains(s)
    /\ \A r \in Reads : Builds(s, r) => rd[r] = "serving"

StackOK == Sound(stack, waiting, depth, faults, read) /\ Fits(stack, table)

CountOK == pending = unwound + Cardinality(Counted)

DrainInv == DrainTypes /\ QueueOK /\ StackOK /\ CountOK

LEMMA DrainInitInv == Init => DrainInv
<1> SUFFICES ASSUME Init PROVE DrainInv
  OBVIOUS
<1> USE DEF Init
<1>1. stack = << >> /\ queue = << >> /\ Len(stack) = 0 /\ Len(queue) = 0
  OBVIOUS
<1>2. DrainTypes
  <2>1. read \in [Reads -> Stages]
    BY DEF Stages
  <2>2. waiting \in BOOLEAN
    OBVIOUS
  <2>3. queue \in Seq(Reads) /\ awaited \in Reads \cup {None} /\ table \in Textures
    BY <1>1 DEF Textures
  <2>4. depth \in 0 .. 1 /\ faults \in Nat /\ unwound \in Nat /\ pending \in Int
    OBVIOUS
  <2>5. QED
    BY <2>1, <2>2, <2>3, <2>4 DEF DrainTypes
<1>3. QueueOK
  BY <1>1 DEF QueueOK
<1>4. StackOK
  BY <1>1 DEF StackOK, Sound, Nested, Fits, Waits, Drains, Snaps, Builds
<1>5. CountOK
  <2>1. Counted = {}
    BY DEF Counted
  <2>2. QED
    BY <2>1, FS_EmptySet DEF CountOK
<1>6. QED
  BY <1>2, <1>3, <1>4, <1>5 DEF DrainInv

LEMMA DrainInvHolds == DrainInv => UploadSeesItsMips
<1> SUFFICES ASSUME DrainInv PROVE UploadSeesItsMips
  OBVIOUS
<1> USE DEF DrainInv
<1>1. stack \in Seq(Frames) /\ Len(stack) \in Nat
  BY DEF StackOK, Sound, Nested
<1>2. ASSUME At("copied") PROVE table = Top.of \/ (Top.of = Direct /\ table = None)
  <2>1. stack # << >> /\ Top = stack[1] /\ OfUpload(stack[1])
    BY <1>1, <1>2 DEF At, Top, OfUpload
  <2>2. QED
    BY <2>1 DEF StackOK, Fits, Kept
<1>3. DepthLost => faults > 0
  <2> SUFFICES ASSUME faults = 0 PROVE ~DepthLost
    BY DEF DrainTypes
  <2> DEFINE D == {i \in 1 .. Len(stack) : stack[i].kind = "drain"}
  <2>1. CASE depth = 1
    <3>1. PICK i \in 1 .. Len(stack) : stack[i].kind = "drain"
      BY <2>1 DEF StackOK, Sound, Drains
    <3>2. \A j \in 1 .. Len(stack) : stack[j].kind = "drain" => j = i
      BY <3>1 DEF StackOK, Sound, Nested, Alike
    <3>3. D = {i}
      BY <3>1, <3>2
    <3>4. Cardinality(D) = 1
      BY <3>3, FS_Singleton
    <3>5. QED
      BY <2>1, <3>4 DEF DepthLost
  <2>2. CASE depth = 0
    <3>1. D \subseteq 1 .. Len(stack) /\ IsFiniteSet(1 .. Len(stack))
      BY <1>1, FS_Interval
    <3>2. Cardinality(D) \in Nat
      BY <3>1, FS_Subset, FS_CardinalityType
    <3>3. QED
      BY <2>2, <3>2 DEF DepthLost
  <2>3. QED
    BY <2>1, <2>2 DEF DrainTypes
<1>4. ToSet(queue) = {r \in Reads : read[r] = "queued"} /\ IsInjective(queue)
  <2>1. DOMAIN queue = 1 .. Len(queue) /\ \A i \in 1 .. Len(queue) : queue[i] \in Reads
    BY DEF DrainTypes
  <2>2. QED
    BY <2>1 DEF QueueOK, ToSet, IsInjective
<1>5. TypeOK
  BY <1>3, <1>4 DEF TypeOK, DrainTypes, CountOK, Counted, Stages, Textures
<1>6. QED
  BY <1>2, <1>5 DEF UploadSeesItsMips

(* Counting the reads that are under way.                                  *)
LEMMA CountedIsFinite ==
    ASSUME NEW S \in SUBSET Reads
    PROVE  IsFiniteSet(S) /\ Cardinality(S) \in Nat
  BY FS_Subset, FS_CardinalityType

LEMMA OneMore ==
    ASSUME DrainTypes, CountOK, NEW r \in Reads, read[r] = "idle",
           read' = [read EXCEPT ![r] = "reading"], pending' = pending + 1, unwound' = unwound
    PROVE  CountOK'
<1>1. Counted' = Counted \cup {r} /\ r \notin Counted
  BY DEF DrainTypes, Counted
<1>2. Cardinality(Counted') = Cardinality(Counted) + 1 /\ Cardinality(Counted) \in Nat
  <2>1. Counted \in SUBSET Reads
    BY DEF Counted
  <2>2. QED
    BY <1>1, <2>1, CountedIsFinite, FS_AddElement
<1>3. QED
  BY <1>2 DEF CountOK, DrainTypes

LEMMA OneLess ==
    ASSUME DrainTypes, CountOK, NEW r \in Reads, read[r] = "serving",
           read' = [read EXCEPT ![r] = "done"]
    PROVE  Cardinality(Counted') = Cardinality(Counted) - 1 /\ Cardinality(Counted) \in Nat
<1>1. Counted' = Counted \ {r} /\ r \in Counted
  BY DEF DrainTypes, Counted
<1>2. Counted \in SUBSET Reads
  BY DEF Counted
<1>3. QED
  BY <1>1, <1>2, CountedIsFinite, FS_RemoveElement

LEMMA SameCount ==
    ASSUME DrainTypes, CountOK, pending' = pending, unwound' = unwound,
           \A r \in Reads : read'[r] \in {"reading", "queued", "serving"} <=> read[r] \in {"reading", "queued", "serving"}
    PROVE  CountOK'
<1>1. Counted' = Counted
  BY DEF Counted
<1>2. QED
  BY <1>1 DEF CountOK


-----------------------------------------------------------------------------
(* What a call on top, and the end of calls, change of what runs.          *)

LEMMA HasPush ==
    ASSUME NEW s, Nested(s), NEW c \in Frames
    PROVE  LET t == <<c>> \o s
           IN  /\ Waits(t) => c.kind = "wait" \/ Waits(s)
               /\ Drains(t) <=> c.kind = "drain" \/ Drains(s)
               /\ Snaps(t) => Taken(c) \/ Snaps(s)
               /\ \A r : Builds(t, r) => (OfBuild(c) /\ c.of = r) \/ Builds(s, r)
               /\ Len(s) \in Nat /\ t # << >> /\ t[1] = c /\ (s # << >> => t[2] = s[1])
<1> DEFINE t == <<c>> \o s
<1>1. /\ t \in Seq(Frames) /\ Len(t) = Len(s) + 1 /\ Len(s) \in Nat /\ t[1] = c
      /\ \A i \in 1 .. Len(s) : t[i + 1] = s[i]
      /\ \A i \in 2 .. Len(s) + 1 : t[i] = s[i - 1]
  BY Pushed DEF Nested
<1> HIDE DEF t
<1>2. \A i \in 1 .. Len(t) : t[i] = c \/ (t[i] = s[i - 1] /\ i - 1 \in 1 .. Len(s))
  BY <1>1
<1>3. \A i \in 1 .. Len(s) : i + 1 \in 1 .. Len(t) /\ t[i + 1] = s[i]
  BY <1>1
<1>4. 1 \in 1 .. Len(t) /\ t # << >>
  BY <1>1
<1>5. Waits(t) => c.kind = "wait" \/ Waits(s)
  BY <1>2 DEF Waits
<1>6. Drains(t) <=> c.kind = "drain" \/ Drains(s)
  BY <1>1, <1>2, <1>3, <1>4 DEF Drains
<1>7. Snaps(t) => Taken(c) \/ Snaps(s)
  BY <1>2 DEF Snaps
<1>8. \A r : Builds(t, r) => (OfBuild(c) /\ c.of = r) \/ Builds(s, r)
  BY <1>2 DEF Builds
<1>9. s # << >> => t[2] = s[1]
  <2> SUFFICES ASSUME s # << >> PROVE t[2] = s[1]
    OBVIOUS
  <2>1. 1 \in 1 .. Len(s) /\ 1 + 1 = 2
    BY <1>1 DEF Nested
  <2>2. QED
    BY <1>3, <2>1
<1>10. QED
  BY <1>1, <1>4, <1>5, <1>6, <1>7, <1>8, <1>9 DEF t

LEMMA HasDrop ==
    ASSUME NEW s, Nested(s), NEW g \in 0 .. Len(s)
    PROVE  LET t == SubSeq(s, g + 1, Len(s))
           IN  /\ Waits(t) => Waits(s)
               /\ Drains(t) => Drains(s)
               /\ Snaps(t) => Snaps(s)
               /\ \A r : Builds(t, r) => \E i \in g + 1 .. Len(s) : OfBuild(s[i]) /\ s[i].of = r
<1> DEFINE t == SubSeq(s, g + 1, Len(s))
<1>1. Len(t) = Len(s) - g /\ Len(s) \in Nat /\ \A i \in 1 .. Len(s) - g : t[i] = s[i + g]
  BY Dropped DEF Nested
<1> HIDE DEF t
<1>2. \A i \in 1 .. Len(t) : i + g \in 1 .. Len(s) /\ i + g \in g + 1 .. Len(s) /\ t[i] = s[i + g]
  BY <1>1
<1>3. QED
  BY <1>2 DEF Waits, Drains, Snaps, Builds, t

LEMMA HasPop ==
    ASSUME NEW s, Nested(s), s # << >>
    PROVE  LET t == Tail(s)
           IN  /\ Waits(t) => Waits(s) /\ s[1].kind # "wait"
               /\ Drains(t) <=> Drains(s) /\ s[1].kind # "drain"
               /\ Snaps(t) => Snaps(s)
               /\ \A r : Builds(t, r) => Builds(s, r) /\ ~(OfBuild(s[1]) /\ s[1].of = r)
               /\ t # << >> => t[1] = s[2] /\ Sits(s[1], s[2]) /\ Len(s) > 1
<1> DEFINE t == Tail(s)
<1>1. /\ Len(t) = Len(s) - 1 /\ Len(s) \in Nat \ {0}
      /\ \A i \in 1 .. Len(s) - 1 : t[i] = s[i + 1]
      /\ Nested(t)
  BY Popped
<1> HIDE DEF t
<1>2. \A i \in 1 .. Len(t) : i + 1 \in 1 .. Len(s) /\ i + 1 # 1 /\ t[i] = s[i + 1]
  BY <1>1
<1>3. 1 \in 1 .. Len(s) /\ \A i \in 2 .. Len(s) : i - 1 \in 1 .. Len(t) /\ (i - 1) + 1 = i
  BY <1>1
<1>4. \A i \in 2 .. Len(s) : ~Alike(s[1], s[i]) /\ s[i] = t[i - 1] /\ i - 1 \in 1 .. Len(t)
  BY <1>1, <1>2, <1>3 DEF Nested
<1>5. \A i \in 1 .. Len(t) : ~Alike(s[1], t[i])
  BY <1>2, <1>3 DEF Nested
<1>6. Waits(t) => Waits(s) /\ s[1].kind # "wait"
  BY <1>2, <1>5 DEF Waits, Alike
<1>7. Drains(t) => Drains(s) /\ s[1].kind # "drain"
  BY <1>2, <1>5 DEF Drains, Alike
<1>8. Drains(s) /\ s[1].kind # "drain" => Drains(t)
  <2> SUFFICES ASSUME Drains(s), s[1].kind # "drain" PROVE Drains(t)
    OBVIOUS
  <2>1. PICK i \in 1 .. Len(s) : s[i].kind = "drain"
    BY DEF Drains
  <2>2. i \in 2 .. Len(s)
    BY <1>1, <2>1
  <2>3. QED
    BY <1>4, <2>1, <2>2 DEF Drains
<1>9. Snaps(t) => Snaps(s)
  BY <1>2 DEF Snaps
<1>10. \A r : Builds(t, r) => Builds(s, r) /\ ~(OfBuild(s[1]) /\ s[1].of = r)
  BY <1>2, <1>5 DEF Builds, Alike
<1>11. t # << >> => t[1] = s[2] /\ Sits(s[1], s[2]) /\ Len(s) > 1
  <2> SUFFICES ASSUME t # << >> PROVE t[1] = s[2] /\ Sits(s[1], s[2]) /\ Len(s) > 1
    OBVIOUS
  <2>1. Len(s) > 1 /\ 1 \in 1 .. Len(s) - 1 /\ 1 + 1 = 2
    BY <1>1 DEF Nested
  <2>2. t[1] = s[1 + 1] /\ Sits(s[1], s[1 + 1])
    BY <1>1, <2>1 DEF Nested
  <2>3. QED
    BY <2>1, <2>2
<1>12. QED
  BY <1>6, <1>7, <1>8, <1>9, <1>10, <1>11 DEF t

(* What a new call c on s needs, when the guard, the depth and the reads   *)
(* become w2, d2 and rd2.                                                  *)
MayPush(c, s, w, d, f, rd, w2, d2, rd2) ==
    /\ c \in Frames /\ Well(c)
    /\ s = << >> => Bottom(c)
    /\ s # << >> => Sits(c, s[1]) /\ (Len(s) > 1 => Two(c, s[2]))
    /\ c.kind = "wait" => ~Waits(s)
    /\ c.kind = "drain" => ~Drains(s)
    /\ OfBuild(c) => ~Builds(s, c.of)
    /\ w = TRUE \/ c.kind = "wait" => w2 = TRUE
    /\ d = 1 \/ c.kind = "drain" \/ Taken(c) => d2 = 1
    /\ f = 0 /\ d2 = 1 => d = 1 \/ c.kind = "drain"
    /\ \A r \in Reads : rd[r] = "serving" \/ (OfBuild(c) /\ c.of = r) => rd2[r] = "serving"

LEMMA SoundPush ==
    ASSUME NEW s, NEW w, NEW d, NEW f, NEW rd, Sound(s, w, d, f, rd), NEW c,
           NEW w2, NEW d2, NEW rd2, MayPush(c, s, w, d, f, rd, w2, d2, rd2)
    PROVE  Sound(<<c>> \o s, w2, d2, f, rd2)
<1> USE DEF MayPush
<1> DEFINE t == <<c>> \o s
<1>1. Nested(s)
  BY DEF Sound
<1>2. \A i \in 1 .. Len(s) : ~Alike(c, s[i]) /\ ~Alike(s[i], c)
  BY DEF Alike, Waits, Drains, Builds
<1>3. Nested(t)
  BY <1>1, <1>2, NestedPush
<1>4. /\ Waits(t) => c.kind = "wait" \/ Waits(s)
      /\ Drains(t) <=> c.kind = "drain" \/ Drains(s)
      /\ Snaps(t) => Taken(c) \/ Snaps(s)
      /\ \A r : Builds(t, r) => (OfBuild(c) /\ c.of = r) \/ Builds(s, r)
  BY <1>1, HasPush
<1> HIDE DEF t
<1>5. QED
  BY <1>3, <1>4 DEF Sound, t

LEMMA SoundGoesOn ==
    ASSUME NEW s, NEW w, NEW d, NEW f, NEW rd, Sound(s, w, d, f, rd), s # << >>, NEW c \in Frames, Well(c),
           c.of = s[1].of, c.snap = s[1].snap,
           (OfBuild(c) /\ OfBuild(s[1])) \/ (OfUpload(c) /\ OfUpload(s[1]))
    PROVE  Sound(<<c>> \o Tail(s), w, d, f, rd)
<1> DEFINE t == Tail(s)
           u == <<c>> \o t
<1>1. Nested(s) /\ Nested(t) /\ Nested(u)
  BY Popped, NestedGoesOn DEF Sound
<1>2. /\ Waits(t) => Waits(s)
      /\ Drains(t) <=> Drains(s) /\ s[1].kind # "drain"
      /\ Snaps(t) => Snaps(s)
      /\ \A r : Builds(t, r) => Builds(s, r)
  BY <1>1, HasPop
<1>3. /\ Waits(u) => c.kind = "wait" \/ Waits(t)
      /\ Drains(u) <=> c.kind = "drain" \/ Drains(t)
      /\ Snaps(u) => Taken(c) \/ Snaps(t)
      /\ \A r : Builds(u, r) => (OfBuild(c) /\ c.of = r) \/ Builds(t, r)
  BY <1>1, HasPush
<1>4. c.kind \notin {"wait", "drain"} /\ s[1].kind # "drain"
  BY DEF OfBuild, OfUpload
<1>5. 1 \in 1 .. Len(s)
  BY <1>1, Popped
<1>6. /\ Taken(c) => Snaps(s)
      /\ \A r : OfBuild(c) /\ c.of = r => Builds(s, r)
  <2>1. OfBuild(c) => OfBuild(s[1])
    BY DEF OfBuild, OfUpload
  <2>2. QED
    BY <1>5, <2>1 DEF Taken, Snaps, Builds
<1> HIDE DEF t, u
<1>7. QED
  BY <1>1, <1>2, <1>3, <1>4, <1>6 DEF Sound, u, t

LEMMA SoundDrop ==
    ASSUME NEW s, NEW w, NEW d, NEW f, NEW rd, Sound(s, w, d, f, rd), NEW g \in 0 .. Len(s),
           NEW f2, NEW rd2, f2 # 0,
           \A r \in Reads : rd[r] = "serving" /\ ~(\E i \in 1 .. g : OfBuild(s[i]) /\ s[i].of = r) => rd2[r] = "serving"
    PROVE  Sound(SubSeq(s, g + 1, Len(s)), w, d, f2, rd2)
<1> DEFINE t == SubSeq(s, g + 1, Len(s))
<1>1. Nested(s) /\ s \in Seq(Frames)
  BY DEF Sound, Nested
<1>2. Nested(t)
  BY <1>1, NestedDrop
<1>3. /\ Waits(t) => Waits(s)
      /\ Drains(t) => Drains(s)
      /\ Snaps(t) => Snaps(s)
      /\ \A r : Builds(t, r) => \E i \in g + 1 .. Len(s) : OfBuild(s[i]) /\ s[i].of = r
  BY <1>1, HasDrop
<1> HIDE DEF t
<1>4. ASSUME NEW r \in Reads, Builds(t, r) PROVE rd2[r] = "serving"
  <2>1. PICK i \in g + 1 .. Len(s) : OfBuild(s[i]) /\ s[i].of = r
    BY <1>3, <1>4
  <2>2. i \in 1 .. Len(s)
    BY <1>1
  <2>3. Builds(s, r)
    BY <2>1, <2>2 DEF Builds
  <2>4. ~(\E j \in 1 .. g : OfBuild(s[j]) /\ s[j].of = r)
    <3> SUFFICES ASSUME NEW j \in 1 .. g, OfBuild(s[j]), s[j].of = r PROVE FALSE
      OBVIOUS
    <3>1. j \in 1 .. Len(s) /\ j # i
      BY <1>1
    <3>2. Alike(s[j], s[i])
      BY <2>1 DEF Alike
    <3>3. QED
      BY <1>1, <2>2, <3>1, <3>2 DEF Nested
  <2>5. QED
    BY <2>3, <2>4 DEF Sound
<1>5. QED
  BY <1>2, <1>3, <1>4 DEF Sound, t

(* A drain is outermost, or runs inside the wait of the client's own upload.*)
LEMMA DrainIsLow ==
    ASSUME NEW s, Nested(s), s # << >>, s[1].kind = "drain"
    PROVE  ~Drains(Tail(s)) /\ ~Snaps(Tail(s)) /\ (Tail(s) # << >> => s[2].kind = "wait" /\ s[3].of = Direct)
<1>1. /\ s \in Seq(Frames) /\ Len(s) \in Nat \ {0} /\ Len(Tail(s)) = Len(s) - 1
      /\ \A i \in 1 .. Len(s) - 1 : Tail(s)[i] = s[i + 1]
  BY Popped DEF Nested
<1>2. ~Drains(Tail(s))
  BY HasPop
<1>3. CASE Len(s) = 1
  <2>0. Tail(s) \in Seq(Frames)
    BY Popped DEF Nested
  <2>01. Len(Tail(s)) = 0
    BY <1>1, <1>3
  <2>02. \A t \in Seq(Frames) : Len(t) = 0 => t = << >>
    OBVIOUS
  <2>1. Len(Tail(s)) = 0 /\ Tail(s) = << >>
    BY <2>0, <2>01, <2>02
  <2>2. QED
    BY <1>2, <2>1 DEF Snaps
<1>4. CASE Len(s) > 1
  <2>1. Sits(s[1], s[2])
    <3>1. 1 \in 1 .. Len(s) - 1 /\ 1 + 1 = 2
      BY <1>1, <1>4
    <3>2. Sits(s[1], s[1 + 1])
      BY <3>1 DEF Nested
    <3>3. QED
      BY <3>1, <3>2
  <2>2. s[2].kind = "wait" /\ s[2] \in Frames
    BY <1>1, <1>4, <2>1 DEF Sits, OfBuild, OfUpload, Taken
  <2>3. Len(s) # 2
    <3>1. ~Bottom(s[2])
      BY <2>2 DEF Bottom, OfBuild, OfUpload, Taken
    <3>2. QED
      BY <3>1 DEF Nested
  <2>4. Len(s) > 2 /\ 2 \in 1 .. Len(s) - 1 /\ 2 + 1 = 3 /\ 1 \in 1 .. Len(s) - 2 /\ 1 + 2 = 3
    BY <1>1, <1>4, <2>3
  <2>5. Sits(s[2], s[3]) /\ Two(s[1], s[3])
    <3>1. Sits(s[2], s[2 + 1]) /\ Two(s[1], s[1 + 2])
      BY <2>4 DEF Nested
    <3>2. QED
      BY <2>4, <3>1
  <2>6. s[3].kind = "upload" /\ s[3].of = Direct
    BY <2>2, <2>5 DEF Sits, Two, OfBuild, OfUpload, Taken
  <2>7. Len(s) = 3
    <3> SUFFICES ASSUME Len(s) > 3 PROVE FALSE
      BY <1>1, <2>4
    <3>1. 3 \in 1 .. Len(s) - 1 /\ 3 + 1 \in 1 .. Len(s)
      BY <1>1
    <3>2. Sits(s[3], s[3 + 1]) /\ Well(s[3 + 1])
      BY <3>1 DEF Nested
    <3>3. s[3 + 1].kind = "built" /\ s[3 + 1].of = Direct
      BY <2>6, <3>2 DEF Sits, OfBuild, OfUpload, Taken
    <3>4. s[3 + 1].of \in Reads
      BY <3>2, <3>3 DEF Well, OfBuild
    <3>5. QED
      BY <3>3, <3>4
  <2>8. ASSUME NEW i \in 1 .. Len(Tail(s)) PROVE ~Taken(Tail(s)[i])
    <3>0. Len(Tail(s)) = 2 /\ Len(s) - 1 = 2
      BY <1>1, <2>7
    <3>1. i \in 1 .. 2 /\ Tail(s)[i] = s[i + 1]
      BY <1>1, <3>0
    <3>2. i = 1 \/ i = 2
      BY <3>1
    <3>3. QED
      BY <2>2, <2>6, <3>1, <3>2 DEF Taken, OfBuild
  <2>9. QED
    BY <1>2, <2>2, <2>6, <2>8 DEF Snaps
<1>5. QED
  BY <1>1, <1>3, <1>4

(* A pump that is not inside another, inside a wait: the upload that waits *)
(* is the client's own.                                                    *)
LEMMA OutermostWait ==
    ASSUME NEW s, Nested(s), s # << >>, s[1].kind = "wait", ~Drains(s), ~Snaps(s)
    PROVE  Len(s) > 1 /\ s[2].kind = "upload" /\ s[2].of = Direct
<1>1. s \in Seq(Frames) /\ Len(s) \in Nat \ {0}
  BY Popped DEF Nested
<1>2. Len(s) > 1
  <2>1. ~Bottom(s[1])
    BY DEF Bottom, OfBuild, OfUpload, Taken
  <2>2. QED
    BY <1>1, <2>1 DEF Nested
<1>3. Sits(s[1], s[2]) /\ 2 \in 1 .. Len(s)
  <2>1. 1 \in 1 .. Len(s) - 1 /\ 1 + 1 = 2
    BY <1>1, <1>2
  <2>2. Sits(s[1], s[1 + 1])
    BY <2>1 DEF Nested
  <2>3. QED
    BY <1>1, <1>2, <2>1, <2>2
<1>4. s[2].kind = "upload"
  BY <1>3 DEF Sits, OfBuild, OfUpload, Taken
<1>5. ASSUME s[2].of # Direct PROVE FALSE
  <2>1. Len(s) > 2
    <3>1. ~Bottom(s[2])
      BY <1>4, <1>5 DEF Bottom, OfBuild, OfUpload, Taken
    <3>2. QED
      BY <1>1, <1>2, <3>1 DEF Nested
  <2>2. 2 \in 1 .. Len(s) - 1 /\ 2 + 1 = 3 /\ 3 \in 1 .. Len(s)
    BY <1>1, <2>1
  <2>3. Sits(s[2], s[3])
    <3>1. Sits(s[2], s[2 + 1])
      BY <2>2 DEF Nested
    <3>2. QED
      BY <2>2, <3>1
  <2>4. s[3].kind = "built"
    BY <1>4, <2>3 DEF Sits, OfBuild, OfUpload, Taken
  <2>5. ~Taken(s[3])
    BY <2>2 DEF Snaps
  <2>6. Len(s) > 3
    <3>1. ~Bottom(s[3])
      BY <2>4, <2>5 DEF Bottom, OfBuild, OfUpload
    <3>2. QED
      BY <1>1, <2>1, <3>1 DEF Nested
  <2>7. 3 \in 1 .. Len(s) - 1 /\ 3 + 1 \in 1 .. Len(s)
    BY <1>1, <2>6
  <2>8. Sits(s[3], s[3 + 1])
    BY <2>7 DEF Nested
  <2>9. s[3 + 1].kind = "drain"
    BY <2>4, <2>5, <2>8 DEF Sits, OfBuild, OfUpload
  <2>10. QED
    BY <2>7, <2>9 DEF Drains
<1>6. QED
  BY <1>2, <1>4, <1>5


-----------------------------------------------------------------------------
(* The steps.                                                              *)

LEMMA SameQueue ==
    ASSUME DrainInv, queue' = queue, \A r \in Reads : read'[r] = "queued" <=> read[r] = "queued"
    PROVE  QueueOK'
  BY DEF DrainInv, QueueOK

LEMMA TopFrame ==
    ASSUME DrainInv, stack # << >>
    PROVE  /\ Top = stack[1] /\ stack[1] \in Frames /\ Well(stack[1]) /\ Nested(stack)
           /\ Len(stack) \in Nat \ {0} /\ 1 \in 1 .. Len(stack)
           /\ (OfBuild(stack[1]) => read[stack[1].of] = "serving")
<1>1. Nested(stack)
  BY DEF DrainInv, StackOK, Sound
<1>2. stack \in Seq(Frames) /\ Len(stack) \in Nat \ {0}
  BY <1>1 DEF Nested
<1>3. 1 \in 1 .. Len(stack)
  BY <1>2
<1>4. Well(stack[1]) /\ stack[1] \in Frames /\ Top = stack[1]
  BY <1>1, <1>2, <1>3 DEF Nested, Top
<1>5. OfBuild(stack[1]) => read[stack[1].of] = "serving"
  BY <1>3, <1>4 DEF DrainInv, StackOK, Sound, Builds, Well
<1>6. QED
  BY <1>1, <1>2, <1>3, <1>4, <1>5

LEMMA RequestStep ==
    ASSUME DrainInv, NEW r \in Reads, Request(r)
    PROVE  DrainInv'
<1> USE DEF DrainInv, Request
<1>1. /\ DrainTypes /\ read[r] = "idle" /\ read' = [read EXCEPT ![r] = "reading"] /\ pending' = pending + 1
      /\ UNCHANGED <<queue, awaited, waiting, depth, table, stack, directs, faults, unwound>>
  OBVIOUS
<1>2. \A q \in Reads : read'[q] = IF q = r THEN "reading" ELSE read[q]
  BY <1>1 DEF DrainTypes
<1>3. DrainTypes'
  BY <1>1 DEF DrainTypes, Stages
<1>4. QueueOK'
  BY <1>1, <1>2, SameQueue
<1>5. StackOK'
  BY <1>1, <1>2 DEF StackOK, Sound
<1>6. CountOK'
  BY <1>1, OneMore
<1>7. QED
  BY <1>3, <1>4, <1>5, <1>6

LEMMA DeliverStep ==
    ASSUME DrainInv, NEW r \in Reads, Deliver(r)
    PROVE  DrainInv'
<1> USE DEF DrainInv, Deliver
<1>1. /\ DrainTypes /\ read[r] = "reading" /\ read' = [read EXCEPT ![r] = "queued"] /\ queue' = Append(queue, r)
      /\ UNCHANGED <<awaited, waiting, pending, depth, table, stack, directs, faults, unwound>>
  OBVIOUS
<1>2. \A q \in Reads : read'[q] = IF q = r THEN "queued" ELSE read[q]
  BY <1>1 DEF DrainTypes
<1>3. DrainTypes'
  BY <1>1 DEF DrainTypes, Stages
<1>4. QueueOK'
  <2>1. queue \in Seq(Reads) /\ Len(queue) \in Nat
    BY <1>1 DEF DrainTypes
  <2>2. /\ Len(queue') = Len(queue) + 1 /\ queue'[Len(queue) + 1] = r
        /\ \A i \in 1 .. Len(queue) : queue'[i] = queue[i] /\ queue[i] \in Reads
    BY <1>1, <2>1
  <2>3. \A i \in 1 .. Len(queue) : queue[i] # r
    BY <1>1 DEF QueueOK
  <2>4. \A i \in 1 .. Len(queue') : i \in 1 .. Len(queue) \/ i = Len(queue) + 1
    BY <2>1, <2>2
  <2>5. \A i, j \in 1 .. Len(queue') : queue'[i] = queue'[j] => i = j
    BY <2>2, <2>3, <2>4 DEF QueueOK
  <2>6. ASSUME NEW q \in Reads PROVE read'[q] = "queued" <=> \E i \in 1 .. Len(queue') : queue'[i] = q
    <3>1. CASE q = r
      <4>1. Len(queue) + 1 \in 1 .. Len(queue')
        BY <2>1, <2>2
      <4>2. QED
        BY <1>2, <2>2, <3>1, <4>1
    <3>2. CASE q # r
      <4>1. read[q] = "queued" <=> \E i \in 1 .. Len(queue) : queue[i] = q
        BY DEF QueueOK
      <4>2. \A i \in 1 .. Len(queue) : i \in 1 .. Len(queue')
        BY <2>1, <2>2
      <4>3. QED
        BY <1>2, <2>2, <2>4, <3>2, <4>1, <4>2
    <3>3. QED
      BY <3>1, <3>2
  <2>7. QED
    BY <2>5, <2>6 DEF QueueOK
<1>5. StackOK'
  BY <1>1, <1>2 DEF StackOK, Sound
<1>6. CountOK'
  BY <1>1, <1>2, SameCount
<1>7. QED
  BY <1>3, <1>4, <1>5, <1>6

LEMMA Unlinked ==
    ASSUME DrainTypes, QueueOK, NEW r \in Reads, read[r] = "queued", Unlink(r),
           read' = [read EXCEPT ![r] = "serving"]
    PROVE  queue' \in Seq(Reads) /\ QueueOK'
<1> DEFINE p == PlaceOf(r)
<1>1. queue \in Seq(Reads) /\ Len(queue) \in Nat /\ DOMAIN queue = 1 .. Len(queue)
  BY DEF DrainTypes
<1>2. p \in 1 .. Len(queue) /\ queue[p] = r
  <2>1. \E i \in 1 .. Len(queue) : queue[i] = r
    BY DEF QueueOK
  <2>2. p = CHOOSE i \in 1 .. Len(queue) : queue[i] = r
    BY <1>1 DEF PlaceOf
  <2> HIDE DEF p
  <2>3. QED
    BY <2>1, <2>2
<1> HIDE DEF p
<1> DEFINE front == SubSeq(queue, 1, p - 1)
           back == SubSeq(queue, p + 1, Len(queue))
<1>3. queue' = front \o back
  BY DEF Unlink, RemoveAt, p
<1>4. front \in Seq(Reads) /\ Len(front) = p - 1 /\ \A i \in 1 .. p - 1 : front[i] = queue[i]
  BY <1>1, <1>2, SubSeqProperties
<1>5. back \in Seq(Reads) /\ Len(back) = Len(queue) - p /\ \A i \in 1 .. Len(queue) - p : back[i] = queue[i + p]
  <2>1. p \in 0 .. Len(queue)
    BY <1>1, <1>2
  <2>2. QED
    BY <1>1, <2>1, Dropped
<1> HIDE DEF front, back
<1>6. /\ queue' \in Seq(Reads) /\ Len(queue') = Len(front) + Len(back)
      /\ \A i \in 1 .. Len(front) + Len(back) : queue'[i] = IF i <= Len(front) THEN front[i] ELSE back[i - Len(front)]
  BY <1>3, <1>4, <1>5, ConcatProperties
<1>7. Len(queue') = Len(queue) - 1
  BY <1>1, <1>2, <1>4, <1>5, <1>6
<1>8. ASSUME NEW i \in 1 .. p - 1 PROVE queue'[i] = queue[i]
  <2>1. i \in 1 .. Len(front) + Len(back) /\ i <= Len(front) /\ front[i] = queue[i]
    BY <1>1, <1>2, <1>4, <1>5
  <2>2. QED
    BY <1>6, <2>1
<1>9. ASSUME NEW i \in p .. Len(queue') PROVE queue'[i] = queue[i + 1]
  <2>1. queue'[i] = back[i - (p - 1)] /\ i - (p - 1) \in 1 .. Len(queue) - p
    BY <1>1, <1>2, <1>4, <1>5, <1>6, <1>7
  <2>2. back[i - (p - 1)] = queue[(i - (p - 1)) + p] /\ (i - (p - 1)) + p = i + 1
    BY <1>2, <1>5, <2>1
  <2>3. QED
    BY <2>1, <2>2
<1>10. \A i \in 1 .. Len(queue') : \E k \in 1 .. Len(queue) :
          k # p /\ queue'[i] = queue[k] /\ ((k = i /\ i < p) \/ (k = i + 1 /\ p <= i))
  BY <1>1, <1>2, <1>7, <1>8, <1>9
<1>11. ASSUME NEW k \in 1 .. Len(queue), k # p PROVE \E i \in 1 .. Len(queue') : queue'[i] = queue[k]
  <2>1. CASE k < p
    BY <1>1, <1>2, <1>7, <1>8, <2>1
  <2>2. CASE p < k
    <3>1. k - 1 \in p .. Len(queue') /\ k - 1 \in 1 .. Len(queue') /\ (k - 1) + 1 = k
      BY <1>1, <1>2, <1>7, <2>2
    <3>2. queue'[k - 1] = queue[k]
      BY <1>9, <3>1
    <3>3. QED
      BY <3>1, <3>2
  <2>3. QED
    BY <1>2, <1>11, <2>1, <2>2
<1>12. \A i, j \in 1 .. Len(queue') : queue'[i] = queue'[j] => i = j
  <2> SUFFICES ASSUME NEW i \in 1 .. Len(queue'), NEW j \in 1 .. Len(queue'), queue'[i] = queue'[j] PROVE i = j
    OBVIOUS
  <2>1. PICK k \in 1 .. Len(queue) : queue'[i] = queue[k] /\ ((k = i /\ i < p) \/ (k = i + 1 /\ p <= i))
    BY <1>10
  <2>2. PICK l \in 1 .. Len(queue) : queue'[j] = queue[l] /\ ((l = j /\ j < p) \/ (l = j + 1 /\ p <= j))
    BY <1>10
  <2>3. k = l
    BY <2>1, <2>2 DEF QueueOK
  <2>4. QED
    BY <1>2, <2>1, <2>2, <2>3
<1>13. ASSUME NEW q \in Reads PROVE read'[q] = "queued" <=> \E i \in 1 .. Len(queue') : queue'[i] = q
  <2>1. read'[q] = IF q = r THEN "serving" ELSE read[q]
    BY DEF DrainTypes
  <2>2. read[q] = "queued" <=> \E k \in 1 .. Len(queue) : queue[k] = q
    BY DEF QueueOK
  <2>3. \A k \in 1 .. Len(queue) : queue[k] = r => k = p
    BY <1>2 DEF QueueOK
  <2>4. CASE q = r
    BY <1>10, <2>1, <2>3, <2>4
  <2>5. CASE q # r
    BY <1>2, <1>10, <1>11, <2>1, <2>2, <2>5
  <2>6. QED
    BY <2>4, <2>5
<1>14. QED
  BY <1>6, <1>12, <1>13 DEF QueueOK

(* A completion begins.                                                    *)
LEMMA ServeStep ==
    ASSUME DrainInv, NEW r \in Reads, read[r] = "queued", NEW snap \in [taken : BOOLEAN, of : Textures],
           Serve(r, snap, stack), UNCHANGED <<waiting, pending, depth, table, faults, unwound>>,
           NEW c, c = Call("complete", r, snap),
           stack = << >> => Bottom(c),
           stack # << >> => Sits(c, stack[1]) /\ (Len(stack) > 1 => Two(c, stack[2])),
           Taken(c) => depth = 1,
           ~Taken(c) => table = None \/ (table = Direct /\ Len(stack) > 1)
    PROVE  DrainInv'
<1> USE DEF DrainInv
<1>1. /\ DrainTypes /\ Unlink(r) /\ read' = [read EXCEPT ![r] = "serving"]
      /\ awaited' \in {None, awaited} /\ stack' = <<c>> \o stack
  BY DEF Serve
<1>2. \A q \in Reads : read'[q] = IF q = r THEN "serving" ELSE read[q]
  BY <1>1 DEF DrainTypes
<1>3. queue' \in Seq(Reads) /\ QueueOK'
  BY <1>1, Unlinked
<1>4. DrainTypes'
  BY <1>1, <1>3 DEF DrainTypes, Stages
<1>5. c \in Frames /\ c.kind = "complete" /\ c.of = r /\ Well(c) /\ OfBuild(c)
  BY DEF Call, Frames, Textures, Well, OfBuild, OfUpload
<1>6. Sound(stack, waiting, depth, faults, read)
  BY DEF StackOK
<1>7. ~Builds(stack, r)
  BY <1>6 DEF Sound
<1>8. Sound(<<c>> \o stack, waiting, depth, faults, read')
  <2>1. c.kind = "wait" => ~Waits(stack)
    BY <1>5
  <2>2. c.kind = "drain" => ~Drains(stack)
    BY <1>5
  <2>3. OfBuild(c) => ~Builds(stack, c.of)
    BY <1>5, <1>7
  <2>4. waiting = TRUE \/ c.kind = "wait" => waiting = TRUE
    BY <1>5
  <2>5. depth = 1 \/ c.kind = "drain" \/ Taken(c) => depth = 1
    BY <1>5
  <2>6. \A q \in Reads : read[q] = "serving" \/ (OfBuild(c) /\ c.of = q) => read'[q] = "serving"
    BY <1>2, <1>5
  <2>7. MayPush(c, stack, waiting, depth, faults, read, waiting, depth, read')
    BY <1>5, <2>1, <2>2, <2>3, <2>4, <2>5, <2>6 DEF MayPush
  <2>8. QED
    BY <1>6, <2>7, SoundPush
<1>9. (<<c>> \o stack)[1] = c /\ <<c>> \o stack # << >> /\ Len(<<c>> \o stack) = Len(stack) + 1 /\ Len(stack) \in Nat
  BY <1>5, <1>6, HasPush, Pushed DEF Sound, Nested
<1>10. Fits(<<c>> \o stack, table)
  BY <1>5, <1>9 DEF Fits, OfUpload
<1>11. StackOK'
  <2>1. stack' = <<c>> \o stack /\ waiting' = waiting /\ depth' = depth /\ faults' = faults /\ table' = table
    BY <1>1
  <2>2. QED
    BY <1>8, <1>10, <2>1 DEF StackOK
<1>12. CountOK'
  BY <1>1, <1>2, SameCount
<1>13. QED
  BY <1>3, <1>4, <1>11, <1>12

LEMMA StackAtPump ==
    ASSUME DrainInv, stack # << >>, stack[1].kind = "wait"
    PROVE  Len(stack) > 1 /\ Sits(stack[1], stack[2]) /\ Kept(table, stack[2].of)
<1>1. Nested(stack) /\ Len(stack) \in Nat \ {0} /\ Fits(stack, table)
  BY TopFrame DEF DrainInv, StackOK
<1>2. Len(stack) # 1
  <2>1. ~Bottom(stack[1])
    BY DEF Bottom, OfBuild, OfUpload, Taken
  <2>2. QED
    BY <1>1, <2>1 DEF Nested
<1>3. 1 \in 1 .. Len(stack) - 1 /\ 1 + 1 = 2
  <2>1. \A n \in Nat \ {0} : n # 1 => 1 \in 1 .. n - 1
    OBVIOUS
  <2>2. Len(stack) \in Nat \ {0} /\ Len(stack) # 1
    BY <1>1, <1>2
  <2> DEFINE n == Len(stack)
  <2> HIDE DEF n
  <2>3. n \in Nat \ {0} /\ n # 1 => 1 \in 1 .. n - 1
    BY <2>1
  <2>4. 1 + 1 = 2
    OBVIOUS
  <2>5. QED
    BY <2>2, <2>3, <2>4 DEF n
<1>4. Sits(stack[1], stack[1 + 1])
  BY <1>1, <1>3 DEF Nested
<1>5. QED
  BY <1>1, <1>2, <1>3, <1>4 DEF Fits

(* A pump of the client's frame, or of a wait.                             *)
LEMMA PumpStep ==
    ASSUME DrainInv, hkAsyncDrain, UNCHANGED <<waiting, pending, table, directs, faults, unwound>>,
           stack = << >> \/ (stack # << >> /\ stack[1].kind = "wait")
    PROVE  DrainInv'
<1> USE DEF DrainInv
<1>1. DrainTypes /\ Sound(stack, waiting, depth, faults, read) /\ Fits(stack, table)
  BY DEF StackOK
<1>2. CASE depth > 0
  <2>1. DrainAwaitedOnly /\ depth' = depth /\ depth = 1
    BY <1>1, <1>2 DEF hkAsyncDrain, DrainTypes
  <2>2. CASE UNCHANGED <<queue, read, stack>> /\ awaited' \in {None, awaited}
    <3>1. DrainTypes'
      BY <1>1, <2>1, <2>2 DEF DrainTypes
    <3>2. QueueOK'
      BY <2>2, SameQueue
    <3>3. StackOK'
      BY <1>1, <2>1, <2>2 DEF StackOK
    <3>4. CountOK'
      BY <1>1, <2>2, SameCount
    <3>5. QED
      BY <3>1, <3>2, <3>3, <3>4
  <2>3. CASE awaited # None /\ Enqueued(awaited) /\ Serve(awaited, SnapshotMipTable, stack)
    <3> DEFINE c == Call("complete", awaited, SnapshotMipTable)
    <3>1. awaited \in Reads /\ read[awaited] = "queued"
      <4>1. awaited \in Reads /\ queue \in Seq(Reads)
        BY <1>1, <2>3 DEF DrainTypes
      <4>2. \E i \in 1 .. Len(queue) : queue[i] = awaited
        BY <2>3, <4>1 DEF Enqueued, ToSet
      <4>3. QED
        BY <4>1, <4>2 DEF QueueOK
    <3>2. SnapshotMipTable \in [taken : BOOLEAN, of : Textures]
      <4>1. TRUE \in BOOLEAN /\ table \in Textures
        BY <1>1 DEF DrainTypes
      <4>2. QED
        BY <4>1 DEF SnapshotMipTable
    <3>3. Taken(c) /\ c.kind = "complete" /\ c.snap.of = table
      BY DEF Taken, OfBuild, Call, SnapshotMipTable
    <3>4. stack = << >> => Bottom(c)
      BY <1>1, <3>3 DEF Bottom, Fits
    <3>5. stack # << >> => Sits(c, stack[1]) /\ (Len(stack) > 1 => Two(c, stack[2]))
      BY <3>3, StackAtPump DEF Sits, Two
    <3> HIDE DEF c
    <3>6. c = Call("complete", awaited, SnapshotMipTable)
      BY DEF c
    <3>7. QED
      BY <2>1, <2>3, <3>1, <3>2, <3>3, <3>4, <3>5, <3>6, ServeStep
  <2>4. QED
    BY <2>1, <2>2, <2>3 DEF DrainAwaitedOnly
<1>3. CASE ~(depth > 0)
  <2> DEFINE c == Call("drain", None, NoSnapshot)
  <2>1. depth = 0 /\ depth' = 1 /\ stack' = <<c>> \o stack /\ UNCHANGED <<queue, awaited, read>>
    BY <1>1, <1>3 DEF hkAsyncDrain, DrainTypes
  <2>2. c \in Frames /\ c.kind = "drain"
    <3>1. FALSE \in BOOLEAN
      OBVIOUS
    <3>2. NoSnapshot \in [taken : BOOLEAN, of : Textures]
      BY <3>1 DEF NoSnapshot, Textures
    <3>3. QED
      BY <3>2 DEF Call, Frames, Textures
  <2> HIDE DEF c
  <2>3. ~Drains(stack) /\ ~Snaps(stack)
    BY <1>1, <2>1 DEF Sound
  <2>4. stack # << >> => Len(stack) > 1 /\ stack[1].kind = "wait" /\ stack[2].of = Direct /\ Kept(table, stack[2].of)
    BY <1>1, <2>3, OutermostWait, StackAtPump DEF Sound
  <2>5. MayPush(c, stack, waiting, depth, faults, read, waiting, 1, read)
    <3>1. Well(c) /\ Bottom(c) /\ ~OfBuild(c) /\ ~Taken(c)
      BY <2>2 DEF Well, Bottom, OfBuild, OfUpload, Taken
    <3>2. stack # << >> => Sits(c, stack[1]) /\ Two(c, stack[2])
      BY <2>2, <2>4, <3>1 DEF Sits, Two
    <3>3. QED
      BY <2>2, <2>3, <3>1, <3>2 DEF MayPush
  <2>6. Sound(<<c>> \o stack, waiting, 1, faults, read)
    BY <1>1, <2>5, SoundPush
  <2>7. (<<c>> \o stack)[1] = c /\ Len(<<c>> \o stack) = Len(stack) + 1 /\ Len(stack) \in Nat
    BY <1>1, <2>2, Pushed DEF Sound, Nested
  <2>8. Fits(<<c>> \o stack, table)
    <3>1. table = None \/ (table = Direct /\ Len(stack) > 1)
      BY <1>1, <2>4 DEF Fits, Kept
    <3>2. QED
      BY <2>2, <2>7, <3>1 DEF Fits, OfUpload, OfBuild
  <2>9. StackOK'
    <3>1. stack' = <<c>> \o stack /\ waiting' = waiting /\ depth' = 1 /\ faults' = faults /\ read' = read /\ table' = table
      BY <2>1
    <3>2. QED
      BY <2>6, <2>8, <3>1 DEF StackOK
  <2>10. DrainTypes' /\ QueueOK' /\ CountOK'
    <3>1. DrainTypes'
      BY <1>1, <2>1 DEF DrainTypes
    <3>2. QueueOK'
      BY <2>1, SameQueue
    <3>3. CountOK'
      BY <1>1, <2>1, SameCount
    <3>4. QED
      BY <3>1, <3>2, <3>3
  <2>11. QED
    BY <2>9, <2>10
<1>4. QED
  BY <1>2, <1>3

(* A call ends.                                                            *)
MayPop(s, w, d, rd, w2, d2, rd2) ==
    /\ w = TRUE /\ s[1].kind # "wait" => w2 = TRUE
    /\ (d2 = d /\ s[1].kind # "drain") \/ (d2 = 0 /\ s[1].kind = "drain")
    /\ \A r \in Reads : rd[r] = "serving" /\ ~(OfBuild(s[1]) /\ s[1].of = r) => rd2[r] = "serving"

LEMMA SoundTail ==
    ASSUME NEW s, NEW w, NEW d, NEW f, NEW rd, Sound(s, w, d, f, rd), s # << >>,
           NEW w2, NEW d2, NEW rd2, MayPop(s, w, d, rd, w2, d2, rd2)
    PROVE  Sound(Tail(s), w2, d2, f, rd2)
<1> DEFINE t == Tail(s)
<1>1. Nested(s)
  BY DEF Sound
<1>2. Nested(t)
  BY <1>1, Popped
<1>3. /\ Waits(t) => Waits(s) /\ s[1].kind # "wait"
      /\ Drains(t) <=> Drains(s) /\ s[1].kind # "drain"
      /\ Snaps(t) => Snaps(s)
      /\ \A r : Builds(t, r) => Builds(s, r) /\ ~(OfBuild(s[1]) /\ s[1].of = r)
  BY <1>1, HasPop
<1>4. s[1].kind = "drain" => ~Drains(t) /\ ~Snaps(t)
  BY <1>1, DrainIsLow
<1> HIDE DEF t
<1>5. Waits(t) => w2 = TRUE
  BY <1>3 DEF Sound, MayPop
<1>6. Drains(t) \/ Snaps(t) => d2 = 1
  BY <1>3, <1>4 DEF Sound, MayPop
<1>7. f = 0 /\ d2 = 1 => Drains(t)
  BY <1>3 DEF Sound, MayPop
<1>8. \A r \in Reads : Builds(t, r) => rd2[r] = "serving"
  BY <1>3 DEF Sound, MayPop
<1>9. QED
  BY <1>2, <1>5, <1>6, <1>7, <1>8 DEF Sound, t

LEMMA OrigDrainStep ==
    ASSUME DrainInv, OrigAsyncDrain
    PROVE  DrainInv'
<1> USE DEF DrainInv
<1>1. /\ DrainTypes /\ Sound(stack, waiting, depth, faults, read) /\ Fits(stack, table)
      /\ stack # << >> /\ stack[1].kind = "drain" /\ Nested(stack) /\ Len(stack) \in Nat \ {0}
      /\ UNCHANGED <<waiting, pending, table, directs, faults, unwound>>
  <2>1. stack # << >> /\ UNCHANGED <<waiting, pending, table, directs, faults, unwound>>
    BY DEF OrigAsyncDrain, At
  <2>2. QED
    BY <2>1, TopFrame DEF StackOK, OrigAsyncDrain, At
<1>2. depth = 1 /\ (table = None \/ (table = Direct /\ Len(stack) > 1))
  <2>1. Drains(stack)
    BY <1>1 DEF Drains
  <2>2. QED
    BY <1>1, <2>1 DEF Sound, Fits
<1>3. CASE queue = << >>
  <2>1. depth' = 0 /\ stack' = Tail(stack) /\ UNCHANGED <<queue, awaited, read>>
    BY <1>2, <1>3 DEF OrigAsyncDrain, Leave
  <2>2. MayPop(stack, waiting, depth, read, waiting, 0, read)
    BY <1>1 DEF MayPop, OfBuild
  <2>3. Sound(Tail(stack), waiting, 0, faults, read)
    BY <1>1, <2>2, SoundTail
  <2>4. Fits(Tail(stack), table)
    <3>1. /\ Tail(stack) # << >> => stack[2].kind = "wait" /\ stack[3].of = Direct
          /\ Nested(Tail(stack)) /\ Len(Tail(stack)) = Len(stack) - 1
          /\ \A i \in 1 .. Len(stack) - 1 : Tail(stack)[i] = stack[i + 1]
      BY <1>1, DrainIsLow, Popped
    <3> DEFINE t == Tail(stack)
    <3>2. CASE t = << >>
      <4>0. Len(t) = 0 /\ Len(t) = Len(stack) - 1
        BY <3>1, <3>2
      <4>1. Len(stack) = 1
        BY <1>1, <4>0
      <4>2. table = None
        BY <1>2, <4>1
      <4>3. QED
        BY <3>2, <4>2 DEF Fits
    <3>3. CASE t # << >>
      <4>1. t[1] = stack[2]
        BY <1>1, <3>3, HasPop
      <4>2. ~Bottom(t[1])
        BY <3>1, <3>3, <4>1 DEF Bottom, OfBuild, OfUpload, Taken
      <4>3. Len(t) \in Nat \ {0}
        BY <3>1, <3>3, Popped
      <4>4. Len(t) # 1
        BY <3>1, <3>3, <4>2 DEF Nested
      <4>5. 2 \in 1 .. Len(stack) - 1
        BY <1>1, <3>1, <4>3, <4>4
      <4>6. t[2] = stack[2 + 1]
        BY <3>1, <4>5
      <4>7. t[2] = stack[3]
        <5>1. 2 + 1 = 3
          OBVIOUS
        <5>2. QED
          BY <4>6, <5>1
      <4> HIDE DEF t
      <4>8. Kept(table, t[2].of) /\ t[1].kind = "wait"
        BY <1>2, <3>1, <3>3, <4>1, <4>7 DEF Kept, t
      <4>9. QED
        BY <3>3, <4>8 DEF Fits, OfUpload, OfBuild, t
    <3>4. QED
      BY <3>2, <3>3
  <2>5. StackOK'
    <3>1. stack' = Tail(stack) /\ waiting' = waiting /\ depth' = 0 /\ faults' = faults /\ read' = read /\ table' = table
      BY <1>1, <2>1
    <3>2. QED
      BY <2>3, <2>4, <3>1 DEF StackOK
  <2>6. DrainTypes'
    BY <1>1, <2>1 DEF DrainTypes
  <2>7. QueueOK'
    BY <2>1, SameQueue
  <2>8. CountOK'
    BY <1>1, <2>1, SameCount
  <2>9. QED
    BY <2>5, <2>6, <2>7, <2>8
<1>4. CASE queue # << >>
  <2> DEFINE r == Head(queue)
             c == Call("complete", r, NoSnapshot)
  <2>1. r \in Reads /\ read[r] = "queued"
    <3>1. queue \in Seq(Reads)
      BY <1>1 DEF DrainTypes
    <3>2. r = queue[1] /\ 1 \in 1 .. Len(queue) /\ r \in Reads
      BY <1>4, <3>1
    <3>3. QED
      BY <3>2 DEF QueueOK
  <2>2. Serve(r, NoSnapshot, stack) /\ depth' = depth
    BY <1>4 DEF OrigAsyncDrain
  <2>3. NoSnapshot \in [taken : BOOLEAN, of : Textures]
    <3>1. FALSE \in BOOLEAN
      OBVIOUS
    <3>2. QED
      BY <3>1 DEF NoSnapshot, Textures
  <2>4. ~Taken(c) /\ c.kind = "complete"
    <3>1. c.snap.taken = FALSE /\ c.kind = "complete"
      BY DEF Call, NoSnapshot
    <3>2. QED
      BY <3>1 DEF Taken
  <2>5. c = Call("complete", r, NoSnapshot)
    OBVIOUS
  <2> HIDE DEF c, r
  <2>6. stack # << >> => Sits(c, stack[1]) /\ (Len(stack) > 1 => Two(c, stack[2]))
    BY <1>1, <2>4 DEF Sits, Two, OfBuild
  <2>7. QED
    BY <1>1, <1>2, <2>1, <2>2, <2>3, <2>4, <2>5, <2>6, ServeStep
<1>5. QED
  BY <1>3, <1>4

(* What the innermost call becomes.                                        *)
LEMMA BecomesFrame ==
    ASSUME NEW c0 \in Frames, NEW k \in {"complete", "built", "upload", "copied"}, Well(c0),
           (OfBuild(c0) /\ k = "built") \/ (OfUpload(c0) /\ k = "copied")
    PROVE  LET c == [c0 EXCEPT !.kind = k]
           IN  /\ c \in Frames /\ Well(c) /\ c.kind = k /\ c.of = c0.of /\ c.snap = c0.snap
               /\ (OfBuild(c) /\ OfBuild(c0)) \/ (OfUpload(c) /\ OfUpload(c0))
               /\ Taken(c) <=> Taken(c0)
<1> DEFINE c == [c0 EXCEPT !.kind = k]
<1>1. c \in Frames /\ c.kind = k /\ c.of = c0.of /\ c.snap = c0.snap
  BY DEF Frames
<1> HIDE DEF c
<1>2. (OfBuild(c) /\ OfBuild(c0)) \/ (OfUpload(c) /\ OfUpload(c0))
  BY <1>1 DEF OfBuild, OfUpload
<1>3. Well(c)
  BY <1>1, <1>2 DEF Well, OfBuild, OfUpload
<1>4. Taken(c) <=> Taken(c0)
  BY <1>1, <1>2 DEF Taken, OfBuild, OfUpload
<1>5. QED
  BY <1>1, <1>2, <1>3, <1>4 DEF c

LEMMA BecomeKeeps ==
    ASSUME DrainInv, stack # << >>, NEW k \in {"complete", "built", "upload", "copied"},
           (OfBuild(stack[1]) /\ k = "built") \/ (OfUpload(stack[1]) /\ k = "copied")
    PROVE  LET t == Become(k)
           IN  /\ Sound(t, waiting, depth, faults, read) /\ t # << >> /\ Len(t) = Len(stack)
               /\ t[1] \in Frames /\ Well(t[1]) /\ t[1].kind = k /\ t[1].of = stack[1].of
               /\ Taken(t[1]) <=> Taken(stack[1])
<1> DEFINE c == [stack[1] EXCEPT !.kind = k]
           t == <<c>> \o Tail(stack)
<1>1. stack[1] \in Frames /\ Well(stack[1]) /\ Become(k) = t
  BY TopFrame DEF Become
<1>2. /\ c \in Frames /\ Well(c) /\ c.kind = k /\ c.of = stack[1].of /\ c.snap = stack[1].snap
      /\ (OfBuild(c) /\ OfBuild(stack[1])) \/ (OfUpload(c) /\ OfUpload(stack[1]))
      /\ Taken(c) <=> Taken(stack[1])
  BY <1>1, BecomesFrame
<1> HIDE DEF c
<1>3. Sound(stack, waiting, depth, faults, read)
  BY DEF DrainInv, StackOK
<1>4. Sound(t, waiting, depth, faults, read)
  BY <1>2, <1>3, SoundGoesOn
<1>5. Tail(stack) \in Seq(Frames) /\ Len(Tail(stack)) = Len(stack) - 1 /\ Len(stack) \in Nat \ {0}
  BY <1>3, Popped DEF Sound, Nested
<1>6. t[1] = c /\ Len(t) = Len(Tail(stack)) + 1 /\ t \in Seq(Frames)
  BY <1>2, <1>5, Pushed
<1> HIDE DEF t
<1>7. Len(t) = Len(stack) /\ t # << >>
  BY <1>5, <1>6
<1>8. QED
  BY <1>1, <1>2, <1>4, <1>6, <1>7

LEMMA SameRest ==
    ASSUME DrainInv, UNCHANGED <<read, queue, awaited, pending, faults, unwound>>,
           waiting' \in BOOLEAN, depth' = depth, table' \in Textures
    PROVE  DrainTypes' /\ QueueOK' /\ CountOK'
<1>1. DrainTypes'
  BY DEF DrainInv, DrainTypes
<1>2. QueueOK'
  BY SameQueue
<1>3. CountOK'
  BY SameCount DEF DrainInv
<1>4. QED
  BY <1>1, <1>2, <1>3

LEMMA CompleteStep ==
    ASSUME DrainInv, Complete
    PROVE  DrainInv'
<1>1. /\ stack # << >> /\ stack[1].kind = "complete" /\ OfBuild(stack[1]) /\ stack[1].of \in Reads
      /\ Top = stack[1] /\ Fits(stack, table) /\ table \in Textures
  <2>1. stack # << >> /\ Top.kind = "complete"
    BY DEF Complete, At
  <2>2. Top = stack[1] /\ Well(stack[1]) /\ Fits(stack, table) /\ table \in Textures
    BY <2>1, TopFrame DEF DrainInv, DrainTypes, StackOK
  <2>3. QED
    BY <2>1, <2>2 DEF OfBuild, Well
<1> DEFINE t == Become("built")
<1>2. /\ Sound(t, waiting, depth, faults, read) /\ t # << >> /\ Len(t) = Len(stack)
      /\ t[1] \in Frames /\ Well(t[1]) /\ t[1].kind = "built" /\ t[1].of = stack[1].of
      /\ Taken(t[1]) <=> Taken(stack[1])
  BY <1>1, BecomeKeeps
<1> HIDE DEF t
<1>3. UNCHANGED <<read, queue, awaited, waiting, pending, depth, directs, faults, unwound>>
  BY DEF Complete
<1>4. waiting' \in BOOLEAN
  BY <1>3 DEF DrainInv, DrainTypes
<1>5. CASE table' = Top.of /\ stack' = <<Call("upload", Top.of, NoSnapshot)>> \o Become("built")
  <2> DEFINE c == Call("upload", Top.of, NoSnapshot)
  <2>1. c \in Frames /\ c.kind = "upload" /\ c.of = stack[1].of /\ c.of \in Reads
    <3>1. FALSE \in BOOLEAN
      OBVIOUS
    <3>2. NoSnapshot \in [taken : BOOLEAN, of : Textures]
      BY <3>1 DEF NoSnapshot, Textures
    <3>3. QED
      BY <1>1, <3>2 DEF Call, Frames, Textures
  <2> HIDE DEF c
  <2>2. MayPush(c, t, waiting, depth, faults, read, waiting, depth, read)
    <3>1. Well(c) /\ OfUpload(c) /\ ~OfBuild(c) /\ ~Taken(c)
      BY <2>1 DEF Well, OfUpload, OfBuild, Taken
    <3>2. Sits(c, t[1]) /\ Two(c, t[2])
      BY <1>2, <2>1, <3>1 DEF Sits, Two
    <3>3. QED
      BY <1>2, <2>1, <3>1, <3>2 DEF MayPush
  <2>3. Sound(<<c>> \o t, waiting, depth, faults, read)
    BY <1>2, <2>2, SoundPush
  <2>4. (<<c>> \o t)[1] = c /\ <<c>> \o t # << >>
    BY <1>2, <2>1, HasPush DEF Sound
  <2>5. Fits(<<c>> \o t, stack[1].of)
    BY <2>1, <2>4 DEF Fits, OfUpload, OfBuild, Kept
  <2>6. StackOK'
    <3>1. stack' = <<c>> \o t /\ waiting' = waiting /\ depth' = depth /\ faults' = faults /\ read' = read /\ table' = stack[1].of
      BY <1>1, <1>3, <1>5 DEF c, t
    <3>2. QED
      BY <2>3, <2>5, <3>1 DEF StackOK
  <2>7. table' \in Textures
    BY <1>1, <1>5 DEF Textures
  <2>8. QED
    BY <1>3, <1>4, <2>6, <2>7, SameRest DEF DrainInv
<1>6. CASE UNCHANGED table /\ stack' = Become("built")
  <2>1. Fits(t, table)
    BY <1>1, <1>2 DEF Fits, OfUpload, OfBuild
  <2>2. StackOK'
    <3>1. stack' = t /\ waiting' = waiting /\ depth' = depth /\ faults' = faults /\ read' = read /\ table' = table
      BY <1>3, <1>6 DEF t
    <3>2. QED
      BY <1>2, <2>1, <3>1 DEF StackOK
  <2>3. QED
    BY <1>1, <1>3, <1>4, <1>6, <2>2, SameRest DEF DrainInv
<1>7. QED
  BY <1>5, <1>6 DEF Complete

(* The end of the innermost call, when something below stays.              *)
LEMMA BelowTop ==
    ASSUME NEW s, Nested(s), s # << >>, ~Bottom(s[1])
    PROVE  /\ Len(s) > 1 /\ Len(s) \in Nat /\ Sits(s[1], s[2]) /\ Well(s[2]) /\ s[2] \in Frames
           /\ Tail(s) # << >> /\ Tail(s)[1] = s[2] /\ Len(Tail(s)) = Len(s) - 1
           /\ (Len(s) > 2 => Tail(s)[2] = s[3] /\ Two(s[1], s[3]) /\ Sits(s[2], s[3]))
<1>1. /\ Len(s) \in Nat \ {0} /\ Len(Tail(s)) = Len(s) - 1
      /\ \A i \in 1 .. Len(s) - 1 : Tail(s)[i] = s[i + 1]
  BY Popped
<1>2. Len(s) # 1
  BY DEF Nested
<1>3. 1 \in 1 .. Len(s) - 1 /\ 2 \in 1 .. Len(s) /\ Len(s) > 1
  BY <1>1, <1>2
<1>4. Tail(s)[1] = s[2] /\ Sits(s[1], s[2])
  <2>1. Tail(s)[1] = s[1 + 1] /\ Sits(s[1], s[1 + 1])
    BY <1>1, <1>3 DEF Nested
  <2>2. 1 + 1 = 2
    OBVIOUS
  <2>3. QED
    BY <2>1, <2>2
<1>5. Well(s[2]) /\ s[2] \in Frames
  BY <1>3 DEF Nested
<1>6. Tail(s) # << >>
  <2>1. Len(Tail(s)) # 0
    BY <1>1, <1>2
  <2> DEFINE t == Tail(s)
  <2> HIDE DEF t
  <2>2. Len(t) # 0 => t # << >>
    OBVIOUS
  <2>3. QED
    BY <2>1, <2>2 DEF t
<1>7. ASSUME Len(s) > 2 PROVE Tail(s)[2] = s[3] /\ Two(s[1], s[3]) /\ Sits(s[2], s[3])
  <2>1. 2 \in 1 .. Len(s) - 1 /\ 1 \in 1 .. Len(s) - 2
    BY <1>1, <1>7
  <2>2. Tail(s)[2] = s[2 + 1] /\ Two(s[1], s[1 + 2]) /\ Sits(s[2], s[2 + 1])
    BY <1>1, <2>1 DEF Nested
  <2>3. 1 + 2 = 3 /\ 2 + 1 = 3
    OBVIOUS
  <2>4. QED
    BY <2>2, <2>3
<1>8. QED
  BY <1>1, <1>3, <1>4, <1>5, <1>6, <1>7

LEMMA CompletedStep ==
    ASSUME DrainInv, Completed
    PROVE  DrainInv'
<1> DEFINE c == stack[1]
           r == c.of
<1>1. stack # << >> /\ Top.kind = "built"
  BY DEF Completed, At
<1>2. /\ Top = c /\ Nested(stack) /\ Fits(stack, table) /\ DrainTypes /\ CountOK
      /\ Sound(stack, waiting, depth, faults, read)
  BY <1>1, TopFrame DEF DrainInv, StackOK
<1>3. c.kind = "built" /\ OfBuild(c) /\ r \in Reads /\ read[r] = "serving"
      /\ c.snap \in [taken : BOOLEAN, of : Textures]
  <2>1. c.kind = "built" /\ OfBuild(c)
    BY <1>1, <1>2 DEF OfBuild
  <2>2. Well(c) /\ c \in Frames /\ (OfBuild(c) => read[c.of] = "serving")
    BY <1>1, TopFrame
  <2>3. c.snap \in [taken : BOOLEAN, of : Textures]
    BY <2>2 DEF Frames
  <2>4. QED
    BY <2>1, <2>2, <2>3 DEF Well
<1>4. /\ table' = RestoreMipTable(c.snap) /\ pending' = pending - 1 /\ read' = [read EXCEPT ![r] = "done"]
      /\ stack' = Tail(stack) /\ UNCHANGED <<queue, awaited, waiting, depth, directs, faults, unwound>>
  BY <1>2 DEF Completed
<1> HIDE DEF r
<1>5. \A q \in Reads : read'[q] = IF q = r THEN "done" ELSE read[q]
  BY <1>2, <1>4 DEF DrainTypes
<1>6. /\ Taken(c) => table' = c.snap.of
      /\ ~Taken(c) => table' = table
  <2>1. c.snap.taken = TRUE \/ c.snap.taken = FALSE
    BY <1>3
  <2>2. CASE c.snap.taken = TRUE
    BY <1>3, <1>4, <2>2 DEF Taken, RestoreMipTable
  <2>3. CASE c.snap.taken = FALSE
    BY <1>3, <1>4, <2>3 DEF Taken, RestoreMipTable
  <2>4. QED
    BY <2>1, <2>2, <2>3
<1>7. table' \in Textures
  <2>1. c.snap.of \in Textures /\ table \in Textures
    BY <1>2, <1>3 DEF DrainTypes
  <2>2. QED
    BY <1>6, <2>1
<1>8. DrainTypes'
  <2>1. read' \in [Reads -> Stages]
    BY <1>2, <1>4 DEF DrainTypes, Stages
  <2>2. pending' \in Int
    BY <1>2, <1>4 DEF DrainTypes
  <2>3. QED
    BY <1>2, <1>4, <1>7, <2>1, <2>2 DEF DrainTypes
<1>9. QueueOK'
  BY <1>3, <1>4, <1>5, SameQueue
<1>10. CountOK'
  <2>1. Cardinality(Counted') = Cardinality(Counted) - 1 /\ Cardinality(Counted) \in Nat
    BY <1>2, <1>3, <1>4, OneLess
  <2>2. QED
    BY <1>2, <1>4, <2>1 DEF CountOK, DrainTypes
<1>11. Sound(Tail(stack), waiting, depth, faults, read')
  <2>1. MayPop(stack, waiting, depth, read, waiting, depth, read')
    <3>1. \A q \in Reads : read[q] = "serving" /\ ~(OfBuild(stack[1]) /\ stack[1].of = q) => read'[q] = "serving"
      BY <1>3, <1>5 DEF r
    <3>2. QED
      BY <1>3, <3>1 DEF MayPop
  <2>2. QED
    BY <1>1, <1>2, <2>1, SoundTail
<1>12. Fits(Tail(stack), table')
  <2>1. CASE Bottom(c) /\ Tail(stack) = << >>
    <3>1. Taken(c) /\ c.snap.of = None
      BY <1>3, <2>1 DEF Bottom, OfBuild, OfUpload
    <3>2. QED
      BY <1>6, <2>1, <3>1 DEF Fits
  <2>2. CASE Tail(stack) # << >>
    <3>1. /\ Tail(stack)[1] = stack[2] /\ Sits(c, stack[2]) /\ Len(stack) > 1
          /\ Len(Tail(stack)) = Len(stack) - 1 /\ Nested(Tail(stack))
          /\ \A i \in 1 .. Len(stack) - 1 : Tail(stack)[i] = stack[i + 1]
          /\ Len(stack) \in Nat
      BY <1>1, <1>2, <2>2, HasPop, Popped
    <3>2. CASE Taken(c)
      <4>1. stack[2].kind = "wait"
        BY <1>3, <3>1, <3>2 DEF Sits, OfUpload, OfBuild
      <4>2. ~Bottom(Tail(stack)[1])
        BY <3>1, <4>1 DEF Bottom, OfUpload, OfBuild, Taken
      <4>3. Len(Tail(stack)) > 1 /\ Tail(stack)[2] = stack[3]
        <5>1. Len(Tail(stack)) > 1
          BY <2>2, <3>1, <4>2, BelowTop
        <5>2. 2 \in 1 .. Len(stack) - 1
          BY <3>1, <5>1
        <5>3. Tail(stack)[2] = stack[2 + 1] /\ 2 + 1 = 3
          BY <3>1, <5>2
        <5>4. QED
          BY <5>1, <5>3
      <4>4. Two(c, stack[3])
        <5>1. 1 \in 1 .. Len(stack) - 2
          BY <3>1, <4>3
        <5>2. Two(stack[1], stack[1 + 2])
          BY <1>2, <5>1 DEF Nested
        <5>3. 1 + 2 = 3
          OBVIOUS
        <5>4. QED
          BY <5>2, <5>3
      <4>5. Kept(table', Tail(stack)[2].of)
        BY <1>6, <3>2, <4>3, <4>4 DEF Two
      <4>6. QED
        BY <2>2, <3>1, <4>1, <4>5 DEF Fits, OfUpload, OfBuild
    <3>3. CASE ~Taken(c)
      <4>1. stack[2].kind = "drain"
        BY <1>3, <3>1, <3>3 DEF Sits, OfUpload, OfBuild
      <4>2. table' = None \/ (table' = Direct /\ Len(stack) > 2)
        BY <1>1, <1>2, <1>3, <1>6, <3>3 DEF Fits
      <4>3. QED
        BY <2>2, <3>1, <4>1, <4>2 DEF Fits, OfUpload, OfBuild
    <3>4. QED
      BY <3>2, <3>3
  <2>3. Bottom(c) \/ Tail(stack) # << >>
    BY <1>1, <1>2, BelowTop
  <2>4. QED
    BY <2>1, <2>2, <2>3
<1>13. StackOK'
  <2>1. stack' = Tail(stack) /\ waiting' = waiting /\ depth' = depth /\ faults' = faults
    BY <1>4
  <2>2. QED
    BY <1>11, <1>12, <2>1 DEF StackOK
<1>14. QED
  BY <1>8, <1>9, <1>10, <1>13 DEF DrainInv

LEMMA DirectStep ==
    ASSUME DrainInv, DirectUpload
    PROVE  DrainInv'
<1> DEFINE c == Call("upload", Direct, NoSnapshot)
<1>1. /\ stack = << >> /\ table' = Direct /\ stack' = <<c>> \o stack
      /\ UNCHANGED <<read, queue, awaited, waiting, pending, depth, faults, unwound>>
      /\ Sound(stack, waiting, depth, faults, read)
  <2>1. stack = << >> /\ table' = Direct /\ stack' = <<c>>
        /\ UNCHANGED <<read, queue, awaited, waiting, pending, depth, faults, unwound>>
    BY DEF DirectUpload
  <2>2. <<c>> = <<c>> \o << >>
    OBVIOUS
  <2>3. QED
    BY <2>1, <2>2 DEF DrainInv, StackOK
<1>2. c \in Frames /\ c.kind = "upload" /\ c.of = Direct
  <2>1. FALSE \in BOOLEAN
    OBVIOUS
  <2>2. NoSnapshot \in [taken : BOOLEAN, of : Textures]
    BY <2>1 DEF NoSnapshot, Textures
  <2>3. QED
    BY <2>2 DEF Call, Frames, Textures
<1> HIDE DEF c
<1>3. MayPush(c, stack, waiting, depth, faults, read, waiting, depth, read)
  <2>1. Well(c) /\ Bottom(c) /\ ~OfBuild(c) /\ ~Taken(c)
    BY <1>2 DEF Well, Bottom, OfUpload, OfBuild, Taken
  <2>2. QED
    BY <1>1, <1>2, <2>1 DEF MayPush
<1>4. Sound(<<c>> \o stack, waiting, depth, faults, read)
  BY <1>1, <1>3, SoundPush
<1>5. (<<c>> \o stack)[1] = c /\ <<c>> \o stack # << >>
  BY <1>1, <1>2, HasPush DEF Sound
<1>6. Fits(<<c>> \o stack, Direct)
  BY <1>2, <1>5 DEF Fits, OfUpload, OfBuild, Kept
<1>7. StackOK'
  <2>1. stack' = <<c>> \o stack /\ waiting' = waiting /\ depth' = depth /\ faults' = faults /\ read' = read /\ table' = Direct
    BY <1>1
  <2>2. QED
    BY <1>4, <1>6, <2>1 DEF StackOK
<1>8. waiting' \in BOOLEAN /\ table' \in Textures
  BY <1>1 DEF DrainInv, DrainTypes, Textures
<1>9. QED
  BY <1>1, <1>7, <1>8, SameRest DEF DrainInv

LEMMA WaitStep ==
    ASSUME DrainInv, NEW r \in Reads, AsyncFileReadWait(r)
    PROVE  DrainInv'
<1> DEFINE c == Call("wait", r, NoSnapshot)
<1>1. /\ stack # << >> /\ Top.kind = "upload" /\ waiting' = TRUE /\ awaited' = r /\ stack' = <<c>> \o stack
      /\ waiting # TRUE /\ UNCHANGED <<queue, depth, table, directs, faults, unwound>>
      /\ read[r] \in {"idle", "reading", "queued"}
      /\ IF read[r] = "idle"
         THEN read' = [read EXCEPT ![r] = "reading"] /\ pending' = pending + 1
         ELSE UNCHANGED <<read, pending>>
  BY DEF AsyncFileReadWait, At
<1>2. /\ stack[1].kind = "upload" /\ Fits(stack, table) /\ Sound(stack, waiting, depth, faults, read) /\ DrainTypes /\ CountOK
  BY <1>1, TopFrame DEF DrainInv, StackOK
<1>3. c \in Frames /\ c.kind = "wait" /\ c.of = r
  <2>1. FALSE \in BOOLEAN
    OBVIOUS
  <2>2. NoSnapshot \in [taken : BOOLEAN, of : Textures]
    BY <2>1 DEF NoSnapshot, Textures
  <2>3. QED
    BY <2>2 DEF Call, Frames, Textures
<1> HIDE DEF c
<1>4. /\ \A q \in Reads : read'[q] # read[q] => q = r /\ read[q] = "idle" /\ read'[q] = "reading"
      /\ read' \in [Reads -> Stages]
  BY <1>1, <1>2 DEF DrainTypes, Stages
<1>5. MayPush(c, stack, waiting, depth, faults, read, TRUE, depth, read')
  <2>1. Well(c) /\ ~OfBuild(c) /\ ~Taken(c) /\ Sits(c, stack[1]) /\ Two(c, stack[2])
    BY <1>2, <1>3 DEF Well, OfUpload, OfBuild, Taken, Sits, Two
  <2>2. ~Waits(stack)
    BY <1>1, <1>2 DEF Sound
  <2>3. \A q \in Reads : read[q] = "serving" => read'[q] = "serving"
    BY <1>4
  <2>4. QED
    BY <1>1, <1>3, <2>1, <2>2, <2>3 DEF MayPush
<1>6. Sound(<<c>> \o stack, TRUE, depth, faults, read')
  BY <1>2, <1>5, SoundPush
<1>7. (<<c>> \o stack)[1] = c /\ <<c>> \o stack # << >> /\ (<<c>> \o stack)[2] = stack[1]
  BY <1>1, <1>2, <1>3, HasPush DEF Sound
<1>8. Fits(<<c>> \o stack, table)
  <2>1. Kept(table, stack[1].of)
    BY <1>1, <1>2 DEF Fits, OfUpload
  <2>2. QED
    BY <1>3, <1>7, <2>1 DEF Fits, OfUpload, OfBuild
<1>9. StackOK'
  <2>1. stack' = <<c>> \o stack /\ waiting' = TRUE /\ depth' = depth /\ faults' = faults /\ table' = table
    BY <1>1
  <2>2. QED
    BY <1>6, <1>8, <2>1 DEF StackOK
<1>10. CountOK'
  <2>1. CASE read[r] = "idle"
    BY <1>1, <1>2, <2>1, OneMore
  <2>2. CASE read[r] # "idle"
    BY <1>1, <1>2, <2>2, SameCount
  <2>3. QED
    BY <2>1, <2>2
<1>11. QueueOK'
  BY <1>1, <1>4, SameQueue
<1>12. DrainTypes'
  <2>1. waiting' \in BOOLEAN
    BY <1>1
  <2>2. pending' \in Int
    BY <1>1, <1>2 DEF DrainTypes
  <2>3. QED
    BY <1>1, <1>2, <1>4, <2>1, <2>2 DEF DrainTypes
<1>13. QED
  BY <1>9, <1>10, <1>11, <1>12 DEF DrainInv

LEMMA WaitPumpsStep ==
    ASSUME DrainInv, WaitPumps
    PROVE  DrainInv'
<1>1. stack # << >> /\ Top.kind = "wait" /\ hkAsyncDrain /\ UNCHANGED <<waiting, pending, table, directs, faults, unwound>>
  BY DEF WaitPumps, At
<1>2. stack[1].kind = "wait"
  BY <1>1, TopFrame
<1>3. QED
  BY <1>1, <1>2, PumpStep

LEMMA WaitEndsStep ==
    ASSUME DrainInv, WaitEnds
    PROVE  DrainInv'
<1>1. /\ stack # << >> /\ Top.kind = "wait" /\ waiting' = FALSE /\ stack' = Tail(stack)
      /\ UNCHANGED <<read, queue, awaited, pending, depth, table, directs, faults, unwound>>
  BY DEF WaitEnds, At
<1>2. stack[1].kind = "wait" /\ Fits(stack, table) /\ Sound(stack, waiting, depth, faults, read) /\ Nested(stack) /\ DrainTypes
  BY <1>1, TopFrame DEF DrainInv, StackOK
<1>3. Sound(Tail(stack), FALSE, depth, faults, read)
  <2>1. MayPop(stack, waiting, depth, read, FALSE, depth, read)
    BY <1>2 DEF MayPop, OfBuild
  <2>2. QED
    BY <1>1, <1>2, <2>1, SoundTail
<1>4. /\ Sits(stack[1], stack[2]) /\ Tail(stack) # << >> /\ Tail(stack)[1] = stack[2]
  <2>1. ~Bottom(stack[1])
    BY <1>2 DEF Bottom, OfUpload, OfBuild, Taken
  <2>2. QED
    BY <1>1, <1>2, <2>1, BelowTop
<1>5. Fits(Tail(stack), table)
  <2>1. stack[2].kind = "upload" /\ Kept(table, stack[2].of)
    BY <1>1, <1>2, <1>4 DEF Fits, Sits, OfUpload, OfBuild, Taken
  <2>2. QED
    BY <1>4, <2>1 DEF Fits, OfUpload, OfBuild
<1>6. StackOK'
  <2>1. stack' = Tail(stack) /\ waiting' = FALSE /\ depth' = depth /\ faults' = faults /\ read' = read /\ table' = table
    BY <1>1
  <2>2. QED
    BY <1>3, <1>5, <2>1 DEF StackOK
<1>7. waiting' \in BOOLEAN /\ table' \in Textures
  BY <1>1, <1>2 DEF DrainTypes
<1>8. QED
  BY <1>1, <1>6, <1>7, SameRest DEF DrainInv

LEMMA CopyStep ==
    ASSUME DrainInv, Copy
    PROVE  DrainInv'
<1>1. /\ stack # << >> /\ Top.kind = "upload" /\ stack' = Become("copied")
      /\ UNCHANGED <<read, queue, awaited, waiting, pending, depth, table, directs, faults, unwound>>
  BY DEF Copy, At
<1>2. stack[1].kind = "upload" /\ Fits(stack, table) /\ waiting \in BOOLEAN /\ table \in Textures
  BY <1>1, TopFrame DEF DrainInv, StackOK, DrainTypes
<1> DEFINE t == Become("copied")
<1>3. /\ Sound(t, waiting, depth, faults, read) /\ t # << >> /\ t[1].kind = "copied" /\ t[1].of = stack[1].of
  BY <1>1, <1>2, BecomeKeeps DEF OfUpload
<1> HIDE DEF t
<1>4. Fits(t, table)
  BY <1>1, <1>2, <1>3 DEF Fits, OfUpload, OfBuild
<1>5. StackOK'
  <2>1. stack' = t /\ waiting' = waiting /\ depth' = depth /\ faults' = faults /\ read' = read /\ table' = table
    BY <1>1 DEF t
  <2>2. QED
    BY <1>3, <1>4, <2>1 DEF StackOK
<1>6. QED
  BY <1>1, <1>2, <1>5, SameRest DEF DrainInv

LEMMA TexUpdateStep ==
    ASSUME DrainInv, hkTexUpdate
    PROVE  DrainInv'
<1>1. /\ stack # << >> /\ Top.kind = "copied" /\ stack' = Tail(stack) /\ table' = None
      /\ UNCHANGED <<read, queue, awaited, waiting, pending, depth, directs, faults, unwound>>
  BY DEF hkTexUpdate, At, ClearedTable
<1>2. /\ stack[1].kind = "copied" /\ Sound(stack, waiting, depth, faults, read) /\ Nested(stack)
      /\ waiting \in BOOLEAN
  BY <1>1, TopFrame DEF DrainInv, StackOK, DrainTypes
<1>3. Sound(Tail(stack), waiting, depth, faults, read)
  <2>1. MayPop(stack, waiting, depth, read, waiting, depth, read)
    BY <1>2 DEF MayPop, OfBuild
  <2>2. QED
    BY <1>1, <1>2, <2>1, SoundTail
<1>4. Fits(Tail(stack), None)
  <2>1. CASE Tail(stack) = << >>
    BY <2>1 DEF Fits
  <2>2. CASE Tail(stack) # << >>
    <3>1. Tail(stack)[1] = stack[2] /\ Sits(stack[1], stack[2])
      BY <1>1, <1>2, <2>2, HasPop
    <3>2. stack[2].kind = "built"
      BY <1>2, <3>1 DEF Sits, OfUpload, OfBuild, Taken
    <3>3. QED
      BY <2>2, <3>1, <3>2 DEF Fits, OfUpload, OfBuild
  <2>3. QED
    BY <2>1, <2>2
<1>5. StackOK'
  <2>1. stack' = Tail(stack) /\ waiting' = waiting /\ depth' = depth /\ faults' = faults /\ read' = read /\ table' = None
    BY <1>1
  <2>2. QED
    BY <1>3, <1>4, <2>1 DEF StackOK
<1>6. waiting' \in BOOLEAN /\ table' \in Textures
  BY <1>1, <1>2 DEF Textures
<1>7. QED
  BY <1>1, <1>5, <1>6, SameRest DEF DrainInv

(* A fault: the guard of the innermost upload drops the calls above it,    *)
(* among them at most one completion, which is the innermost call of all.  *)
LEMMA FaultStep ==
    ASSUME DrainInv, SafeTextureUpdate
    PROVE  DrainInv'
<1>1. PICK g \in Guarded :
        LET lost == {i \in 1..g - 1 : stack[i].kind \in {"complete", "built"}}
        IN  /\ \A j \in Guarded : g <= j
            /\ stack' = SubSeq(stack, g + 1, Len(stack))
            /\ unwound' = unwound + Cardinality(lost)
            /\ read' = [r \in Reads |-> IF \E i \in lost : stack[i].of = r THEN "done" ELSE read[r]]
  BY DEF SafeTextureUpdate
<1> DEFINE lost == {i \in 1 .. g - 1 : OfBuild(stack[i])}
<1>2. /\ \A j \in Guarded : g <= j
      /\ stack' = SubSeq(stack, g + 1, Len(stack))
      /\ unwound' = unwound + Cardinality(lost)
      /\ read' = [r \in Reads |-> IF \E i \in lost : stack[i].of = r THEN "done" ELSE read[r]]
      /\ faults' = faults + 1 /\ table' = None /\ UNCHANGED <<queue, awaited, waiting, pending, depth, directs>>
  BY <1>1 DEF OfBuild, SafeTextureUpdate, ClearedTable
<1>3. /\ Nested(stack) /\ Sound(stack, waiting, depth, faults, read) /\ DrainTypes /\ CountOK
      /\ Len(stack) \in Nat /\ stack \in Seq(Frames)
  BY DEF DrainInv, StackOK, Sound, Nested
<1>4. /\ g \in 1 .. Len(stack) /\ g \in 0 .. Len(stack) /\ OfUpload(stack[g])
      /\ \A i \in 1 .. g - 1 : i \in 1 .. Len(stack) /\ ~OfUpload(stack[i])
  <2>1. g \in 1 .. Len(stack) /\ OfUpload(stack[g])
    BY DEF Guarded, OfUpload
  <2>2. ASSUME NEW i \in 1 .. g - 1 PROVE i \in 1 .. Len(stack) /\ ~OfUpload(stack[i])
    <3>1. i \in 1 .. Len(stack) /\ ~(g <= i)
      BY <1>3, <2>1
    <3>2. i \notin Guarded
      BY <1>2, <3>1
    <3>3. QED
      BY <3>1, <3>2 DEF Guarded, OfUpload
  <2>3. QED
    BY <1>3, <2>1, <2>2
<1>5. lost \subseteq {1}
  <2> SUFFICES ASSUME NEW i \in 1 .. g - 1, OfBuild(stack[i]), i # 1 PROVE FALSE
    OBVIOUS
  <2>1. i - 1 \in 1 .. Len(stack) - 1 /\ (i - 1) + 1 = i /\ i - 1 \in 1 .. g - 1
    BY <1>3, <1>4
  <2>2. Sits(stack[i - 1], stack[(i - 1) + 1])
    BY <1>3, <2>1 DEF Nested
  <2>3. Sits(stack[i - 1], stack[i]) /\ ~OfUpload(stack[i - 1])
    BY <1>4, <2>1, <2>2
  <2>4. QED
    BY <2>3 DEF Sits, OfUpload, OfBuild, Taken
<1>6. ASSUME NEW i \in lost PROVE stack[i].of \in Reads /\ read[stack[i].of] = "serving"
  <2>1. i \in 1 .. Len(stack) /\ OfBuild(stack[i])
    BY <1>4
  <2>2. Well(stack[i]) /\ Builds(stack, stack[i].of)
    BY <1>3, <2>1 DEF Nested, Builds
  <2>3. QED
    BY <1>3, <2>1, <2>2 DEF Well, Sound
<1> HIDE DEF lost
<1>7. \A q \in Reads : read'[q] = IF \E i \in lost : stack[i].of = q THEN "done" ELSE read[q]
  BY <1>2
<1>8. read' \in [Reads -> Stages]
  <2>1. read \in [Reads -> Stages]
    BY <1>3 DEF DrainTypes
  <2>2. QED
    BY <1>2, <2>1 DEF Stages
<1>9. Cardinality(lost) \in Nat /\ CountOK'
  <2>1. CASE lost = {}
    <3>1. Cardinality(lost) = 0
      BY <2>1, FS_EmptySet
    <3>2. CountOK'
      <4>1. unwound' = unwound
        BY <1>2, <1>3, <3>1 DEF DrainTypes
      <4>2. \A q \in Reads : read'[q] = read[q]
        BY <1>7, <2>1
      <4>3. QED
        BY <1>2, <1>3, <4>1, <4>2, SameCount
    <3>3. QED
      BY <3>1, <3>2
  <2>2. CASE lost = {1}
    <3> DEFINE r == stack[1].of
    <3>1. Cardinality(lost) = 1
      BY <2>2, FS_Singleton
    <3>2. r \in Reads /\ read[r] = "serving"
      BY <1>6, <2>2
    <3>3. read' = [read EXCEPT ![r] = "done"]
      BY <1>2, <1>3, <2>2 DEF DrainTypes
    <3> HIDE DEF r
    <3>4. Cardinality(Counted') = Cardinality(Counted) - 1 /\ Cardinality(Counted) \in Nat
      BY <1>3, <3>2, <3>3, OneLess
    <3>5. unwound' = unwound + 1 /\ pending' = pending /\ unwound \in Nat /\ pending = unwound + Cardinality(Counted)
      BY <1>2, <1>3, <3>1 DEF DrainTypes, CountOK
    <3>6. pending' = unwound' + Cardinality(Counted')
      BY <3>4, <3>5
    <3>7. QED
      BY <3>1, <3>6 DEF CountOK
  <2>3. QED
    BY <1>5, <2>1, <2>2
<1>10. DrainTypes'
  <2>1. table' \in Textures /\ faults' \in Nat /\ unwound' \in Nat
    BY <1>2, <1>3, <1>9 DEF DrainTypes, Textures
  <2>2. QED
    BY <1>2, <1>3, <1>8, <2>1 DEF DrainTypes
<1>11. QueueOK'
  <2>1. \A q \in Reads : read'[q] = "queued" <=> read[q] = "queued"
    BY <1>6, <1>7
  <2>2. QED
    BY <1>2, <2>1, SameQueue
<1>12. Sound(SubSeq(stack, g + 1, Len(stack)), waiting, depth, faults', read')
  <2>1. faults' # 0
    BY <1>2, <1>3 DEF DrainTypes
  <2>2. ASSUME NEW q \in Reads, read[q] = "serving", ~(\E i \in 1 .. g : OfBuild(stack[i]) /\ stack[i].of = q)
        PROVE  read'[q] = "serving"
    <3>1. ~\E i \in lost : stack[i].of = q
      <4>1. \A i \in lost : i \in 1 .. g /\ OfBuild(stack[i])
        BY <1>4 DEF lost
      <4>2. QED
        BY <2>2, <4>1
    <3>2. QED
      BY <1>7, <2>2, <3>1
  <2>3. QED
    BY <1>3, <1>4, <2>1, <2>2, SoundDrop
<1>13. Fits(SubSeq(stack, g + 1, Len(stack)), None)
  <2> DEFINE t == SubSeq(stack, g + 1, Len(stack))
  <2>1. /\ t \in Seq(Frames) /\ Len(t) = Len(stack) - g
        /\ \A i \in 1 .. Len(stack) - g : t[i] = stack[i + g]
    BY <1>3, <1>4, Dropped
  <2> HIDE DEF t
  <2>2. CASE t = << >>
    BY <2>2 DEF Fits, t
  <2>3. CASE t # << >>
    <3>1. 1 \in 1 .. Len(stack) - g /\ g \in 1 .. Len(stack) - 1
      BY <1>3, <1>4, <2>1, <2>3
    <3>2. t[1] = stack[1 + g] /\ 1 + g = g + 1
      BY <1>4, <2>1, <3>1
    <3>3. Sits(stack[g], stack[g + 1])
      BY <1>3, <3>1 DEF Nested
    <3>4. t[1].kind = "built"
      BY <1>4, <3>2, <3>3 DEF Sits, OfUpload, OfBuild, Taken
    <3>5. QED
      BY <2>3, <3>4 DEF Fits, OfUpload, OfBuild, t
  <2>4. QED
    BY <2>2, <2>3
<1>14. StackOK'
  <2>1. stack' = SubSeq(stack, g + 1, Len(stack)) /\ waiting' = waiting /\ depth' = depth /\ table' = None
    BY <1>2
  <2>2. QED
    BY <1>12, <1>13, <2>1 DEF StackOK
<1>15. QED
  BY <1>9, <1>10, <1>11, <1>14 DEF DrainInv

LEMMA SameDrain ==
    ASSUME DrainInv, UNCHANGED vars
    PROVE  DrainInv'
<1>1. UNCHANGED <<read, queue, awaited, waiting, pending, depth, table, stack, directs, faults, unwound>>
  BY DEF vars
<1>2. waiting' \in BOOLEAN /\ table' \in Textures
  BY <1>1 DEF DrainInv, DrainTypes
<1>3. StackOK'
  BY <1>1 DEF DrainInv, StackOK
<1>4. QED
  BY <1>1, <1>2, <1>3, SameRest DEF DrainInv

(* However pumps, waits, builds and faults nest, an upload copies from its *)
(* own mips.                                                               *)
THEOREM UploadSeesItsMipsAlways == Spec => []UploadSeesItsMips
<1>1. ASSUME DrainInv, Next PROVE DrainInv'
  <2>1. ASSUME NEW r \in Reads, Request(r) PROVE DrainInv'
    BY <1>1, <2>1, RequestStep
  <2>2. ASSUME NEW r \in Reads, Deliver(r) PROVE DrainInv'
    BY <1>1, <2>2, DeliverStep
  <2>3. ASSUME NEW r \in Reads, AsyncFileReadWait(r) PROVE DrainInv'
    BY <1>1, <2>3, WaitStep
  <2>4. CASE Pump
    BY <1>1, <2>4, PumpStep DEF Pump
  <2>5. CASE OrigAsyncDrain
    BY <1>1, <2>5, OrigDrainStep
  <2>6. CASE Complete
    BY <1>1, <2>6, CompleteStep
  <2>7. CASE Completed
    BY <1>1, <2>7, CompletedStep
  <2>8. CASE WaitPumps
    BY <1>1, <2>8, WaitPumpsStep
  <2>9. CASE WaitEnds
    BY <1>1, <2>9, WaitEndsStep
  <2>10. CASE Copy
    BY <1>1, <2>10, CopyStep
  <2>11. CASE hkTexUpdate
    BY <1>1, <2>11, TexUpdateStep
  <2>12. CASE DirectUpload
    BY <1>1, <2>12, DirectStep
  <2>13. CASE SafeTextureUpdate
    BY <1>1, <2>13, FaultStep
  <2>14. QED
    BY <1>1, <2>1, <2>2, <2>3, <2>4, <2>5, <2>6, <2>7, <2>8, <2>9, <2>10, <2>11, <2>12, <2>13 DEF Next, Thread
<1>2. DrainInv /\ [Next]_vars => DrainInv'
  BY <1>1, SameDrain
<1>3. QED
  BY <1>2, DrainInitInv, DrainInvHolds, PTL DEF Spec

=============================================================================
