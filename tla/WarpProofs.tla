----------------------------- MODULE WarpProofs -----------------------------
(***************************************************************************)
(* Proofs about WarpKernel, for rows of any length, any range of           *)
(* dimensions, any number of slots, and every warp, block and group size   *)
(* that the kernel may be instantiated with: what a slot gets is the       *)
(* statistics of its pair, and one thread alone writes it.                 *)
(*                                                                         *)
(* First the search and the slices, then what a lane finds and how two     *)
(* lanes' findings add up, then threads, groups and warps, and last the    *)
(* steps.                                                                  *)
(***************************************************************************)
EXTENDS WarpKernel, ProofLemmas

-----------------------------------------------------------------------------
(* The binary search. *)

Increasing(row) == row \in Seq(Int) /\ \A i, j \in DOMAIN row : i < j => row[i] < row[j]

(* k divides what lies from i to j into what is less than v, and the rest. *)
Divides(row, i, j, v, k) ==
  /\ k \in i .. j
  /\ \A m \in i .. k - 1 : row[m + 1] < v
  /\ \A m \in k .. j - 1 : v <= row[m + 1]

LEMMA OneDivision ==
  ASSUME NEW row, Increasing(row), NEW i \in Nat, NEW j \in i .. Len(row), NEW v \in Int,
         NEW k, Divides(row, i, j, v, k), NEW l, Divides(row, i, j, v, l)
  PROVE  k = l
<1> USE DEF Divides
<1>0. k \in i .. j /\ l \in i .. j /\ i \in Int /\ j \in Int /\ k \in Int /\ l \in Int
  OBVIOUS
<1>1. \A m \in i .. j - 1 : row[m + 1] \in Int
  BY DEF Increasing
<1>2. ~ (k < l)
  <2>1. SUFFICES ASSUME k < l PROVE FALSE
    OBVIOUS
  <2>2. k \in i .. l - 1 /\ k \in k .. j - 1 /\ k \in i .. j - 1
    BY <1>0, <2>1
  <2>3. row[k + 1] < v /\ v <= row[k + 1] /\ row[k + 1] \in Int
    BY <1>1, <2>2
  <2> QED
    BY <2>3
<1>3. ~ (l < k)
  <2>1. SUFFICES ASSUME l < k PROVE FALSE
    OBVIOUS
  <2>2. l \in i .. k - 1 /\ l \in l .. j - 1 /\ l \in i .. j - 1
    BY <1>0, <2>1
  <2>3. row[l + 1] < v /\ v <= row[l + 1] /\ row[l + 1] \in Int
    BY <1>1, <2>2
  <2> QED
    BY <2>3
<1> QED
  BY <1>0, <1>2, <1>3

LEMMA SomeDivision ==
  ASSUME NEW row, Increasing(row), NEW i \in Nat, NEW j \in i .. Len(row), NEW v \in Int
  PROVE  \E k : Divides(row, i, j, v, k)
<1> DEFINE T == {m \in i .. j : m = j \/ v <= row[m + 1]}
<1>1. T \in SUBSET Nat /\ j \in T
  OBVIOUS
<1>2. PICK k \in T : \A m \in T : k <= m
  BY <1>1, LeastNumber
<1>3. k \in i .. j /\ k \in Nat /\ i \in Nat /\ j \in Nat
  OBVIOUS
<1>4. ASSUME NEW m \in i .. k - 1 PROVE row[m + 1] < v
  <2>1. m \in i .. j /\ m # j /\ m < k /\ m + 1 \in 1 .. Len(row)
    BY <1>3
  <2>2. m \notin T
    BY <1>2, <2>1, <1>3
  <2>3. row[m + 1] \in Int
    BY <2>1 DEF Increasing
  <2> QED
    BY <2>1, <2>2, <2>3
<1>5. ASSUME NEW m \in k .. j - 1 PROVE v <= row[m + 1]
  <2>1. k + 1 \in 1 .. Len(row) /\ m + 1 \in 1 .. Len(row) /\ k <= m /\ k # j
    BY <1>3
  <2>2. v <= row[k + 1]
    BY <1>2, <2>1
  <2>3. row[k + 1] <= row[m + 1]
    BY <2>1, <1>3 DEF Increasing
  <2>4. row[k + 1] \in Int /\ row[m + 1] \in Int
    BY <2>1 DEF Increasing
  <2> QED
    BY <2>2, <2>3, <2>4
<1> QED
  BY <1>3, <1>4, <1>5 DEF Divides

LEMMA SearchDivides ==
  ASSUME NEW row, Increasing(row), NEW lo \in Nat, NEW hi \in lo .. Len(row), NEW v \in Int
  PROVE  Divides(row, lo, hi, v, LowerBound(row, lo, hi, v))
<1> DEFINE n == Len(row)
           Point(i, j) == CHOOSE k : Divides(row, i, j, v, k)
           B == (0 .. n) \X (0 .. n)
           H == [b \in B |-> IF b[1] < b[2] THEN Point(b[1], b[2]) ELSE b[1]]
           Rec(f) == [b \in B |->
                        LET mid == (b[1] + b[2]) \div 2 IN
                        IF b[1] < b[2]
                        THEN IF row[mid + 1] < v THEN f[<<mid + 1, b[2]>>] ELSE f[<<b[1], mid>>]
                        ELSE b[1]]
<1>1. LowerBound(row, lo, hi, v) = (CHOOSE f : f = Rec(f))[<<lo, hi>>]
  BY DEF LowerBound
<1>2. n \in Nat
  BY DEF Increasing
<1>3. ASSUME NEW i \in 0 .. n, NEW j \in i .. n PROVE Divides(row, i, j, v, Point(i, j))
  BY <1>2, <1>3, SomeDivision
<1>4. ASSUME NEW i \in 0 .. n, NEW j \in i .. n PROVE i = j => Point(i, j) = i
  BY <1>3 DEF Divides
<1> HIDE DEF Point
<1>5. ASSUME NEW i \in 0 .. n, NEW j \in 0 .. n, i < j, NEW mid, mid = (i + j) \div 2
      PROVE  /\ mid \in i .. j - 1 /\ mid \in 0 .. n /\ mid + 1 \in 0 .. n /\ j \in mid + 1 .. n
             /\ row[mid + 1] < v => Point(mid + 1, j) = Point(i, j)
             /\ ~ (row[mid + 1] < v) => Point(i, mid) = Point(i, j)
  <2>1. mid \in i .. j - 1 /\ i \in Nat /\ j \in Nat /\ mid \in Nat /\ n \in Nat
    BY <1>2, <1>5
  <2>2. mid \in 0 .. n /\ mid + 1 \in 0 .. n /\ j \in mid + 1 .. n /\ mid \in i .. n
        /\ j \in i .. n /\ mid + 1 \in 1 .. n
    BY <2>1
  <2>3. \A m \in i .. j - 1 : row[m + 1] \in Int /\ m + 1 \in 1 .. n /\ m \in Int
    BY <2>1 DEF Increasing
  <2>4. CASE row[mid + 1] < v
    <3>1. PICK k : k = Point(mid + 1, j) /\ Divides(row, mid + 1, j, v, k)
      BY <1>3, <2>2
    <3>2. ASSUME NEW m \in i .. mid PROVE row[m + 1] < v
      <4>1. m \in i .. j - 1 /\ (m < mid \/ m = mid) /\ m \in Int
        BY <2>1
      <4>2. m < mid => row[m + 1] < row[mid + 1]
        BY <2>1, <2>2, <2>3, <4>1 DEF Increasing
      <4> QED
        BY <2>1, <2>3, <2>4, <4>1, <4>2
    <3>3. k \in mid + 1 .. j /\ k \in i .. j
      BY <2>1, <3>1 DEF Divides
    <3>4. ASSUME NEW m \in i .. k - 1 PROVE row[m + 1] < v
      <4>1. m \in i .. mid \/ m \in mid + 1 .. k - 1
        BY <2>1, <3>3
      <4> QED
        BY <3>1, <3>2, <4>1 DEF Divides
    <3>5. Divides(row, i, j, v, k)
      BY <3>1, <3>3, <3>4 DEF Divides
    <3>6. k = Point(i, j)
      BY <1>3, <2>1, <2>2, <3>5, OneDivision
    <3> QED
      BY <2>1, <2>2, <2>4, <3>1, <3>6
  <2>5. CASE ~ (row[mid + 1] < v)
    <3>1. PICK k : k = Point(i, mid) /\ Divides(row, i, mid, v, k)
      BY <1>3, <2>2, <2>1
    <3>2. ASSUME NEW m \in mid .. j - 1 PROVE v <= row[m + 1]
      <4>1. m \in i .. j - 1 /\ (mid < m \/ m = mid) /\ m \in Int
        BY <2>1
      <4>2. mid < m => row[mid + 1] < row[m + 1]
        BY <2>1, <2>2, <2>3, <4>1 DEF Increasing
      <4> QED
        BY <2>1, <2>3, <2>5, <4>1, <4>2
    <3>3. k \in i .. mid /\ k \in i .. j
      BY <2>1, <3>1 DEF Divides
    <3>4. ASSUME NEW m \in k .. j - 1 PROVE v <= row[m + 1]
      <4>1. m \in k .. mid - 1 \/ m \in mid .. j - 1
        BY <2>1, <3>3
      <4> QED
        BY <3>1, <3>2, <4>1 DEF Divides
    <3>5. Divides(row, i, j, v, k)
      BY <3>1, <3>3, <3>4 DEF Divides
    <3>6. k = Point(i, j)
      BY <1>3, <2>1, <2>2, <3>5, OneDivision
    <3> QED
      BY <2>1, <2>2, <2>5, <3>1, <3>6
  <2> QED
    BY <2>4, <2>5
<1>6. ASSUME NEW i \in 0 .. n, NEW j \in 0 .. n
      PROVE  /\ H[<<i, j>>] = IF i < j THEN Point(i, j) ELSE i
             /\ i <= j => H[<<i, j>>] = Point(i, j)
  <2>1. H[<<i, j>>] = IF i < j THEN Point(i, j) ELSE i
    OBVIOUS
  <2>2. i <= j => j \in i .. n /\ (i = j \/ i < j)
    BY <1>2
  <2> HIDE DEF H
  <2> QED
    BY <1>4, <2>1, <2>2
<1>7. ASSUME NEW f, NEW i \in 0 .. n, NEW j \in 0 .. n, NEW mid, mid = (i + j) \div 2
      PROVE  Rec(f)[<<i, j>>] =
               IF i < j THEN IF row[mid + 1] < v THEN f[<<mid + 1, j>>] ELSE f[<<i, mid>>] ELSE i
  <2>1. <<i, j>> \in B
    OBVIOUS
  <2> HIDE DEF B
  <2> QED
    BY <1>7, <2>1
<1>8. \A f : DOMAIN Rec(f) = B /\ Rec(f) = [b \in B |-> Rec(f)[b]]
  OBVIOUS
<1>9. H = [b \in B |-> H[b]]
  OBVIOUS
<1>10. \A b \in B : \E i, j \in 0 .. n : b = <<i, j>>
  OBVIOUS
<1> HIDE DEF H, Rec, B
<1>11. H = Rec(H)
  <2>1. ASSUME NEW b \in B PROVE H[b] = Rec(H)[b]
    <3>1. PICK i \in 0 .. n, j \in 0 .. n : b = <<i, j>>
      BY <1>10
    <3>2. PICK mid : mid = (i + j) \div 2
      OBVIOUS
    <3>3. ASSUME i < j
          PROVE  H[<<mid + 1, j>>] = Point(mid + 1, j) /\ H[<<i, mid>>] = Point(i, mid)
      <4>1. mid \in i .. j - 1 /\ mid \in 0 .. n /\ mid + 1 \in 0 .. n /\ j \in mid + 1 .. n
        BY <1>5, <3>2, <3>3
      <4>2. mid + 1 <= j /\ i <= mid
        BY <4>1
      <4> QED
        BY <1>6, <4>1, <4>2
    <3>4. H[b] = IF i < j THEN Point(i, j) ELSE i
      BY <1>6, <3>1
    <3>5. Rec(H)[b] = IF i < j THEN IF row[mid + 1] < v THEN H[<<mid + 1, j>>] ELSE H[<<i, mid>>] ELSE i
      BY <1>7, <3>1, <3>2
    <3> QED
      BY <1>5, <3>2, <3>3, <3>4, <3>5
  <2> QED
    BY <1>8, <1>9, <2>1
<1>12. ASSUME NEW f, f = Rec(f) PROVE f = H
  <2> DEFINE C == {d \in Nat : \A i, j \in 0 .. n : i < j /\ j - i = d => f[<<i, j>>] = H[<<i, j>>]}
  <2>1. ASSUME NEW i \in 0 .. n, NEW j \in 0 .. n, ~ (i < j) PROVE f[<<i, j>>] = H[<<i, j>>]
    <3>1. PICK mid : mid = (i + j) \div 2
      OBVIOUS
    <3>2. Rec(f)[<<i, j>>] = i
      BY <1>7, <2>1, <3>1
    <3>3. H[<<i, j>>] = i
      BY <1>6, <2>1
    <3> QED
      BY <1>12, <3>2, <3>3
  <2>2. ASSUME NEW d \in Nat, \A e \in Nat : e < d => e \in C PROVE d \in C
    <3>1. SUFFICES ASSUME NEW i \in 0 .. n, NEW j \in 0 .. n, i < j, j - i = d
                   PROVE  f[<<i, j>>] = H[<<i, j>>]
      OBVIOUS
    <3>2. PICK mid : mid = (i + j) \div 2
      OBVIOUS
    <3>3. mid \in i .. j - 1 /\ mid \in 0 .. n /\ mid + 1 \in 0 .. n
      BY <1>5, <3>1, <3>2
    <3>4. f[<<mid + 1, j>>] = H[<<mid + 1, j>>]
      <4>1. j - (mid + 1) < d /\ (mid + 1 < j => j - (mid + 1) \in Nat)
        BY <3>1, <3>3
      <4>2. CASE mid + 1 < j
        BY <2>2, <3>3, <4>1, <4>2
      <4> QED
        BY <2>1, <3>3, <4>2
    <3>5. f[<<i, mid>>] = H[<<i, mid>>]
      <4>1. mid - i < d /\ (i < mid => mid - i \in Nat)
        BY <3>1, <3>3
      <4>2. CASE i < mid
        BY <2>2, <3>3, <4>1, <4>2
      <4> QED
        BY <2>1, <3>3, <4>2
    <3>6. Rec(f)[<<i, j>>] = Rec(H)[<<i, j>>]
      BY <1>7, <3>2, <3>4, <3>5
    <3> QED
      BY <1>11, <1>12, <3>6
  <2> HIDE DEF C
  <2>3. \A d \in Nat : d \in C
    BY <2>2, NumberInduction
  <2>4. ASSUME NEW i \in 0 .. n, NEW j \in 0 .. n PROVE f[<<i, j>>] = H[<<i, j>>]
    <3>1. CASE i < j
      <4>1. j - i \in Nat
        BY <1>2, <3>1
      <4>2. j - i \in C
        BY <2>3, <4>1
      <4> QED
        BY <3>1, <4>2 DEF C
    <3> QED
      BY <2>1, <3>1
  <2>5. \A b \in B : f[b] = H[b]
    BY <1>10, <2>4
  <2> QED
    BY <1>8, <1>9, <1>12, <2>5
<1>13. (CHOOSE f : f = Rec(f)) = H
  BY <1>11, <1>12
<1>14. lo \in 0 .. n /\ hi \in 0 .. n /\ hi \in lo .. n /\ lo <= hi
  BY <1>2
<1> QED
  BY <1>1, <1>3, <1>6, <1>13, <1>14
-----------------------------------------------------------------------------
(* The slices, and what is found in them. *)

(* The elements between the two searches are those within the range. *)
LEMMA WithinRange ==
  ASSUME NEW row, Increasing(row), NEW lo \in Int, NEW hi \in Int,
         NEW i, i = LowerBound(row, 0, Len(row), lo),
         NEW j, j = LowerBound(row, i, Len(row), hi)
  PROVE  /\ i \in 0 .. Len(row) /\ j \in i .. Len(row) /\ Len(row) \in Nat
         /\ \A m \in 0 .. Len(row) - 1 :
              m \in i .. j - 1 <=> lo <= row[m + 1] /\ row[m + 1] < hi
<1>1. Len(row) \in Nat
  BY DEF Increasing
<1>2. Divides(row, 0, Len(row), lo, i)
  BY <1>1, SearchDivides
<1>3. i \in 0 .. Len(row) /\ i \in Nat
  BY <1>1, <1>2 DEF Divides
<1>4. Divides(row, i, Len(row), hi, j)
  BY <1>1, <1>3, SearchDivides
<1>5. j \in i .. Len(row)
  BY <1>4 DEF Divides
<1>6. ASSUME NEW m \in 0 .. Len(row) - 1
      PROVE  m \in i .. j - 1 <=> lo <= row[m + 1] /\ row[m + 1] < hi
  <2>1. row[m + 1] \in Int
    BY <1>1 DEF Increasing
  <2>2. m < i => row[m + 1] < lo
    BY <1>1, <1>2, <1>3 DEF Divides
  <2>3. ~(m < i) => lo <= row[m + 1]
    BY <1>1, <1>2, <1>3 DEF Divides
  <2>4. ~(m < i) /\ m < j => row[m + 1] < hi
    BY <1>1, <1>3, <1>4, <1>5 DEF Divides
  <2>5. ~(m < j) => hi <= row[m + 1]
    BY <1>1, <1>3, <1>4, <1>5 DEF Divides
  <2> QED
    BY <1>3, <1>5, <2>1, <2>2, <2>3, <2>4, <2>5
<1> QED
  BY <1>1, <1>3, <1>5, <1>6

(* The search of the longer slice finds what is there. *)
LEMMA SearchFinds ==
  ASSUME NEW row, Increasing(row), NEW i \in Nat, NEW j \in i .. Len(row), NEW d \in Int
  PROVE  LowerBound(row, i, j, d) < j /\ row[LowerBound(row, i, j, d) + 1] = d
           <=> \E m \in i .. j - 1 : row[m + 1] = d
<1>1. PICK k : k = LowerBound(row, i, j, d) /\ Divides(row, i, j, d, k)
  BY SearchDivides
<1>2. k \in i .. j /\ k \in Int /\ i \in Int /\ j \in Int
  BY <1>1 DEF Divides
<1>3. k < j => k \in i .. j - 1
  BY <1>2
<1>4. ASSUME NEW m \in i .. j - 1, row[m + 1] = d PROVE k < j /\ row[k + 1] = d
  <2>1. ~ (m < k)
    BY <1>1, <1>2, <1>4 DEF Divides
  <2>2. k \in i .. j - 1 /\ k + 1 \in 1 .. Len(row) /\ m + 1 \in 1 .. Len(row) /\ (k < m \/ k = m)
    BY <1>2, <2>1
  <2>3. d <= row[k + 1]
    BY <1>1, <2>2 DEF Divides
  <2>4. k < m => row[k + 1] < row[m + 1]
    BY <2>2, <1>2 DEF Increasing
  <2>5. row[k + 1] \in Int
    BY <2>2 DEF Increasing
  <2> QED
    BY <1>2, <1>4, <2>2, <2>3, <2>4, <2>5
<1> QED
  BY <1>1, <1>3, <1>4

-----------------------------------------------------------------------------
(* A pair, its slices, and the share of some lanes in its statistics. *)

IsPair(p) ==
  /\ p \in Entities \X Entities /\ range \in Int \X Int
  /\ rows \in [Entities -> RowChoices] /\ g \in Groups

DimsOf(e) == {rows[e][i] : i \in DOMAIN rows[e]}
Common(p) == {d \in DimsOf(p[1]) \cap DimsOf(p[2]) : range[1] <= d /\ d < range[2]}
Element(p, d) == [x |-> <<p[1], d>>, y |-> <<p[2], d>>]

Shorter(p) == IF SliceBounds(p).swapped THEN p[2] ELSE p[1]
Longer(p)  == IF SliceBounds(p).swapped THEN p[1] ELSE p[2]
Slice(p)   == SliceBounds(p).s0 .. SliceBounds(p).s1 - 1
LaneOf(p, i) == (i - SliceBounds(p).s0) % g

Shared(p, M) == {d \in Common(p) : \E i \in Slice(p) : rows[Shorter(p)][i + 1] = d /\ LaneOf(p, i) \in M}
Share(p, M) == {Element(p, d) : d \in Shared(p, M)}

LEMMA RowsIncrease == ASSUME NEW p, IsPair(p), NEW e \in Entities PROVE Increasing(rows[e])
BY RowsAssumption DEF IsPair, Increasing

LEMMA GroupFacts == ASSUME NEW p, IsPair(p) PROVE g \in {1, 2, 4, 8, 16, 32}
BY WidthAssumption DEF IsPair

(* Both slices hold exactly what is within the range. *)
LEMMA SlicesExact ==
  ASSUME NEW p, IsPair(p), NEW b, b = SliceBounds(p)
  PROVE  /\ Shorter(p) \in Entities /\ Longer(p) \in Entities
         /\ {Shorter(p), Longer(p)} = {p[1], p[2]}
         /\ b.s0 \in Nat /\ b.s1 \in b.s0 .. Len(rows[Shorter(p)])
         /\ b.l0 \in Nat /\ b.l1 \in b.l0 .. Len(rows[Longer(p)])
         /\ \A m \in 0 .. Len(rows[Shorter(p)]) - 1 :
              m \in b.s0 .. b.s1 - 1 <=>
                range[1] <= rows[Shorter(p)][m + 1] /\ rows[Shorter(p)][m + 1] < range[2]
         /\ \A m \in 0 .. Len(rows[Longer(p)]) - 1 :
              m \in b.l0 .. b.l1 - 1 <=>
                range[1] <= rows[Longer(p)][m + 1] /\ rows[Longer(p)][m + 1] < range[2]
<1> DEFINE q == rows[p[1]]
           r == rows[p[2]]
<1>1. /\ p[1] \in Entities /\ p[2] \in Entities /\ range[1] \in Int /\ range[2] \in Int
      /\ Increasing(q) /\ Increasing(r)
  BY RowsIncrease DEF IsPair
<1>2. PICK a0, a1, b0, b1 :
        /\ a0 = LowerBound(q, 0, Len(q), range[1]) /\ a1 = LowerBound(q, a0, Len(q), range[2])
        /\ b0 = LowerBound(r, 0, Len(r), range[1]) /\ b1 = LowerBound(r, b0, Len(r), range[2])
  OBVIOUS
<1>3. b = IF a1 - a0 > b1 - b0
          THEN [s0 |-> b0, s1 |-> b1, l0 |-> a0, l1 |-> a1, swapped |-> TRUE]
          ELSE [s0 |-> a0, s1 |-> a1, l0 |-> b0, l1 |-> b1, swapped |-> FALSE]
  BY <1>2 DEF SliceBounds
<1> HIDE DEF q, r
<1>4. /\ a0 \in 0 .. Len(q) /\ a1 \in a0 .. Len(q) /\ Len(q) \in Nat
      /\ \A m \in 0 .. Len(q) - 1 : m \in a0 .. a1 - 1 <=> range[1] <= q[m + 1] /\ q[m + 1] < range[2]
  BY <1>1, <1>2, WithinRange
<1>5. /\ b0 \in 0 .. Len(r) /\ b1 \in b0 .. Len(r) /\ Len(r) \in Nat
      /\ \A m \in 0 .. Len(r) - 1 : m \in b0 .. b1 - 1 <=> range[1] <= r[m + 1] /\ r[m + 1] < range[2]
  BY <1>1, <1>2, WithinRange
<1>6. CASE a1 - a0 > b1 - b0
  <2>1. /\ b.s0 = b0 /\ b.s1 = b1 /\ b.l0 = a0 /\ b.l1 = a1 /\ b.swapped
    BY <1>3, <1>6
  <2>2. Shorter(p) = p[2] /\ Longer(p) = p[1] /\ rows[Shorter(p)] = r /\ rows[Longer(p)] = q
    BY <2>1 DEF Shorter, Longer, q, r
  <2>3. a0 \in Nat /\ b0 \in Nat
    BY <1>4, <1>5
  <2> QED
    BY <1>1, <1>4, <1>5, <2>1, <2>2, <2>3
<1>7. CASE ~ (a1 - a0 > b1 - b0)
  <2>1. /\ b.s0 = a0 /\ b.s1 = a1 /\ b.l0 = b0 /\ b.l1 = b1 /\ ~ b.swapped
    BY <1>3, <1>7
  <2>2. Shorter(p) = p[1] /\ Longer(p) = p[2] /\ rows[Shorter(p)] = q /\ rows[Longer(p)] = r
    BY <2>1 DEF Shorter, Longer, q, r
  <2>3. a0 \in Nat /\ b0 \in Nat
    BY <1>4, <1>5
  <2> QED
    BY <1>1, <1>4, <1>5, <2>1, <2>2, <2>3
<1> QED
  BY <1>6, <1>7
(* Common dimensions are those of the shorter slice that the longer has. *)
LEMMA SliceShares ==
  ASSUME NEW p, IsPair(p), NEW b, b = SliceBounds(p), NEW i \in Slice(p),
         NEW d, d = rows[Shorter(p)][i + 1]
  PROVE  d \in Int /\ (d \in Common(p) <=> \E m \in b.l0 .. b.l1 - 1 : rows[Longer(p)][m + 1] = d)
<1> DEFINE short == rows[Shorter(p)]
           long  == rows[Longer(p)]
<1>1. /\ Increasing(short) /\ Increasing(long)
      /\ {Shorter(p), Longer(p)} = {p[1], p[2]}
      /\ b.s0 \in Nat /\ b.s1 \in b.s0 .. Len(short) /\ b.l0 \in Nat /\ b.l1 \in b.l0 .. Len(long)
      /\ \A m \in 0 .. Len(short) - 1 :
           m \in b.s0 .. b.s1 - 1 <=> range[1] <= short[m + 1] /\ short[m + 1] < range[2]
      /\ \A m \in 0 .. Len(long) - 1 :
           m \in b.l0 .. b.l1 - 1 <=> range[1] <= long[m + 1] /\ long[m + 1] < range[2]
  BY SlicesExact, RowsIncrease
<1>2. Common(p) = {c \in DimsOf(Shorter(p)) \cap DimsOf(Longer(p)) : range[1] <= c /\ c < range[2]}
  <2>1. DimsOf(p[1]) \cap DimsOf(p[2]) = DimsOf(Shorter(p)) \cap DimsOf(Longer(p))
    BY DEF Shorter, Longer
  <2> QED
    BY <2>1 DEF Common
<1> HIDE DEF short, long
<1>3. i \in b.s0 .. b.s1 - 1 /\ Len(short) \in Nat /\ Len(long) \in Nat
  BY <1>1 DEF Slice, Increasing
<1>4. i \in 0 .. Len(short) - 1 /\ i + 1 \in DOMAIN short /\ d = short[i + 1]
  BY <1>1, <1>3, SMTT(20) DEF short, Increasing
<1>5. d \in Int /\ range[1] <= d /\ d < range[2] /\ d \in DimsOf(Shorter(p))
  <2>1. d \in DimsOf(Shorter(p))
    BY <1>4 DEF DimsOf, short
  <2> QED
    BY <1>1, <1>3, <1>4, <2>1 DEF Increasing
<1>6. d \in DimsOf(Longer(p)) <=> \E m \in 0 .. Len(long) - 1 : long[m + 1] = d
  <2>1. DOMAIN long = 1 .. Len(long)
    BY <1>1 DEF Increasing
  <2>2. ASSUME NEW k \in DOMAIN long PROVE k - 1 \in 0 .. Len(long) - 1 /\ (k - 1) + 1 = k
    BY <1>3, <2>1
  <2>3. ASSUME NEW m \in 0 .. Len(long) - 1 PROVE m + 1 \in DOMAIN long
    BY <1>3, <2>1
  <2> QED
    BY <2>2, <2>3 DEF DimsOf, long
<1>7. (\E m \in 0 .. Len(long) - 1 : long[m + 1] = d) <=> \E m \in b.l0 .. b.l1 - 1 : long[m + 1] = d
  <2>1. ASSUME NEW m \in b.l0 .. b.l1 - 1 PROVE m \in 0 .. Len(long) - 1
    BY <1>1, <1>3
  <2>2. ASSUME NEW m \in 0 .. Len(long) - 1, long[m + 1] = d PROVE m \in b.l0 .. b.l1 - 1
    BY <1>1, <1>5, <2>2
  <2> QED
    BY <2>1, <2>2
<1> QED
  BY <1>2, <1>5, <1>6, <1>7 DEF long

(* What a lane finds is its share, as it is put in order. *)
LEMMA LaneScansShare ==
  ASSUME NEW p, IsPair(p), NEW l
  PROVE  LaneScan(p, SliceBounds(p), l) = SetToBag(Share(p, {l}))
<1> DEFINE b == SliceBounds(p)
           mine == {rows[Shorter(p)][i + 1] : i \in {i \in Slice(p) : LaneOf(p, i) = l}}
           Found(d) == LET pos == LowerBound(rows[Longer(p)], b.l0, b.l1, d)
                       IN  pos < b.l1 /\ rows[Longer(p)][pos + 1] = d
<1>1. LaneScan(p, b, l) =
        SetToBag({InOrder(<<Shorter(p), d>>, <<Longer(p), d>>, b.swapped) : d \in {d \in mine : Found(d)}})
  BY DEF LaneScan, Shorter, Longer, Slice, LaneOf
<1>2. \A d : InOrder(<<Shorter(p), d>>, <<Longer(p), d>>, b.swapped) = Element(p, d)
  BY DEF InOrder, Shorter, Longer, Element
<1>3. /\ Increasing(rows[Longer(p)]) /\ b.l0 \in Nat /\ b.l1 \in b.l0 .. Len(rows[Longer(p)])
  BY SlicesExact, RowsIncrease
<1>4. ASSUME NEW i \in Slice(p), NEW d, d = rows[Shorter(p)][i + 1]
      PROVE  Found(d) <=> d \in Common(p)
  <2>1. /\ d \in Int
        /\ d \in Common(p) <=> \E m \in b.l0 .. b.l1 - 1 : rows[Longer(p)][m + 1] = d
    BY <1>4, SliceShares
  <2> HIDE DEF b
  <2> QED
    BY <1>3, <2>1, SearchFinds, SMTT(20)
<1>5. {d \in mine : Found(d)} = Shared(p, {l})
  <2> HIDE DEF Found
  <2>1. ASSUME NEW d, d \in mine, Found(d) PROVE d \in Shared(p, {l})
    <3>1. PICK i \in Slice(p) : d = rows[Shorter(p)][i + 1] /\ LaneOf(p, i) = l
      BY <2>1
    <3> QED
      BY <1>4, <2>1, <3>1 DEF Shared
  <2>2. ASSUME NEW d \in Shared(p, {l}) PROVE d \in mine /\ Found(d)
    <3>1. PICK i \in Slice(p) : d = rows[Shorter(p)][i + 1] /\ LaneOf(p, i) = l
      BY DEF Shared
    <3>2. d \in Common(p)
      BY DEF Shared
    <3> QED
      BY <1>4, <3>1, <3>2
  <2> QED
    BY <2>1, <2>2
<1> HIDE DEF Found, mine
<1>6. {InOrder(<<Shorter(p), d>>, <<Longer(p), d>>, b.swapped) : d \in Shared(p, {l})} = Share(p, {l})
  BY <1>2 DEF Share
<1> QED
  BY <1>1, <1>5, <1>6

(* All lanes together have everything. *)
LEMMA AllLanes ==
  ASSUME NEW p, IsPair(p)
  PROVE  SetToBag(Share(p, 0 .. g - 1)) = Reference(p)
<1> DEFINE short == rows[Shorter(p)]
<1>1. /\ Increasing(short) /\ {Shorter(p), Longer(p)} = {p[1], p[2]}
      /\ SliceBounds(p).s0 \in Nat /\ SliceBounds(p).s1 \in Int
      /\ \A m \in 0 .. Len(short) - 1 :
           m \in Slice(p) <=> range[1] <= short[m + 1] /\ short[m + 1] < range[2]
  <2>1. PICK b : b = SliceBounds(p)
    OBVIOUS
  <2>2. Slice(p) = b.s0 .. b.s1 - 1
    BY <2>1 DEF Slice
  <2>3. /\ Shorter(p) \in Entities /\ {Shorter(p), Longer(p)} = {p[1], p[2]}
        /\ b.s0 \in Nat /\ b.s1 \in b.s0 .. Len(short)
        /\ \A m \in 0 .. Len(short) - 1 :
             m \in b.s0 .. b.s1 - 1 <=> range[1] <= short[m + 1] /\ short[m + 1] < range[2]
    BY <2>1, SlicesExact
  <2>4. Increasing(short)
    BY <2>3, RowsIncrease
  <2>5. b.s1 \in Int
    BY <2>3, <2>4 DEF Increasing
  <2> QED
    BY <2>1, <2>2, <2>3, <2>4, <2>5
<1>2. ASSUME NEW d \in Common(p) PROVE d \in Shared(p, 0 .. g - 1)
  <2>1. d \in DimsOf(Shorter(p)) /\ range[1] <= d /\ d < range[2]
    BY <1>1 DEF Common
  <2>2. PICK k \in DOMAIN short : short[k] = d
    BY <2>1 DEF DimsOf
  <2>3. k - 1 \in 0 .. Len(short) - 1 /\ (k - 1) + 1 = k
    BY <1>1 DEF Increasing
  <2>4. k - 1 \in Slice(p)
    BY <1>1, <2>1, <2>2, <2>3
  <2>5. LaneOf(p, k - 1) \in 0 .. g - 1
    <3>1. (k - 1) - SliceBounds(p).s0 \in Int
      BY <1>1, <2>3
    <3> QED
      BY <3>1, GroupFacts DEF LaneOf
  <2> QED
    BY <2>2, <2>3, <2>4, <2>5 DEF Shared
<1>3. Shared(p, 0 .. g - 1) = Common(p)
  BY <1>2 DEF Shared
<1>4. Reference(p) = SetToBag({Element(p, d) : d \in Common(p)})
  BY DEF Reference, Element, Common, DimsOf
<1> QED
  BY <1>3, <1>4 DEF Share

(* Two groups of lanes that have no lane in common count nothing twice. *)
LEMMA SharesAdd ==
  ASSUME NEW p, IsPair(p), NEW M, NEW N, M \cap N = {}
  PROVE  SetToBag(Share(p, M)) (+) SetToBag(Share(p, N)) = SetToBag(Share(p, M \cup N))
<1> DEFINE short == rows[Shorter(p)]
<1>1. /\ Increasing(short) /\ SliceBounds(p).s0 \in Nat /\ SliceBounds(p).s1 \in 0 .. Len(short)
      /\ Slice(p) \subseteq 0 .. Len(short) - 1
  <2>1. /\ Increasing(short) /\ SliceBounds(p).s0 \in Nat
        /\ SliceBounds(p).s1 \in SliceBounds(p).s0 .. Len(short)
    BY SlicesExact, RowsIncrease
  <2> QED
    BY <2>1 DEF Slice, Increasing
<1>2. Shared(p, M) \cap Shared(p, N) = {}
  <2>1. SUFFICES ASSUME NEW d \in Shared(p, M), d \in Shared(p, N) PROVE FALSE
    OBVIOUS
  <2>2. PICK i \in Slice(p) : short[i + 1] = d /\ LaneOf(p, i) \in M
    BY DEF Shared
  <2>3. PICK j \in Slice(p) : short[j + 1] = d /\ LaneOf(p, j) \in N
    BY <2>1 DEF Shared
  <2> HIDE DEF short
  <2>4. i \in 0 .. Len(short) - 1 /\ j \in 0 .. Len(short) - 1 /\ Len(short) \in Nat
    BY <1>1 DEF Increasing
  <2>5. i + 1 \in DOMAIN short /\ j + 1 \in DOMAIN short /\ d \in Int
    BY <1>1, <2>2, <2>4, SMTT(20) DEF Increasing
  <2>6. /\ i < j => short[i + 1] < short[j + 1]
        /\ j < i => short[j + 1] < short[i + 1]
    <3>1. (i < j => i + 1 < j + 1) /\ (j < i => j + 1 < i + 1)
      BY <2>4
    <3> QED
      BY <1>1, <2>5, <3>1 DEF Increasing
  <2>7. i = j
    <3>1. ~ (d < d)
      BY <2>5
    <3>2. ~ (i < j) /\ ~ (j < i)
      BY <2>2, <2>3, <2>6, <3>1
    <3> QED
      BY <2>4, <3>2
  <2> QED
    BY <2>2, <2>3, <2>7
<1>3. \A c, d : Element(p, c) = Element(p, d) => c = d
  BY DEF Element
<1>4. Share(p, M) \cap Share(p, N) = {}
  BY <1>2, <1>3 DEF Share
<1>5. Share(p, M \cup N) = Share(p, M) \cup Share(p, N)
  <2>1. Shared(p, M \cup N) = Shared(p, M) \cup Shared(p, N)
    BY DEF Shared
  <2> QED
    BY <2>1 DEF Share
<1>6. ASSUME NEW S, NEW T, S \cap T = {} PROVE SetToBag(S) (+) SetToBag(T) = SetToBag(S \cup T)
  BY <1>6 DEF SetToBag, (+)
<1> QED
  BY <1>4, <1>5, <1>6
-----------------------------------------------------------------------------
(* Threads, slots and lanes. *)

LEMMA Sizes ==
  ASSUME g \in Groups
  PROVE  /\ g \in Nat \ {0} /\ g \in {1, 2, 4, 8, 16, 32} /\ Width \in Nat \ {0} /\ Block \in Nat \ {0}
         /\ \E k \in Nat \ {0} : Width = g * k
         /\ \E b \in Nat \ {0} : Block = Width * b
<1>1. g \in Nat \ {0} /\ g \in {1, 2, 4, 8, 16, 32} /\ Width \in Nat \ {0} /\ Block \in Nat \ {0}
  BY WidthAssumption
<1>2. ASSUME NEW a \in Nat \ {0}, NEW n \in Nat \ {0}, a % n = 0
      PROVE  \E k \in Nat \ {0} : a = n * k
  <2>1. PICK k : k = a \div n
    OBVIOUS
  <2>2. k \in Nat /\ a = n * k + 0
    BY <1>2, <2>1, ModBounds, DivBounds
  <2>3. k # 0
    BY <1>2, <2>2
  <2> QED
    BY <2>2, <2>3
<1>3. Width % g = 0 /\ Block % Width = 0
  BY WidthAssumption
<1>4. \E k \in Nat \ {0} : Width = g * k
  BY <1>1, <1>2, <1>3
<1>5. \E b \in Nat \ {0} : Block = Width * b
  BY <1>1, <1>2, <1>3
<1> QED
  BY <1>1, <1>4, <1>5

LEMMA ThreadNumbers ==
  ASSUME g \in Groups, n_slots \in Nat
  PROVE  Threads \subseteq Nat
BY DEF Threads

(* A thread is lane t % g of slot t \div g, in its block and in its warp. *)
LEMMA ThreadFacts ==
  ASSUME g \in Groups, NEW t \in Nat
  PROVE  /\ Slot(t) \in Nat /\ Sublane(t) \in 0 .. g - 1 /\ t = g * Slot(t) + Sublane(t)
         /\ (t % Width) % g = Sublane(t)
<1>1. /\ g \in Nat \ {0} /\ Width \in Nat \ {0} /\ Block \in Nat \ {0}
  BY Sizes
<1>2. PICK k \in Nat \ {0}, b \in Nat \ {0} : Width = g * k /\ Block = Width * b
  BY Sizes
<1>3. ASSUME NEW n \in Nat \ {0}, NEW c \in Nat, n = g * c PROVE (t % n) % g = t % g
  <2>1. PICK q, r : q = t \div n /\ r = t % n
    OBVIOUS
  <2>2. q \in Int /\ r \in 0 .. n - 1 /\ t = n * q + r
    BY <2>1, ModBounds
  <2>3. n * q = g * (c * q) /\ c * q \in Int
    <3>1. (g * c) * q = g * (c * q)
      BY <1>1, <2>2, SMTT(30)
    <3> QED
      BY <1>3, <2>2, <3>1
  <2>4. t = r + g * (c * q)
    BY <2>2, <2>3, <1>1
  <2>5. (r + g * (c * q)) % g = r % g
    <3>1. PICK e : e = c * q
      OBVIOUS
    <3>2. e \in Int /\ r \in Int
      BY <2>2, <2>3, <3>1
    <3>3. (r + g * e) % g = r % g
      BY <1>1, <3>2, ModShift
    <3> QED
      BY <3>1, <3>3
  <2> QED
    BY <2>1, <2>4, <2>5
<1>4. Block = g * (k * b) /\ k * b \in Nat
  <2>1. (g * k) * b = g * (k * b)
    BY <1>1, SMTT(30)
  <2> QED
    BY <1>2, <2>1
<1>5. (t % Block) % g = t % g /\ (t % Width) % g = t % g
  BY <1>1, <1>2, <1>3, <1>4
<1>6. t % g \in 0 .. g - 1 /\ t = g * (t \div g) + (t % g)
  BY <1>1, ModBounds, SMTT(20)
<1>7. t \div g \in Nat
  BY <1>1, DivBounds
<1> QED
  BY <1>5, <1>6, <1>7 DEF Slot, Sublane

(* The lanes of one slot are in one warp, whose slots are whole. *)
LEMMA SameWarp ==
  ASSUME g \in Groups, NEW t \in Nat, NEW u \in Nat, Slot(t) = Slot(u)
  PROVE  t \div Width = u \div Width
<1>1. g \in Nat \ {0} /\ Width \in Nat \ {0}
  BY Sizes
<1>2. PICK k \in Nat \ {0} : Width = g * k
  BY Sizes
<1>3. ASSUME NEW x \in Nat PROVE x \div Width = Slot(x) \div k
  <2>1. PICK y, z : y = Slot(x) /\ z = Sublane(x)
    OBVIOUS
  <2>2. y \in Nat /\ z \in 0 .. g - 1 /\ x = g * y + z
    BY <2>1, ThreadFacts
  <2>3. PICK a, v : a = y \div k /\ v = y % k
    OBVIOUS
  <2>4. a \in Int /\ v \in 0 .. k - 1 /\ y = k * a + v
    BY <2>2, <2>3, ModBounds
  <2>5. g * (k * a + v) = g * (k * a) + g * v /\ g * (k * a) = Width * a
    <3>1. g * (k * a + v) = g * (k * a) + g * v
      BY <1>1, <2>4, Distribute
    <3>2. g * (k * a) = (g * k) * a
      BY <1>1, <2>4, SMTT(30)
    <3> QED
      BY <1>2, <3>1, <3>2
  <2>6. g * v \in Int /\ 0 <= g * v /\ g * v + g <= Width
    <3>1. v <= k - 1 /\ 0 <= v /\ v \in Int /\ k - 1 \in Int
      BY <2>4
    <3>2. g * 0 <= g * v /\ g * v <= g * (k - 1)
      BY <1>1, <3>1, MulMono
    <3>3. g * (k - 1) = g * k - g * 1
      BY <1>1, Distribute
    <3> QED
      BY <1>1, <1>2, <3>1, <3>2, <3>3
  <2>7. x = Width * a + (g * v + z) /\ g * v + z \in 0 .. Width - 1
    <3>1. Width * a \in Int
      BY <1>1, <2>4
    <3> QED
      BY <1>1, <2>2, <2>4, <2>5, <2>6, <3>1
  <2>8. PICK e : e = g * v + z
    OBVIOUS
  <2>9. x = Width * a + e /\ e \in 0 .. Width - 1 /\ a \in Int
    BY <2>4, <2>7, <2>8
  <2>10. x \div Width = a
    BY <1>1, <2>9, ModUnique
  <2> QED
    BY <2>1, <2>3, <2>10
<1> QED
  BY <1>3

(* d lanes further, within the group. *)
LEMMA Neighbour ==
  ASSUME g \in Groups, NEW t \in Nat, NEW d \in Int, Sublane(t) + d \in 0 .. g - 1
  PROVE  /\ t + d \in Nat /\ Slot(t + d) = Slot(t) /\ Sublane(t + d) = Sublane(t) + d
         /\ (t + d) \div Width = t \div Width
<1>1. g \in Nat \ {0}
  BY Sizes
<1>2. PICK y, z : y = Slot(t) /\ z = Sublane(t)
  OBVIOUS
<1>3. y \in Nat /\ z \in 0 .. g - 1 /\ t = g * y + z
  BY <1>2, ThreadFacts
<1>4. g * y \in Nat
  BY <1>1, <1>3
<1>5. t + d = g * y + (z + d) /\ t + d \in Nat
  BY <1>1, <1>2, <1>3, <1>4
<1>6. (t + d) % g = z + d /\ (t + d) \div g = y
  BY <1>1, <1>2, <1>3, <1>5, ModUnique
<1>7. Slot(t + d) = Slot(t)
  BY <1>2, <1>6 DEF Slot
<1>8. Sublane(t + d) = Sublane(t) + d
  <2>1. PICK x : x = t + d
    OBVIOUS
  <2>2. PICK p, q : p = Slot(x) /\ q = Sublane(x)
    OBVIOUS
  <2>3. p \in Nat /\ q \in 0 .. g - 1 /\ x = g * p + q
    BY <1>5, <2>1, <2>2, ThreadFacts
  <2>4. x \in Int
    BY <1>5, <2>1
  <2>5. x % g = q
    BY <1>1, <2>3, <2>4, ModUnique, SMTT(20)
  <2> QED
    BY <1>2, <1>6, <2>1, <2>2, <2>5
<1> QED
  BY <1>5, <1>7, <1>8, SameWarp

(* The threads are those of whole warps. *)
LEMMA WarpsWhole ==
  ASSUME g \in Groups, n_slots \in Nat, NEW w \in Warps
  PROVE  /\ Lanes(w) \subseteq Threads
         /\ \A t \in Nat : t \in Lanes(w) <=> t \div Width = w
<1>1. Width \in Nat \ {0} /\ Block \in Nat \ {0} /\ g \in Nat \ {0}
  BY Sizes
<1>2. PICK b \in Nat \ {0} : Block = Width * b
  BY Sizes
<1>3. PICK n : n = (n_slots * g + Block - 1) \div Block
  OBVIOUS
<1>4. n \in Nat
  <2>1. n_slots * g \in Nat
    BY <1>1
  <2> QED
    BY <1>1, <1>3, <2>1, DivBounds
<1>5. PICK m : m = b * n
  OBVIOUS
<1>6. m \in Nat /\ n * Block = Width * m
  <2>1. n * (Width * b) = Width * (b * n)
    BY <1>1, <1>4, SMTT(30)
  <2> QED
    BY <1>2, <1>4, <1>5, <2>1
<1>7. Threads = 0 .. Width * m - 1
  BY <1>3, <1>6 DEF Threads
<1>8. PICK t0 \in Threads : w = t0 \div Width
  BY DEF Warps
<1>9. w \in Nat /\ Width * w <= t0 /\ t0 < Width * m
  <2>1. t0 \in Nat /\ t0 < Width * m
    BY <1>7, <1>1, <1>6
  <2> QED
    BY <1>1, <1>8, <2>1, DivBounds
<1>10. w < m
  <2>1. Width * w < Width * m
    BY <1>1, <1>6, <1>7, <1>8, <1>9
  <2> QED
    BY <1>1, <1>6, <1>9, <2>1, Cancel
<1>11. Width * w + Width <= Width * m /\ w * Width = Width * w /\ Width * w \in Nat /\ Width * m \in Nat
  <2>1. Width * (w + 1) <= Width * m
    BY <1>1, <1>6, <1>9, <1>10, MulMono
  <2>2. Width * (w + 1) = Width * w + Width * 1
    BY <1>1, <1>9, Distribute
  <2>3. w * Width = Width * w /\ Width * w \in Nat /\ Width * m \in Nat
    BY <1>1, <1>6, <1>9, SMTT(30)
  <2> QED
    BY <1>1, <2>1, <2>2, <2>3
<1>12. Lanes(w) = Width * w .. Width * w + Width - 1
  BY <1>11 DEF Lanes
<1>13. Lanes(w) \subseteq Threads
  BY <1>1, <1>7, <1>11, <1>12
<1>14. ASSUME NEW t \in Nat PROVE t \in Lanes(w) <=> t \div Width = w
  <2>1. t \div Width \in Nat /\ Width * (t \div Width) <= t /\ t < Width * (t \div Width) + Width
    BY <1>1, DivBounds
  <2>2. PICK e : e = Width * w
    OBVIOUS
  <2>3. e \in Nat /\ Lanes(w) = e .. e + Width - 1 /\ w \in Int
    BY <1>9, <1>11, <1>12, <2>2
  <2>4. ASSUME t \div Width = w PROVE t \in Lanes(w)
    <3>1. e <= t /\ t < e + Width
      BY <2>1, <2>2, <2>4
    <3> QED
      BY <1>1, <2>3, <3>1
  <2>5. ASSUME t \in Lanes(w) PROVE t \div Width = w
    <3>1. e <= t /\ t < e + Width
      BY <1>1, <2>3, <2>5
    <3>2. Width * w <= t /\ t < Width * w + Width
      BY <2>2, <3>1
    <3> QED
      BY <1>1, <2>3, <3>2, DivUnique
  <2> QED
    BY <2>4, <2>5
<1> QED
  BY <1>13, <1>14
-----------------------------------------------------------------------------
(* The inductive invariant: what each thread holds, by where it is. *)

Sum(t, M) == SetToBag(Share(PairOf(t), M))

(* The lanes whose shares a lane l < r holds when r lanes are left to add. *)
Residue(r, l) == {m \in 0 .. g - 1 : m % r = l}

Launched ==
  /\ rows \in [Entities -> RowChoices] /\ order \in Orders /\ range \in Ranges
  /\ n_slots \in 1 .. MaxSlots /\ g \in Groups /\ hoist \in BOOLEAN

Domains ==
  /\ DOMAIN pc = Threads /\ DOMAIN sl = Threads /\ DOMAIN s = Threads /\ DOMAIN off = Warps

OffsetFresh(t) == pc[t] \in {"bounds", "bcast", "scan", "sync"} => off[t \div Width] = g \div 2

Bounded(t) ==
  /\ pc[t] = "bcast" => Hoisted /\ (Active(t) /\ Sublane(t) = 0 => sl[t] = SliceBounds(PairOf(t)))
  /\ pc[t] = "scan" => (Active(t) => sl[t] = SliceBounds(PairOf(t)))

Summed(t) ==
  /\ pc[t] = "sync" => (Active(t) => s[t] = Sum(t, {Sublane(t)}))
  /\ pc[t] = "reduce" =>
       LET o == off[t \div Width] IN
       /\ o \in {1, 2, 4, 8, 16} /\ 2 * o <= g
       /\ Active(t) /\ Sublane(t) < 2 * o => s[t] = Sum(t, Residue(2 * o, Sublane(t)))
  /\ pc[t] = "store" => (Active(t) /\ Sublane(t) = 0 => s[t] = Sum(t, 0 .. g - 1))

ThreadOK(t) == OffsetFresh(t) /\ Bounded(t) /\ Summed(t)

SlotsOK ==
  \A k \in DOMAIN stats :
    /\ k \in 0 .. n_slots - 1 /\ stats[k] = Reference(Pairs[order[k]])
    /\ \A t \in Threads : Slot(t) = k /\ Sublane(t) = 0 => pc[t] = "done"

KernelInv == Launched /\ Domains /\ (\A t \in Threads : ThreadOK(t)) /\ SlotsOK
-----------------------------------------------------------------------------
(* Steps. *)

LEMMA PairInPlace ==
  ASSUME Launched, NEW t \in Nat, Active(t) PROVE IsPair(PairOf(t))
<1>1. Slot(t) \in Nat
  BY ThreadFacts DEF Launched
<1>2. Slot(t) \in 0 .. MaxSlots - 1
  BY <1>1, LaunchAssumption DEF Launched, Active
<1> QED
  BY <1>2, LaunchAssumption DEF Launched, IsPair, PairOf

(* What depends on the arguments of the launch only stays. *)
LEMMA Steady ==
  ASSUME args' = args
  PROVE  /\ Threads' = Threads /\ Warps' = Warps /\ (Hoisted' <=> Hoisted) /\ g' = g /\ n_slots' = n_slots
         /\ \A t : /\ Slot(t)' = Slot(t) /\ Sublane(t)' = Sublane(t) /\ (Active(t)' <=> Active(t))
                   /\ PairOf(t)' = PairOf(t)
         /\ \A r, l : Residue(r, l)' = Residue(r, l)
         /\ \A p : SliceBounds(p)' = SliceBounds(p) /\ Reference(p)' = Reference(p)
         /\ \A p, M : Share(p, M)' = Share(p, M)
         /\ \A k : order[k]' = order[k]
         /\ (Launched => Launched')
<1>1. rows' = rows /\ order' = order /\ range' = range /\ n_slots' = n_slots /\ g' = g /\ hoist' = hoist
  BY DEF args
<1>2. Threads' = Threads
  BY <1>1 DEF Threads
<1>3. Warps' = Warps
  BY <1>2 DEF Warps
<1>4. Hoisted' <=> Hoisted
  BY <1>1 DEF Hoisted
<1>5. ASSUME NEW t PROVE /\ Slot(t)' = Slot(t) /\ Sublane(t)' = Sublane(t) /\ (Active(t)' <=> Active(t))
                         /\ PairOf(t)' = PairOf(t)
  BY <1>1 DEF Slot, Sublane, Active, PairOf
<1>6. \A r, l : Residue(r, l)' = Residue(r, l)
  BY <1>1 DEF Residue
<1>7. ASSUME NEW p PROVE SliceBounds(p)' = SliceBounds(p)
  BY <1>1 DEF SliceBounds
<1>8. ASSUME NEW p PROVE Reference(p)' = Reference(p)
  BY <1>1 DEF Reference
<1>9. ASSUME NEW p, NEW M PROVE Share(p, M)' = Share(p, M)
  <2>1. Shorter(p)' = Shorter(p) /\ Slice(p)' = Slice(p)
    BY <1>7 DEF Shorter, Slice
  <2>2. \A i : LaneOf(p, i)' = LaneOf(p, i)
    BY <1>1, <1>7 DEF LaneOf
  <2>3. Common(p)' = Common(p)
    BY <1>1 DEF Common, DimsOf
  <2>4. Shared(p, M)' = Shared(p, M)
    BY <1>1, <2>1, <2>2, <2>3 DEF Shared
  <2> QED
    BY <2>4 DEF Share, Element
<1>10. Launched => Launched'
  BY <1>1 DEF Launched
<1> QED
  BY <1>1, <1>2, <1>3, <1>4, <1>5, <1>6, <1>7, <1>8, <1>9, <1>10

(* A thread whose state a step leaves alone is as it was. *)
LEMMA ThreadStays ==
  ASSUME args' = args, NEW u, ThreadOK(u),
         pc'[u] = pc[u], sl'[u] = sl[u], s'[u] = s[u], off'[u \div Width] = off[u \div Width]
  PROVE  ThreadOK(u)'
<1>1. /\ g' = g /\ (Hoisted' <=> Hoisted) /\ Sublane(u)' = Sublane(u) /\ (Active(u)' <=> Active(u))
      /\ PairOf(u)' = PairOf(u)
      /\ \A r, l : Residue(r, l)' = Residue(r, l)
      /\ \A p : SliceBounds(p)' = SliceBounds(p)
      /\ \A p, M : Share(p, M)' = Share(p, M)
  BY Steady
<1>2. SliceBounds(PairOf(u))' = SliceBounds(PairOf(u))
  BY <1>1
<1>3. OffsetFresh(u)'
  BY <1>1 DEF OffsetFresh, ThreadOK
<1>4. Bounded(u)'
  BY <1>1, <1>2 DEF Bounded, ThreadOK
<1>5. \A M : Sum(u, M)' = Sum(u, M)
  BY <1>1 DEF Sum
<1>6. Summed(u)'
  BY <1>1, <1>5 DEF Summed, ThreadOK
<1> QED
  BY <1>3, <1>4, <1>6 DEF ThreadOK

(* Slots stay as they are when no finished thread comes back. *)
LEMMA SlotsStay ==
  ASSUME args' = args, stats' = stats, SlotsOK,
         \A t \in Threads : pc[t] = "done" => pc'[t] = "done"
  PROVE  SlotsOK'
<1>1. /\ Threads' = Threads /\ n_slots' = n_slots
      /\ \A t : Slot(t)' = Slot(t) /\ Sublane(t)' = Sublane(t)
      /\ \A p : Reference(p)' = Reference(p)
      /\ \A k : order[k]' = order[k]
  BY Steady
<1>2. ASSUME NEW k \in DOMAIN stats
      PROVE  /\ k \in 0 .. n_slots - 1 /\ stats[k] = Reference(Pairs[order[k]])
             /\ \A t \in Threads : Slot(t) = k /\ Sublane(t) = 0 => pc'[t] = "done"
  BY DEF SlotsOK
<1> QED
  BY <1>1, <1>2 DEF SlotsOK
LEMMA KernelInit == ASSUME Init PROVE KernelInv
<1>1. Launched
  BY DEF Init, Launched
<1>2. Domains
  BY DEF Init, Domains
<1>3. ASSUME NEW t \in Threads PROVE ThreadOK(t)
  <2>1. t \div Width \in Warps
    BY DEF Warps
  <2>2. pc[t] = "bounds" /\ off[t \div Width] = g \div 2
    BY <2>1 DEF Init
  <2> QED
    BY <2>2 DEF ThreadOK, OffsetFresh, Bounded, Summed
<1>4. SlotsOK
  BY DEF Init, SlotsOK
<1> QED
  BY <1>1, <1>2, <1>3, <1>4 DEF KernelInv

(* What holds of every thread and of the warps of a launch. *)
LEMMA InThreads ==
  ASSUME KernelInv, NEW t \in Threads
  PROVE  /\ g \in Groups /\ n_slots \in Nat /\ t \in Nat /\ t \div Width \in Warps
         /\ g \in Nat \ {0} /\ Slot(t) \in Nat /\ Sublane(t) \in 0 .. g - 1
         /\ ThreadOK(t)
<1>1. g \in Groups /\ n_slots \in Nat
  BY LaunchAssumption DEF KernelInv, Launched
<1>2. t \in Nat
  BY <1>1, ThreadNumbers
<1> QED
  BY <1>1, <1>2, ThreadFacts, Sizes DEF KernelInv, Warps

(* A step of one thread: it alone is to be looked at. *)
LEMMA OneThread ==
  ASSUME KernelInv, NEW t \in Threads, args' = args, off' = off,
         DOMAIN pc' = Threads, DOMAIN sl' = Threads, DOMAIN s' = Threads,
         \A u \in Threads : u # t => pc'[u] = pc[u] /\ sl'[u] = sl[u] /\ s'[u] = s[u],
         ThreadOK(t)', SlotsOK'
  PROVE  KernelInv'
<1>1. Launched' /\ Threads' = Threads /\ Warps' = Warps
  BY Steady DEF KernelInv
<1>2. Domains'
  BY <1>1 DEF KernelInv, Domains
<1>3. ASSUME NEW u \in Threads PROVE ThreadOK(u)'
  <2>1. CASE u = t
    BY <2>1
  <2>2. CASE u # t
    BY <2>2, ThreadStays DEF KernelInv
  <2> QED
    BY <2>1, <2>2
<1> QED
  BY <1>1, <1>2, <1>3 DEF KernelInv

(* A step of a warp: its lanes are to be looked at. *)
LEMMA OneWarp ==
  ASSUME KernelInv, NEW w \in Warps, NEW l, args' = args, stats' = stats,
         Move(w, l), \A t \in Lanes(w) : pc[t] # "done",
         DOMAIN sl' = Threads, DOMAIN s' = Threads, DOMAIN off' = Warps,
         \A u \in Threads : u \notin Lanes(w) => sl'[u] = sl[u] /\ s'[u] = s[u],
         \A v \in Warps : v # w => off'[v] = off[v],
         \A u \in Lanes(w) : ThreadOK(u)'
  PROVE  KernelInv'
<1>1. Launched' /\ Threads' = Threads /\ Warps' = Warps
  BY Steady DEF KernelInv
<1>2. DOMAIN pc' = Threads /\ \A u \in Threads : u \notin Lanes(w) => pc'[u] = pc[u]
  BY DEF Move
<1>3. Domains'
  BY <1>1, <1>2 DEF KernelInv, Domains
<1>4. ASSUME NEW u \in Threads PROVE ThreadOK(u)'
  <2>1. CASE u \in Lanes(w)
    BY <2>1
  <2>2. CASE u \notin Lanes(w)
    <3>1. u \div Width # w /\ u \div Width \in Warps /\ ThreadOK(u)
      BY <2>2, InThreads, WarpsWhole
    <3>2. pc'[u] = pc[u] /\ sl'[u] = sl[u] /\ s'[u] = s[u] /\ off'[u \div Width] = off[u \div Width]
      BY <1>2, <2>2, <3>1
    <3> QED
      BY <3>1, <3>2, ThreadStays
  <2> QED
    BY <2>1, <2>2
<1>5. SlotsOK'
  <2>1. \A t \in Threads : pc[t] = "done" => pc'[t] = "done"
    BY <1>2
  <2> QED
    BY <2>1, SlotsStay DEF KernelInv
<1> QED
  BY <1>1, <1>3, <1>4, <1>5 DEF KernelInv

LEMMA KernelBounds == ASSUME KernelInv, NEW t \in Threads, Bounds(t) PROVE KernelInv'
<1> PICK a : a = AfterBounds(t)
  OBVIOUS
<1> PICK b : b = SliceBounds(PairOf(t))
  OBVIOUS
<1>1. /\ args' = args /\ off' = off /\ s' = s /\ stats' = stats
      /\ pc[t] = "bounds" /\ pc' = [pc EXCEPT ![t] = a]
      /\ sl' = IF Active(t) /\ (Hoisted => Sublane(t) = 0) THEN [sl EXCEPT ![t] = b] ELSE sl
  BY DEF Bounds
<1>2. DOMAIN pc = Threads /\ DOMAIN sl = Threads /\ DOMAIN s = Threads
  BY DEF KernelInv, Domains
<1>3. pc'[t] = a /\ (Active(t) /\ (Hoisted => Sublane(t) = 0) => sl'[t] = b)
  BY <1>1, <1>2
<1>4. \A u \in Threads : u # t => pc'[u] = pc[u] /\ sl'[u] = sl[u] /\ s'[u] = s[u]
  BY <1>1, <1>2
<1>5. DOMAIN pc' = Threads /\ DOMAIN sl' = Threads /\ DOMAIN s' = Threads
  BY <1>1, <1>2
<1>6. a = IF Hoisted THEN "bcast" ELSE "scan"
  BY DEF AfterBounds
<1>7. /\ (Hoisted' <=> Hoisted) /\ Sublane(t)' = Sublane(t) /\ (Active(t)' <=> Active(t)) /\ g' = g
      /\ SliceBounds(PairOf(t))' = b
  BY <1>1, Steady
<1>8. OffsetFresh(t)'
  BY <1>1, <1>7, InThreads DEF ThreadOK, OffsetFresh
<1>9. Bounded(t)'
  BY <1>3, <1>6, <1>7 DEF Bounded
<1>10. Summed(t)'
  BY <1>3, <1>6 DEF Summed
<1>11. SlotsOK'
  <2>1. \A u \in Threads : pc[u] = "done" => pc'[u] = "done"
    BY <1>1, <1>4
  <2> QED
    BY <1>1, <2>1, SlotsStay DEF KernelInv
<1> QED
  BY <1>1, <1>4, <1>5, <1>8, <1>9, <1>10, <1>11, OneThread DEF ThreadOK

LEMMA KernelScan == ASSUME KernelInv, NEW t \in Threads, Scan(t) PROVE KernelInv'
<1> PICK x : x = LaneScan(PairOf(t), sl[t], Sublane(t))
  OBVIOUS
<1>1. /\ args' = args /\ off' = off /\ sl' = sl /\ stats' = stats
      /\ pc[t] = "scan" /\ pc' = [pc EXCEPT ![t] = "sync"]
      /\ s' = IF Active(t) THEN [s EXCEPT ![t] = x] ELSE s
  BY DEF Scan
<1>2. DOMAIN pc = Threads /\ DOMAIN sl = Threads /\ DOMAIN s = Threads
  BY DEF KernelInv, Domains
<1>3. pc'[t] = "sync" /\ (Active(t) => s'[t] = x)
  BY <1>1, <1>2
<1>4. \A u \in Threads : u # t => pc'[u] = pc[u] /\ sl'[u] = sl[u] /\ s'[u] = s[u]
  BY <1>1, <1>2
<1>5. DOMAIN pc' = Threads /\ DOMAIN sl' = Threads /\ DOMAIN s' = Threads
  BY <1>1, <1>2
<1>6. Active(t) => x = Sum(t, {Sublane(t)})
  <2>1. ASSUME Active(t) PROVE x = Sum(t, {Sublane(t)})
    <3>1. t \in Nat /\ Launched /\ Bounded(t)
      BY InThreads DEF KernelInv, ThreadOK
    <3>2. IsPair(PairOf(t)) /\ sl[t] = SliceBounds(PairOf(t))
      BY <1>1, <2>1, <3>1, PairInPlace DEF Bounded
    <3> QED
      BY <3>2, LaneScansShare DEF Sum
  <2> QED
    BY <2>1
<1>7. /\ (Active(t)' <=> Active(t)) /\ g' = g /\ Sum(t, {Sublane(t)})' = Sum(t, {Sublane(t)})
  BY <1>1, Steady DEF Sum
<1>8. OffsetFresh(t)'
  BY <1>1, <1>7, InThreads DEF ThreadOK, OffsetFresh
<1>9. Bounded(t)'
  BY <1>3 DEF Bounded
<1>10. Summed(t)'
  BY <1>3, <1>6, <1>7 DEF Summed
<1>11. SlotsOK'
  <2>1. \A u \in Threads : pc[u] = "done" => pc'[u] = "done"
    BY <1>1, <1>4
  <2> QED
    BY <1>1, <2>1, SlotsStay DEF KernelInv
<1> QED
  BY <1>1, <1>4, <1>5, <1>8, <1>9, <1>10, <1>11, OneThread DEF ThreadOK
LEMMA KernelStore == ASSUME KernelInv, NEW t \in Threads, Store(t) PROVE KernelInv'
<1>1. /\ args' = args /\ off' = off /\ sl' = sl /\ s' = s
      /\ pc[t] = "store" /\ pc' = [pc EXCEPT ![t] = "done"]
      /\ stats' = IF Writes(t)
                  THEN [k \in DOMAIN stats \cup {Slot(t)} |-> IF k = Slot(t) THEN s[t] ELSE stats[k]]
                  ELSE stats
  BY DEF Store
<1>2. DOMAIN pc = Threads /\ DOMAIN sl = Threads /\ DOMAIN s = Threads
  BY DEF KernelInv, Domains
<1>3. pc'[t] = "done" /\ \A u \in Threads : u # t => pc'[u] = pc[u] /\ sl'[u] = sl[u] /\ s'[u] = s[u]
  BY <1>1, <1>2
<1>4. DOMAIN pc' = Threads /\ DOMAIN sl' = Threads /\ DOMAIN s' = Threads
  BY <1>1, <1>2
<1>5. ThreadOK(t)'
  BY <1>3 DEF ThreadOK, OffsetFresh, Bounded, Summed
<1>6. \A u \in Threads : pc[u] = "done" => pc'[u] = "done"
  BY <1>3
<1>7. SlotsOK'
  <2>1. CASE ~ Writes(t)
    BY <1>1, <1>6, <2>1, SlotsStay DEF KernelInv
  <2>2. CASE Writes(t)
    <3>1. /\ t \in Nat /\ g \in Groups /\ Slot(t) \in Nat /\ n_slots \in Nat
          /\ Active(t) /\ Sublane(t) = 0 /\ Launched
      BY <2>2, InThreads DEF Writes, KernelInv
    <3>2. s[t] = Reference(Pairs[order[Slot(t)]])
      <4>1. s[t] = Sum(t, 0 .. g - 1)
        BY <1>1, <3>1, InThreads DEF ThreadOK, Summed
      <4>2. IsPair(PairOf(t))
        BY <3>1, PairInPlace
      <4> QED
        BY <4>1, <4>2, AllLanes DEF Sum, PairOf
    <3>3. Slot(t) \in 0 .. n_slots - 1
      BY <3>1 DEF Active
    <3>4. ASSUME NEW u \in Threads, Slot(u) = Slot(t), Sublane(u) = 0 PROVE u = t
      <4>1. u \in Nat
        BY InThreads
      <4>2. u = g * Slot(u) + Sublane(u) /\ t = g * Slot(t) + Sublane(t)
        BY <3>1, <4>1, ThreadFacts
      <4> QED
        BY <3>1, <3>4, <4>2
    <3>5. /\ Threads' = Threads /\ n_slots' = n_slots
          /\ \A u : Slot(u)' = Slot(u) /\ Sublane(u)' = Sublane(u)
          /\ \A p : Reference(p)' = Reference(p)
          /\ \A k : order[k]' = order[k]
      BY <1>1, Steady
    <3>6. ASSUME NEW k \in DOMAIN stats'
          PROVE  /\ k \in 0 .. n_slots - 1 /\ stats'[k] = Reference(Pairs[order[k]])
                 /\ \A u \in Threads : Slot(u) = k /\ Sublane(u) = 0 => pc'[u] = "done"
      <4>1. CASE k = Slot(t)
        <5>1. stats'[k] = s[t]
          BY <1>1, <2>2, <4>1
        <5> QED
          BY <1>3, <3>2, <3>3, <3>4, <4>1, <5>1
      <4>2. CASE k # Slot(t)
        <5>1. k \in DOMAIN stats /\ stats'[k] = stats[k]
          BY <1>1, <2>2, <4>2
        <5> QED
          BY <1>6, <5>1 DEF KernelInv, SlotsOK
      <4> QED
        BY <4>1, <4>2
    <3> QED
      BY <3>5, <3>6 DEF SlotsOK
  <2> QED
    BY <2>1, <2>2
<1> QED
  BY <1>1, <1>3, <1>4, <1>5, <1>7, OneThread

(* The lanes of a warp are threads, and where the warp moves them to. *)
LEMMA WarpMoves ==
  ASSUME KernelInv, NEW w \in Warps, NEW l, Move(w, l), NEW u \in Lanes(w)
  PROVE  u \in Threads /\ u \div Width = w /\ pc'[u] = l
<1>1. u \in Threads
  BY WarpsWhole, LaunchAssumption DEF KernelInv, Launched
<1>2. u \div Width = w
  BY <1>1, InThreads, WarpsWhole
<1> QED
  BY <1>1, <1>2 DEF Move

LEMMA KernelBroadcast == ASSUME KernelInv, NEW w \in Warps, Broadcast(w) PROVE KernelInv'
<1>1. /\ args' = args /\ off' = off /\ s' = s /\ stats' = stats /\ Move(w, "scan")
      /\ \A t \in Lanes(w) : pc[t] = "bcast"
      /\ sl' = [t \in Threads |-> IF t \in Lanes(w) THEN sl[Segment(t)] ELSE sl[t]]
  BY DEF Broadcast, AllAt
<1>2. DOMAIN sl' = Threads /\ DOMAIN s' = Threads /\ DOMAIN off' = Warps
  BY <1>1 DEF KernelInv, Domains
<1>3. ASSUME NEW u \in Lanes(w) PROVE ThreadOK(u)'
  <2>1. u \in Threads /\ u \div Width = w /\ pc'[u] = "scan" /\ pc[u] = "bcast"
    BY <1>1, <1>3, WarpMoves
  <2>2. /\ g \in Groups /\ u \in Nat /\ g \in Nat \ {0} /\ Sublane(u) \in 0 .. g - 1 /\ n_slots \in Nat
    BY <2>1, InThreads
  <2>3. PICK f : f = Segment(u)
    OBVIOUS
  <2>4. f = u + (- Sublane(u))
    <3>1. (u % Width) % g = Sublane(u)
      BY <2>2, ThreadFacts
    <3>2. f = u - Sublane(u)
      BY <2>3, <3>1 DEF Segment
    <3> QED
      BY <2>2, <3>2
  <2>5. f \in Nat /\ Slot(f) = Slot(u) /\ Sublane(f) = 0 /\ f \div Width = w
    <3>1. PICK d : d = - Sublane(u)
      OBVIOUS
    <3>2. d \in Int /\ Sublane(u) + d = 0 /\ 0 \in 0 .. g - 1
      BY <2>2, <3>1
    <3> QED
      BY <2>1, <2>2, <2>4, <3>1, <3>2, Neighbour
  <2>6. f \in Lanes(w) /\ f \in Threads
    BY <2>2, <2>5, WarpsWhole
  <2>7. Active(u) => sl'[u] = SliceBounds(PairOf(u))
    <3>1. ASSUME Active(u) PROVE sl[f] = SliceBounds(PairOf(u))
      <4>1. Active(f) /\ PairOf(f) = PairOf(u) /\ pc[f] = "bcast" /\ ThreadOK(f)
        BY <1>1, <2>5, <2>6, <3>1, InThreads DEF Active, PairOf
      <4> QED
        BY <2>5, <4>1 DEF ThreadOK, Bounded
    <3>2. sl'[u] = sl[f]
      BY <1>1, <1>3, <2>1, <2>3
    <3> QED
      BY <3>1, <3>2
  <2>8. /\ (Active(u)' <=> Active(u)) /\ g' = g /\ SliceBounds(PairOf(u))' = SliceBounds(PairOf(u))
    BY <1>1, Steady
  <2>9. OffsetFresh(u)'
    BY <1>1, <2>1, <2>8, InThreads DEF ThreadOK, OffsetFresh
  <2>10. Bounded(u)'
    BY <2>1, <2>7, <2>8 DEF Bounded
  <2>11. Summed(u)'
    BY <2>1 DEF Summed
  <2> QED
    BY <2>9, <2>10, <2>11 DEF ThreadOK
<1> QED
  <2>1. \A t \in Lanes(w) : pc[t] # "done"
    BY <1>1
  <2>2. \A u \in Threads : u \notin Lanes(w) => sl'[u] = sl[u] /\ s'[u] = s[u]
    BY <1>1
  <2>3. \A v \in Warps : v # w => off'[v] = off[v]
    BY <1>1
  <2> QED
    BY <1>1, <1>2, <1>3, <2>1, <2>2, <2>3, OneWarp

LEMMA KernelSync == ASSUME KernelInv, NEW w \in Warps, SyncWarp(w) PROVE KernelInv'
<1> PICK l : l = IF off[w] > 0 THEN "reduce" ELSE "store"
  OBVIOUS
<1>1. /\ args' = args /\ off' = off /\ s' = s /\ sl' = sl /\ stats' = stats /\ Move(w, l)
      /\ \A t \in Lanes(w) : pc[t] = "sync"
  BY DEF SyncWarp, AllAt
<1>2. DOMAIN sl' = Threads /\ DOMAIN s' = Threads /\ DOMAIN off' = Warps
  BY <1>1 DEF KernelInv, Domains
<1>3. ASSUME NEW u \in Lanes(w) PROVE ThreadOK(u)'
  <2>1. u \in Threads /\ u \div Width = w /\ pc'[u] = l /\ pc[u] = "sync" /\ s'[u] = s[u]
    BY <1>1, <1>3, WarpMoves
  <2>2. /\ g \in {1, 2, 4, 8, 16, 32} /\ Sublane(u) \in 0 .. g - 1 /\ off[w] = g \div 2
        /\ (Active(u) => s[u] = Sum(u, {Sublane(u)}))
    BY <2>1, InThreads, Sizes DEF ThreadOK, OffsetFresh, Summed
  <2>3. /\ (Active(u)' <=> Active(u)) /\ Sublane(u)' = Sublane(u) /\ g' = g
        /\ \A M : Sum(u, M)' = Sum(u, M)
        /\ \A r, k : Residue(r, k)' = Residue(r, k)
    BY <1>1, Steady DEF Sum
  <2>4. OffsetFresh(u)' /\ Bounded(u)'
    BY <2>1 DEF OffsetFresh, Bounded
  <2>5. CASE g = 1
    <3>1. l = "store" /\ Sublane(u) = 0 /\ {Sublane(u)} = 0 .. g - 1
      BY <2>2, <2>5
    <3>2. Summed(u)'
      BY <2>1, <2>2, <2>3, <3>1 DEF Summed
    <3> QED
      BY <2>4, <3>2 DEF ThreadOK
  <2>6. CASE g # 1
    <3>1. l = "reduce" /\ off[w] \in {1, 2, 4, 8, 16} /\ 2 * off[w] = g
      BY <2>2, <2>6
    <3>2. Residue(g, Sublane(u)) = {Sublane(u)}
      <4>1. \A m \in 0 .. g - 1 : m % g = m
        BY <2>2
      <4> QED
        BY <2>2, <4>1 DEF Residue
    <3>3. off'[u \div Width] = off[w]
      BY <1>1, <2>1
    <3>4. Active(u) => s'[u] = Sum(u, Residue(2 * off[w], Sublane(u)))
      BY <2>1, <2>2, <3>1, <3>2
    <3>5. Summed(u)'
      BY <2>1, <2>3, <3>1, <3>3, <3>4 DEF Summed
    <3> QED
      BY <2>4, <3>5 DEF ThreadOK
  <2> QED
    BY <2>5, <2>6
<1> QED
  <2>1. \A t \in Lanes(w) : pc[t] # "done"
    BY <1>1
  <2>2. \A u \in Threads : u \notin Lanes(w) => sl'[u] = sl[u] /\ s'[u] = s[u]
    BY <1>1
  <2>3. \A v \in Warps : v # w => off'[v] = off[v]
    BY <1>1
  <2> QED
    BY <1>1, <1>2, <1>3, <2>1, <2>2, <2>3, OneWarp
(* Two halves of a residue class. *)
LEMMA Halves ==
  ASSUME g \in Groups, NEW o \in {1, 2, 4, 8, 16}, NEW l \in 0 .. o - 1
  PROVE  /\ Residue(2 * o, l) \cap Residue(2 * o, l + o) = {}
         /\ Residue(2 * o, l) \cup Residue(2 * o, l + o) = Residue(o, l)
<1>1. g \in Nat
  BY Sizes
<1>2. ASSUME NEW m \in Nat PROVE m % o = l <=> m % (2 * o) = l \/ m % (2 * o) = l + o
  BY SMTT(60)
<1>3. l # l + o
  OBVIOUS
<1>4. PICK M, N, R : M = Residue(2 * o, l) /\ N = Residue(2 * o, l + o) /\ R = Residue(o, l)
  OBVIOUS
<1>5. \A m : /\ (m \in M <=> m \in 0 .. g - 1 /\ m % (2 * o) = l)
             /\ (m \in N <=> m \in 0 .. g - 1 /\ m % (2 * o) = l + o)
             /\ (m \in R <=> m \in 0 .. g - 1 /\ m % o = l)
  BY <1>4 DEF Residue
<1>6. ASSUME NEW m \in 0 .. g - 1
      PROVE  ~ (m \in M /\ m \in N) /\ (m \in R <=> m \in M \/ m \in N)
  <2>1. m \in Nat
    BY <1>1
  <2>2. PICK x, y, z : x = m % o /\ y = m % (2 * o) /\ z = l + o
    OBVIOUS
  <2>3. x = l <=> y = l \/ y = z
    BY <1>2, <2>1, <2>2
  <2>4. (m \in M <=> y = l) /\ (m \in N <=> y = z) /\ (m \in R <=> x = l)
    BY <1>5, <2>2
  <2>5. l # z
    BY <1>3, <2>2
  <2> QED
    BY <2>3, <2>4, <2>5
<1>7. \A m : (m \in M \/ m \in N \/ m \in R) => m \in 0 .. g - 1
  BY <1>5
<1> QED
  BY <1>4, <1>6, <1>7

LEMMA KernelShuffle == ASSUME KernelInv, NEW w \in Warps, ShuffleDown(w) PROVE KernelInv'
<1> PICK o : o = off[w]
  OBVIOUS
<1> PICK l : l = IF o \div 2 > 0 THEN "reduce" ELSE "store"
  OBVIOUS
<1>1. /\ args' = args /\ sl' = sl /\ stats' = stats /\ Move(w, l)
      /\ \A t \in Lanes(w) : pc[t] = "reduce"
      /\ s' = [t \in Threads |-> IF t \in Lanes(w) THEN s[t] (+) s[Below(w, t)] ELSE s[t]]
      /\ off' = [off EXCEPT ![w] = o \div 2]
  BY DEF ShuffleDown, AllAt
<1>2. DOMAIN sl' = Threads /\ DOMAIN s' = Threads /\ DOMAIN off' = Warps
  BY <1>1 DEF KernelInv, Domains
<1>3. ASSUME NEW u \in Lanes(w) PROVE ThreadOK(u)'
  <2>1. u \in Threads /\ u \div Width = w /\ pc'[u] = l /\ pc[u] = "reduce"
    BY <1>1, <1>3, WarpMoves
  <2>2. /\ g \in Groups /\ g \in Nat /\ u \in Nat /\ Sublane(u) \in 0 .. g - 1 /\ n_slots \in Nat /\ Launched
        /\ o \in {1, 2, 4, 8, 16} /\ 2 * o <= g
        /\ (Active(u) /\ Sublane(u) < 2 * o => s[u] = Sum(u, Residue(2 * o, Sublane(u))))
    BY <2>1, InThreads DEF KernelInv, ThreadOK, Summed
  <2>3. /\ (Active(u)' <=> Active(u)) /\ Sublane(u)' = Sublane(u) /\ g' = g
        /\ \A M : Sum(u, M)' = Sum(u, M)
        /\ \A r, k : Residue(r, k)' = Residue(r, k)
    BY <1>1, Steady DEF Sum
  <2>4. off'[u \div Width] = o \div 2
    BY <1>1, <2>1 DEF KernelInv, Domains
  <2>5. OffsetFresh(u)' /\ Bounded(u)'
    BY <2>1 DEF OffsetFresh, Bounded
  <2>6. ASSUME Active(u), Sublane(u) < o PROVE s'[u] = Sum(u, Residue(o, Sublane(u)))
    <3>1. Sublane(u) + o \in 0 .. g - 1 /\ Sublane(u) + o < g
      <4>1. Sublane(u) \in Int /\ 0 <= Sublane(u) /\ o \in Int /\ 0 <= o
        BY <2>2
      <4>2. Sublane(u) + o < 2 * o
        BY <2>6, <4>1
      <4>3. g \in Nat /\ 2 * o <= g
        BY <2>2
      <4>4. PICK x : x = Sublane(u)
        OBVIOUS
      <4> QED
        BY <4>1, <4>2, <4>3, <4>4
    <3>2. PICK b : b = u + o
      OBVIOUS
    <3>3. b \in Nat /\ Slot(b) = Slot(u) /\ Sublane(b) = Sublane(u) + o /\ b \div Width = w
      BY <2>1, <2>2, <3>1, <3>2, Neighbour
    <3>4. Below(w, u) = b
      <4>1. (u % Width) % g = Sublane(u)
        BY <2>2, ThreadFacts
      <4> QED
        BY <3>1, <3>2, <4>1 DEF Below
    <3>5. b \in Lanes(w) /\ b \in Threads
      BY <2>2, <3>3, WarpsWhole
    <3>6. PairOf(b) = PairOf(u) /\ Active(b)
      BY <2>6, <3>3 DEF PairOf, Active
    <3>7. s[b] = Sum(u, Residue(2 * o, Sublane(u) + o))
      <4>1. pc[b] = "reduce" /\ Summed(b)
        BY <1>1, <3>5, InThreads DEF ThreadOK
      <4>2. Sublane(b) < 2 * o
        BY <2>2, <2>6, <3>3
      <4>3. s[b] = Sum(b, Residue(2 * o, Sublane(b)))
        BY <3>3, <3>6, <4>1, <4>2 DEF Summed
      <4> QED
        BY <3>3, <3>6, <4>3 DEF Sum
    <3>8. s[u] = Sum(u, Residue(2 * o, Sublane(u)))
      BY <2>2, <2>6
    <3>9. s'[u] = s[u] (+) s[b]
      BY <1>1, <1>3, <2>1, <3>4
    <3>10. IsPair(PairOf(u))
      BY <2>2, <2>6, PairInPlace
    <3>11. Sublane(u) \in 0 .. o - 1
      BY <2>2, <2>6
    <3>12. PICK M, N : M = Residue(2 * o, Sublane(u)) /\ N = Residue(2 * o, Sublane(u) + o)
      OBVIOUS
    <3>13. M \cap N = {} /\ M \cup N = Residue(o, Sublane(u))
      BY <2>2, <3>11, <3>12, Halves
    <3>14. SetToBag(Share(PairOf(u), M)) (+) SetToBag(Share(PairOf(u), N)) = SetToBag(Share(PairOf(u), M \cup N))
      BY <3>10, <3>13, SharesAdd
    <3> QED
      BY <3>7, <3>8, <3>9, <3>12, <3>13, <3>14 DEF Sum
  <2>7. CASE o = 1
    <3>1. l = "store" /\ Residue(o, 0) = 0 .. g - 1
      <4>1. \A m \in 0 .. g - 1 : m % 1 = 0
        BY <2>2
      <4> QED
        BY <2>7, <4>1 DEF Residue
    <3>2. Active(u) /\ Sublane(u) = 0 => s'[u] = Sum(u, 0 .. g - 1)
      BY <2>6, <2>7, <3>1
    <3>3. Summed(u)'
      BY <2>1, <2>3, <3>1, <3>2 DEF Summed
    <3> QED
      BY <2>5, <3>3 DEF ThreadOK
  <2>8. CASE o # 1
    <3>1. l = "reduce" /\ o \div 2 \in {1, 2, 4, 8, 16} /\ 2 * (o \div 2) = o /\ o <= g
      BY <2>2, <2>8
    <3>2. Summed(u)'
      BY <2>1, <2>3, <2>4, <2>6, <3>1 DEF Summed
    <3> QED
      BY <2>5, <3>2 DEF ThreadOK
  <2> QED
    BY <2>7, <2>8
<1> QED
  <2>1. \A t \in Lanes(w) : pc[t] # "done"
    BY <1>1
  <2>2. \A u \in Threads : u \notin Lanes(w) => sl'[u] = sl[u] /\ s'[u] = s[u]
    BY <1>1
  <2>3. \A v \in Warps : v # w => off'[v] = off[v]
    BY <1>1
  <2> QED
    BY <1>1, <1>2, <1>3, <2>1, <2>2, <2>3, OneWarp

(***************************************************************************)
(* Every reachable state of a launch satisfies the invariant.              *)
(***************************************************************************)
THEOREM KernelInvariance == Spec => []KernelInv
<1>1. Init => KernelInv
  BY KernelInit
<1>2. KernelInv /\ [Next]_vars => KernelInv'
  <2> SUFFICES ASSUME KernelInv, [Next]_vars PROVE KernelInv'
    OBVIOUS
  <2>1. ASSUME NEW t \in Threads, Bounds(t) PROVE KernelInv'
    BY <2>1, KernelBounds
  <2>2. ASSUME NEW t \in Threads, Scan(t) PROVE KernelInv'
    BY <2>2, KernelScan
  <2>3. ASSUME NEW t \in Threads, Store(t) PROVE KernelInv'
    BY <2>3, KernelStore
  <2>4. ASSUME NEW w \in Warps, Broadcast(w) PROVE KernelInv'
    BY <2>4, KernelBroadcast
  <2>5. ASSUME NEW w \in Warps, SyncWarp(w) PROVE KernelInv'
    BY <2>5, KernelSync
  <2>6. ASSUME NEW w \in Warps, ShuffleDown(w) PROVE KernelInv'
    BY <2>6, KernelShuffle
  <2>7. CASE UNCHANGED vars
    <3>1. /\ args' = args /\ pc' = pc /\ sl' = sl /\ s' = s /\ off' = off /\ stats' = stats
      BY <2>7 DEF vars
    <3>2. Launched' /\ Threads' = Threads /\ Warps' = Warps
      BY <3>1, Steady DEF KernelInv
    <3>3. Domains'
      BY <3>1, <3>2 DEF KernelInv, Domains
    <3>4. ASSUME NEW u \in Threads PROVE ThreadOK(u)'
      BY <3>1, ThreadStays DEF KernelInv
    <3>5. SlotsOK'
      BY <3>1, SlotsStay DEF KernelInv
    <3> QED
      BY <3>2, <3>3, <3>4, <3>5 DEF KernelInv
  <2> QED
    BY <2>1, <2>2, <2>3, <2>4, <2>5, <2>6, <2>7 DEF Next
<1> QED
  BY <1>1, <1>2, PTL DEF Spec

(***************************************************************************)
(* The statistics written for a slot are those of the pair the order puts  *)
(* there: for every group size the kernel is instantiated with, hoisted or *)
(* not, for rows of any length and any launch (subwarp_pair_stats).        *)
(***************************************************************************)
THEOREM Statistics == Spec => []StatsExact
<1>1. KernelInv => StatsExact
  <2> SUFFICES ASSUME KernelInv, NEW k \in DOMAIN stats
               PROVE  k < n_slots /\ stats[k] = Reference(Pairs[order[k]])
    BY DEF StatsExact
  <2>1. k \in 0 .. n_slots - 1 /\ stats[k] = Reference(Pairs[order[k]]) /\ n_slots \in Int
    BY LaunchAssumption DEF KernelInv, SlotsOK, Launched
  <2> QED
    BY <2>1
<1> QED
  BY <1>1, KernelInvariance, PTL

(***************************************************************************)
(* No slot is written by two threads: the stores of a launch do not race.  *)
(***************************************************************************)
THEOREM Writers == Spec => OneWriter
<1>1. KernelInv => \A t \in Threads : pc[t] = "store" /\ pc'[t] = "done" /\ Writes(t)
                                       => Slot(t) \notin DOMAIN stats
  <2> SUFFICES ASSUME KernelInv, NEW t \in Threads, pc[t] = "store", Writes(t), Slot(t) \in DOMAIN stats
               PROVE  FALSE
    OBVIOUS
  <2>1. Sublane(t) = 0
    BY DEF Writes
  <2>2. pc[t] = "done"
    BY <2>1 DEF KernelInv, SlotsOK
  <2> QED
    BY <2>2
<1> QED
  BY <1>1, KernelInvariance, PTL DEF OneWriter
=============================================================================
