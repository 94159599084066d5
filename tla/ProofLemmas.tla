----------------------------- MODULE ProofLemmas -----------------------------
(***************************************************************************)
(* What the other proof modules share: induction over the numbers and the  *)
(* finite sets, what they need to know of \div and %, the balanced ranges  *)
(* made with them, which cover everything exactly once, sorting and sums,  *)
(* least and greatest elements, common divisors, and joined sequences.     *)
(***************************************************************************)
EXTENDS Partition, SequencesExt, FiniteSetTheorems, TLAPS

-----------------------------------------------------------------------------
(* Induction.  The library states it of an operator, which the provers     *)
(* cannot instantiate.  Here it is stated of a set, the values for which a *)
(* claim holds, and comes from the least element of its complement.        *)

LEMMA LeastNumber ==
  ASSUME NEW T \in SUBSET Nat, T # {}
  PROVE  \E n \in T : \A m \in T : n <= m
<1> DEFINE R == OpToRel(<, Nat)
<1>1. IsWellFoundedOn(R, Nat)
  BY NatLessThanWellFounded
<1>2. \A x, y \in Nat : <<y, x>> \in R <=> y < x
  BY DEF OpToRel
<1> HIDE DEF R
<1>3. PICK x \in T : \A y \in T : ~ (<<y, x>> \in R)
  BY <1>1, WFMin
<1>4. ASSUME NEW y \in T PROVE x <= y
  <2>1. x \in Nat /\ y \in Nat
    OBVIOUS
  <2>2. ~ (y < x)
    BY <2>1, <1>2, <1>3
  <2> QED
    BY <2>1, <2>2
<1> QED
  BY <1>4

(* C holds of every number, if of each whose predecessors it holds of. *)
LEMMA NumberInduction ==
  ASSUME NEW C, \A n \in Nat : (\A m \in Nat : m < n => m \in C) => n \in C
  PROVE  \A n \in Nat : n \in C
<1> DEFINE Bad == {n \in Nat : n \notin C}
<1>1. SUFFICES ASSUME Bad # {} PROVE FALSE
  OBVIOUS
<1>2. PICK n \in Bad : \A m \in Bad : n <= m
  BY <1>1, LeastNumber
<1>3. \A m \in Nat : m < n => m \in C
  <2>1. SUFFICES ASSUME NEW m \in Nat, m < n, m \notin C PROVE FALSE
    OBVIOUS
  <2>2. n \in Nat /\ n <= m
    BY <1>2, <2>1
  <2> QED
    BY <2>1, <2>2
<1> QED
  BY <1>2, <1>3

(* C holds of every subset of S, if of each whose strict subsets it does. *)
LEMMA SetInduction ==
  ASSUME NEW S, IsFiniteSet(S), NEW C,
         \A q \in SUBSET S : (\A u \in SUBSET q : u # q => u \in C) => q \in C
  PROVE  \A q \in SUBSET S : q \in C
<1> DEFINE R   == StrictSubsetOrdering(S)
           Bad == {q \in SUBSET S : q \notin C}
<1>1. SUFFICES ASSUME Bad # {} PROVE FALSE
  OBVIOUS
<1>2. IsWellFoundedOn(R, SUBSET S)
  BY FS_StrictSubsetOrderingWellFounded, FS_FiniteSubsetsOfFinite
<1>3. \A q, u \in SUBSET S : <<u, q>> \in R <=> u \subseteq q /\ u # q
  BY DEF StrictSubsetOrdering
<1>4. PICK q \in Bad : \A u \in Bad : ~ (<<u, q>> \in R)
  <2>1. Bad \subseteq SUBSET S
    OBVIOUS
  <2> HIDE DEF R, Bad
  <2> QED
    BY <1>1, <1>2, <2>1, WFMin
<1> HIDE DEF R
<1>5. \A u \in SUBSET q : u # q => u \in C
  BY <1>3, <1>4
<1> QED
  BY <1>4, <1>5

(* Two functions of sets agree, if on every set on whose strict subsets     *)
(* they agree: a fold has one value, whatever it takes out first.          *)
LEMMA AgreeOnSets ==
  ASSUME NEW S, IsFiniteSet(S), NEW f, NEW h,
         \A q \in SUBSET S : (\A u \in SUBSET q : u # q => f[u] = h[u]) => f[q] = h[q]
  PROVE  \A q \in SUBSET S : f[q] = h[q]
<1> DEFINE C == {q \in SUBSET S : f[q] = h[q]}
<1>1. ASSUME NEW q \in SUBSET S, \A u \in SUBSET q : u # q => u \in C PROVE q \in C
  BY <1>1
<1> HIDE DEF C
<1>2. \A q \in SUBSET S : q \in C
  BY <1>1, SetInduction
<1> QED
  BY <1>2 DEF C

(* Two functions of numbers, likewise. *)
LEMMA AgreeOnNumbers ==
  ASSUME NEW f, NEW h,
         \A n \in Nat : (\A m \in Nat : m < n => f[m] = h[m]) => f[n] = h[n]
  PROVE  \A n \in Nat : f[n] = h[n]
<1> DEFINE C == {n \in Nat : f[n] = h[n]}
<1>1. ASSUME NEW n \in Nat, \A m \in Nat : m < n => m \in C PROVE n \in C
  BY <1>1
<1> HIDE DEF C
<1>2. \A n \in Nat : n \in C
  BY <1>1, NumberInduction
<1> QED
  BY <1>2 DEF C

-----------------------------------------------------------------------------
(* \div and %. *)

(* The quotient leaves a remainder in 0 .. n - 1 ... *)
LEMMA DivBounds ==
  ASSUME NEW a \in Nat, NEW n \in Nat \ {0}
  PROVE  a \div n \in Nat /\ n * (a \div n) <= a /\ a < n * (a \div n) + n
  BY SMT

(* ... and is the only number that does. *)
LEMMA DivUnique ==
  ASSUME NEW a \in Int, NEW n \in Nat \ {0}, NEW q \in Int,
         n * q <= a, a < n * q + n
  PROVE  a \div n = q
  BY SMTT(30)

(* A factor n > 0 can be cancelled from a strict inequality. *)
LEMMA Cancel ==
  ASSUME NEW a \in Int, NEW b \in Int, NEW n \in Nat \ {0}, n * a < n * b
  PROVE  a < b
  BY SMTT(30)

(* A factor that is not negative keeps the order. *)
LEMMA MulMono ==
  ASSUME NEW a \in Int, NEW b \in Int, NEW n \in Nat, a <= b
  PROVE  n * a <= n * b
  BY SMTT(30)

(* Division is the largest factor: q <= a \div n exactly if n * q <= a. *)
LEMMA DivGalois ==
  ASSUME NEW a \in Nat, NEW n \in Nat \ {0}, NEW q \in Nat
  PROVE  q <= a \div n <=> n * q <= a
<1> DEFINE d == a \div n
<1>1. d \in Nat /\ n * d <= a /\ a < n * d + n
  BY DivBounds
<1> HIDE DEF d
<1>2. ASSUME q <= d PROVE n * q <= a
  <2>1. n * q <= n * d
    BY <1>1, <1>2, MulMono
  <2>2. n * q \in Int /\ n * d \in Int
    BY <1>1
  <2> QED
    BY <1>1, <2>1, <2>2
<1>3. ASSUME n * q <= a PROVE q <= d
  <2>1. n * (d + 1) = n * d + n
    BY <1>1
  <2>2. n * q \in Int /\ n * d \in Int
    BY <1>1
  <2>3. n * q < n * (d + 1)
    BY <1>1, <1>3, <2>1, <2>2
  <2>4. q < d + 1
    BY <1>1, <2>3, Cancel
  <2> QED
    BY <1>1, <2>4
<1> QED
  BY <1>2, <1>3 DEF d

(* Division is monotonic. *)
LEMMA DivMono ==
  ASSUME NEW a \in Nat, NEW b \in Nat, NEW n \in Nat \ {0}, a <= b
  PROVE  a \div n <= b \div n
<1>1. a \div n \in Nat /\ n * (a \div n) <= a
  BY DivBounds
<1>2. n * (a \div n) <= b
  BY <1>1
<1> QED
  BY <1>1, <1>2, DivGalois

(* The remainder, likewise. *)
LEMMA ModUnique ==
  ASSUME NEW a \in Int, NEW n \in Nat \ {0}, NEW q \in Int, NEW r \in 0 .. n - 1,
         a = n * q + r
  PROVE  a % n = r /\ a \div n = q
  BY SMTT(30)

LEMMA ModBounds ==
  ASSUME NEW a \in Int, NEW n \in Nat \ {0}
  PROVE  /\ a % n \in 0 .. n - 1 /\ a \div n \in Int
         /\ a = n * (a \div n) + (a % n)
  BY SMTT(30)

LEMMA Distribute ==
  ASSUME NEW a \in Int, NEW b \in Int, NEW n \in Int
  PROVE  /\ n * (a + b) = n * a + n * b /\ (a + b) * n = a * n + b * n
         /\ n * (a - b) = n * a - n * b
  BY SMTT(30)

(* A multiple of n does not count modulo n. *)
LEMMA ModShift ==
  ASSUME NEW a \in Int, NEW n \in Nat \ {0}, NEW k \in Int
  PROVE  (a + n * k) % n = a % n
<1> DEFINE q == a \div n
           r == a % n
<1>1. r \in 0 .. n - 1 /\ q \in Int /\ a = n * q + r
  BY ModBounds
<1> HIDE DEF q, r
<1>2. n * (q + k) = n * q + n * k
  BY <1>1, Distribute
<1>3. n * q \in Int /\ n * k \in Int /\ q + k \in Int
  BY <1>1
<1>4. a + n * k \in Int /\ a + n * k = n * (q + k) + r
  BY <1>1, <1>2, <1>3
<1>5. (a + n * k) % n = r
  BY <1>1, <1>3, <1>4, ModUnique
<1> QED
  BY <1>5 DEF r

(* Reducing the summands first changes nothing. *)
LEMMA ModAdd ==
  ASSUME NEW a \in Int, NEW b \in Int, NEW c \in Int, NEW n \in Nat \ {0}
  PROVE  ((a % n) + (b % n) + c) % n = (a + b + c) % n
<1> DEFINE qa == a \div n
           qb == b \div n
           s  == (a % n) + (b % n) + c
<1>1. /\ a % n \in Int /\ qa \in Int /\ a = n * qa + (a % n)
      /\ b % n \in Int /\ qb \in Int /\ b = n * qb + (b % n)
  BY ModBounds
<1>2. s \in Int
  BY <1>1
<1> HIDE DEF qa, qb
<1>3. n * (qa + qb) = n * qa + n * qb /\ qa + qb \in Int
  BY <1>1, Distribute
<1>4. n * qa \in Int /\ n * qb \in Int
  BY <1>1
<1>5. a + b + c = s + n * (qa + qb)
  BY <1>1, <1>3, <1>4
<1> HIDE DEF s
<1>6. (s + n * (qa + qb)) % n = s % n
  BY <1>2, <1>3, ModShift
<1> QED
  BY <1>5, <1>6 DEF s

LEMMA ModAdd2 ==
  ASSUME NEW a \in Int, NEW b \in Int, NEW n \in Nat \ {0}
  PROVE  ((a % n) + (b % n)) % n = (a + b) % n
<1> DEFINE qa == a \div n
           qb == b \div n
           s  == (a % n) + (b % n)
<1>1. /\ a % n \in Int /\ qa \in Int /\ a = n * qa + (a % n)
      /\ b % n \in Int /\ qb \in Int /\ b = n * qb + (b % n)
  BY ModBounds
<1>2. s \in Int
  BY <1>1
<1> HIDE DEF qa, qb
<1>3. n * (qa + qb) = n * qa + n * qb /\ qa + qb \in Int
  BY <1>1, Distribute
<1>4. n * qa \in Int /\ n * qb \in Int
  BY <1>1
<1> DEFINE ra == a % n
           rb == b % n
<1>5. a + b = s + n * (qa + qb)
  <2>1. ra \in Int /\ rb \in Int /\ a = n * qa + ra /\ b = n * qb + rb /\ s = ra + rb
    BY <1>1
  <2> HIDE DEF ra, rb, s
  <2> QED
    BY <1>3, <1>4, <2>1
<1> HIDE DEF s
<1>6. (s + n * (qa + qb)) % n = s % n
  BY <1>2, <1>3, ModShift
<1> QED
  BY <1>5, <1>6 DEF s

-----------------------------------------------------------------------------
(* split_range. *)

LEMMA SplitType ==
  ASSUME NEW t \in Nat, NEW n \in Nat \ {0}, NEW g \in Nat
  PROVE  /\ SplitRange(t, g, n).begin \in Nat
         /\ SplitRange(t, g, n).end \in Nat
         /\ SplitRange(t, g, n).begin <= SplitRange(t, g, n).end
<1>1. t * g \in Nat /\ t * (g + 1) \in Nat /\ t * g <= t * (g + 1)
  BY MulMono
<1> QED
  BY <1>1, DivBounds, DivMono DEF SplitRange

(* The pieces tile [0, t), which is what the startup check asks for. *)
LEMMA SplitTiles ==
  ASSUME NEW t \in Nat, NEW n \in Nat \ {0}
  PROVE  RangesTile([g \in 0 .. n - 1 |-> SplitRange(t, g, n)], n, t)
<1>1. SplitRange(t, 0, n).begin = 0
  <2>1. 0 \div n = 0
    BY DivUnique
  <2> QED
    BY <2>1 DEF SplitRange
<1>2. \A g \in 1 .. n - 1 : SplitRange(t, g, n).begin = SplitRange(t, g - 1, n).end
  BY DEF SplitRange
<1>3. SplitRange(t, n - 1, n).end = t
  <2>1. (t * n) \div n = t
    <3>1. n * t = t * n /\ t * n \in Int
      OBVIOUS
    <3> QED
      BY <3>1, DivUnique
  <2>2. t * ((n - 1) + 1) = t * n
    OBVIOUS
  <2> QED
    BY <2>1, <2>2 DEF SplitRange
<1>4. \A g \in 0 .. n - 1 : SplitRange(t, g, n).begin <= SplitRange(t, g, n).end
  BY SplitType
<1>5. /\ 0 \in 0 .. n - 1 /\ n - 1 \in 0 .. n - 1
      /\ \A g \in 1 .. n - 1 : g \in 0 .. n - 1 /\ g - 1 \in 0 .. n - 1
  OBVIOUS
<1> QED
  BY <1>1, <1>2, <1>3, <1>4, <1>5 DEF RangesTile

(* One piece is everything. *)
LEMMA SplitWhole ==
  ASSUME NEW t \in Nat
  PROVE  SplitRange(t, 0, 1).begin = 0 /\ Members(SplitRange(t, 0, 1)) = 0 .. t - 1
<1>1. t * 0 = 0 /\ t * (0 + 1) = t
  OBVIOUS
<1>2. 0 \div 1 = 0 /\ t \div 1 = t
  BY DivUnique
<1>3. SplitRange(t, 0, 1).begin = 0 /\ SplitRange(t, 0, 1).end = t
  BY <1>1, <1>2 DEF SplitRange
<1> QED
  BY <1>3 DEF Members

(* No piece reaches beyond [0, t). *)
LEMMA SplitWithin ==
  ASSUME NEW t \in Nat, NEW n \in Nat \ {0}, NEW g \in 0 .. n - 1
  PROVE  Members(SplitRange(t, g, n)) \subseteq 0 .. t - 1
<1>1. t * (g + 1) \in Nat /\ t * n \in Nat /\ t * (g + 1) <= t * n
  BY MulMono
<1>2. (t * n) \div n = t
  <2>1. n * t = t * n /\ t * n \in Int
    OBVIOUS
  <2> QED
    BY <2>1, DivUnique
<1>3. SplitRange(t, g, n).end <= t
  BY <1>1, <1>2, DivMono DEF SplitRange
<1>4. SplitRange(t, g, n).begin \in Nat /\ SplitRange(t, g, n).end \in Nat
  BY SplitType
<1> QED
  BY <1>3, <1>4 DEF Members

(* Every element of [0, t) is in one of the pieces ... *)
LEMMA SplitCovers ==
  ASSUME NEW t \in Nat, NEW n \in Nat \ {0}, NEW x \in 0 .. t - 1
  PROVE  \E g \in 0 .. n - 1 : x \in Members(SplitRange(t, g, n))
<1> DEFINE a == n * (x + 1) - 1
           g == a \div t
<1>1. t \in Nat \ {0} /\ x \in Nat /\ x + 1 <= t
  OBVIOUS
<1>2. n * (x + 1) \in Nat /\ n * (x + 1) >= 1
  BY <1>1
<1>3. a \in Nat /\ a + 1 = n * (x + 1)
  BY <1>2
<1>4. g \in Nat /\ t * g <= a /\ a < t * g + t
  BY <1>1, <1>3, DivBounds
<1> HIDE DEF a, g
<1>5. g \in 0 .. n - 1
  <2>1. n * (x + 1) <= n * t
    BY <1>1, MulMono
  <2>2. t * g < t * n
    <3>1. n * t = t * n /\ t * n \in Int /\ t * g \in Int
      BY <1>4
    <3> QED
      BY <1>2, <1>3, <1>4, <2>1, <3>1
  <2>3. g < n
    BY <1>1, <1>4, <2>2, Cancel
  <2> QED
    BY <1>4, <2>3
<1>6. SplitRange(t, g, n).begin <= x
  <2>1. t * g \in Nat /\ ~ (n * (x + 1) <= t * g)
    BY <1>2, <1>3, <1>4
  <2>2. ~ (x + 1 <= (t * g) \div n)
    BY <1>1, <2>1, DivGalois
  <2> QED
    BY <1>1, <2>1, <2>2, DivBounds DEF SplitRange
<1>7. x < SplitRange(t, g, n).end
  <2>1. t * (g + 1) = t * g + t /\ t * (g + 1) \in Nat
    BY <1>4
  <2>2. n * (x + 1) <= t * (g + 1)
    BY <1>2, <1>3, <1>4, <2>1
  <2>3. x + 1 <= (t * (g + 1)) \div n
    BY <1>1, <2>1, <2>2, DivGalois
  <2> QED
    BY <1>1, <2>1, <2>3, DivBounds DEF SplitRange
<1> QED
  <2>1. SplitRange(t, g, n).begin \in Nat /\ SplitRange(t, g, n).end \in Nat
    BY <1>4, SplitType
  <2>2. x \in Members(SplitRange(t, g, n))
    BY <1>1, <1>6, <1>7, <2>1 DEF Members
  <2> QED
    BY <1>5, <2>2

(* ... and in no other. *)
LEMMA SplitDisjoint ==
  ASSUME NEW t \in Nat, NEW n \in Nat \ {0}, NEW g \in Nat, NEW h \in Nat, g < h
  PROVE  Members(SplitRange(t, g, n)) \cap Members(SplitRange(t, h, n)) = {}
<1>1. t * (g + 1) \in Nat /\ t * h \in Nat /\ t * (g + 1) <= t * h
  BY MulMono
<1>2. SplitRange(t, g, n).end <= SplitRange(t, h, n).begin
  BY <1>1, DivMono DEF SplitRange
<1>3. SplitRange(t, g, n).end \in Nat /\ SplitRange(t, h, n).begin \in Nat
  BY SplitType
<1>4. SplitRange(t, g, n).begin \in Nat /\ SplitRange(t, h, n).end \in Nat
  BY SplitType
<1> QED
  BY <1>2, <1>3, <1>4 DEF Members

LEMMA SplitOwnsOnce ==
  ASSUME NEW t \in Nat, NEW n \in Nat \ {0}, NEW x \in 0 .. t - 1
  PROVE  /\ \E g \in 0 .. n - 1 : x \in Members(SplitRange(t, g, n))
         /\ \A g, h \in 0 .. n - 1 :
              x \in Members(SplitRange(t, g, n)) /\ x \in Members(SplitRange(t, h, n))
              => g = h
<1>1. ASSUME NEW g \in 0 .. n - 1, NEW h \in 0 .. n - 1, g # h,
             x \in Members(SplitRange(t, g, n)), x \in Members(SplitRange(t, h, n))
      PROVE  FALSE
  <2>1. g < h \/ h < g
    BY <1>1
  <2> QED
    BY <1>1, <2>1, SplitDisjoint
<1> QED
  BY <1>1, SplitCovers

-----------------------------------------------------------------------------
(* Sorting.  s lists S in the order R: at k stands the element with k - 1   *)
(* before it.                                                              *)
StrictOrder(S, R) ==
  /\ \A x, y, z \in S : <<x, y>> \in R /\ <<y, z>> \in R => <<x, z>> \in R
  /\ \A x, y \in S : x = y \/ <<x, y>> \in R \/ <<y, x>> \in R
  /\ \A x \in S : <<x, x>> \notin R

Preceding(S, R, x) == {y \in S : <<y, x>> \in R}

Listing(S, R) == [k \in 1 .. Cardinality(S) |->
                    CHOOSE x \in S : Cardinality(Preceding(S, R, x)) = k - 1]

(* The number of elements before an element tells how large it is. *)
LEMMA RankGrows ==
  ASSUME NEW S, IsFiniteSet(S), NEW R, StrictOrder(S, R), NEW x \in S
  PROVE  /\ Cardinality(Preceding(S, R, x)) \in 0 .. Cardinality(S) - 1
         /\ \A y \in S : <<x, y>> \in R =>
              Cardinality(Preceding(S, R, x)) < Cardinality(Preceding(S, R, y))
<1>1. ASSUME NEW A \in SUBSET S, NEW B \in SUBSET S, A \subseteq B, NEW z \in B, z \notin A
      PROVE  Cardinality(A) < Cardinality(B) /\ Cardinality(A) \in Nat /\ Cardinality(B) \in Nat
  <2>1. IsFiniteSet(A) /\ IsFiniteSet(B)
    BY FS_Subset
  <2>2. Cardinality(A) \in Nat /\ Cardinality(B) \in Nat /\ Cardinality(A) <= Cardinality(B)
    BY <1>1, <2>1, FS_Subset, FS_CardinalityType
  <2>3. Cardinality(A) = Cardinality(B) => A = B
    BY <1>1, <2>1, FS_Subset
  <2> QED
    BY <1>1, <2>2, <2>3
<1>2. Preceding(S, R, x) \in SUBSET S /\ x \notin Preceding(S, R, x)
  BY DEF Preceding, StrictOrder
<1>3. Cardinality(Preceding(S, R, x)) < Cardinality(S)
      /\ Cardinality(Preceding(S, R, x)) \in Nat /\ Cardinality(S) \in Nat
  BY <1>1, <1>2
<1>4. ASSUME NEW y \in S, <<x, y>> \in R
      PROVE  Cardinality(Preceding(S, R, x)) < Cardinality(Preceding(S, R, y))
  <2>1. /\ Preceding(S, R, y) \in SUBSET S /\ x \in Preceding(S, R, y)
        /\ Preceding(S, R, x) \subseteq Preceding(S, R, y)
    BY <1>4 DEF Preceding, StrictOrder
  <2> QED
    BY <1>1, <1>2, <2>1
<1> QED
  BY <1>3, <1>4

(* So the list has every element once, in order. *)
LEMMA ListingOrders ==
  ASSUME NEW S, IsFiniteSet(S), NEW R, StrictOrder(S, R)
  PROVE  LET s == Listing(S, R)
             n == Cardinality(S)
         IN  /\ n \in Nat /\ s \in [1 .. n -> S]
             /\ \A k \in 1 .. n : Cardinality(Preceding(S, R, s[k])) = k - 1
             /\ \A x \in S : \E k \in 1 .. n : s[k] = x
             /\ \A k, l \in 1 .. n : k < l <=> <<s[k], s[l]>> \in R
<1> DEFINE n == Cardinality(S)
           rank == [x \in S |-> Cardinality(Preceding(S, R, x))]
           s == Listing(S, R)
<1>1. n \in Nat
  BY FS_CardinalityType
<1>2. rank \in [S -> 0 .. n - 1]
  BY RankGrows
<1>3. \A x, y \in S : <<x, y>> \in R => rank[x] < rank[y]
  BY RankGrows
<1>4. \A x, y \in S : rank[x] = rank[y] => x = y
  <2> SUFFICES ASSUME NEW x \in S, NEW y \in S, rank[x] = rank[y], x # y PROVE FALSE
    OBVIOUS
  <2>1. <<x, y>> \in R \/ <<y, x>> \in R
    BY DEF StrictOrder
  <2>2. rank[x] \in Int /\ rank[y] \in Int
    BY <1>2
  <2> HIDE DEF rank
  <2> QED
    BY <1>3, <2>1, <2>2
<1> HIDE DEF rank
<1>5. \A k \in 0 .. n - 1 : \E x \in S : rank[x] = k
  <2> DEFINE I == {rank[x] : x \in S}
  <2>1. rank \in Injection(S, I) /\ rank \in Surjection(S, I)
    BY <1>2, <1>4 DEF Injection, Surjection, IsInjective
  <2>2. IsFiniteSet(I) /\ Cardinality(I) = n
    <3> HIDE DEF I
    <3> QED
      BY <2>1, FS_Surjection
  <2>3. I \subseteq 0 .. n - 1
    BY <1>2
  <2>4. IsFiniteSet(0 .. n - 1) /\ Cardinality(0 .. n - 1) = n
    BY <1>1, FS_Interval, SMTT(20)
  <2>5. I = 0 .. n - 1
    BY <2>2, <2>3, <2>4, FS_Subset
  <2> QED
    BY <2>5
<1>6. \A k \in 1 .. n : s[k] \in S /\ rank[s[k]] = k - 1
  <2> SUFFICES ASSUME NEW k \in 1 .. n PROVE s[k] \in S /\ rank[s[k]] = k - 1
    OBVIOUS
  <2>1. s[k] = CHOOSE x \in S : rank[x] = k - 1
    BY DEF Listing, rank
  <2>2. k - 1 \in 0 .. n - 1
    BY <1>1
  <2>3. \E x \in S : rank[x] = k - 1
    BY <1>5, <2>2
  <2> QED
    BY <2>1, <2>3
<1>7. s \in [1 .. n -> S]
  BY <1>6 DEF Listing
<1>8. \A x \in S : \E k \in 1 .. n : s[k] = x
  <2> SUFFICES ASSUME NEW x \in S PROVE \E k \in 1 .. n : s[k] = x
    OBVIOUS
  <2>1. rank[x] \in 0 .. n - 1
    BY <1>2
  <2>2. PICK k \in 1 .. n : k - 1 = rank[x]
    <3>1. rank[x] + 1 \in 1 .. n /\ (rank[x] + 1) - 1 = rank[x]
      BY <1>1, <2>1
    <3> QED
      BY <3>1
  <2>3. s[k] \in S /\ rank[s[k]] = rank[x]
    BY <1>6, <2>2
  <2> HIDE DEF s
  <2> QED
    BY <1>4, <2>3
<1>9. ASSUME NEW k \in 1 .. n, NEW l \in 1 .. n PROVE k < l <=> <<s[k], s[l]>> \in R
  <2>1. s[k] \in S /\ s[l] \in S /\ rank[s[k]] = k - 1 /\ rank[s[l]] = l - 1
    BY <1>6
  <2>2. <<s[k], s[l]>> \in R => k < l
    BY <1>3, <2>1
  <2>3. <<s[l], s[k]>> \in R => l < k
    BY <1>3, <2>1
  <2>4. s[k] = s[l] => k = l
    BY <2>1
  <2>5. s[k] = s[l] \/ <<s[k], s[l]>> \in R \/ <<s[l], s[k]>> \in R
    BY <2>1 DEF StrictOrder
  <2> QED
    BY <2>2, <2>3, <2>4, <2>5
<1> QED
  BY <1>1, <1>6, <1>7, <1>8, <1>9 DEF rank

(* What comes before everything else is at the beginning. *)
LEMMA ListingBegins ==
  ASSUME NEW S, IsFiniteSet(S), NEW R, StrictOrder(S, R), NEW T \in SUBSET S,
         \A x \in S, t \in T : <<x, t>> \in R => x \in T
  PROVE  /\ Cardinality(T) \in 0 .. Cardinality(S)
         /\ \A k \in 1 .. Cardinality(S) : Listing(S, R)[k] \in T <=> k <= Cardinality(T)
<1> DEFINE n == Cardinality(S)
           m == Cardinality(T)
           s == Listing(S, R)
<1>1. IsFiniteSet(T) /\ n \in Nat /\ m \in Nat /\ m <= n
  BY FS_Subset, FS_CardinalityType
<1>2. ASSUME NEW k \in 1 .. n PROVE s[k] \in T <=> k <= m
  <2> DEFINE P == Preceding(S, R, s[k])
  <2>1. s[k] \in S /\ Cardinality(P) = k - 1
    BY ListingOrders
  <2>2. P \in SUBSET S /\ IsFiniteSet(P)
    BY FS_Subset DEF Preceding
  <2>3. ASSUME s[k] \in T PROVE k <= m
    <3>1. P \subseteq T \ {s[k]}
      BY <2>1, <2>3 DEF Preceding, StrictOrder
    <3>2. IsFiniteSet(T \ {s[k]}) /\ Cardinality(T \ {s[k]}) = m - 1
      BY <1>1, <2>3, FS_RemoveElement
    <3>3. Cardinality(P) <= m - 1
      BY <3>1, <3>2, FS_Subset
    <3> QED
      BY <1>1, <2>1, <3>3
  <2>4. ASSUME s[k] \notin T PROVE ~ (k <= m)
    <3>1. T \subseteq P
      BY <2>1, <2>4 DEF Preceding, StrictOrder
    <3>2. m <= Cardinality(P)
      BY <2>2, <3>1, FS_Subset
    <3> QED
      BY <1>1, <2>1, <3>2
  <2> QED
    BY <2>3, <2>4
<1> QED
  BY <1>1, <1>2

-----------------------------------------------------------------------------
(* Adding up the v[x] of a finite set: there is one way, and the sum is    *)
(* among the numbers T, which have 0 and what any two of them add up to.   *)
AnyOf(q) == CHOOSE x \in q : TRUE
Adds(v, q, f) == IF q = {} THEN 0 ELSE v[AnyOf(q)] + f[q \ {AnyOf(q)}]
Summing(v, q, f) == \A u \in SUBSET q : f[u] = Adds(v, u, f)
SumsOf(v, q, f, T) == f \in [SUBSET q -> T] /\ Summing(v, q, f)

LEMMA LessAny ==
  ASSUME NEW q, q # {}
  PROVE  AnyOf(q) \in q /\ q \ {AnyOf(q)} \in SUBSET q /\ q \ {AnyOf(q)} # q
<1>1. AnyOf(q) \in q
  BY DEF AnyOf
<1> QED
  BY <1>1

LEMMA SumsUnique ==
  ASSUME NEW S, IsFiniteSet(S), NEW v, NEW f, NEW g,
         Summing(v, S, f), Summing(v, S, g)
  PROVE  \A u \in SUBSET S : f[u] = g[u]
<1>1. ASSUME NEW q \in SUBSET S, \A u \in SUBSET q : u # q => f[u] = g[u] PROVE f[q] = g[q]
  <2>1. CASE q = {}
    BY <2>1 DEF Summing, Adds
  <2>2. CASE q # {}
    <3>1. f[q \ {AnyOf(q)}] = g[q \ {AnyOf(q)}]
      BY <1>1, <2>2, LessAny
    <3> QED
      BY <2>2, <3>1 DEF Summing, Adds
  <2> QED
    BY <2>1, <2>2
<1> QED
  BY <1>1, AgreeOnSets

LEMMA SumsRestrict ==
  ASSUME NEW T, NEW v, NEW q, NEW f, SumsOf(v, q, f, T), NEW u \in SUBSET q
  PROVE  SumsOf(v, u, [w \in SUBSET u |-> f[w]], T)
<1> DEFINE h == [w \in SUBSET u |-> f[w]]
<1>1. h \in [SUBSET u -> T]
  BY DEF SumsOf, Summing
<1>2. ASSUME NEW w \in SUBSET u PROVE h[w] = Adds(v, w, h)
  <2>1. f[w] = Adds(v, w, f) /\ h[w] = f[w]
    BY DEF SumsOf, Summing
  <2>2. CASE w = {}
    BY <2>1, <2>2 DEF Adds
  <2>3. CASE w # {}
    <3>1. w \ {AnyOf(w)} \in SUBSET u
      BY <2>3, LessAny
    <3>2. h[w \ {AnyOf(w)}] = f[w \ {AnyOf(w)}]
      BY <3>1
    <3> QED
      BY <2>1, <2>3, <3>2 DEF Adds
  <2> QED
    BY <2>2, <2>3
<1> QED
  BY <1>1, <1>2 DEF SumsOf, Summing

LEMMA SumsExist ==
  ASSUME NEW S, IsFiniteSet(S), NEW T, 0 \in T, \A a, b \in T : a + b \in T,
         NEW v, \A x \in S : v[x] \in T
  PROVE  \E f : SumsOf(v, S, f, T)
<1> DEFINE C == {q \in SUBSET S : \E f : SumsOf(v, q, f, T)}
<1>1. ASSUME NEW q \in SUBSET S, \A u \in SUBSET q : u # q => u \in C PROVE q \in C
  <2> DEFINE G(u) == CHOOSE f : SumsOf(v, u, f, T)
             h == [u \in SUBSET q |-> IF u = {} THEN 0
                                     ELSE v[AnyOf(u)] + G(u \ {AnyOf(u)})[u \ {AnyOf(u)}]]
  <2>1. ASSUME NEW u \in SUBSET q, u # q PROVE SumsOf(v, u, G(u), T)
    BY <1>1, <2>1
  <2>2. ASSUME NEW u \in SUBSET q, u # {}
        PROVE  /\ AnyOf(u) \in S /\ u \ {AnyOf(u)} \in SUBSET q /\ u \ {AnyOf(u)} # q
               /\ u \ {AnyOf(u)} \in SUBSET u
    BY <2>2, LessAny
  <2>3. ASSUME NEW w \in SUBSET q, w # q PROVE h[w] = G(w)[w]
    <3>1. SumsOf(v, w, G(w), T)
      BY <2>1, <2>3
    <3>2. G(w)[w] = Adds(v, w, G(w))
      BY <3>1 DEF SumsOf, Summing
    <3>3. CASE w = {}
      BY <3>2, <3>3 DEF Adds
    <3>4. CASE w # {}
      <4> DEFINE p == w \ {AnyOf(w)}
      <4>1. p \in SUBSET q /\ p # q /\ p \in SUBSET w
        BY <2>2, <3>4
      <4> HIDE DEF p
      <4>2. SumsOf(v, p, [x \in SUBSET p |-> G(w)[x]], T) /\ SumsOf(v, p, G(p), T)
        BY <2>1, <3>1, <4>1, SumsRestrict
      <4>3. IsFiniteSet(p)
        BY <4>1, FS_Subset
      <4>4. [x \in SUBSET p |-> G(w)[x]][p] = G(p)[p]
        <5> DEFINE a == [x \in SUBSET p |-> G(w)[x]]
                   b == G(p)
        <5> HIDE DEF a, b
        <5>1. Summing(v, p, a)
          BY <4>2 DEF SumsOf, a
        <5>2. Summing(v, p, b)
          BY <4>2 DEF SumsOf, b
        <5>3. \A u \in SUBSET p : a[u] = b[u]
          BY <4>3, <5>1, <5>2, SumsUnique
        <5> QED
          BY <5>3 DEF a, b
      <4>5. G(w)[p] = G(p)[p]
        BY <4>4
      <4>6. h[w] = v[AnyOf(w)] + G(p)[p]
        BY <3>4 DEF p
      <4>7. G(w)[w] = v[AnyOf(w)] + G(w)[p]
        BY <3>2, <3>4 DEF Adds, p
      <4> QED
        BY <4>5, <4>6, <4>7
    <3> QED
      BY <3>3, <3>4
  <2>4. ASSUME NEW u \in SUBSET q PROVE h[u] \in T /\ h[u] = Adds(v, u, h)
    <3>1. CASE u = {}
      BY <3>1 DEF Adds
    <3>2. CASE u # {}
      <4> DEFINE p == u \ {AnyOf(u)}
      <4>1. AnyOf(u) \in S /\ p \in SUBSET q /\ p # q
        BY <2>2, <3>2
      <4>2. h[u] = v[AnyOf(u)] + G(p)[p]
        BY <3>2
      <4> HIDE DEF p
      <4>3. SumsOf(v, p, G(p), T)
        BY <2>1, <4>1
      <4>4. G(p)[p] \in T
        BY <4>3 DEF SumsOf, Summing
      <4>5. h[p] = G(p)[p]
        BY <2>3, <4>1
      <4> HIDE DEF h, G
      <4>6. h[u] = v[AnyOf(u)] + h[p]
        BY <4>2, <4>5
      <4>7. v[AnyOf(u)] \in T
        BY <4>1
      <4> QED
        BY <3>2, <4>2, <4>4, <4>6, <4>7 DEF Adds, p
    <3> QED
      BY <3>1, <3>2
  <2>5. h = [u \in SUBSET q |-> h[u]]
    OBVIOUS
  <2> HIDE DEF h
  <2>6. SumsOf(v, q, h, T)
    BY <2>4, <2>5 DEF SumsOf, Summing
  <2> QED
    BY <2>6
<1> HIDE DEF C
<1>2. \A q \in SUBSET S : q \in C
  BY <1>1, SetInduction
<1> QED
  BY <1>2 DEF C

-----------------------------------------------------------------------------
(* The least and the greatest of a set. *)
LEMMA MinMember ==
  ASSUME NEW S \in SUBSET Nat, S # {}
  PROVE  Min(S) \in S /\ \A y \in S : Min(S) <= y
<1> DEFINE Less == {ss \in Nat \X Nat : ss[1] < ss[2]}
<1>1. IsWellFoundedOn(Less, Nat)
  BY NatLessThanWellFounded, Zenon DEF OpToRel
<1>2. PICK x \in S : \A y \in S : ~(<<y, x>> \in Less)
  <2> HIDE DEF Less
  <2> QED
    BY <1>1, WFMin
<1>3. ASSUME NEW y \in S PROVE x <= y
  <2>1. y < x => <<y, x>> \in Less
    OBVIOUS
  <2> QED
    BY <1>2, <2>1
<1> QED
  BY <1>3 DEF Min

LEMMA MinOfTwo ==
  ASSUME NEW a \in Int, NEW b \in Int
  PROVE  Min({a, b}) = IF a <= b THEN a ELSE b
<1>1. PICK m : m = IF a <= b THEN a ELSE b
  OBVIOUS
<1>2. m \in {a, b} /\ \A y \in {a, b} : m <= y
  BY <1>1
<1>3. \A x \in {a, b} : (\A y \in {a, b} : x <= y) => x = m
  BY <1>1
<1> QED
  BY <1>1, <1>2, <1>3 DEF Min

(* A set of whole numbers with a bound has a greatest. *)
LEMMA MaxMember ==
  ASSUME NEW S, S # {}, S \subseteq Int, NEW n \in Int, \A x \in S : x <= n
  PROVE  Max(S) \in S /\ \A y \in S : Max(S) >= y
<1> DEFINE T == {n - x : x \in S}
<1>1. T \in SUBSET Nat /\ T # {}
  <2>1. ASSUME NEW x \in S PROVE n - x \in Nat
    <3>1. x \in Int /\ x <= n
      OBVIOUS
    <3> QED
      BY <3>1
  <2> QED
    BY <2>1
<1>2. PICK m \in T : \A k \in T : m <= k
  <2> HIDE DEF T
  <2> QED
    BY <1>1, LeastNumber
<1>3. PICK x \in S : m = n - x
  OBVIOUS
<1>4. \A y \in S : x >= y
  <2> SUFFICES ASSUME NEW y \in S PROVE x >= y
    OBVIOUS
  <2>1. n - x <= n - y
    BY <1>2, <1>3
  <2>2. x \in Int /\ y \in Int
    OBVIOUS
  <2> QED
    BY <2>1, <2>2
<1> QED
  BY <1>4 DEF Max

(* Fractions with positive denominators are ordered. *)
LEMMA FractionOrder ==
  ASSUME NEW a \in Int, NEW b \in Int, NEW c \in Int,
         NEW x \in Nat \ {0}, NEW y \in Nat \ {0}, NEW z \in Nat \ {0},
         a * y >= b * x, b * z >= c * y
  PROVE  /\ a * z >= c * x
         /\ a * y > b * x \/ b * z > c * y => a * z > c * x
<1>1. PICK ay, bx, bz, cy, az, cx \in Int :
        ay = a * y /\ bx = b * x /\ bz = b * z /\ cy = c * y /\ az = a * z /\ cx = c * x
  OBVIOUS
<1>2. z * ay = y * az /\ z * bx = x * bz /\ x * cy = y * cx
  <2>1. z * (a * y) = y * (a * z) /\ z * (b * x) = x * (b * z) /\ x * (c * y) = y * (c * x)
    OBVIOUS
  <2> QED
    BY <1>1, <2>1
<1>3. z * bx <= z * ay /\ x * cy <= x * bz
  BY <1>1, MulMono
<1>4. PICK u, v, w \in Int : u = z * ay /\ v = z * bx /\ w = x * cy
  BY <1>1
<1>5. w <= v /\ v <= u /\ u = y * az /\ w = y * cx
  BY <1>2, <1>3, <1>4
<1>6. az >= cx
  <2>1. CASE az < cx
    <3>1. y * az < y * cx
      BY <1>1, <2>1, SMTT(30)
    <3> QED
      BY <1>4, <1>5, <3>1
  <2> QED
    BY <1>1, <2>1
<1>7. ASSUME ay > bx \/ bz > cy PROVE az > cx
  <2>1. CASE ay > bx
    <3>1. z * bx < z * ay
      BY <1>1, <2>1, SMTT(30)
    <3>2. y * cx < y * az
      BY <1>4, <1>5, <3>1
    <3> QED
      BY <1>1, <3>2, Cancel
  <2>2. CASE bz > cy
    <3>1. x * cy < x * bz
      BY <1>1, <2>2, SMTT(30)
    <3>2. y * cx < y * az
      BY <1>2, <1>4, <1>5, <3>1
    <3> QED
      BY <1>1, <3>2, Cancel
  <2> QED
    BY <1>7, <2>1, <2>2
<1> QED
  BY <1>1, <1>6, <1>7

-----------------------------------------------------------------------------
(* Common divisors: the greatest is a combination of its two numbers. *)
CommonDivisors(a, b) == {d \in 1 .. a : a % d = 0 /\ b % d = 0}

LEMMA MultipleOf ==
  ASSUME NEW a \in Int, NEW d \in Nat \ {0}
  PROVE  a % d = 0 <=> \E t \in Int : a = d * t
<1>1. ASSUME NEW t \in Int, a = d * t PROVE a % d = 0
  <2>1. 0 \in 0 .. d - 1 /\ a = d * t + 0
    BY <1>1
  <2> QED
    BY <2>1, ModUnique
<1>2. ASSUME a % d = 0 PROVE \E t \in Int : a = d * t
  BY <1>2, ModBounds
<1> QED
  BY <1>1, <1>2

LEMMA GreatestDivisor ==
  ASSUME NEW a \in Nat \ {0}, NEW b \in Int
  PROVE  /\ Max(CommonDivisors(a, b)) \in CommonDivisors(a, b)
         /\ \A d \in CommonDivisors(a, b) : d <= Max(CommonDivisors(a, b))
<1>1. 1 \in CommonDivisors(a, b)
  <2>1. a % 1 = 0 /\ b % 1 = 0
    BY ModUnique
  <2> QED
    BY <2>1 DEF CommonDivisors
<1>2. PICK D : D = CommonDivisors(a, b)
  OBVIOUS
<1>3. D # {} /\ D \subseteq Int /\ a \in Int /\ \A d \in D : d <= a
  BY <1>1, <1>2 DEF CommonDivisors
<1>4. Max(D) \in D /\ \A y \in D : Max(D) >= y
  BY ONLY <1>3, MaxMember
<1>5. \A y \in D : y \in Int /\ Max(D) \in Int
  BY <1>3, <1>4
<1> QED
  BY <1>2, <1>4, <1>5

(* The remainder of a combination is a combination. *)
Combines(c, a, b) == \E x \in Int, y \in Int : c = x * a + y * b

LEMMA CombinationLess ==
  ASSUME NEW a \in Int, NEW b \in Int, NEW m \in Nat \ {0}, Combines(m, a, b),
         NEW c \in Int, Combines(c, a, b)
  PROVE  Combines(c % m, a, b)
<1>1. PICK x \in Int, y \in Int, s \in Int, t \in Int : m = x * a + y * b /\ c = s * a + t * b
  BY DEF Combines
<1>2. c \div m \in Int /\ c % m \in Int /\ c = m * (c \div m) + (c % m)
  BY ONLY c \in Int, m \in Nat \ {0}, ModBounds
<1>3. PICK q \in Int, r \in Int : r = c % m /\ c = m * q + r
  BY <1>2
<1>4. r = (s - x * q) * a + (t - y * q) * b
  <2>1. PICK xa \in Int, yb \in Int, sa \in Int, tb \in Int : xa = x * a /\ yb = y * b /\ sa = s * a /\ tb = t * b
    OBVIOUS
  <2>2. m * q = xa * q + yb * q
    BY <1>1, <2>1, Distribute
  <2>3. xa * q = (x * q) * a /\ yb * q = (y * q) * b
    BY <2>1, SMT
  <2>4. (s - x * q) * a = sa - (x * q) * a
    <3>1. x * q \in Int
      OBVIOUS
    <3>2. a * (s - x * q) = a * s - a * (x * q)
      BY <3>1, Distribute
    <3>3. a * (s - x * q) = (s - x * q) * a /\ a * s = sa /\ a * (x * q) = (x * q) * a
      BY <2>1, <3>1, SMT
    <3> QED
      BY <3>2, <3>3
  <2>5. (t - y * q) * b = tb - (y * q) * b
    <3>1. y * q \in Int
      OBVIOUS
    <3>2. b * (t - y * q) = b * t - b * (y * q)
      BY <3>1, Distribute
    <3>3. b * (t - y * q) = (t - y * q) * b /\ b * t = tb /\ b * (y * q) = (y * q) * b
      BY <2>1, <3>1, SMT
    <3> QED
      BY <3>2, <3>3
  <2>6. PICK xqa \in Int, yqb \in Int : xqa = (x * q) * a /\ yqb = (y * q) * b
    OBVIOUS
  <2>7. PICK mq \in Int : mq = m * q
    BY <1>3
  <2>8. c = sa + tb /\ mq = xqa + yqb /\ c = mq + r
    BY <1>1, <1>3, <2>1, <2>2, <2>3, <2>6, <2>7
  <2>9. r = (sa - xqa) + (tb - yqb)
    BY <2>8
  <2> QED
    BY <2>4, <2>5, <2>6, <2>9
<1>5. s - x * q \in Int /\ t - y * q \in Int
  BY <1>3
<1>6. c % m = (s - x * q) * a + (t - y * q) * b
  BY <1>3, <1>4
<1> QED
  BY <1>5, <1>6 DEF Combines

(* The greatest common divisor is a combination of the two. *)
LEMMA Combined ==
  ASSUME NEW a \in Nat \ {0}, NEW b \in Nat \ {0}
  PROVE  Combines(Max(CommonDivisors(a, b)), a, b)
<1> DEFINE P == {c \in Nat \ {0} : Combines(c, a, b)}
<1>1. a \in P
  <2>1. a = 1 * a + 0 * b
    OBVIOUS
  <2> QED
    BY <2>1 DEF Combines
<1>2. P \in SUBSET Nat /\ P # {}
  BY <1>1
<1>3. PICK m \in P : \A k \in P : m <= k
  <2> HIDE DEF P
  <2> QED
    BY <1>2, LeastNumber
<1>4. PICK x \in Int, y \in Int : m = x * a + y * b
  BY DEF Combines
<1>5. m \in Nat \ {0}
  OBVIOUS
<1>6. ASSUME NEW e \in Int, Combines(e, a, b) PROVE e % m = 0
  <2>1. PICK c : c = e % m
    OBVIOUS
  <2>2. c \in 0 .. m - 1
    BY <1>5, <2>1, ModBounds
  <2>3. Combines(c, a, b)
    <3>1. Combines(m, a, b) /\ Combines(e, a, b)
      BY <1>6
    <3> QED
      BY <1>5, <2>1, <3>1, CombinationLess
  <2>4. CASE c = 0
    BY <2>1, <2>4
  <2>5. CASE c # 0
    <3>1. c \in P
      BY <2>2, <2>3, <2>5
    <3> HIDE DEF P
    <3> QED
      BY <1>3, <1>5, <2>2, <3>1
  <2> QED
    BY <2>4, <2>5
<1> HIDE DEF P
<1>7. a % m = 0 /\ b % m = 0
  <2>1. a = 1 * a + 0 * b /\ b = 0 * a + 1 * b /\ a \in Int /\ b \in Int /\ 0 \in Int /\ 1 \in Int
    OBVIOUS
  <2> QED
    BY <1>6, <2>1 DEF Combines
<1>8. PICK g : g = Max(CommonDivisors(a, b))
  OBVIOUS
<1>9. g \in CommonDivisors(a, b) /\ \A d \in CommonDivisors(a, b) : d <= g
  BY <1>8, GreatestDivisor
<1>10. g \in Nat \ {0} /\ g <= a /\ a % g = 0 /\ b % g = 0
  BY <1>9 DEF CommonDivisors
<1>11. m <= g
  <2>1. a % m = 0 /\ a \in Int /\ m \in Nat \ {0}
    BY <1>5, <1>7
  <2>2. PICK t \in Int : a = m * t
    BY ONLY <2>1, MultipleOf
  <2>3. t >= 1
    BY <1>5, <2>2, SMT
  <2>4. m <= a
    BY <1>5, <2>2, <2>3, SMT
  <2>5. m \in CommonDivisors(a, b)
    BY <1>5, <1>7, <2>4 DEF CommonDivisors
  <2> QED
    BY <1>9, <2>5
<1>12. g <= m
  <2>1. PICK s \in Int, t \in Int : a = g * s /\ b = g * t
    BY <1>10, MultipleOf
  <2>2. x * a = g * (x * s) /\ y * b = g * (y * t)
    BY <1>10, <2>1, SMT
  <2>3. PICK k \in Int : k = x * s + y * t
    OBVIOUS
  <2>4. x * s \in Int /\ y * t \in Int
    OBVIOUS
  <2>5. m = g * k
    BY <1>4, <1>10, <2>2, <2>3, <2>4, Distribute
  <2>6. k >= 1
    BY <1>5, <1>10, <2>5, SMT
  <2> QED
    BY <1>5, <1>10, <2>5, <2>6, SMT
<1>13. g = m
  BY <1>5, <1>10, <1>11, <1>12
<1> QED
  BY <1>4, <1>8, <1>13 DEF Combines

LEMMA DivisorScaled ==
  ASSUME NEW a \in Nat \ {0}, NEW b \in Nat \ {0}, NEW k \in Nat \ {0}
  PROVE  Max(CommonDivisors(k * a, k * b)) = k * Max(CommonDivisors(a, b))
<1>1. PICK g : g = Max(CommonDivisors(a, b))
  OBVIOUS
<1>2. g \in CommonDivisors(a, b)
  BY <1>1, GreatestDivisor
<1>3. g \in Nat \ {0} /\ g <= a /\ a % g = 0 /\ b % g = 0
  BY <1>2 DEF CommonDivisors
<1>4. PICK ka \in Nat \ {0}, kb \in Nat \ {0}, kg \in Nat \ {0} : ka = k * a /\ kb = k * b /\ kg = k * g
  BY <1>3, SMT
<1>5. kg \in CommonDivisors(ka, kb)
  <2>1. PICK s \in Int, t \in Int : a = g * s /\ b = g * t
    BY <1>3, MultipleOf
  <2>2. ka = kg * s /\ kb = kg * t
    BY <1>3, <1>4, <2>1, SMT
  <2>3. kg <= ka
    BY <1>3, <1>4, MulMono
  <2>4. ka % kg = 0 /\ kb % kg = 0
    BY <1>4, <2>2, MultipleOf
  <2> QED
    BY <1>4, <2>3, <2>4 DEF CommonDivisors
<1>6. ASSUME NEW d \in CommonDivisors(ka, kb) PROVE d <= kg
  <2>1. d \in Nat \ {0} /\ ka % d = 0 /\ kb % d = 0
    BY <1>6 DEF CommonDivisors
  <2>2. PICK s \in Int, t \in Int : ka = d * s /\ kb = d * t
    BY <2>1, MultipleOf
  <2>3. PICK x \in Int, y \in Int : g = x * a + y * b
    BY <1>1, Combined DEF Combines
  <2>4. kg = x * ka + y * kb
    <3>1. k * g = k * (x * a) + k * (y * b)
      <4>1. x * a \in Int /\ y * b \in Int
        OBVIOUS
      <4> QED
        BY <2>3, <4>1, Distribute
    <3>2. k * (x * a) = x * (k * a) /\ k * (y * b) = y * (k * b)
      BY SMT
    <3> QED
      BY <1>4, <3>1, <3>2
  <2>5. x * ka = d * (x * s) /\ y * kb = d * (y * t)
    BY <2>1, <2>2, SMT
  <2>6. PICK j \in Int : j = x * s + y * t
    OBVIOUS
  <2>7. kg = d * j
    <3>1. x * s \in Int /\ y * t \in Int /\ d \in Int
      BY <2>1
    <3> QED
      BY <2>4, <2>5, <2>6, <3>1, Distribute
  <2>8. j >= 1
    BY <1>4, <2>1, <2>7, SMT
  <2> QED
    BY <1>4, <2>1, <2>7, <2>8, SMT
<1>7. PICK h : h = Max(CommonDivisors(ka, kb))
  OBVIOUS
<1>8. h \in CommonDivisors(ka, kb) /\ \A d \in CommonDivisors(ka, kb) : d <= h
  BY <1>4, <1>7, GreatestDivisor
<1>9. h \in Int
  BY <1>8 DEF CommonDivisors
<1>10. h = kg
  BY <1>4, <1>5, <1>6, <1>8, <1>9
<1> QED
  BY <1>1, <1>4, <1>7, <1>10

-----------------------------------------------------------------------------
(* Sequences, their elements and what is joined of them. *)
Sequence(q) == Len(q) \in Nat /\ q \in Seq({q[i] : i \in DOMAIN q})

(* A function on 1 .. n is a sequence of n. *)
LEMMA Listed ==
  ASSUME NEW n \in Nat, NEW q, q = [i \in 1 .. n |-> q[i]]
  PROVE  Sequence(q) /\ Len(q) = n
<1>1. q \in Seq({q[i] : i \in DOMAIN q}) /\ Len(q) = n
  <2>1. PICK S : S = {q[i] : i \in DOMAIN q}
    OBVIOUS
  <2>2. q \in [1 .. n -> S]
    BY <2>1
  <2> QED
    BY <2>1, <2>2
<1> QED
  BY <1>1 DEF Sequence

LEMMA Appended ==
  ASSUME NEW q, Sequence(q), NEW e
  PROVE  /\ Sequence(Append(q, e)) /\ Len(Append(q, e)) = Len(q) + 1
         /\ DOMAIN q = 1 .. Len(q) /\ DOMAIN Append(q, e) = 1 .. Len(q) + 1
         /\ \A i \in 1 .. Len(q) : Append(q, e)[i] = q[i]
         /\ Append(q, e)[Len(q) + 1] = e
<1>1. PICK S : S = {q[i] : i \in DOMAIN q} \cup {e}
  OBVIOUS
<1>2. q \in Seq(S) /\ e \in S /\ Len(q) \in Nat
  BY <1>1 DEF Sequence
<1>3. PICK r : r = Append(q, e)
  OBVIOUS
<1>4. /\ r \in Seq(S) /\ Len(r) = Len(q) + 1 /\ DOMAIN q = 1 .. Len(q) /\ DOMAIN r = 1 .. Len(q) + 1
      /\ \A i \in 1 .. Len(q) : r[i] = q[i]
      /\ r[Len(q) + 1] = e
  BY <1>2, <1>3
<1>5. r \in Seq({r[i] : i \in DOMAIN r})
  BY <1>4
<1>6. Len(r) \in Nat
  BY <1>2, <1>4
<1> QED
  BY <1>3, <1>4, <1>5, <1>6 DEF Sequence

LEMMA Concatenated ==
  ASSUME NEW q, Sequence(q), NEW r, Sequence(r)
  PROVE  /\ Sequence(q \o r) /\ Len(q \o r) = Len(q) + Len(r)
         /\ DOMAIN q = 1 .. Len(q)
         /\ \A i \in 1 .. Len(q) : (q \o r)[i] = q[i]
         /\ \A i \in 1 .. Len(r) : (q \o r)[Len(q) + i] = r[i]
<1>1. PICK S : S = {q[i] : i \in DOMAIN q} \cup {r[i] : i \in DOMAIN r}
  OBVIOUS
<1>2. q \in Seq(S) /\ r \in Seq(S) /\ Len(q) \in Nat /\ Len(r) \in Nat
  BY <1>1 DEF Sequence
<1>3. PICK p : p = q \o r
  OBVIOUS
<1>4. /\ p \in Seq(S) /\ Len(p) = Len(q) + Len(r) /\ DOMAIN q = 1 .. Len(q)
      /\ \A i \in 1 .. Len(q) : p[i] = q[i]
      /\ \A i \in 1 .. Len(r) : p[Len(q) + i] = r[i]
  BY <1>2, <1>3
<1>5. p \in Seq({p[i] : i \in DOMAIN p}) /\ Len(p) \in Nat
  BY <1>2, <1>4
<1> QED
  BY <1>3, <1>4, <1>5 DEF Sequence

(* The first k of the sequences of a sequence, one after the other. *)
Joins(f, s, k) ==
  /\ f = [i \in 1 .. k |-> f[i]] /\ f[1] = s[1]
  /\ \A i \in 2 .. k : f[i] = f[i - 1] \o s[i]

LEMMA JoinsExist ==
  ASSUME NEW s
  PROVE  \A k \in Nat : k > 0 => \E f : Joins(f, s, k)
<1>1. PICK C : C = {k \in Nat : k > 0 => \E f : Joins(f, s, k)}
  OBVIOUS
<1>2. ASSUME NEW k \in Nat, \A m \in Nat : m < k => m \in C PROVE k \in C
  <2>1. SUFFICES ASSUME k > 0 PROVE \E f : Joins(f, s, k)
    BY <1>1
  <2>2. CASE k = 1
    <3>1. PICK f : f = [i \in 1 .. k |-> s[1]]
      OBVIOUS
    <3>2. f = [i \in 1 .. k |-> f[i]] /\ f[1] = s[1] /\ 2 .. k = {}
      BY <2>2, <3>1
    <3> QED
      BY <3>2 DEF Joins
  <2>3. CASE k # 1
    <3>1. k - 1 \in Nat /\ k - 1 < k /\ k - 1 > 0
      BY <2>1, <2>3
    <3>2. PICK g : Joins(g, s, k - 1)
      BY <1>1, <1>2, <3>1
    <3>3. PICK f : f = [i \in 1 .. k |-> IF i = k THEN g[k - 1] \o s[k] ELSE g[i]]
      OBVIOUS
    <3>4. f[1] = s[1]
      BY <3>1, <3>2, <3>3 DEF Joins
    <3>5. ASSUME NEW i \in 2 .. k PROVE f[i] = f[i - 1] \o s[i]
      <4>1. i - 1 \in 1 .. k /\ i - 1 # k /\ i \in 1 .. k
        BY <3>5
      <4>2. f[i - 1] = g[i - 1]
        BY <3>3, <4>1
      <4>3. CASE i = k
        BY <3>3, <4>1, <4>2, <4>3
      <4>4. CASE i # k
        <5>1. i \in 2 .. k - 1
          BY <4>4
        <5> QED
          BY <3>2, <3>3, <4>1, <4>2, <4>4, <5>1 DEF Joins
      <4> QED
        BY <4>3, <4>4
    <3>6. f = [i \in 1 .. k |-> f[i]]
      BY <3>3
    <3> QED
      BY <3>4, <3>5, <3>6 DEF Joins
  <2> QED
    BY <2>2, <2>3
<1> HIDE DEF Joins
<1>3. \A k \in Nat : k \in C
  BY <1>2, NumberInduction
<1> QED
  BY <1>1, <1>3

LEMMA Flattened ==
  ASSUME NEW s, NEW n \in Nat \ {0}, Len(s) = n
  PROVE  \E f : Joins(f, s, n) /\ FlattenSeq(s) = f[n]
<1> DEFINE Rec(f) == [i \in 1 .. n |-> IF i = 1 THEN s[i] ELSE f[i - 1] \o s[i]]
<1>1. FlattenSeq(s) = (CHOOSE f : f = Rec(f))[n]
  BY DEF FlattenSeq
<1>2. PICK h : Joins(h, s, n)
  BY JoinsExist
<1>3. h = Rec(h)
  <2>1. ASSUME NEW i \in 1 .. n PROVE h[i] = IF i = 1 THEN s[i] ELSE h[i - 1] \o s[i]
    <3>1. CASE i = 1
      BY <1>2, <3>1 DEF Joins
    <3>2. CASE i # 1
      <4>1. i \in 2 .. n
        BY <3>2
      <4> QED
        BY <1>2, <3>2, <4>1 DEF Joins
    <3> QED
      BY <3>1, <3>2
  <2>2. h = [i \in 1 .. n |-> h[i]]
    BY <1>2 DEF Joins
  <2>3. [i \in 1 .. n |-> h[i]] = Rec(h)
    BY <2>1
  <2> QED
    BY <2>2, <2>3
<1> HIDE DEF Rec
<1>4. PICK f : f = (CHOOSE g : g = Rec(g))
  OBVIOUS
<1>5. f = Rec(f)
  BY <1>3, <1>4
<1>6. Joins(f, s, n)
  <2>1. f[1] = s[1] /\ f = [i \in 1 .. n |-> f[i]]
    BY <1>5 DEF Rec
  <2>2. ASSUME NEW i \in 2 .. n PROVE f[i] = f[i - 1] \o s[i]
    <3>1. i \in 1 .. n /\ i # 1
      OBVIOUS
    <3> QED
      BY <1>5, <3>1 DEF Rec
  <2> QED
    BY <2>1, <2>2 DEF Joins
<1> QED
  BY <1>1, <1>4, <1>6

(* Sequences of k elements each: where theirs are. *)
LEMMA FlattenBlocks ==
  ASSUME NEW s, Sequence(s), \A i \in DOMAIN s : Sequence(s[i])
  PROVE  /\ Sequence(FlattenSeq(s))
         /\ (\A i \in DOMAIN s : Len(s[i]) = 2) =>
              /\ Len(FlattenSeq(s)) = 2 * Len(s)
              /\ \A i \in DOMAIN s : /\ FlattenSeq(s)[2 * i - 1] = s[i][1]
                                     /\ FlattenSeq(s)[2 * i] = s[i][2]
<1>1. PICK n \in Nat : n = Len(s)
  BY DEF Sequence
<1>2. DOMAIN s = 1 .. n /\ s = [i \in 1 .. n |-> s[i]]
  BY <1>1 DEF Sequence
<1>3. CASE n = 0
  <2>1. FlattenSeq(s) = s
    BY <1>1, <1>3 DEF FlattenSeq
  <2>2. DOMAIN s = {}
    BY <1>2, <1>3
  <2> QED
    BY <1>1, <1>3, <2>1, <2>2
<1>4. CASE n # 0
  <2>1. PICK f : Joins(f, s, n) /\ FlattenSeq(s) = f[n]
    BY <1>1, <1>4, Flattened
  <2>2. PICK Twos : Twos <=> \A i \in DOMAIN s : Len(s[i]) = 2
    OBVIOUS
  <2>3. PICK C : C = {k \in Nat : k \in 1 .. n =>
                        /\ Sequence(f[k])
                        /\ Twos => /\ Len(f[k]) = 2 * k
                                   /\ \A i \in 1 .. k : f[k][2 * i - 1] = s[i][1] /\ f[k][2 * i] = s[i][2]}
    OBVIOUS
  <2>4. ASSUME NEW k \in Nat, \A m \in Nat : m < k => m \in C PROVE k \in C
    <3>1. SUFFICES ASSUME k \in 1 .. n
                   PROVE  /\ Sequence(f[k])
                          /\ Twos => /\ Len(f[k]) = 2 * k
                                     /\ \A i \in 1 .. k : f[k][2 * i - 1] = s[i][1] /\ f[k][2 * i] = s[i][2]
      BY <2>3
    <3>2. Sequence(s[k]) /\ (Twos => Len(s[k]) = 2)
      BY <1>2, <2>2, <3>1
    <3>3. CASE k = 1
      <4>1. f[k] = s[k]
        BY <2>1, <3>3 DEF Joins
      <4>2. \A i \in 1 .. k : i = k /\ 2 * i - 1 = 1 /\ 2 * i = 2
        BY <3>3
      <4> QED
        BY <3>2, <3>3, <4>1, <4>2
    <3>4. CASE k # 1
      <4>1. k \in 2 .. n /\ k - 1 \in Nat /\ k - 1 < k /\ k - 1 \in 1 .. n
        BY <3>1, <3>4
      <4>2. PICK g, j : g = f[k - 1] /\ j = k - 1
        OBVIOUS
      <4>3. /\ Sequence(g)
            /\ Twos => /\ Len(g) = 2 * j
                       /\ \A i \in 1 .. j : g[2 * i - 1] = s[i][1] /\ g[2 * i] = s[i][2]
        BY <2>3, <2>4, <4>1, <4>2
      <4>4. f[k] = g \o s[k]
        BY <2>1, <4>1, <4>2 DEF Joins
      <4>5. PICK e, q : e = s[k] /\ q = f[k]
        OBVIOUS
      <4>6. /\ Sequence(q) /\ Len(q) = Len(g) + Len(e)
            /\ \A i \in 1 .. Len(g) : q[i] = g[i]
            /\ \A i \in 1 .. Len(e) : q[Len(g) + i] = e[i]
        <5>1. Sequence(g) /\ Sequence(e) /\ q = g \o e
          BY <3>2, <4>3, <4>4, <4>5
        <5>2. /\ Sequence(g \o e) /\ Len(g \o e) = Len(g) + Len(e)
              /\ \A i \in 1 .. Len(g) : (g \o e)[i] = g[i]
              /\ \A i \in 1 .. Len(e) : (g \o e)[Len(g) + i] = e[i]
          BY <5>1, Concatenated
        <5> QED
          BY <5>1, <5>2
      <4>7. ASSUME Twos
            PROVE  /\ Len(q) = 2 * k
                   /\ \A i \in 1 .. k : q[2 * i - 1] = s[i][1] /\ q[2 * i] = s[i][2]
        <5>1. Len(g) = 2 * j /\ Len(e) = 2 /\ j \in Nat /\ k = j + 1
          BY <3>2, <4>1, <4>2, <4>3, <4>5, <4>7
        <5>2. Len(q) = 2 * k
          BY <4>6, <5>1
        <5>3. ASSUME NEW i \in 1 .. k PROVE q[2 * i - 1] = s[i][1] /\ q[2 * i] = s[i][2]
          <6>1. CASE i = k
            <7>1. 2 * i - 1 = Len(g) + 1 /\ 2 * i = Len(g) + 2 /\ 1 \in 1 .. Len(e) /\ 2 \in 1 .. Len(e)
              BY <5>1, <6>1
            <7>2. q[2 * i - 1] = e[1] /\ q[2 * i] = e[2]
              BY <4>6, <7>1
            <7> QED
              BY <4>5, <6>1, <7>2
          <6>2. CASE i # k
            <7>1. i \in 1 .. j /\ 2 * i - 1 \in 1 .. Len(g) /\ 2 * i \in 1 .. Len(g)
              BY <5>1, <6>2
            <7>2. q[2 * i - 1] = g[2 * i - 1] /\ q[2 * i] = g[2 * i]
              BY <4>6, <7>1
            <7> QED
              BY <4>3, <4>7, <7>1, <7>2
          <6> QED
            BY <6>1, <6>2
        <5> QED
          BY <5>2, <5>3
      <4> QED
        BY <4>5, <4>6, <4>7
    <3> QED
      BY <3>3, <3>4
  <2>5. \A k \in Nat : k \in C
    BY <2>4, NumberInduction
  <2>6. n \in C /\ n \in 1 .. n
    BY <1>4, <2>5
  <2> QED
    BY <1>1, <1>2, <2>1, <2>2, <2>3, <2>6
<1> QED
  BY <1>3, <1>4

LEMMA PairJoined ==
  ASSUME NEW q, Sequence(q), NEW r, Sequence(r)
  PROVE  Sequence(FlattenSeq(<<q, r>>)) /\ Len(FlattenSeq(<<q, r>>)) = Len(q) + Len(r)
<1>1. PICK s, n, p : s = <<q, r>> /\ n = 2 /\ p = q \o r
  OBVIOUS
<1>2. Len(s) = n /\ s[1] = q /\ s[2] = r /\ n \in Nat \ {0}
  BY <1>1
<1>3. PICK f : Joins(f, s, n) /\ FlattenSeq(s) = f[n]
  BY <1>2, Flattened
<1>4. f[1] = q /\ f[2] = f[2 - 1] \o s[2]
  BY <1>1, <1>2, <1>3 DEF Joins
<1>5. 2 - 1 = 1
  OBVIOUS
<1>6. f[n] = p
  BY <1>1, <1>2, <1>4, <1>5
<1>7. Sequence(p) /\ Len(p) = Len(q) + Len(r)
  BY <1>1, Concatenated
<1> QED
  BY <1>1, <1>3, <1>6, <1>7

LEMMA LastOf ==
  ASSUME NEW n \in Nat, NEW s \in SUBSET (1 .. n), s # {}
  PROVE  /\ Max(s) \in s /\ \A i \in s : i <= Max(s)
         /\ IsFiniteSet(s) /\ Cardinality(s) \in Nat /\ Cardinality(s) <= n
         /\ s \ {Max(s)} \in SUBSET (1 .. n) /\ Cardinality(s \ {Max(s)}) = Cardinality(s) - 1
<1>1. n \in Int /\ \A x \in s : x <= n
  OBVIOUS
<1>2. s \subseteq Int
  OBVIOUS
<1>3. Max(s) \in s /\ \A y \in s : Max(s) >= y
  BY <1>1, <1>2, MaxMember
<1>4. IsFiniteSet(1 .. n) /\ Cardinality(1 .. n) = n
  BY FS_Interval
<1>5. IsFiniteSet(s) /\ Cardinality(s) \in Nat /\ Cardinality(s) <= n
  BY <1>4, FS_Subset, FS_CardinalityType
<1>6. Cardinality(s \ {Max(s)}) = Cardinality(s) - 1
  BY <1>3, <1>5, FS_RemoveElement
<1>7. \A y \in s : y \in Int
  BY <1>2
<1> QED
  BY <1>3, <1>5, <1>6, <1>7

=============================================================================
