---------------------------- MODULE MeasureProofs ----------------------------
(***************************************************************************)
(* Proofs about what the measurements rest on.                             *)
(*                                                                         *)
(* The payloads, for any number of GPUs and dimensions, any ratings and    *)
(* any widths: what the domain check lets through is lossless.  The        *)
(* argument has two halves.  Adding encodings encodes the sum, without any *)
(* condition, because both are arithmetic modulo the word.  And what a GPU *)
(* holds is the sum over a set of common dimensions, so its fields are     *)
(* bounded by what the domain check bounds, and decoding undoes encoding.  *)
(*                                                                         *)
(* The engine's process and the measuring scripts, for any command lines,  *)
(* arms and plans: the matrix's file accounts for every configuration of   *)
(* every block, a record is true of the run that printed it and of the arm *)
(* it is filed under, and a report is of a whole session.                  *)
(***************************************************************************)
EXTENDS PackedReduce, Experiments, ProofLemmas

-----------------------------------------------------------------------------
(* Encodings. *)

LEMMA WordAdd == \A i, j \in Int : ((i % Word) + (j % Word)) % Word = (i + j) % Word
<1>1. Word \in Nat \ {0}
  BY WidthAssumption
<1> QED
  BY <1>1, ModAdd2, Zenon

Triples == Int \X Int \X Int
Sum3(f, h) == <<f[1] + h[1], f[2] + h[2], f[3] + h[3]>>

(* Adding packed words adds the fields. *)
LEMMA Pack3Add ==
  ASSUME NEW f \in Triples, NEW h \in Triples
  PROVE  AddWord(Pack3(f), Pack3(h)) = Pack3(Sum3(f, h))
<1> DEFINE B == Base
           C == Base * Base
<1>1. B \in Int /\ C \in Int
  BY WidthAssumption
<1> HIDE DEF B, C
<1>2. /\ f[1] \in Int /\ f[2] \in Int /\ f[3] \in Int
      /\ h[1] \in Int /\ h[2] \in Int /\ h[3] \in Int
  BY DEF Triples
<1>3. /\ (f[2] + h[2]) * B = f[2] * B + h[2] * B
      /\ (f[3] + h[3]) * C = f[3] * C + h[3] * C
  BY <1>1, <1>2, Distribute
<1>4. f[2] * B \in Int /\ h[2] * B \in Int /\ f[3] * C \in Int /\ h[3] * C \in Int
  BY <1>1, <1>2
<1> DEFINE u == f[1] + f[2] * B + f[3] * C
           v == h[1] + h[2] * B + h[3] * C
           w == (f[1] + h[1]) + (f[2] + h[2]) * B + (f[3] + h[3]) * C
           Reduced(i) == i % Word
<1>5. u \in Int /\ v \in Int /\ u + v = w
  BY <1>2, <1>3, <1>4
<1>6. \A i, j \in Int : Reduced(Reduced(i) + Reduced(j)) = Reduced(i + j)
  BY WordAdd
<1>7. Pack3(f) = Reduced(u) /\ Pack3(h) = Reduced(v) /\ Pack3(Sum3(f, h)) = Reduced(w)
  BY DEF Pack3, Sum3, B, C
<1> HIDE DEF u, v, w
<1>8. AddWord(Pack3(f), Pack3(h)) = Reduced(Reduced(u) + Reduced(v))
  BY <1>7 DEF AddWord
<1> HIDE DEF Reduced
<1> QED
  BY <1>5, <1>6, <1>7, <1>8

(* Triples below Base come out as they went in. *)
LEMMA UnpackPack ==
  ASSUME NEW a \in 0 .. Base - 1, NEW b \in 0 .. Base - 1, NEW c \in 0 .. Base - 1
  PROVE  Unpack3(Pack3(<<a, b, c>>)) = <<a, b, c>>
<1> DEFINE B == Base
           C == Base * Base
           w == a + b * B + c * C
<1>1. /\ B \in Nat \ {0} /\ C \in Nat \ {0} /\ Word \in Nat /\ B * C <= Word
      /\ B * B = C
  <2>1. Base * (Base * Base) = Base * Base * Base
    BY WidthAssumption, SMTT(30)
  <2> QED
    BY <2>1, WidthAssumption, SMTT(30)
<1>2. a \in 0 .. B - 1 /\ b \in 0 .. B - 1 /\ c \in 0 .. B - 1
  OBVIOUS
<1> HIDE DEF B, C
<1>3. a \in Nat /\ b \in Nat /\ c \in Nat
  BY <1>1, <1>2
<1>4. b * B \in Nat /\ c * C \in Nat /\ c * B \in Nat
  BY <1>1, <1>3
<1>5. w \in Nat
  BY <1>3, <1>4
<1>6. a + b * B <= C - 1
  <2>1. B * (b + 1) <= B * B
    BY <1>1, <1>2, <1>3, MulMono
  <2>2. B * (b + 1) = b * B + B
    BY <1>1, <1>3, SMTT(30)
  <2> QED
    BY <1>1, <1>2, <1>3, <1>4, <2>1, <2>2
<1>7. w < Word
  <2>1. C * (c + 1) <= C * B
    BY <1>1, <1>2, <1>3, MulMono
  <2>2. C * (c + 1) = c * C + C /\ C * B = B * C /\ B * C \in Nat
    BY <1>1, <1>3, SMTT(30)
  <2> QED
    BY <1>1, <1>3, <1>4, <1>6, <2>1, <2>2
<1>8. Pack3(<<a, b, c>>) = w
  <2>1. w = Word * 0 + w /\ w \in 0 .. Word - 1 /\ Word \in Nat \ {0}
    BY <1>1, <1>5, <1>7
  <2>2. w % Word = w
    BY <1>5, <2>1, ModUnique
  <2> QED
    BY <2>2 DEF Pack3, w, B, C
<1>9. w % B = a /\ w \div B = b + c * B
  <2>1. w = B * (b + c * B) + a
    <3>1. B * (b + c * B) = B * b + B * (c * B)
      BY <1>1, <1>3, <1>4, Distribute
    <3>2. B * (c * B) = c * C /\ B * b = b * B
      <4>1. B * (c * B) = c * (B * B)
        BY <1>1, <1>3, SMTT(30)
      <4> QED
        BY <1>1, <1>3, <4>1
    <3> QED
      BY <1>3, <1>4, <3>1, <3>2
  <2>2. b + c * B \in Int
    BY <1>3, <1>4
  <2> DEFINE q == b + c * B
  <2> HIDE DEF w, q
  <2>3. w \in Int /\ q \in Int /\ a \in 0 .. B - 1 /\ w = B * q + a /\ B \in Nat \ {0}
    BY <1>1, <1>2, <1>5, <2>1, <2>2 DEF q
  <2>4. w % B = a /\ w \div B = q
    BY <2>3, ModUnique
  <2> QED
    BY <2>4 DEF q
<1>10. (b + c * B) % B = b
  <2>1. b + c * B = B * c + b
    BY <1>1, <1>3, SMTT(30)
  <2> QED
    BY <1>1, <1>2, <1>3, <1>4, <2>1, ModUnique
<1>11. w \div C = c
  <2>1. w = C * c + (a + b * B) /\ a + b * B \in 0 .. C - 1
    <3>1. C * c = c * C
      BY <1>1, <1>3
    <3> QED
      BY <1>1, <1>3, <1>4, <1>6, <3>1
  <2> HIDE DEF w
  <2> QED
    BY <1>1, <1>3, <1>5, <2>1, ModUnique
<1>12. c % B = c
  <2>1. c = B * 0 + c
    BY <1>1, <1>3
  <2> QED
    BY <1>1, <1>2, <1>3, <2>1, ModUnique
<1> HIDE DEF w
<1>13. Unpack3(Pack3(<<a, b, c>>)) = <<w % B, (w \div B) % B, (w \div C) % B>>
  BY <1>8 DEF Unpack3, B, C
<1> QED
  BY <1>9, <1>10, <1>11, <1>12, <1>13

(* The same two facts of machine integers. *)
LEMMA WrapAdd ==
  ASSUME NEW n \in Nat \ {0}
  PROVE  \A i, j, k \in Int : ((i % n) + (j % n) + k) % n = (i + j + k) % n
  BY ModAdd, Zenon

LEMMA WrapIntAdd ==
  ASSUME NEW a \in Int, NEW b \in Int
  PROVE  WrapInt(WrapInt(a) + WrapInt(b)) = WrapInt(a + b) /\ WrapInt(a) \in Int
<1> DEFINE M == IntMax + 1
           N == 2 * M
<1>1. M \in Int /\ N \in Nat \ {0}
  BY WidthAssumption
<1>2. \A i \in Int : WrapInt(i) = ((i + M) % N) - M
  BY WidthAssumption DEF WrapInt
<1> HIDE DEF M, N
<1> DEFINE u == a + M
           v == b + M
           m == -M
<1>3. u \in Int /\ v \in Int /\ m \in Int
  BY <1>1
<1>4. u % N \in Int /\ v % N \in Int
  BY <1>1, <1>3, ModBounds
<1>5. ((u % N) + (v % N) + m) % N = (u + v + m) % N
  <2> DEFINE Reduced(i) == i % N
  <2>1. \A i, j, k \in Int : Reduced(Reduced(i) + Reduced(j) + k) = Reduced(i + j + k)
    BY <1>1, WrapAdd
  <2> HIDE DEF Reduced
  <2>2. Reduced(Reduced(u) + Reduced(v) + m) = Reduced(u + v + m)
    BY <1>3, <2>1
  <2> QED
    BY <2>2 DEF Reduced
<1>6. u + v + m = (a + b) + M
  BY <1>1
<1>7. WrapInt(a) = (u % N) - M /\ WrapInt(b) = (v % N) - M
  BY <1>2
<1>8. WrapInt(a + b) = (((a + b) + M) % N) - M
  BY <1>2
<1> HIDE DEF u, v
<1>9. WrapInt(a) \in Int /\ WrapInt(b) \in Int
  BY <1>1, <1>4, <1>7
<1>10. WrapInt(a) + WrapInt(b) + M = (u % N) + (v % N) + m
  BY <1>1, <1>4, <1>7
<1>11. WrapInt(WrapInt(a) + WrapInt(b)) = ((WrapInt(a) + WrapInt(b) + M) % N) - M
  BY <1>2, <1>9
<1> QED
  BY <1>5, <1>6, <1>8, <1>9, <1>10, <1>11

LEMMA WrapIntId ==
  ASSUME NEW a \in 0 .. IntMax
  PROVE  WrapInt(a) = a
<1> DEFINE N == 2 * (IntMax + 1)
<1>1. N \in Nat \ {0} /\ a + IntMax + 1 \in 0 .. N - 1 /\ a + IntMax + 1 \in Int
  BY WidthAssumption
<1>2. a + IntMax + 1 = N * 0 + (a + IntMax + 1)
  BY <1>1
<1> HIDE DEF N
<1>3. (a + IntMax + 1) % N = a + IntMax + 1
  BY <1>1, <1>2, ModUnique
<1> QED
  BY <1>1, <1>3, WidthAssumption DEF WrapInt, N

(* Adding two encodings gives the encoding of the sum, whatever overflows. *)
LEMMA EncodeAdd ==
  ASSUME NEW s \in Sixes, NEW t \in Sixes, payload \in Payloads
  PROVE  Add(Encode(s), Encode(t)) = Encode(Plus(s, t))
<1>0. /\ s.n \in Int /\ s.sx \in Int /\ s.sy \in Int /\ s.sxx \in Int /\ s.syy \in Int
      /\ s.sxy \in Int
      /\ t.n \in Int /\ t.sx \in Int /\ t.sy \in Int /\ t.sxx \in Int /\ t.syy \in Int
      /\ t.sxy \in Int
  BY DEF Sixes
<1>1. CASE payload = "f64"
  BY <1>1 DEF Add, Encode
<1>2. CASE payload = "i32"
  <2>1. WrapAll(Plus(WrapAll(s), WrapAll(t))) = WrapAll(Plus(s, t))
    BY <1>0, WrapIntAdd DEF WrapAll, Plus
  <2> QED
    BY <1>2, <2>1 DEF Add, Encode
<1>3. CASE payload = "packed"
  <2> DEFINE f == <<s.n, s.sx, s.sy>>
             h == <<t.n, t.sx, t.sy>>
             k == <<s.sxx, s.syy, s.sxy>>
             l == <<t.sxx, t.syy, t.sxy>>
  <2>1. f \in Triples /\ h \in Triples /\ k \in Triples /\ l \in Triples
    BY <1>0 DEF Triples
  <2>2. Encode(Plus(s, t)) = <<Pack3(Sum3(f, h)), Pack3(Sum3(k, l))>>
    BY <1>3 DEF Encode, Plus, Sum3
  <2>3. Add(Encode(s), Encode(t)) = <<AddWord(Pack3(f), Pack3(h)), AddWord(Pack3(k), Pack3(l))>>
    BY <1>3 DEF Encode, Add
  <2> HIDE DEF f, h, k, l
  <2> QED
    BY <2>1, <2>2, <2>3, Pack3Add
<1> QED
  BY <1>1, <1>2, <1>3 DEF Payloads

InFields(s) == \A f \in {"n", "sx", "sy", "sxx", "syy", "sxy"} : s[f] \in 0 .. limit

(* Statistics that fit their fields survive the journey. *)
LEMMA DecodeEncode ==
  ASSUME NEW s \in Sixes, payload \in Payloads, payload # "f64" => InFields(s)
  PROVE  Decode(Encode(s)) = s
<1>0. s = [n |-> s.n, sx |-> s.sx, sy |-> s.sy, sxx |-> s.sxx, syy |-> s.syy, sxy |-> s.sxy]
  BY DEF Sixes
<1>1. CASE payload = "f64"
  BY <1>1 DEF Decode, Encode
<1>2. CASE payload = "i32"
  <2>1. /\ s.n \in 0 .. IntMax /\ s.sx \in 0 .. IntMax /\ s.sy \in 0 .. IntMax
        /\ s.sxx \in 0 .. IntMax /\ s.syy \in 0 .. IntMax /\ s.sxy \in 0 .. IntMax
    BY <1>2 DEF InFields, limit
  <2>2. WrapAll(s) = s
    BY <1>0, <2>1, WrapIntId DEF WrapAll
  <2> QED
    BY <1>2, <2>2 DEF Decode, Encode
<1>3. CASE payload = "packed"
  <2>1. /\ s.n \in 0 .. Base - 1 /\ s.sx \in 0 .. Base - 1 /\ s.sy \in 0 .. Base - 1
        /\ s.sxx \in 0 .. Base - 1 /\ s.syy \in 0 .. Base - 1 /\ s.sxy \in 0 .. Base - 1
    BY <1>3 DEF InFields, limit
  <2>2. /\ Unpack3(Pack3(<<s.n, s.sx, s.sy>>)) = <<s.n, s.sx, s.sy>>
        /\ Unpack3(Pack3(<<s.sxx, s.syy, s.sxy>>)) = <<s.sxx, s.syy, s.sxy>>
    BY <2>1, UnpackPack
  <2>3. Encode(s) = <<Pack3(<<s.n, s.sx, s.sy>>), Pack3(<<s.sxx, s.syy, s.sxy>>)>>
    BY <1>3 DEF Encode
  <2> QED
    BY <1>0, <1>3, <2>2, <2>3 DEF Decode
<1> QED
  BY <1>1, <1>2, <1>3 DEF Payloads

-----------------------------------------------------------------------------
(* Sums over a set of common dimensions, and what bounds them. *)

Bounds(v) == v \in Nat /\ \A r \in Values : r \in 0 .. v

SumOver(s, D) ==
  /\ s \in Sixes /\ D \subseteq Common
  /\ s.n = Cardinality(D)
  /\ \A v \in Nat : Bounds(v) =>
       /\ s.sx \in 0 .. v * s.n /\ s.sy \in 0 .. v * s.n
       /\ s.sxx \in 0 .. v * v * s.n /\ s.syy \in 0 .. v * v * s.n
       /\ s.sxy \in 0 .. v * v * s.n

LEMMA CommonFinite ==
  ASSUME x \in Rows, y \in Rows
  PROVE  /\ IsFiniteSet(DOMAIN x) /\ IsFiniteSet(Common)
         /\ \A D : D \subseteq Common =>
              IsFiniteSet(D) /\ Cardinality(D) \in Nat
              /\ Cardinality(D) <= Cardinality(DOMAIN x)
<1>1. DOMAIN x \subseteq Dims /\ Common \subseteq DOMAIN x
  BY DEF Rows, Common
<1>2. IsFiniteSet(DOMAIN x)
  BY <1>1, DimsAssumption, FS_Subset
<1> QED
  BY <1>1, <1>2, FS_Subset, FS_CardinalityType

LEMMA SumZero == SumOver(Zero, {})
<1>1. Zero \in Sixes
  BY DEF Zero, Sixes
<1> QED
  BY <1>1, FS_EmptySet DEF SumOver, Zero

(* Products of numbers in range are in range. *)
LEMMA ProductRange ==
  ASSUME NEW a \in Nat, NEW b \in Nat, NEW v \in Nat, a <= v, b <= v
  PROVE  a * b \in 0 .. v * v
<1>1. a * b \in Nat /\ v * v \in Nat /\ v * b \in Nat /\ b * a \in Nat /\ b * v \in Nat
  OBVIOUS
<1>2. b * a <= b * v /\ v * b <= v * v
  BY MulMono
<1>3. a * b = b * a /\ v * b = b * v
  OBVIOUS
<1> QED
  BY <1>1, <1>2, <1>3

LEMMA RowTyped == ASSUME NEW r \in Rows PROVE \A d \in DOMAIN r : r[d] \in Int
<1>1. PICK S \in SUBSET Dims : r \in [S -> Ratings]
  BY DEF Rows
<1> QED
  BY <1>1, RatingsAssumption

LEMMA SumOne ==
  ASSUME x \in Rows, y \in Rows, NEW d \in Common
  PROVE  SumOver(One(x[d], y[d]), {d})
<1> DEFINE a == x[d]
           b == y[d]
<1>1. a \in Int /\ b \in Int
  BY RowTyped DEF Common
<1>2. a \in Values /\ b \in Values
  BY DEF Common, Values
<1>3. Cardinality({d}) = 1
  BY FS_Singleton
<1> HIDE DEF a, b
<1>4. a * a \in Int /\ b * b \in Int /\ a * b \in Int
  BY <1>1
<1>5. One(a, b) \in Sixes
  BY <1>1, <1>4 DEF One, Sixes
<1>6. ASSUME NEW v \in Nat, Bounds(v)
      PROVE  /\ a \in 0 .. v * 1 /\ b \in 0 .. v * 1
             /\ a * a \in 0 .. v * v * 1 /\ b * b \in 0 .. v * v * 1
             /\ a * b \in 0 .. v * v * 1
  <2>1. a \in 0 .. v /\ b \in 0 .. v
    BY <1>2, <1>6 DEF Bounds
  <2>2. a * a \in 0 .. v * v /\ b * b \in 0 .. v * v /\ a * b \in 0 .. v * v
    BY <2>1, ProductRange
  <2>3. v * v \in Nat
    OBVIOUS
  <2>4. v * 1 = v /\ v * v * 1 = v * v
    BY <2>3
  <2> QED
    BY <2>1, <2>2, <2>4
<1> QED
  BY <1>3, <1>5, <1>6 DEF SumOver, One, a, b

LEMMA SumPlus ==
  ASSUME x \in Rows, y \in Rows, NEW s, NEW t, NEW D, NEW E,
         SumOver(s, D), SumOver(t, E), D \cap E = {}
  PROVE  SumOver(Plus(s, t), D \cup E)
<1>1. /\ s \in Sixes /\ t \in Sixes /\ D \cup E \subseteq Common
      /\ s.n = Cardinality(D) /\ t.n = Cardinality(E)
  BY DEF SumOver
<1>2. IsFiniteSet(D) /\ IsFiniteSet(E) /\ s.n \in Nat /\ t.n \in Nat
  BY <1>1, CommonFinite
<1>3. Cardinality(D \cup E) = s.n + t.n
  <2>1. Cardinality(D \cup E) = Cardinality(D) + Cardinality(E) - Cardinality(D \cap E)
    BY <1>2, FS_Union
  <2>2. Cardinality(D \cap E) = 0
    BY FS_EmptySet
  <2> QED
    BY <1>1, <1>2, <2>1, <2>2
<1>4. Plus(s, t) \in Sixes /\ Plus(s, t).n = s.n + t.n
  BY <1>1 DEF Plus, Sixes
<1>5. ASSUME NEW v \in Nat, Bounds(v)
      PROVE  /\ Plus(s, t).sx \in 0 .. v * (s.n + t.n)
             /\ Plus(s, t).sy \in 0 .. v * (s.n + t.n)
             /\ Plus(s, t).sxx \in 0 .. v * v * (s.n + t.n)
             /\ Plus(s, t).syy \in 0 .. v * v * (s.n + t.n)
             /\ Plus(s, t).sxy \in 0 .. v * v * (s.n + t.n)
  <2>1. /\ s.sx \in 0 .. v * s.n /\ s.sy \in 0 .. v * s.n
        /\ s.sxx \in 0 .. v * v * s.n /\ s.syy \in 0 .. v * v * s.n
        /\ s.sxy \in 0 .. v * v * s.n
        /\ t.sx \in 0 .. v * t.n /\ t.sy \in 0 .. v * t.n
        /\ t.sxx \in 0 .. v * v * t.n /\ t.syy \in 0 .. v * v * t.n
        /\ t.sxy \in 0 .. v * v * t.n
    BY <1>5 DEF SumOver
  <2> DEFINE u == v * v
  <2>2. u \in Nat
    OBVIOUS
  <2>3. u = v * v
    OBVIOUS
  <2> HIDE DEF u
  <2>4. /\ v * (s.n + t.n) = v * s.n + v * t.n
        /\ u * (s.n + t.n) = u * s.n + u * t.n
    BY <1>2, <2>2, Distribute
  <2>5. /\ v * s.n \in Int /\ v * t.n \in Int /\ u * s.n \in Int /\ u * t.n \in Int
    BY <1>2, <2>2
  <2> DEFINE P == Plus(s, t)
  <2>6. /\ P.sx = s.sx + t.sx /\ P.sy = s.sy + t.sy /\ P.sxx = s.sxx + t.sxx
        /\ P.syy = s.syy + t.syy /\ P.sxy = s.sxy + t.sxy
    BY DEF Plus
  <2> HIDE DEF P
  <2>7. /\ P.sx \in 0 .. v * (s.n + t.n) /\ P.sy \in 0 .. v * (s.n + t.n)
    BY <2>1, <2>4, <2>5, <2>6
  <2>8. /\ P.sxx \in 0 .. u * (s.n + t.n) /\ P.syy \in 0 .. u * (s.n + t.n)
        /\ P.sxy \in 0 .. u * (s.n + t.n)
    BY <2>1, <2>3, <2>4, <2>5, <2>6
  <2> QED
    BY <2>3, <2>7, <2>8 DEF P
<1> QED
  BY <1>1, <1>3, <1>4, <1>5 DEF SumOver

(* What the domain check accepts, it accepts for every sum. *)
LEMMA AcceptedFits ==
  ASSUME x \in Rows, y \in Rows, other \in Nat, payload \in Payloads, payload # "f64",
         InDomain, NEW s, NEW D, SumOver(s, D)
  PROVE  InFields(s)
<1>1. limit \in Int
  BY WidthAssumption DEF limit
<1>2. Cardinality(DOMAIN x) \in Nat /\ Cardinality(DOMAIN y) \in Nat
  <2>1. IsFiniteSet(DOMAIN x) /\ IsFiniteSet(DOMAIN y)
    BY DimsAssumption, FS_Subset DEF Rows
  <2> QED
    BY <2>1, FS_CardinalityType
<1>3. \A r \in Values : r \in Int /\ r >= 0
  <2>1. \A r \in Values : r \in Int
    <3>1. /\ \A d \in DOMAIN x : x[d] \in Int
          /\ \A d \in DOMAIN y : y[d] \in Int
      BY RowTyped
    <3> QED
      BY <3>1 DEF Values
  <2> QED
    BY <2>1 DEF InDomain
<1>4. PICK v \in Values \cup {0}, rows \in RowSizes :
        /\ \A r \in Values \cup {0} : r <= v
        /\ \A k \in RowSizes : k <= rows
        /\ rows <= limit /\ v * rows <= limit /\ v * v * rows <= limit
  BY DEF InDomain, Fits, IsMax
<1>5. v \in Nat /\ rows \in Nat /\ Cardinality(DOMAIN x) <= rows
  BY <1>2, <1>3, <1>4 DEF RowSizes
<1>6. Bounds(v)
  BY <1>3, <1>4, <1>5 DEF Bounds
<1>7. s.n \in Nat /\ s.n <= rows
  <2>1. D \subseteq Common /\ s.n = Cardinality(D)
    BY DEF SumOver
  <2> QED
    BY <1>2, <1>5, <2>1, CommonFinite
<1>8. /\ s.sx \in 0 .. v * s.n /\ s.sy \in 0 .. v * s.n
      /\ s.sxx \in 0 .. v * v * s.n /\ s.syy \in 0 .. v * v * s.n
      /\ s.sxy \in 0 .. v * v * s.n
  BY <1>5, <1>6 DEF SumOver
<1> DEFINE u == v * v
<1>9. u \in Nat /\ u = v * v
  BY <1>5
<1> HIDE DEF u
<1>10. v * s.n <= v * rows /\ u * s.n <= u * rows
  BY <1>5, <1>7, <1>9, MulMono
<1>11. v * s.n \in Int /\ v * rows \in Int /\ u * s.n \in Int /\ u * rows \in Int
  BY <1>5, <1>7, <1>9
<1>12. s.n \in 0 .. limit /\ s.sx \in 0 .. limit /\ s.sy \in 0 .. limit
  BY <1>1, <1>4, <1>5, <1>7, <1>8, <1>10, <1>11
<1>13. s.sxx \in 0 .. limit /\ s.syy \in 0 .. limit /\ s.sxy \in 0 .. limit
  BY <1>1, <1>4, <1>8, <1>9, <1>10, <1>11
<1> QED
  BY <1>12, <1>13 DEF InFields

-----------------------------------------------------------------------------
(* The specification. *)

Own(G) == {d \in Dims : Owner[d] \in G}

(***************************************************************************)
(* The statistics of g sum over the common dimensions g has looked at, and *)
(* what travels under g encodes the sum over those of the GPUs in group[g] *)
(* -- the groups are disjoint, so that no dimension is counted twice.      *)
(***************************************************************************)
TypeInv ==
  /\ x \in Rows /\ y \in Rows /\ other \in Nat /\ payload \in Payloads
  /\ pc \in {"check", "refused", "run", "done"}
  /\ left \in [Gpus -> SUBSET Dims] /\ stats \in [Gpus -> Sixes]
  /\ wire = [g \in Gpus |-> wire[g]] /\ merged \in [Gpus -> Sixes]
  /\ sent \subseteq Gpus /\ group \in [Gpus -> SUBSET sent]

ScanInv ==
  /\ \A g \in Gpus : left[g] \subseteq Own({g})
  /\ \A g \in Gpus : SumOver(stats[g], Common \cap (Own({g}) \ left[g]))
  /\ \A g \in sent : left[g] = {}

WireInv ==
  /\ \A g \in Gpus : group[g] # {} => wire[g] = Encode(merged[g])
  /\ \A g \in Gpus : group[g] # {} => SumOver(merged[g], Common \cap Own(group[g]))
  /\ \A g, h \in Gpus : g # h => group[g] \cap group[h] = {}

ResultInv ==
  /\ pc \in {"run", "done"} => InDomain
  /\ \A g \in Gpus : group[g] # {} => pc \in {"run", "done"}
  /\ pc # "done" => result = Zero
  /\ pc = "done" => \E g \in Gpus : group[g] = Gpus /\ result = Decode(wire[g])

IInv == TypeInv /\ ScanInv /\ WireInv /\ ResultInv

(* Nothing that depends on the input alone changes. *)
LEMMA InputFixed ==
  ASSUME UNCHANGED input
  PROVE  /\ Common' = Common /\ Values' = Values /\ InDomain' = InDomain
         /\ \A s : Encode(s)' = Encode(s) /\ Decode(s)' = Decode(s)
         /\ \A s, D : SumOver(s, D)' <=> SumOver(s, D)
<1>1. Common' = Common /\ Values' = Values
  BY DEF input, Common, Values
<1>2. InDomain' = InDomain
  BY <1>1 DEF input, InDomain, Fits, RowSizes, limit
<1>3. \A s : Encode(s)' = Encode(s) /\ Decode(s)' = Decode(s)
  BY DEF input, Encode, Decode
<1>4. \A s, D : SumOver(s, D)' <=> SumOver(s, D)
  BY <1>1 DEF SumOver, Bounds
<1> QED
  BY <1>1, <1>2, <1>3, <1>4

LEMMA InitIInv == Init => IInv
<1> SUFFICES ASSUME Init PROVE IInv
  OBVIOUS
<1> USE DEF Init
<1>1. Zero \in Sixes
  BY DEF Zero, Sixes
<1>2. TypeInv
  BY <1>1, RatingsAssumption DEF TypeInv
<1>3. ScanInv
  <2>1. \A g \in Gpus : left[g] = Own({g})
    BY DEF Own
  <2>2. \A g \in Gpus : SumOver(stats[g], Common \cap (Own({g}) \ left[g]))
    <3>1. \A g \in Gpus : Common \cap (Own({g}) \ left[g]) = {} /\ stats[g] = Zero
      BY <2>1
    <3> QED
      BY <3>1, SumZero
  <2> QED
    BY <2>1, <2>2 DEF ScanInv
<1>4. WireInv
  BY DEF WireInv
<1>5. ResultInv
  BY DEF ResultInv
<1> QED
  BY <1>2, <1>3, <1>4, <1>5 DEF IInv

LEMMA CheckDomainIInv == IInv /\ CheckDomain => IInv'
<1> SUFFICES ASSUME IInv, CheckDomain PROVE IInv'
  OBVIOUS
<1>1. UNCHANGED <<input, left, stats, sent, wire, merged, group, result>>
  BY DEF CheckDomain
<1>2. UNCHANGED input
  BY <1>1
<1>3. TypeInv'
  BY <1>1 DEF IInv, TypeInv, CheckDomain, input
<1>4. ScanInv'
  BY <1>1, <1>2, InputFixed DEF IInv, ScanInv
<1>5. WireInv'
  BY <1>1, <1>2, InputFixed DEF IInv, WireInv
<1>6. ResultInv'
  BY <1>1, <1>2, InputFixed DEF IInv, ResultInv, CheckDomain
<1> QED
  BY <1>3, <1>4, <1>5, <1>6 DEF IInv

LEMMA ScanIInv == ASSUME NEW g \in Gpus PROVE IInv /\ Scan(g) => IInv'
<1> SUFFICES ASSUME IInv, Scan(g) PROVE IInv'
  OBVIOUS
<1>1. /\ UNCHANGED <<input, pc, sent, wire, merged, group, result>> /\ UNCHANGED input
      /\ pc = "run" /\ x \in Rows /\ y \in Rows
      /\ left \in [Gpus -> SUBSET Dims] /\ stats \in [Gpus -> Sixes]
  BY DEF Scan, IInv, TypeInv
<1>2. PICK d \in left[g] :
        /\ left' = [left EXCEPT ![g] = @ \ {d}]
        /\ stats' = [stats EXCEPT ![g] =
                       IF d \in Common THEN Plus(@, One(x[d], y[d])) ELSE @]
  BY DEF Scan
<1> DEFINE D == Common \cap (Own({g}) \ left[g])
           E == Common \cap (Own({g}) \ left'[g])
<1>3. SumOver(stats[g], D) /\ d \in Own({g})
  BY DEF IInv, ScanInv
<1>4. SumOver(stats'[g], E)
  <2>1. left'[g] = left[g] \ {d}
    BY <1>1, <1>2
  <2>2. CASE d \in Common
    <3>1. stats'[g] = Plus(stats[g], One(x[d], y[d]))
      BY <1>1, <1>2, <2>2
    <3>2. E = D \cup {d} /\ D \cap {d} = {}
      BY <1>2, <1>3, <2>1, <2>2
    <3>3. SumOver(One(x[d], y[d]), {d})
      BY <1>1, <2>2, SumOne
    <3> HIDE DEF D, E
    <3> QED
      BY <1>1, <1>3, <3>1, <3>2, <3>3, SumPlus
  <2>3. CASE d \notin Common
    <3>1. stats'[g] = stats[g] /\ E = D
      BY <1>1, <1>2, <2>1, <2>3
    <3> QED
      BY <1>3, <3>1
  <2> QED
    BY <2>2, <2>3
<1>5. stats'[g] \in Sixes
  BY <1>4 DEF SumOver
<1>6. TypeInv'
  <2>1. left' \in [Gpus -> SUBSET Dims] /\ stats' \in [Gpus -> Sixes]
    BY <1>1, <1>2, <1>5
  <2> QED
    BY <1>1, <2>1 DEF IInv, TypeInv, input
<1>7. ScanInv'
  <2>1. \A h \in Gpus : h # g => left'[h] = left[h] /\ stats'[h] = stats[h]
    BY <1>1, <1>2
  <2>2. left'[g] \subseteq left[g]
    BY <1>1, <1>2
  <2>3. \A h \in Gpus : SumOver(stats'[h], Common \cap (Own({h}) \ left'[h]))
    BY <1>4, <2>1 DEF IInv, ScanInv
  <2>4. \A h \in Gpus : SumOver(stats[h], Common \cap (Own({h}) \ left[h]))'
    BY <1>1, <2>3, InputFixed
  <2>5. \A h \in Gpus : left'[h] \subseteq Own({h})
    BY <2>1, <2>2 DEF IInv, ScanInv
  <2>6. \A h \in sent' : left'[h] = {}
    BY <1>1, <1>2, <2>1 DEF IInv, ScanInv, TypeInv
  <2> QED
    BY <2>4, <2>5, <2>6 DEF ScanInv
<1>8. WireInv'
  BY <1>1, InputFixed DEF IInv, WireInv
<1>9. ResultInv'
  BY <1>1, InputFixed DEF IInv, ResultInv
<1> QED
  BY <1>6, <1>7, <1>8, <1>9 DEF IInv

LEMMA SubmitIInv == ASSUME NEW g \in Gpus PROVE IInv /\ Submit(g) => IInv'
<1> SUFFICES ASSUME IInv, Submit(g) PROVE IInv'
  OBVIOUS
<1>1. /\ UNCHANGED <<input, pc, left, stats, result>> /\ UNCHANGED input
      /\ pc = "run" /\ left[g] = {} /\ g \notin sent /\ sent' = sent \cup {g}
      /\ wire' = [wire EXCEPT ![g] = Encode(stats[g])]
      /\ merged' = [merged EXCEPT ![g] = stats[g]]
      /\ group' = [group EXCEPT ![g] = {g}]
  BY DEF Submit
<1>2. /\ stats \in [Gpus -> Sixes] /\ wire = [h \in Gpus |-> wire[h]]
      /\ merged \in [Gpus -> Sixes] /\ sent \subseteq Gpus /\ group \in [Gpus -> SUBSET sent]
  BY DEF IInv, TypeInv
<1>3. /\ wire'[g] = Encode(stats[g]) /\ merged'[g] = stats[g] /\ group'[g] = {g}
      /\ \A h \in Gpus : h # g =>
           wire'[h] = wire[h] /\ merged'[h] = merged[h] /\ group'[h] = group[h]
  BY <1>1, <1>2
<1>4. TypeInv'
  <2>1. wire' = [h \in Gpus |-> wire'[h]]
    BY <1>1, <1>2
  <2>2. merged' \in [Gpus -> Sixes] /\ sent' \subseteq Gpus
    BY <1>1, <1>2
  <2>3. group' \in [Gpus -> SUBSET sent']
    BY <1>1, <1>2
  <2> QED
    BY <1>1, <2>1, <2>2, <2>3 DEF IInv, TypeInv, input
<1>5. ScanInv'
  <2>1. \A h \in Gpus : SumOver(stats[h], Common \cap (Own({h}) \ left[h]))'
    BY <1>1, InputFixed DEF IInv, ScanInv
  <2> QED
    BY <1>1, <2>1 DEF IInv, ScanInv
<1>6. WireInv'
  <2>1. \A h \in Gpus : group'[h] # {} => wire'[h] = Encode(merged'[h])
    BY <1>3 DEF IInv, WireInv
  <2>2. (\A h \in Gpus : group[h] # {} => wire[h] = Encode(merged[h]))'
    BY <1>1, <2>1, InputFixed
  <2>3. \A h \in Gpus : group'[h] # {} => SumOver(merged'[h], Common \cap Own(group'[h]))
    <3>1. Common \cap (Own({g}) \ left[g]) = Common \cap Own({g})
      BY <1>1
    <3>2. SumOver(stats[g], Common \cap Own({g}))
      BY <3>1 DEF IInv, ScanInv
    <3> QED
      BY <1>3, <3>2 DEF IInv, WireInv
  <2>4. (\A h \in Gpus : group[h] # {} => SumOver(merged[h], Common \cap Own(group[h])))'
    BY <1>1, <2>3, InputFixed
  <2>5. \A h, k \in Gpus : h # k => group'[h] \cap group'[k] = {}
    <3>1. \A h \in Gpus : g \notin group[h]
      BY <1>1, <1>2
    <3> QED
      BY <1>3, <3>1 DEF IInv, WireInv
  <2> QED
    BY <2>2, <2>4, <2>5 DEF WireInv
<1>7. ResultInv'
  BY <1>1, InputFixed DEF IInv, ResultInv
<1> QED
  BY <1>4, <1>5, <1>6, <1>7 DEF IInv

LEMMA CombineIInv ==
  ASSUME NEW g \in Gpus, NEW h \in Gpus PROVE IInv /\ Combine(g, h) => IInv'
<1> SUFFICES ASSUME IInv, Combine(g, h) PROVE IInv'
  OBVIOUS
<1>1. /\ UNCHANGED <<input, pc, left, stats, sent, result>> /\ UNCHANGED input
      /\ pc = "run" /\ g # h /\ group[g] # {} /\ group[h] # {}
      /\ wire' = [wire EXCEPT ![g] = Add(@, wire[h])]
      /\ merged' = [merged EXCEPT ![g] = Plus(@, merged[h])]
      /\ group' = [group EXCEPT ![g] = @ \cup group[h], ![h] = {}]
  BY DEF Combine, Held
<1>2. /\ wire = [k \in Gpus |-> wire[k]] /\ payload \in Payloads /\ x \in Rows /\ y \in Rows
      /\ merged \in [Gpus -> Sixes] /\ sent \subseteq Gpus /\ group \in [Gpus -> SUBSET sent]
  BY DEF IInv, TypeInv
<1>3. /\ wire'[g] = Add(wire[g], wire[h]) /\ merged'[g] = Plus(merged[g], merged[h])
      /\ group'[g] = group[g] \cup group[h] /\ group'[h] = {}
      /\ \A k \in Gpus : k # g =>
           wire'[k] = wire[k] /\ merged'[k] = merged[k] /\ (k # h => group'[k] = group[k])
  BY <1>1, <1>2
<1>4. wire'[g] = Encode(merged'[g])
  <2>1. wire[g] = Encode(merged[g]) /\ wire[h] = Encode(merged[h])
    BY <1>1 DEF IInv, WireInv
  <2>2. merged[g] \in Sixes /\ merged[h] \in Sixes
    BY <1>2
  <2> QED
    BY <1>2, <1>3, <2>1, <2>2, EncodeAdd
<1>5. SumOver(merged'[g], Common \cap Own(group'[g]))
  <2> DEFINE D == Common \cap Own(group[g])
             E == Common \cap Own(group[h])
  <2>1. SumOver(merged[g], D) /\ SumOver(merged[h], E)
    BY <1>1 DEF IInv, WireInv
  <2>2. D \cap E = {}
    BY <1>1 DEF IInv, WireInv, Own
  <2>3. Own(group'[g]) = Own(group[g]) \cup Own(group[h])
    BY <1>3 DEF Own
  <2>4. Common \cap Own(group'[g]) = D \cup E
    BY <2>3
  <2> HIDE DEF D, E
  <2>5. SumOver(Plus(merged[g], merged[h]), D \cup E)
    BY <1>2, <2>1, <2>2, SumPlus
  <2> QED
    BY <1>3, <2>4, <2>5
<1>6. TypeInv'
  <2>1. merged'[g] \in Sixes
    BY <1>5 DEF SumOver
  <2>2. wire' = [k \in Gpus |-> wire'[k]] /\ merged' \in [Gpus -> Sixes]
    BY <1>1, <1>2, <2>1
  <2>3. group' \in [Gpus -> SUBSET sent']
    BY <1>1, <1>2
  <2> QED
    BY <1>1, <2>2, <2>3 DEF IInv, TypeInv, input
<1>7. ScanInv'
  <2>1. \A k \in Gpus : SumOver(stats[k], Common \cap (Own({k}) \ left[k]))'
    BY <1>1, InputFixed DEF IInv, ScanInv
  <2> QED
    BY <1>1, <2>1 DEF IInv, ScanInv
<1>8. WireInv'
  <2>1. \A k \in Gpus : group'[k] # {} => wire'[k] = Encode(merged'[k])
    BY <1>3, <1>4 DEF IInv, WireInv
  <2>2. (\A k \in Gpus : group[k] # {} => wire[k] = Encode(merged[k]))'
    BY <1>1, <2>1, InputFixed
  <2>3. \A k \in Gpus : group'[k] # {} => SumOver(merged'[k], Common \cap Own(group'[k]))
    BY <1>3, <1>5 DEF IInv, WireInv
  <2>4. (\A k \in Gpus : group[k] # {} => SumOver(merged[k], Common \cap Own(group[k])))'
    BY <1>1, <2>3, InputFixed
  <2>5. ASSUME NEW k \in Gpus, NEW l \in Gpus, k # l
        PROVE  group'[k] \cap group'[l] = {}
    <3>1. \A i, j \in Gpus : i # j => group[i] \cap group[j] = {}
      BY DEF IInv, WireInv
    <3>2. \A j \in Gpus : j # g => group'[j] = group[j] \/ (j = h /\ group'[j] = {})
      BY <1>3
    <3>3. \A j \in Gpus : j # g => group'[j] \cap group'[g] = {}
      <4>1. ASSUME NEW j \in Gpus, j # g, j # h
            PROVE  group'[j] \cap group'[g] = {}
        <5>1. group[j] \cap group[g] = {} /\ group[j] \cap group[h] = {}
          BY <3>1, <4>1
        <5> QED
          BY <1>3, <4>1, <5>1
      <4> QED
        BY <1>3, <4>1
    <3> QED
      BY <2>5, <3>1, <3>2, <3>3
  <2> QED
    BY <2>2, <2>4, <2>5 DEF WireInv
<1>9. ResultInv'
  BY <1>1, InputFixed DEF IInv, ResultInv
<1> QED
  BY <1>6, <1>7, <1>8, <1>9 DEF IInv

LEMMA FinishIInv == ASSUME NEW g \in Gpus PROVE IInv /\ Finish(g) => IInv'
<1> SUFFICES ASSUME IInv, Finish(g) PROVE IInv'
  OBVIOUS
<1>1. /\ UNCHANGED <<input, left, stats, sent, wire, merged, group>> /\ UNCHANGED input
      /\ pc = "run" /\ pc' = "done" /\ group[g] = Gpus /\ result' = Decode(wire[g])
  BY DEF Finish
<1>2. TypeInv'
  BY <1>1 DEF IInv, TypeInv, input
<1>3. ScanInv'
  <2>1. \A k \in Gpus : SumOver(stats[k], Common \cap (Own({k}) \ left[k]))'
    BY <1>1, InputFixed DEF IInv, ScanInv
  <2> QED
    BY <1>1, <2>1 DEF IInv, ScanInv
<1>4. WireInv'
  BY <1>1, InputFixed DEF IInv, WireInv
<1>5. ResultInv'
  BY <1>1, InputFixed DEF IInv, ResultInv
<1> QED
  BY <1>2, <1>3, <1>4, <1>5 DEF IInv

LEMMA StutterIInv == IInv /\ UNCHANGED vars => IInv'
<1> SUFFICES ASSUME IInv, UNCHANGED vars PROVE IInv'
  OBVIOUS
<1>1. UNCHANGED <<input, pc, left, stats, sent, wire, merged, group, result>> /\ UNCHANGED input
  BY DEF vars
<1>2. TypeInv'
  BY <1>1 DEF IInv, TypeInv, input
<1>3. ScanInv'
  BY <1>1, InputFixed DEF IInv, ScanInv
<1>4. WireInv'
  BY <1>1, InputFixed DEF IInv, WireInv
<1>5. ResultInv'
  BY <1>1, InputFixed DEF IInv, ResultInv
<1> QED
  BY <1>2, <1>3, <1>4, <1>5 DEF IInv

LEMMA Invariance == Spec => []IInv
<1>1. IInv /\ [Next]_vars => IInv'
  BY CheckDomainIInv, ScanIInv, SubmitIInv, CombineIInv, FinishIInv, StutterIInv DEF Next
<1> QED
  BY <1>1, InitIInv, PTL DEF Spec

-----------------------------------------------------------------------------
(* What the invariant says of a sum that travels. *)
LEMMA Travelling ==
  ASSUME IInv, pc \in {"run", "done"}, NEW g \in Gpus, group[g] # {}
  PROVE  /\ merged[g] \in Sixes /\ wire[g] = Encode(merged[g])
         /\ payload \in Payloads /\ (payload # "f64" => InFields(merged[g]))
<1>1. /\ merged[g] \in Sixes /\ wire[g] = Encode(merged[g]) /\ payload \in Payloads
      /\ x \in Rows /\ y \in Rows /\ other \in Nat /\ InDomain
      /\ SumOver(merged[g], Common \cap Own(group[g]))
  BY DEF IInv, TypeInv, WireInv, ResultInv
<1> QED
  BY <1>1, AcceptedFits

(***************************************************************************)
(* Whatever the payload, finalize gets exactly the sum of the GPUs'        *)
(* statistics.                                                             *)
(***************************************************************************)
THEOREM LosslessReduction == Spec => []Lossless
<1>1. ASSUME IInv, pc = "done"
      PROVE  \E g \in Gpus : group[g] = Gpus /\ result = merged[g]
  <2>1. PICK g \in Gpus : group[g] = Gpus /\ result = Decode(wire[g])
    BY <1>1 DEF IInv, ResultInv
  <2>2. Decode(wire[g]) = merged[g]
    BY <1>1, <2>1, GpusAssumption, Travelling, DecodeEncode
  <2> QED
    BY <2>1, <2>2
<1>2. IInv => Lossless
  BY <1>1 DEF Lossless
<1> QED
  BY <1>2, Invariance, PTL

(* At no point of the collective does a packed field carry into the next. *)
THEOREM CarryFreedom == Spec => []NoCarry
<1>1. ASSUME IInv, NEW g \in Gpus, group[g] # {}, payload = "packed"
      PROVE  /\ wire[g] = Encode(merged[g])
             /\ \A f \in DOMAIN merged[g] : merged[g][f] \in 0 .. Base - 1
  <2>1. pc \in {"run", "done"}
    BY <1>1 DEF IInv, ResultInv
  <2> QED
    BY <1>1, <2>1, Travelling DEF InFields, limit, Sixes
<1>2. IInv => NoCarry
  BY <1>1 DEF NoCarry
<1> QED
  BY <1>2, Invariance, PTL
-----------------------------------------------------------------------------
(* The matrix runner: no block and no configuration of one is lost. *)

(* Every configuration of every block of the document is accounted for. *)
Accounted(d) ==
  \A i \in DOMAIN d.blocks :
    LET b == d.blocks[i]
    IN  /\ b.block = i /\ DOMAIN b.runs \subseteq Arms /\ (b.complete <=> DOMAIN b.runs = Arms)
        /\ \A n \in Arms : n \in DOMAIN b.runs <=> <<i, n>> \notin d.failures

Document(d) ==
  /\ d = [blocks |-> d.blocks, failures |-> d.failures]
  /\ Sequence(d.blocks) /\ Accounted(d)
  /\ d.failures \subseteq Nat \X Arms

(* The configurations of the block at work that are over. *)
Over(n) == n \notin arms_left /\ (runner = "waiting" => n # now)

Working ==
  runner \in {"arms", "waiting"} =>
    /\ Len(doc.blocks) = block - 1 /\ Len(file.blocks) = block - 1
    /\ arms_left \subseteq Arms /\ DOMAIN runs \subseteq Arms
    /\ runner = "waiting" => now \notin arms_left
    /\ \A n \in Arms : /\ n \in DOMAIN runs => Over(n) /\ <<block, n>> \notin doc.failures
                       /\ <<block, n>> \in doc.failures => Over(n)
                       /\ Over(n) => n \in DOMAIN runs \/ <<block, n>> \in doc.failures

Resting ==
  /\ runner \in {"next", "final"} => Len(doc.blocks) = block /\ Len(file.blocks) = block
  /\ runner = "write" => Len(doc.blocks) = block /\ Len(file.blocks) = block - 1

(* The inductive invariant of the runner: the blocks begun are those of the *)
(* document, but for the one at work, and the file is at most a block behind. *)
MatrixInv ==
  /\ block \in Nat /\ now \in Arms /\ Document(doc) /\ Document(file)
  /\ \A f \in doc.failures : f[1] <= block
  /\ Len(file.blocks) >= block - 1
  /\ Working /\ Resting
-----------------------------------------------------------------------------
LEMMA FourArms == Arms = {"A", "B", "C", "D"} /\ IsFiniteSet(Arms)
<1>1. Arms = {"A", "B", "C", "D"}
  BY DEF Arms, CONFIGS
<1>2. IsFiniteSet({"A"}) /\ IsFiniteSet({"B"}) /\ IsFiniteSet({"C"}) /\ IsFiniteSet({"D"})
  BY FS_Singleton
<1>3. IsFiniteSet({"A"} \cup {"B"}) /\ IsFiniteSet({"C"} \cup {"D"})
  BY <1>2, FS_Union
<1>4. IsFiniteSet(({"A"} \cup {"B"}) \cup ({"C"} \cup {"D"}))
  BY <1>3, FS_Union
<1>5. ({"A"} \cup {"B"}) \cup ({"C"} \cup {"D"}) = {"A", "B", "C", "D"}
  OBVIOUS
<1> QED
  BY <1>1, <1>4, <1>5

LEMMA EmptyDocument == Document(NoDoc)
BY DEF Document, Sequence, Accounted, NoDoc

LEMMA MatrixStart == ASSUME MeasureInit PROVE MatrixInv
<1>1. block = 0 /\ doc = NoDoc /\ file = NoDoc /\ runner \in {"next", "launch"} /\ now \in Arms
  BY FourArms DEF MeasureInit, Matrix, NoMatrix, MatrixInit
<1>2. Len(NoDoc.blocks) = 0 /\ NoDoc.failures = {}
  BY DEF NoDoc
<1> QED
  BY <1>1, <1>2, EmptyDocument DEF MatrixInv, Working, Resting

LEMMA BeginStep == ASSUME MatrixInv, BeginBlock PROVE MatrixInv'
<1>1. /\ runner = "next" /\ block' = block + 1 /\ arms_left' = Arms /\ runs' = <<>> /\ runner' = "arms"
      /\ doc' = doc /\ file' = file /\ now' = now
  BY DEF BeginBlock, matrix_vars
<1>2. Len(doc.blocks) = block /\ Len(file.blocks) = block /\ block \in Nat
  BY <1>1 DEF MatrixInv, Resting
<1>3. DOMAIN runs' = {}
  BY <1>1
<1>4. \A n \in Arms : <<block', n>> \notin doc.failures
  BY <1>1, <1>2 DEF MatrixInv
<1>5. Working'
  BY <1>1, <1>2, <1>3, <1>4 DEF MatrixInv, Working, Over
<1>6. Document(doc') /\ Document(file') /\ now' \in Arms /\ Resting'
  BY <1>1 DEF MatrixInv, Resting
<1>7. block' \in Nat /\ Len(file'.blocks) >= block' - 1 /\ \A f \in doc'.failures : f[1] <= block'
  <2>1. \A f \in doc.failures : f[1] <= block /\ f[1] \in Nat
    BY DEF MatrixInv, Document
  <2> QED
    BY <1>1, <1>2, <2>1
<1> QED
  BY <1>5, <1>6, <1>7 DEF MatrixInv

LEMMA StartStep == ASSUME MatrixInv, NEW m \in Arms, StartArm(m) PROVE MatrixInv'
<1>1. /\ runner = "arms" /\ m \in arms_left /\ now' = m /\ arms_left' = arms_left \ {m} /\ runner' = "waiting"
      /\ block' = block /\ runs' = runs /\ doc' = doc /\ file' = file
  BY DEF StartArm
<1>2. Working'
  BY <1>1 DEF MatrixInv, Working, Over
<1> QED
  BY <1>1, <1>2 DEF MatrixInv, Resting

(* A run that fails is noted under its block, which is not in the document. *)
LEMMA Noting ==
  ASSUME MatrixInv, runner = "waiting", Fails(now)
  PROVE  /\ Document(doc') /\ Len(doc'.blocks) = Len(doc.blocks)
         /\ doc'.failures = doc.failures \cup {<<block, now>>}
         /\ \A f \in doc'.failures : f[1] <= block
<1>1. PICK b, f : b = doc.blocks /\ f = doc.failures \cup {<<block, now>>}
  OBVIOUS
<1>2. doc' = [blocks |-> b, failures |-> f]
  BY <1>1 DEF Fails, MatrixInv, Document
<1>3. doc'.blocks = b /\ doc'.failures = f
  BY <1>2
<1>4. Accounted(doc')
  <2>1. ASSUME NEW i \in DOMAIN b PROVE i < block
    <3>1. Sequence(b) /\ Len(b) = block - 1 /\ block \in Nat
      BY <1>1 DEF MatrixInv, Document, Working
    <3>2. DOMAIN b = 1 .. Len(b)
      BY <3>1 DEF Sequence
    <3> QED
      BY <3>1, <3>2
  <2>2. ASSUME NEW i \in DOMAIN b, NEW n \in Arms
        PROVE  <<i, n>> \in f <=> <<i, n>> \in doc.failures
    <3>1. i # block
      BY <2>1 DEF MatrixInv
    <3> QED
      BY <1>1, <3>1
  <2>3. Accounted(doc)
    BY DEF MatrixInv, Document
  <2> QED
    BY <1>1, <1>3, <2>2, <2>3 DEF Accounted
<1>5. f \subseteq Nat \X Arms /\ Sequence(b) /\ \A x1 \in f : x1[1] <= block
  BY <1>1 DEF MatrixInv, Document
<1> QED
  BY <1>1, <1>2, <1>3, <1>4, <1>5 DEF Document

LEMMA RaiseStep == ASSUME MatrixInv, Raises PROVE MatrixInv'
<1>1. /\ runner = "waiting" /\ Fails(now) /\ runner' = "arms"
      /\ block' = block /\ arms_left' = arms_left /\ now' = now /\ runs' = runs /\ file' = file
  BY DEF Raises
<1>2. /\ Document(doc') /\ Len(doc'.blocks) = Len(doc.blocks)
      /\ doc'.failures = doc.failures \cup {<<block, now>>}
      /\ \A f \in doc'.failures : f[1] <= block
  BY <1>1, Noting
<1>3. Working'
  <2>1. \A n \in Arms : <<block, n>> \in doc'.failures <=> <<block, n>> \in doc.failures \/ n = now
    BY <1>2 DEF MatrixInv
  <2> QED
    BY <1>1, <1>2, <2>1 DEF MatrixInv, Working, Over
<1> QED
  BY <1>1, <1>2, <1>3 DEF MatrixInv, Resting

LEMMA ReturnStep == ASSUME MatrixInv, Returns PROVE MatrixInv'
<1>1. /\ runner = "waiting" /\ runner' = "arms"
      /\ block' = block /\ arms_left' = arms_left /\ now' = now /\ file' = file
  BY DEF Returns
<1>2. CASE DOMAIN runs' = DOMAIN runs \cup {now} /\ doc' = doc
  <2>1. Working'
    BY <1>1, <1>2 DEF MatrixInv, Working, Over
  <2> QED
    BY <1>1, <1>2, <2>1 DEF MatrixInv, Resting
<1>3. CASE runs' = runs /\ Fails(now)
  <2>2. /\ Document(doc') /\ Len(doc'.blocks) = Len(doc.blocks)
        /\ doc'.failures = doc.failures \cup {<<block, now>>}
        /\ \A f \in doc'.failures : f[1] <= block
    BY <1>1, <1>3, Noting
  <2>3. \A n \in Arms : <<block, n>> \in doc'.failures <=> <<block, n>> \in doc.failures \/ n = now
    BY <2>2 DEF MatrixInv
  <2>4. Working'
    BY <1>1, <1>3, <2>2, <2>3 DEF MatrixInv, Working, Over
  <2> QED
    BY <1>1, <2>2, <2>4 DEF MatrixInv, Resting
<1>4. \/ DOMAIN runs' = DOMAIN runs \cup {now} /\ doc' = doc
      \/ runs' = runs /\ Fails(now)
  <2>1. PICK usable \in BOOLEAN :
          LET good == usable /\ SchemaOK(record)
          IN  /\ runs' = IF good THEN [n \in DOMAIN runs \cup {now} |-> IF n = now THEN record ELSE runs[n]]
                                ELSE runs
              /\ IF Noted(good) THEN Fails(now) ELSE doc' = doc
    BY DEF Returns
  <2>2. DOMAIN [n \in DOMAIN runs \cup {now} |-> IF n = now THEN record ELSE runs[n]] = DOMAIN runs \cup {now}
    OBVIOUS
  <2>3. CASE usable /\ SchemaOK(record)
    BY <2>1, <2>2, <2>3 DEF Noted
  <2>4. CASE ~ (usable /\ SchemaOK(record))
    BY <2>1, <2>4 DEF Noted
  <2> QED
    BY <2>3, <2>4
<1> QED
  BY <1>2, <1>3, <1>4

(* A block goes into the document with its failures already noted. *)
LEMMA AppendStep == ASSUME MatrixInv, AppendBlock PROVE MatrixInv'
<1> PICK c : c <=> Cardinality(DOMAIN runs) = Cardinality(Arms)
  OBVIOUS
<1> PICK e : e = [block |-> block, segment |-> IF args.pilot THEN 0 ELSE (block - 1) \div Segment,
                  runs |-> runs, complete |-> Cardinality(DOMAIN runs) = Cardinality(Arms)]
  OBVIOUS
<1>1. /\ runner = "arms" /\ arms_left = {} /\ runner' = "write" /\ doc' = [doc EXCEPT !.blocks = Append(@, e)]
      /\ block' = block /\ arms_left' = arms_left /\ now' = now /\ runs' = runs /\ file' = file
  BY DEF AppendBlock
<1>2. PICK q, r, f : q = doc.blocks /\ r = Append(q, e) /\ f = doc.failures
  OBVIOUS
<1>3. /\ Sequence(q) /\ Len(q) = block - 1 /\ block \in Nat /\ DOMAIN runs \subseteq Arms /\ Accounted(doc)
      /\ Len(file.blocks) = block - 1
      /\ \A n \in Arms : n \in DOMAIN runs <=> <<block, n>> \notin f
  BY <1>1, <1>2 DEF MatrixInv, Document, Working, Over
<1>4. doc' = [blocks |-> r, failures |-> f]
  BY <1>1, <1>2 DEF MatrixInv, Document
<1>5. doc'.blocks = r /\ doc'.failures = f
  BY <1>4
<1>6. /\ Sequence(r) /\ Len(r) = block /\ DOMAIN q = 1 .. block - 1 /\ DOMAIN r = 1 .. block
      /\ (\A i \in 1 .. block - 1 : r[i] = q[i]) /\ r[block] = e
  <2>1. Len(q) + 1 = block
    BY <1>3
  <2> QED
    BY <1>2, <1>3, <2>1, Appended
<1>7. e.block = block /\ e.runs = runs /\ (e.complete <=> DOMAIN runs = Arms)
  <2>1. e.block = block /\ e.runs = runs /\ (e.complete <=> Cardinality(DOMAIN runs) = Cardinality(Arms))
    OBVIOUS
  <2>2. Cardinality(DOMAIN runs) = Cardinality(Arms) => DOMAIN runs = Arms
    BY <1>3, FourArms, FS_Subset
  <2> QED
    BY <2>1, <2>2
<1>8. Accounted(doc')
  <2>1. ASSUME NEW i \in DOMAIN r
        PROVE  /\ r[i].block = i /\ DOMAIN r[i].runs \subseteq Arms
               /\ (r[i].complete <=> DOMAIN r[i].runs = Arms)
               /\ \A n \in Arms : n \in DOMAIN r[i].runs <=> <<i, n>> \notin f
    <3>1. CASE i = block
      BY <1>3, <1>6, <1>7, <3>1
    <3>2. CASE i # block
      <4>1. i \in 1 .. block - 1
        BY <1>3, <1>6, <3>2
      <4>2. i \in DOMAIN q /\ r[i] = q[i]
        BY <1>6, <4>1
      <4> QED
        BY <1>2, <1>3, <4>2 DEF Accounted
    <3> QED
      BY <3>1, <3>2
  <2> QED
    BY <1>5, <2>1 DEF Accounted
<1>9. Document(doc')
  BY <1>2, <1>4, <1>5, <1>6, <1>8 DEF Document, MatrixInv
<1> QED
  BY <1>1, <1>2, <1>3, <1>5, <1>6, <1>9 DEF MatrixInv, Working, Resting

LEMMA WriteStep == ASSUME MatrixInv, WriteBlock \/ WriteFinal PROVE MatrixInv'
<1>1. /\ file' = doc /\ block' = block /\ arms_left' = arms_left /\ now' = now /\ runs' = runs /\ doc' = doc
      /\ runner \in {"write", "final"} /\ runner' \in {"next", "final", "done"}
  BY DEF WriteBlock, WriteFinal
<1>2. block \in Nat /\ Len(doc.blocks) = block
  BY <1>1 DEF MatrixInv, Resting
<1>3. Document(doc)
  BY DEF MatrixInv
<1>4. Document(file') /\ Len(file'.blocks) = block /\ Document(doc')
  BY <1>1, <1>2, <1>3
<1> QED
  BY <1>1, <1>2, <1>4 DEF MatrixInv, Working, Resting

(* Everything else leaves the runner's state alone, and keeps out of its loop. *)
LEMMA ElsewhereStep ==
  ASSUME MatrixInv, UNCHANGED matrix_vars,
         \/ runner' = runner
         \/ runner' \notin {"next", "arms", "waiting", "write", "final"}
         \/ runner = "next" /\ runner' = "final"
  PROVE  MatrixInv'
<1>1. block' = block /\ arms_left' = arms_left /\ now' = now /\ runs' = runs /\ doc' = doc /\ file' = file
  BY DEF matrix_vars
<1>2. Document(doc') /\ Document(file')
  BY <1>1 DEF MatrixInv
<1>3. Working' /\ Resting'
  BY <1>1 DEF MatrixInv, Working, Resting, Over
<1> QED
  BY <1>1, <1>2, <1>3 DEF MatrixInv

(* A step is one of the runner's own, or leaves what it holds alone. *)
LEMMA MatrixKeeps == MatrixInv /\ [MeasureNext]_measure_vars => MatrixInv'
<1> SUFFICES ASSUME MatrixInv, [MeasureNext]_measure_vars PROVE MatrixInv'
  OBVIOUS
<1>1. CASE MatrixStep
  <2>1. MatrixNext
    BY <1>1 DEF MatrixStep
  <2>2. CASE BeginBlock
    BY <2>2, BeginStep
  <2>3. CASE \E n \in Arms : StartArm(n)
    BY <2>3, StartStep
  <2>4. CASE Raises
    BY <2>4, RaiseStep
  <2>5. CASE Returns
    BY <2>5, ReturnStep
  <2>6. CASE AppendBlock
    BY <2>6, AppendStep
  <2>7. CASE WriteBlock \/ WriteFinal
    BY <2>7, WriteStep
  <2>8. CASE EndOfPlan
    <3>1. UNCHANGED matrix_vars /\ runner = "next" /\ runner' = "final"
      BY <2>8 DEF EndOfPlan
    <3> QED
      BY <3>1, ElsewhereStep
  <2> QED
    BY <2>1, <2>2, <2>3, <2>4, <2>5, <2>6, <2>7, <2>8 DEF MatrixNext
<1>2. CASE LaunchTrial \/ OtherEnds \/ Ends \/ WriteReport \/ KillScript
  <2>1. UNCHANGED matrix_vars /\ runner' \in {"other", "process", "launch", "aborted", "done", "killed"}
    <3>1. CASE LaunchTrial
      BY <3>1 DEF LaunchTrial
    <3>2. CASE OtherEnds
      BY <3>2 DEF OtherEnds, TakeRecord
    <3>3. CASE Ends
      BY <3>3 DEF Ends, TakeRecord
    <3>4. CASE WriteReport
      BY <3>4 DEF WriteReport
    <3>5. CASE KillScript
      BY <3>5 DEF KillScript
    <3> QED
      BY <1>2, <3>1, <3>2, <3>3, <3>4, <3>5
  <2> QED
    BY <2>1, ElsewhereStep
<1>3. CASE EngineStep
  <2>1. UNCHANGED matrix_vars /\ runner' = runner
    BY <1>3 DEF EngineStep
  <2> QED
    BY <2>1, ElsewhereStep
<1>4. CASE UNCHANGED measure_vars
  <2>1. UNCHANGED matrix_vars /\ runner' = runner
    BY <1>4 DEF measure_vars
  <2> QED
    BY <2>1, ElsewhereStep
<1> QED
  BY <1>1, <1>2, <1>3, <1>4 DEF MeasureNext

(* run_matrix: what the document holds at every step, wherever the runner is killed. *)
THEOREM MatrixInvariance == MeasureSpec => []MatrixInv
<1>1. MeasureInit => MatrixInv
  BY MatrixStart
<1> QED
  BY <1>1, MatrixKeeps, PTL DEF MeasureSpec

(* The blocks that every comparison draws from are those without a failure. *)
LEMMA SameBlocks ==
  ASSUME Document(file), NEW x1 \in Arms, NEW y1 \in Arms
  PROVE  UNION {Pool(x1, y1, s) : s \in Segments} =
           {i \in DOMAIN file.blocks : \A n \in Arms : <<i, n>> \notin file.failures}
<1> DEFINE U == UNION {Pool(x1, y1, s) : s \in Segments}
           V == {i \in DOMAIN file.blocks : \A n \in Arms : <<i, n>> \notin file.failures}
<1>1. PICK q : q = file.blocks
  OBVIOUS
<1>2. ToSet(q) = {q[i] : i \in DOMAIN q}
  BY DEF ToSet
<1>3. \A i \in DOMAIN q :
        /\ q[i].block = i /\ (q[i].complete <=> DOMAIN q[i].runs = Arms)
        /\ DOMAIN q[i].runs \subseteq Arms
        /\ \A n \in Arms : n \in DOMAIN q[i].runs <=> <<i, n>> \notin file.failures
  BY <1>1 DEF Document, Accounted
<1>4. CompleteBlocks = {b \in ToSet(q) : b.complete}
  BY <1>1 DEF CompleteBlocks
<1>5. ASSUME NEW j \in U PROVE j \in V
  <2>1. PICK s \in Segments : j \in Pool(x1, y1, s)
    BY <1>5
  <2>2. PICK b \in CompleteBlocks : j = b.block
    BY <2>1 DEF Pool
  <2>3. PICK i \in DOMAIN q : b = q[i]
    BY <1>2, <1>4, <2>2
  <2>4. b.complete
    BY <1>4, <2>2
  <2>5. j = i /\ DOMAIN q[i].runs = Arms
    BY <1>3, <2>2, <2>3, <2>4
  <2> QED
    BY <1>1, <1>3, <2>5
<1>6. ASSUME NEW i \in V PROVE i \in U
  <2>1. i \in DOMAIN q /\ \A n \in Arms : <<i, n>> \notin file.failures
    BY <1>1, <1>6
  <2>2. PICK b : b = q[i]
    OBVIOUS
  <2>3. b \in ToSet(q)
    BY <1>2, <2>1, <2>2
  <2>4. b.block = i /\ DOMAIN b.runs = Arms /\ b.complete
    BY <1>3, <2>1, <2>2
  <2>5. b \in CompleteBlocks
    BY <1>4, <2>3, <2>4
  <2>6. b.segment \in Segments
    BY <2>5 DEF Segments
  <2>7. i \in Pool(x1, y1, b.segment)
    BY <2>4, <2>5 DEF Pool
  <2> QED
    BY <2>6, <2>7
<1> QED
  BY <1>5, <1>6

(* Whatever the engine's processes do, and wherever the runner is killed: the   *)
(* file has every block but the one at work, every configuration of a block is  *)
(* a record or a failure of it, and all comparisons stand on the same blocks.   *)
THEOREM NothingIsDropped == MeasureSpec => []NothingDropped
<1>1. MatrixInv => NothingDropped
  <2> SUFFICES ASSUME MatrixInv PROVE NothingDropped
    OBVIOUS
  <2>1. Document(file) /\ Len(file.blocks) >= block - 1
    BY DEF MatrixInv
  <2>2. \A i \in DOMAIN file.blocks :
          LET b == file.blocks[i]
          IN  b.block = i /\ \A n \in Arms : (n \in DOMAIN b.runs) # (<<i, n>> \in file.failures)
    BY <2>1 DEF Document, Accounted
  <2>3. \A x1, y1 \in Arms :
          UNION {Pool(x1, y1, s) : s \in Segments} =
            {i \in DOMAIN file.blocks : \A n \in Arms : <<i, n>> \notin file.failures}
    BY <2>1, SameBlocks
  <2> QED
    BY <2>1, <2>2, <2>3 DEF NothingDropped
<1> QED
  BY <1>1, MatrixInvariance, PTL

-----------------------------------------------------------------------------
(* One process of the engine: its record is true of what it ran. *)

Counted(t) ==
  t = [batches |-> t.batches, timed |-> t.timed, collectives |-> t.collectives, bytes |-> t.bytes,
       chunks |-> t.chunks, slots |-> t.slots, validated |-> t.validated]

BatchBytes == IF Collective THEN BytesPerPair(cfg.payload) * n_pairs ELSE 0

(* Batches one after another: the warm-ups, then the timed ones, a slot for each. *)
Batched ==
  /\ tally.batches \in Nat /\ tally.bytes = BatchBytes * tally.batches
  /\ tally.collectives = IF Collective THEN tally.batches ELSE 0
  /\ ~cfg.resident => tally.batches = 0

Repeated ==
  /\ tally.timed \in 0 .. cfg.repeat
  /\ \/ tally.batches <= cfg.warmup /\ tally.timed = 0
     \/ tally.batches = cfg.warmup + tally.timed
  /\ cfg.validate => /\ out_slot = IF tally.timed = cfg.repeat THEN 0 ELSE tally.timed
                     /\ tally.slots = 0 .. tally.timed - 1 \/ (tally.timed = 0 /\ tally.slots = {0})

(* The pairs of the first k chunks, all of them full but the last one of all. *)
Covered(k) == IF k * cfg.chunk <= n_pairs THEN k * cfg.chunk ELSE n_pairs

Chunked ==
  /\ tally.chunks \in 0 .. NChunks /\ tally.collectives = tally.chunks
  /\ tally.bytes = BytesPerPair(cfg.payload) * Covered(tally.chunks)

Reportable ==
  /\ tally.batches \in Nat \ {0} /\ tally.bytes = BatchBytes * tally.batches
  /\ InSync => tally.collectives = IF Collective THEN tally.batches ELSE 0
  /\ cfg.payload # "f64" => tally.collectives > 0
  /\ cfg.resident => /\ tally.batches = cfg.warmup + cfg.repeat /\ tally.timed = cfg.repeat
                     /\ tally.validated > 0 => tally.validated = Cardinality(tally.slots)

(* The inductive invariant of the engine's process, by the phase it is in. *)
EngineInv ==
  /\ n_pairs \in Nat /\ (phase = "exit" \/ record = NoRecord)
  /\ phase \in {"parse", "load"} => tally = NothingDone /\ out_slot = 0
  /\ phase \in {"load", "run", "report"} => ~Refused(cfg)
  /\ phase \in {"run", "report"} => n_pairs > 0 /\ Counted(tally)
  /\ phase = "run" /\ InSync => Batched /\ (cfg.resident => Repeated)
  /\ phase = "run" /\ ~InSync => Chunked
  /\ phase = "report" => Reportable
  /\ RecordTrue

LEMMA Payload == BytesPerPair(cfg.payload) \in Nat
BY DEF BytesPerPair

LEMMA BytesOfBatch == ASSUME n_pairs \in Nat PROVE BatchBytes \in Nat
BY Payload DEF BatchBytes

(* What ~Refused says of an accepted configuration. *)
LEMMA AcceptedConfig ==
  ASSUME ~Refused(cfg)
  PROVE  /\ cfg.mode \in {"sync", "async"} /\ cfg.partition \in {"dim", "pair"}
         /\ cfg.chunk \in Nat \ {0} /\ cfg.gpus \in 1 .. Visible
         /\ cfg.partition = "pair" => cfg.mode = "sync" /\ cfg.payload = "f64"
         /\ cfg.resident => cfg.mode = "sync" /\ cfg.warmup \in Nat /\ cfg.repeat \in Nat \ {0}
<1>1. cfg.mode \in {"sync", "async"} /\ cfg.partition \in {"dim", "pair"}
  BY DEF Refused, BadWord
<1>2. cfg.chunk \in Nat \ {0} /\ cfg.gpus \in 1 .. Visible
  <2>1. ~BadNumber(cfg)
    BY DEF Refused
  <2> QED
    BY <2>1 DEF BadNumber
<1>3. cfg.partition = "pair" => cfg.mode = "sync" /\ cfg.payload = "f64"
  BY DEF Refused, BadPair
<1>4. cfg.resident => cfg.mode = "sync" /\ cfg.warmup \in Nat /\ cfg.repeat \in Nat \ {0}
  BY DEF Refused, BadResident
<1> QED
  BY <1>1, <1>2, <1>3, <1>4

LEMMA CountedField ==
  ASSUME NEW b, NEW m, NEW c, NEW y1, NEW k, NEW s, NEW v, NEW t,
         t = [batches |-> b, timed |-> m, collectives |-> c, bytes |-> y1, chunks |-> k,
              slots |-> s, validated |-> v]
  PROVE  /\ Counted(t) /\ t.batches = b /\ t.timed = m /\ t.collectives = c /\ t.bytes = y1
         /\ t.chunks = k /\ t.slots = s /\ t.validated = v
BY DEF Counted

LEMMA NothingCounted ==
  /\ Counted(NothingDone) /\ NothingDone.batches = 0 /\ NothingDone.timed = 0
  /\ NothingDone.collectives = 0 /\ NothingDone.bytes = 0 /\ NothingDone.chunks = 0
  /\ NothingDone.slots = {} /\ NothingDone.validated = 0
BY CountedField DEF NothingDone

(* A batch adds one to the batches, and what it sends. *)
LEMMA OneBatch ==
  ASSUME Counted(tally)
  PROVE  LET t == Batch(tally)
         IN  /\ Counted(t) /\ t.batches = tally.batches + 1 /\ t.timed = tally.timed
             /\ t.collectives = tally.collectives + (IF Collective THEN 1 ELSE 0)
             /\ t.bytes = tally.bytes + BatchBytes /\ t.slots = tally.slots \cup {out_slot}
             /\ t.validated = tally.validated
<1>1. PICK c, w, s : /\ c = IF Collective THEN 1 ELSE 0
                     /\ w = IF Collective THEN BytesPerPair(cfg.payload) * n_pairs ELSE 0
                     /\ s = {out_slot}
  OBVIOUS
<1>2. PICK t : t = Batch(tally)
  OBVIOUS
<1>3. t = [tally EXCEPT !.batches = @ + 1, !.collectives = @ + c, !.bytes = @ + w, !.slots = @ \cup s]
  BY <1>1, <1>2 DEF Batch
<1>4. t = [batches |-> tally.batches + 1, timed |-> tally.timed, collectives |-> tally.collectives + c,
           bytes |-> tally.bytes + w, chunks |-> tally.chunks, slots |-> tally.slots \cup s,
           validated |-> tally.validated]
  BY <1>3 DEF Counted
<1>5. /\ Counted(t) /\ t.batches = tally.batches + 1 /\ t.timed = tally.timed
      /\ t.collectives = tally.collectives + c /\ t.bytes = tally.bytes + w
      /\ t.slots = tally.slots \cup s /\ t.validated = tally.validated
  BY <1>4, CountedField
<1>6. w = BatchBytes
  BY <1>1 DEF BatchBytes
<1> QED
  BY <1>1, <1>2, <1>5, <1>6

LEMMA OneMore ==
  ASSUME n_pairs \in Nat, Batched
  PROVE  /\ tally.bytes + BatchBytes = BatchBytes * (tally.batches + 1)
         /\ tally.collectives + (IF Collective THEN 1 ELSE 0) = IF Collective THEN tally.batches + 1 ELSE 0
<1>1. PICK w : w = BatchBytes /\ w \in Nat
  BY BytesOfBatch
<1>2. tally.batches \in Nat /\ tally.bytes = w * tally.batches
  BY <1>1 DEF Batched
<1>3. PICK b : b = tally.batches
  OBVIOUS
<1>4. w * (b + 1) = w * b + w * 1 /\ w * b \in Nat
  BY <1>1, <1>2, <1>3, Distribute
<1>5. tally.bytes + w = w * (b + 1)
  BY <1>1, <1>2, <1>3, <1>4
<1>6. tally.collectives = IF Collective THEN b ELSE 0
  BY <1>3 DEF Batched
<1> QED
  BY <1>1, <1>2, <1>3, <1>5, <1>6

(* The steps up to the first batch. *)
LEMMA StartSteps ==
  ASSUME EngineInv, ParseArguments \/ Load
  PROVE  EngineInv'
<1>1. /\ phase \in {"parse", "load"} /\ tally = NothingDone /\ out_slot = 0 /\ record = NoRecord
      /\ phase = "load" => ~Refused(cfg)
  BY DEF EngineInv, ParseArguments, Load
<1>2. /\ tally' = tally /\ out_slot' = out_slot /\ record' = record /\ n_pairs' = n_pairs
      /\ \/ phase' = "exit"
         \/ phase = "parse" /\ phase' = "load" /\ ~Refused(parse'.cfg)
         \/ phase = "load" /\ phase' = "run" /\ parse' = parse /\ n_pairs > 0
  <2>1. CASE ParseArguments
    BY <2>1 DEF ParseArguments, Refuse, Accepts
  <2>2. CASE Load
    BY <2>2 DEF Load, Refuse
  <2> QED
    BY <2>1, <2>2
<1>3. RecordTrue'
  BY <1>1, <1>2 DEF RecordTrue
<1>4. n_pairs' \in Nat
  BY <1>2 DEF EngineInv
<1>5. CASE phase' # "run"
  BY <1>1, <1>2, <1>3, <1>4, <1>5 DEF EngineInv, cfg
<1>6. CASE phase' = "run"
  <2>1. /\ cfg' = cfg /\ n_pairs > 0 /\ n_pairs \in Nat /\ ~Refused(cfg)
    BY <1>1, <1>2, <1>6 DEF cfg, EngineInv
  <2>2. PICK w : w = BatchBytes /\ w \in Nat /\ w * 0 = 0
    BY <2>1, BytesOfBatch
  <2>3. PICK y1 : y1 = BytesPerPair(cfg.payload) /\ y1 \in Nat /\ y1 * 0 = 0
    BY Payload
  <2>4. BatchBytes' = w /\ Collective' = Collective /\ InSync' = InSync
    BY <1>2, <2>1, <2>2 DEF BatchBytes, Collective, InSync
  <2>5. Batched'
    BY <1>1, <1>2, <2>2, <2>4, NothingCounted DEF Batched
  <2>6. cfg.resident => Repeated'
    BY <1>1, <1>2, <2>1, NothingCounted, AcceptedConfig DEF Repeated
  <2>7. Chunked'
    <3>1. NChunks \in Nat /\ NChunks' = NChunks
      <4>1. cfg.chunk \in Nat \ {0}
        BY <2>1, AcceptedConfig
      <4>2. PICK a : a = n_pairs + cfg.chunk - 1 /\ a \in Nat
        BY <2>1, <4>1
      <4> QED
        BY <1>2, <2>1, <4>1, <4>2, DivBounds DEF NChunks
    <3>2. cfg.chunk \in Nat \ {0} /\ Covered(0)' = 0
      BY <1>2, <2>1, AcceptedConfig DEF Covered
    <3> QED
      BY <1>1, <1>2, <2>1, <2>3, <3>1, <3>2, NothingCounted DEF Chunked
  <2> QED
    BY <1>1, <1>2, <1>3, <1>4, <1>6, <2>1, <2>5, <2>6, <2>7, NothingCounted DEF EngineInv
<1> QED
  BY <1>5, <1>6

(* A step of the run itself: the configuration, the fixture and the record are left alone. *)
InRun ==
  /\ phase = "run" /\ phase' \in {"run", "report"}
  /\ UNCHANGED <<parse, n_pairs, record>>

LEMMA InRunStep ==
  ASSUME EngineInv, InRun, Counted(tally'),
         phase' = "run" /\ InSync => Batched' /\ (cfg.resident => Repeated'),
         phase' = "run" /\ ~InSync => Chunked',
         phase' = "report" => Reportable'
  PROVE  EngineInv'
<1>1. /\ record = NoRecord /\ n_pairs \in Nat /\ n_pairs > 0 /\ ~Refused(cfg)
      /\ record' = record /\ n_pairs' = n_pairs /\ cfg' = cfg /\ InSync' = InSync
  BY DEF EngineInv, InRun, cfg, InSync
<1>2. RecordTrue'
  BY <1>1 DEF RecordTrue
<1> QED
  BY <1>1, <1>2 DEF EngineInv, InRun

LEMMA BatchSteps ==
  ASSUME EngineInv, WarmupBatch \/ TimedBatch \/ SingleBatch
  PROVE  EngineInv'
<1>1. /\ Counted(tally) /\ n_pairs \in Nat /\ n_pairs > 0 /\ ~Refused(cfg) /\ Batched
      /\ cfg.resident => Repeated
      /\ InSync /\ phase = "run" /\ InRun
  BY DEF EngineInv, WarmupBatch, TimedBatch, SingleBatch, InRun
<1>2. /\ cfg' = cfg /\ BatchBytes' = BatchBytes /\ (Collective' <=> Collective) /\ n_pairs' = n_pairs
  BY <1>1 DEF InRun, BatchBytes, Collective, cfg
<1>3. PICK t : t = Batch(tally)
  OBVIOUS
<1>4. /\ Counted(t) /\ t.batches = tally.batches + 1 /\ t.timed = tally.timed
      /\ t.collectives = tally.collectives + (IF Collective THEN 1 ELSE 0)
      /\ t.bytes = tally.bytes + BatchBytes /\ t.slots = tally.slots \cup {out_slot}
      /\ t.validated = tally.validated
  BY <1>1, <1>3, OneBatch
<1>5. /\ t.batches \in Nat \ {0} /\ t.bytes = BatchBytes * t.batches
      /\ t.collectives = IF Collective THEN t.batches ELSE 0
  BY <1>1, <1>4, OneMore DEF Batched
<1>6. CASE WarmupBatch
  <2>1. tally' = t /\ phase' = "run" /\ cfg.resident /\ tally.batches < cfg.warmup /\ out_slot' = out_slot
    BY <1>3, <1>6 DEF WarmupBatch, Warming
  <2>2. Batched'
    BY <1>2, <1>5, <2>1 DEF Batched
  <2>3. Repeated'
    <3>1. cfg.warmup \in Nat /\ cfg.repeat \in Nat \ {0} /\ tally.batches \in Nat
      BY <1>1, <2>1, AcceptedConfig DEF Batched
    <3>2. tally.timed = 0
      BY <1>1, <2>1, <3>1 DEF Repeated
    <3>3. cfg.validate => out_slot = 0 /\ tally.slots \in {0 .. 0 - 1, {0}}
      BY <1>1, <2>1, <3>1, <3>2 DEF Repeated
    <3>4. cfg.validate => t.slots = {0}
      BY <1>4, <3>3
    <3> QED
      BY <1>2, <1>4, <2>1, <3>1, <3>2, <3>3, <3>4 DEF Repeated
  <2> QED
    BY <1>1, <1>4, <2>1, <2>2, <2>3, InRunStep
<1>7. CASE TimedBatch
  <2>1. /\ tally' = [t EXCEPT !.timed = @ + 1] /\ phase' = "run" /\ cfg.resident
        /\ ~ (tally.batches < cfg.warmup) /\ tally.timed < cfg.repeat
        /\ out_slot' = IF cfg.validate THEN (out_slot + 1) % OutSlots ELSE out_slot
    BY <1>3, <1>7 DEF TimedBatch, Warming
  <2>2. tally' = [batches |-> t.batches, timed |-> t.timed + 1, collectives |-> t.collectives,
                  bytes |-> t.bytes, chunks |-> t.chunks, slots |-> t.slots, validated |-> t.validated]
    BY <1>4, <2>1 DEF Counted
  <2>3. /\ Counted(tally') /\ tally'.batches = t.batches /\ tally'.timed = t.timed + 1
        /\ tally'.collectives = t.collectives /\ tally'.bytes = t.bytes /\ tally'.slots = t.slots
    BY <2>2, CountedField
  <2>4. Batched'
    BY <1>2, <1>5, <2>1, <2>3 DEF Batched
  <2>5. /\ cfg.warmup \in Nat /\ cfg.repeat \in Nat \ {0} /\ tally.batches \in Nat
        /\ tally.timed \in Nat /\ tally.timed < cfg.repeat /\ tally.batches = cfg.warmup + tally.timed
    <3>1. cfg.warmup \in Nat /\ cfg.repeat \in Nat \ {0} /\ tally.batches \in Nat
      BY <1>1, <2>1, AcceptedConfig DEF Batched
    <3> QED
      BY <1>1, <2>1, <3>1 DEF Repeated
  <2>6. ASSUME cfg.validate
        PROVE  /\ out_slot' = IF tally.timed + 1 = cfg.repeat THEN 0 ELSE tally.timed + 1
               /\ t.slots = 0 .. tally.timed
    <3>1. /\ out_slot = tally.timed
          /\ tally.slots = 0 .. tally.timed - 1 \/ (tally.timed = 0 /\ tally.slots = {0})
      BY <1>1, <2>1, <2>5, <2>6 DEF Repeated
    <3>2. t.slots = 0 .. tally.timed
      BY <1>4, <2>5, <3>1
    <3>3. out_slot' = (tally.timed + 1) % cfg.repeat
      BY <2>1, <2>6, <3>1 DEF OutSlots
    <3>4. PICK m, r : m = tally.timed + 1 /\ r = cfg.repeat
      OBVIOUS
    <3>5. m \in Nat /\ r \in Nat \ {0} /\ m <= r
      BY <2>5, <3>4
    <3>6. m % r = IF m = r THEN 0 ELSE m
      <4>1. m = r => r * 1 + 0 = m
        BY <3>5
      <4>2. m # r => r * 0 + m = m /\ m \in 0 .. r - 1
        BY <3>5
      <4>3. 0 \in 0 .. r - 1
        BY <3>5
      <4> QED
        BY <3>5, <4>1, <4>2, <4>3, ModUnique
    <3> QED
      BY <3>2, <3>3, <3>4, <3>6
  <2>7. Repeated'
    <3>1. tally'.timed = tally.timed + 1 /\ tally'.batches = tally.batches + 1 /\ tally'.slots = t.slots
      BY <1>4, <2>3
    <3>2. cfg.validate => t.slots = 0 .. tally'.timed - 1
      BY <2>5, <2>6, <3>1
    <3> QED
      BY <1>2, <2>5, <2>6, <3>1, <3>2 DEF Repeated
  <2> QED
    BY <1>1, <2>1, <2>3, <2>4, <2>7, InRunStep
<1>8. CASE SingleBatch
  <2>1. tally' = t /\ phase' = "report" /\ ~cfg.resident
    BY <1>3, <1>8 DEF SingleBatch
  <2>2. cfg.payload # "f64" => Collective
    BY <1>1, AcceptedConfig DEF Collective
  <2>3. Reportable'
    BY <1>2, <1>5, <2>1, <2>2 DEF Reportable
  <2> QED
    BY <1>1, <1>4, <2>1, <2>3, InRunStep
<1> QED
  BY <1>6, <1>7, <1>8

(* The chunks cover the pairs: each but the last is full, and the last not empty. *)
LEMMA ChunkSizes ==
  ASSUME NEW c \in Nat \ {0}, NEW n \in Nat \ {0}, NEW k \in Nat
  PROVE  LET z == (n + c - 1) \div c
         IN  /\ z \in Nat \ {0} /\ n <= z * c
             /\ k < z => k * c < n
<1>1. PICK a, z : a = n + c - 1 /\ z = a \div c /\ a \in Nat
  OBVIOUS
<1>2. z \in Nat /\ c * z <= a /\ a < c * z + c
  BY <1>1, DivBounds
<1>3. n <= c * z
  BY <1>1, <1>2
<1>4. z # 0
  BY <1>2, <1>3
<1>5. ASSUME k < z PROVE c * k < n
  <2>1. c * (k + 1) <= c * z
    BY <1>2, <1>5, MulMono
  <2>2. c * (k + 1) = c * k + c * 1
    BY Distribute
  <2> QED
    BY <1>1, <1>2, <2>1, <2>2
<1>6. c * z = z * c /\ c * k = k * c
  BY <1>2
<1> QED
  BY <1>1, <1>2, <1>3, <1>4, <1>5, <1>6

LEMMA ChunkCovers ==
  ASSUME ~Refused(cfg), n_pairs \in Nat \ {0}, NEW k \in Nat
  PROVE  /\ NChunks \in Nat \ {0} /\ Covered(NChunks) = n_pairs
         /\ Covered(k) \in Nat
         /\ k < NChunks => ChunkLen(k) \in Nat /\ Covered(k + 1) = Covered(k) + ChunkLen(k)
<1>1. PICK c, n : c = cfg.chunk /\ n = n_pairs /\ c \in Nat \ {0} /\ n \in Nat \ {0}
  BY AcceptedConfig
<1>2. PICK z : z = NChunks /\ z = (n + c - 1) \div c
  BY <1>1 DEF NChunks
<1>3. z \in Nat \ {0} /\ n <= z * c /\ z * c \in Nat /\ k * c \in Nat /\ (k < z => k * c < n)
  <2>1. z \in Nat \ {0} /\ n <= z * c /\ (k < z => k * c < n)
    BY <1>1, <1>2, ChunkSizes
  <2>2. c \in Nat /\ z \in Nat
    BY <1>1, <2>1
  <2>3. z * c \in Nat /\ k * c \in Nat
    BY <2>2
  <2> QED
    BY <2>1, <2>3
<1>4. \A j : Covered(j) = IF j * c <= n THEN j * c ELSE n
  BY <1>1 DEF Covered
<1>5. Covered(z) = n
  BY <1>1, <1>3, <1>4
<1>6. ASSUME k < z
      PROVE  ChunkLen(k) \in Nat /\ Covered(k + 1) = Covered(k) + ChunkLen(k)
  <2>1. PICK b : b = k * c /\ b \in Nat /\ b < n
    BY <1>3, <1>6
  <2>2. (k + 1) * c = b + c
    <3>1. c \in Int /\ k \in Int
      BY <1>1
    <3>2. (k + 1) * c = k * c + c
      BY <3>1
    <3> QED
      BY <2>1, <3>2
  <2>3. ChunkLen(k) = IF c <= n - b THEN c ELSE n - b
    <3>1. ChunkLen(k) = Min({c, n - b})
      BY <1>1, <2>1 DEF ChunkLen
    <3> QED
      BY <1>1, <2>1, <3>1, MinOfTwo
  <2>4. Covered(k) = b /\ Covered(k + 1) = IF b + c <= n THEN b + c ELSE n
    BY <1>1, <1>4, <2>1, <2>2
  <2> QED
    BY <1>1, <2>1, <2>3, <2>4
<1> QED
  BY <1>1, <1>2, <1>3, <1>4, <1>5, <1>6

LEMMA ChunkStep == ASSUME EngineInv, Chunk PROVE EngineInv'
<1>1. /\ Counted(tally) /\ n_pairs \in Nat /\ n_pairs > 0 /\ ~Refused(cfg) /\ Chunked /\ ~InSync
      /\ InRun /\ phase' = "run" /\ tally.chunks < NChunks
  BY DEF EngineInv, Chunk, InRun
<1>2. /\ cfg' = cfg /\ n_pairs' = n_pairs
  BY <1>1 DEF InRun, cfg
<1>3. PICK k, l, y1 : k = tally.chunks /\ l = ChunkLen(k) /\ y1 = BytesPerPair(cfg.payload)
  OBVIOUS
<1>4. /\ k \in Nat /\ k < NChunks /\ NChunks \in Nat /\ tally.collectives = k
      /\ tally.bytes = y1 * Covered(k) /\ y1 \in Nat
  BY <1>1, <1>3, ChunkCovers, Payload DEF Chunked
<1>5. l \in Nat /\ Covered(k) \in Nat /\ Covered(k + 1) = Covered(k) + l
  BY <1>1, <1>3, <1>4, ChunkCovers
<1>6. y1 * Covered(k) + y1 * l = y1 * Covered(k + 1)
  BY <1>4, <1>5, Distribute
<1>7. tally' = [batches |-> tally.batches, timed |-> tally.timed, collectives |-> tally.collectives + 1,
                bytes |-> tally.bytes + y1 * l, chunks |-> k + 1, slots |-> tally.slots,
                validated |-> tally.validated]
  BY <1>1, <1>3 DEF Chunk, Counted
<1>8. /\ Counted(tally') /\ tally'.chunks = k + 1 /\ tally'.collectives = tally.collectives + 1
      /\ tally'.bytes = tally.bytes + y1 * l
  BY <1>7, CountedField
<1>9. NChunks' = NChunks /\ Covered(k + 1)' = Covered(k + 1)
  BY <1>2 DEF NChunks, Covered
<1>10. Chunked'
  <2>1. tally'.chunks \in 0 .. NChunks' /\ tally'.collectives = tally'.chunks
    BY <1>4, <1>8, <1>9
  <2>2. tally'.bytes = y1 * Covered(k + 1)
    BY <1>4, <1>6, <1>8
  <2>3. Covered(tally.chunks)' = Covered(k + 1)
    BY <1>2, <1>8 DEF Covered
  <2> QED
    BY <1>2, <1>3, <2>1, <2>2, <2>3 DEF Chunked
<1> QED
  BY <1>1, <1>8, <1>10, InRunStep

LEMMA EndSteps == ASSUME EngineInv, ResidentEnd \/ PipelineEnd PROVE EngineInv'
<1>1. /\ Counted(tally) /\ n_pairs \in Nat \ {0} /\ ~Refused(cfg) /\ InRun /\ phase' = "report"
      /\ InSync => Batched /\ (cfg.resident => Repeated)
      /\ ~InSync => Chunked
  BY DEF EngineInv, ResidentEnd, PipelineEnd, InRun
<1>2. /\ cfg' = cfg /\ BatchBytes' = BatchBytes /\ (Collective' <=> Collective) /\ (InSync' <=> InSync)
      /\ n_pairs' = n_pairs
  BY <1>1 DEF InRun, BatchBytes, Collective, cfg, InSync
<1>3. CASE ResidentEnd
  <2>1. /\ tally' = [tally EXCEPT !.validated = IF cfg.validate THEN tally.timed ELSE 0]
        /\ InSync /\ cfg.resident /\ ~ (tally.batches < cfg.warmup) /\ tally.timed = cfg.repeat
    BY <1>3 DEF ResidentEnd, Warming
  <2>2. PICK v : v = IF cfg.validate THEN tally.timed ELSE 0
    OBVIOUS
  <2>3. tally' = [batches |-> tally.batches, timed |-> tally.timed, collectives |-> tally.collectives,
                  bytes |-> tally.bytes, chunks |-> tally.chunks, slots |-> tally.slots, validated |-> v]
    BY <1>1, <2>1, <2>2 DEF Counted
  <2>4. /\ Counted(tally') /\ tally'.batches = tally.batches /\ tally'.timed = tally.timed
        /\ tally'.collectives = tally.collectives /\ tally'.bytes = tally.bytes
        /\ tally'.slots = tally.slots /\ tally'.validated = v
    BY <2>3, CountedField
  <2>5. /\ cfg.warmup \in Nat /\ cfg.repeat \in Nat \ {0} /\ tally.batches = cfg.warmup + cfg.repeat
    BY <1>1, <2>1, AcceptedConfig DEF Repeated
  <2>6. v > 0 => v = Cardinality(tally.slots)
    <3>1. ASSUME cfg.validate PROVE tally.slots = 0 .. cfg.repeat - 1
      BY <1>1, <2>1, <2>5, <3>1 DEF Repeated
    <3>2. Cardinality(0 .. cfg.repeat - 1) = cfg.repeat
      <4>1. PICK r : r = cfg.repeat /\ r \in Nat \ {0}
        BY <2>5
      <4>2. PICK m : m = r - 1 /\ m \in Nat
        BY <4>1
      <4>3. Cardinality(0 .. m) = IF 0 > m THEN 0 ELSE m - 0 + 1
        BY <4>2, FS_Interval
      <4>4. Cardinality(0 .. m) = r
        BY <4>1, <4>2, <4>3
      <4> QED
        BY <4>1, <4>2, <4>4
    <3> QED
      BY <2>1, <2>2, <2>5, <3>1, <3>2
  <2>7. cfg.payload # "f64" => Collective
    BY <1>1, AcceptedConfig DEF Collective
  <2>8. Reportable'
    BY <1>1, <1>2, <2>1, <2>4, <2>5, <2>6, <2>7 DEF Reportable, Batched
  <2> QED
    BY <1>1, <2>4, <2>8, InRunStep
<1>4. CASE PipelineEnd
  <2>1. /\ tally' = [tally EXCEPT !.batches = 1, !.slots = {0}] /\ ~InSync /\ tally.chunks = NChunks
    BY <1>4 DEF PipelineEnd
  <2>2. tally' = [batches |-> 1, timed |-> tally.timed, collectives |-> tally.collectives,
                  bytes |-> tally.bytes, chunks |-> tally.chunks, slots |-> {0}, validated |-> tally.validated]
    BY <1>1, <2>1 DEF Counted
  <2>3. /\ Counted(tally') /\ tally'.batches = 1 /\ tally'.collectives = tally.collectives
        /\ tally'.bytes = tally.bytes
    BY <2>2, CountedField
  <2>4. ~cfg.resident /\ Collective
    BY <1>1, <2>1, AcceptedConfig DEF InSync, Collective
  <2>5. NChunks \in Nat \ {0} /\ Covered(NChunks) = n_pairs
    BY <1>1, ChunkCovers
  <2>6. tally.collectives = NChunks /\ tally.bytes = BytesPerPair(cfg.payload) * n_pairs
    BY <1>1, <2>1, <2>5 DEF Chunked
  <2>7. PICK w : w = BatchBytes /\ w = BytesPerPair(cfg.payload) * n_pairs /\ w \in Nat
    BY <1>1, <2>4, BytesOfBatch DEF BatchBytes
  <2>8. Reportable'
    BY <1>2, <2>1, <2>3, <2>4, <2>5, <2>6, <2>7 DEF Reportable
  <2> QED
    BY <1>1, <2>3, <2>8, InRunStep
<1> QED
  BY <1>3, <1>4

LEMMA ReportStep == ASSUME EngineInv, Report PROVE EngineInv'
<1>1. /\ Reportable /\ n_pairs \in Nat /\ ~Refused(cfg) /\ phase = "report"
  BY DEF EngineInv, Report
<1>2. PICK failing : record' = RecordMade(failing)
  BY DEF Report
<1>3. /\ tally' = tally /\ n_pairs' = n_pairs /\ phase' = "exit"
  BY DEF Report
<1>4. PICK r : r = RecordMade(failing)
  OBVIOUS
<1>5. /\ r.kind = IF cfg.resident THEN "resident" ELSE IF InSync THEN "device" ELSE "pipeline"
      /\ r.mode = cfg.mode /\ r.payload = cfg.payload
      /\ r.allreduce_bytes = BatchBytes /\ r.collective_ops = IF Collective THEN 1 ELSE 0
      /\ r.warmup_count = IF cfg.resident THEN cfg.warmup ELSE 0
      /\ r.repeat_count = IF cfg.resident THEN cfg.repeat ELSE 0
      /\ r.durations = tally.timed /\ r.iterations_validated = tally.validated
  BY <1>4 DEF RecordMade, BatchBytes
<1>6. r.allreduce_bytes * tally.batches = tally.bytes
  BY <1>1, <1>5 DEF Reportable
<1>7. r.mode = "sync" => r.collective_ops * tally.batches = tally.collectives
  BY <1>1, <1>5 DEF Reportable, InSync
<1>8. r.payload # "f64" => tally.collectives > 0
  BY <1>1, <1>5 DEF Reportable
<1>9. r.kind = "resident" =>
        /\ r.warmup_count + r.repeat_count = tally.batches
        /\ r.durations = r.repeat_count
        /\ r.iterations_validated > 0 => Cardinality(tally.slots) = r.iterations_validated
  BY <1>1, <1>5 DEF Reportable
<1>10. RecordTrue'
  BY <1>2, <1>3, <1>4, <1>6, <1>7, <1>8, <1>9 DEF RecordTrue
<1> QED
  BY <1>1, <1>3, <1>10 DEF EngineInv

LEMMA EngineNextStep == ASSUME EngineInv, EngineNext PROVE EngineInv'
<1>1. CASE ParseArguments \/ Load
  BY <1>1, StartSteps
<1>2. CASE WarmupBatch \/ TimedBatch \/ SingleBatch
  BY <1>2, BatchSteps
<1>3. CASE ResidentEnd \/ PipelineEnd
  BY <1>3, EndSteps
<1>4. CASE Chunk
  BY <1>4, ChunkStep
<1>5. CASE Report
  BY <1>5, ReportStep
<1> QED
  BY <1>1, <1>2, <1>3, <1>4, <1>5 DEF EngineNext

(* What the scripts do with the process: start it, end it, or leave it alone. *)
LEMMA ScriptSteps ==
  ASSUME EngineInv, (\E line : Exec(line)) \/ EngineGone \/ UNCHANGED engine_vars
  PROVE  EngineInv'
<1>1. CASE (\E line : Exec(line)) \/ EngineGone
  <2>1. /\ phase' \in {"parse", "exit"} /\ tally' = NothingDone /\ out_slot' = 0
        /\ record' = NoRecord /\ n_pairs' = n_pairs
    BY <1>1 DEF Exec, EngineGone
  <2>2. RecordTrue' /\ n_pairs' \in Nat
    BY <2>1 DEF RecordTrue, EngineInv
  <2> QED
    BY <2>1, <2>2 DEF EngineInv
<1>2. CASE UNCHANGED engine_vars
  <2>1. /\ n_pairs' = n_pairs /\ parse' = parse /\ phase' = phase /\ tally' = tally
        /\ out_slot' = out_slot /\ record' = record
    BY <1>2 DEF engine_vars
  <2>2. /\ cfg' = cfg /\ (RecordTrue' <=> RecordTrue) /\ (InSync' <=> InSync)
    BY <2>1 DEF cfg, RecordTrue, InSync
  <2>3. /\ (Batched' <=> Batched) /\ (Repeated' <=> Repeated) /\ (Chunked' <=> Chunked)
        /\ (Reportable' <=> Reportable)
    BY <2>1, <2>2 DEF Batched, Repeated, Chunked, Reportable, Covered, NChunks, BatchBytes, Collective
  <2> QED
    BY <2>1, <2>2, <2>3 DEF EngineInv
<1> QED
  BY <1>1, <1>2

(* What run_batch and the chunk loop have added up, for any configuration accepted. *)
THEOREM EngineInvariance == MeasureSpec => []EngineInv
<1>1. MeasureInit => EngineInv
  <2> SUFFICES ASSUME MeasureInit PROVE EngineInv
    OBVIOUS
  <2>1. n_pairs \in Nat
    <3>1. n_pairs \in PairCounts \/ n_pairs = NPairs \/ script = "matrix"
      BY DEF MeasureInit, Matrix
    <3> QED
      BY <3>1, ExperimentsAssumption, ArchMatrixAssumption DEF MeasureInit
  <2>2. phase = "exit" /\ record = NoRecord
    BY DEF MeasureInit, EngineInit
  <2> QED
    BY <2>1, <2>2 DEF EngineInv, RecordTrue
<1>2. EngineInv /\ [MeasureNext]_measure_vars => EngineInv'
  <2> SUFFICES ASSUME EngineInv, [MeasureNext]_measure_vars PROVE EngineInv'
    OBVIOUS
  <2>1. EngineNext \/ (\E line : Exec(line)) \/ EngineGone \/ UNCHANGED engine_vars
    <3>1. CASE MatrixStep
      <4>1. MatrixNext
        BY <3>1 DEF MatrixStep
      <4>2. CASE \E n \in Arms : StartArm(n)
        BY <4>2 DEF StartArm
      <4>3. CASE Raises \/ Returns
        BY <4>3 DEF Raises, Returns
      <4>4. CASE BeginBlock \/ AppendBlock \/ WriteBlock \/ EndOfPlan \/ WriteFinal
        BY <4>4 DEF BeginBlock, AppendBlock, WriteBlock, EndOfPlan, WriteFinal
      <4> QED
        BY <4>1, <4>2, <4>3, <4>4 DEF MatrixNext
    <3>2. CASE LaunchTrial
      BY <3>2 DEF LaunchTrial
    <3>3. CASE EngineStep
      BY <3>3 DEF EngineStep
    <3>4. CASE Ends \/ OtherEnds \/ WriteReport \/ KillScript
      BY <3>4 DEF Ends, OtherEnds, WriteReport, KillScript
    <3>5. CASE UNCHANGED measure_vars
      BY <3>5 DEF measure_vars
    <3> QED
      BY <3>1, <3>2, <3>3, <3>4, <3>5 DEF MeasureNext
  <2> QED
    BY <2>1, EngineNextStep, ScriptSteps
<1> QED
  BY <1>1, <1>2, PTL DEF MeasureSpec

(* For any command line, fixture and number of devices: a record of a process   *)
(* that was accepted states the batches it ran and the bytes they moved, and a  *)
(* payload other than f64 did cross a wire.                                     *)
THEOREM RecordsAreTrue == MeasureSpec => []RecordTrue
<1>1. EngineInv => RecordTrue
  BY DEF EngineInv
<1> QED
  BY <1>1, EngineInvariance, PTL

-----------------------------------------------------------------------------
(* A report is true of the trials of its session. *)

LEMMA Repetition ==
  ASSUME NEW n \in Nat, NEW t
  PROVE  Sequence(Times(n, t)) /\ Len(Times(n, t)) = n
<1>1. PICK q : q = [i \in 1 .. n |-> t]
  OBVIOUS
<1>2. q \in Seq({t}) /\ Len(q) = n /\ DOMAIN q = 1 .. n
  BY <1>1
<1>3. q \in Seq({q[i] : i \in DOMAIN q})
  BY <1>1, <1>2
<1> QED
  BY <1>1, <1>2, <1>3 DEF Sequence, Times

(* The plan of each script is a sequence. *)
LEMMA WarmUpSequence ==
  ASSUME NEW n \in Nat, NEW arms, DOMAIN arms = 1 .. n
  PROVE  Sequence(WarmUp(arms))
<1>1. PICK s : s = [i \in DOMAIN arms |-> Times(Warmups, PlanEntry(arms[i].arm, arms[i].line, TRUE))]
  OBVIOUS
<1>2. s = [i \in 1 .. n |-> s[i]]
  BY <1>1
<1>3. \A i \in DOMAIN s : Sequence(s[i])
  BY <1>1, Repetition, ExperimentsAssumption
<1>4. Sequence(s)
  BY <1>2, Listed
<1> QED
  BY <1>1, <1>3, <1>4, FlattenBlocks DEF WarmUp

LEMMA TimedSequence == ASSUME NEW arm PROVE Sequence(Timed(arm))
<1>1. PICK arms : arms = <<arm>>
  OBVIOUS
<1>2. Sequence(WarmUp(arms))
  <2>1. DOMAIN arms = 1 .. 1
    BY <1>1
  <2> QED
    BY <2>1, WarmUpSequence
<1>3. PICK t : t = Measured(arm)
  OBVIOUS
<1>4. Sequence(Times(Repeats, t))
  BY Repetition, ExperimentsAssumption
<1>5. Sequence(WarmUp(arms) \o Times(Repeats, t))
  BY <1>2, <1>4, Concatenated
<1> QED
  BY <1>1, <1>3, <1>5 DEF Timed

LEMMA ScreenSequence ==
  ASSUME NEW n \in Nat, NEW arms, DOMAIN arms = 1 .. n, NEW m \in Nat, NEW rounds, DOMAIN rounds = 1 .. m
  PROVE  Sequence(ScreenPlan(arms, rounds))
<1>1. PICK s : s = [r \in DOMAIN rounds |-> [k \in DOMAIN arms |-> Measured(arms[rounds[r][k]])]]
  OBVIOUS
<1>2. s = [r \in 1 .. m |-> s[r]] /\ \A r \in DOMAIN s : s[r] = [k \in 1 .. n |-> s[r][k]]
  BY <1>1
<1>3. Sequence(s) /\ \A r \in DOMAIN s : Sequence(s[r])
  BY <1>2, Listed
<1>4. Sequence(FlattenSeq(s))
  BY <1>3, FlattenBlocks
<1>5. Sequence(WarmUp(arms))
  BY WarmUpSequence
<1>6. Sequence(WarmUp(arms) \o FlattenSeq(s))
  BY <1>4, <1>5, Concatenated
<1> QED
  BY <1>1, <1>6 DEF ScreenPlan

(* The blocks of two begin behind the warm-ups. *)
LEMMA CrossedSequence ==
  ASSUME NEW b, NEW c, NEW o \in Crossovers, NEW p, p = Crossed(b, c, o)
  PROVE  /\ Sequence(p) /\ Len(p) = 2 * Warmups + 2 * NBlocksPaired
         /\ \A k \in 1 .. NBlocksPaired :
              /\ p[2 * Warmups + 2 * k - 1] = IF o[k] = "bc" THEN Measured(b) ELSE Measured(c)
              /\ p[2 * Warmups + 2 * k] = IF o[k] = "bc" THEN Measured(c) ELSE Measured(b)
<1>1. PICK w \in Nat, n \in Nat : w = Warmups /\ n = NBlocksPaired
  BY ExperimentsAssumption
<1>2. DOMAIN o = 1 .. n
  BY <1>1 DEF Crossovers
<1>3. PICK s : s = [k \in DOMAIN o |-> IF o[k] = "bc" THEN <<Measured(b), Measured(c)>>
                                                     ELSE <<Measured(c), Measured(b)>>]
  OBVIOUS
<1>4. PICK u : u = WarmUp(<<b, c>>)
  OBVIOUS
<1>5. p = u \o FlattenSeq(s)
  BY <1>3, <1>4 DEF Crossed
<1>6. Sequence(u) /\ Len(u) = 2 * w
  <2>1. PICK x1, y1 : /\ x1 = Times(w, PlanEntry(b.arm, b.line, TRUE))
                    /\ y1 = Times(w, PlanEntry(c.arm, c.line, TRUE))
    OBVIOUS
  <2>2. Sequence(x1) /\ Len(x1) = w /\ Sequence(y1) /\ Len(y1) = w
    BY <2>1, Repetition
  <2>3. PICK arms : arms = <<b, c>>
    OBVIOUS
  <2>4. [i \in DOMAIN arms |-> Times(w, PlanEntry(arms[i].arm, arms[i].line, TRUE))] = <<x1, y1>>
    <3>1. DOMAIN arms = 1 .. 2 /\ arms[1] = b /\ arms[2] = c
      BY <2>3
    <3>2. /\ Times(w, PlanEntry(arms[1].arm, arms[1].line, TRUE)) = <<x1, y1>>[1]
          /\ Times(w, PlanEntry(arms[2].arm, arms[2].line, TRUE)) = <<x1, y1>>[2]
      BY <2>1, <3>1
    <3>3. ASSUME NEW i \in 1 .. 2
          PROVE  Times(w, PlanEntry(arms[i].arm, arms[i].line, TRUE)) = <<x1, y1>>[i]
      <4>1. i = 1 \/ i = 2
        OBVIOUS
      <4> QED
        BY <3>2, <4>1
    <3>4. <<x1, y1>> = [i \in 1 .. 2 |-> <<x1, y1>>[i]]
      OBVIOUS
    <3> QED
      BY <3>1, <3>3, <3>4
  <2>5. u = FlattenSeq(<<x1, y1>>)
    BY <1>1, <1>4, <2>3, <2>4 DEF WarmUp
  <2>6. Sequence(FlattenSeq(<<x1, y1>>)) /\ Len(FlattenSeq(<<x1, y1>>)) = Len(x1) + Len(y1)
    BY <2>2, PairJoined
  <2> QED
    BY <2>2, <2>5, <2>6
<1>7. s = [k \in 1 .. n |-> s[k]]
  BY <1>2, <1>3
<1>8. Sequence(s) /\ Len(s) = n
  BY <1>7, Listed
<1>9. \A k \in DOMAIN s : Sequence(s[k]) /\ Len(s[k]) = 2
  <2>1. ASSUME NEW k \in DOMAIN s PROVE Sequence(s[k]) /\ Len(s[k]) = 2
    <3>1. \E x1, y1 : s[k] = <<x1, y1>>
      BY <1>3
    <3>2. PICK x1, y1 : s[k] = <<x1, y1>>
      BY <3>1
    <3>3. PICK q : q = <<x1, y1>>
      OBVIOUS
    <3>4. q = [i \in 1 .. 2 |-> q[i]]
      BY <3>3
    <3> QED
      BY <3>2, <3>3, <3>4, Listed
  <2> QED
    BY <2>1
<1>10. PICK v : v = FlattenSeq(s)
  OBVIOUS
<1>11. /\ Sequence(v) /\ Len(v) = 2 * n
       /\ \A k \in 1 .. n : v[2 * k - 1] = s[k][1] /\ v[2 * k] = s[k][2]
  <2>1. DOMAIN s = 1 .. n
    BY <1>2, <1>3
  <2>2. /\ Sequence(v) /\ Len(v) = 2 * Len(s)
        /\ \A i \in DOMAIN s : v[2 * i - 1] = s[i][1] /\ v[2 * i] = s[i][2]
    BY <1>8, <1>9, <1>10, FlattenBlocks
  <2> QED
    BY <1>8, <2>1, <2>2
<1>12. /\ Sequence(p) /\ Len(p) = Len(u) + Len(v)
       /\ \A i \in 1 .. Len(v) : p[Len(u) + i] = v[i]
  <2>1. Sequence(u) /\ Sequence(v) /\ p = u \o v
    BY <1>5, <1>6, <1>10, <1>11
  <2> QED
    BY <2>1, Concatenated
<1>13. ASSUME NEW k \in 1 .. n
       PROVE  /\ p[2 * w + 2 * k - 1] = IF o[k] = "bc" THEN Measured(b) ELSE Measured(c)
              /\ p[2 * w + 2 * k] = IF o[k] = "bc" THEN Measured(c) ELSE Measured(b)
  <2>1. /\ 2 * k - 1 \in 1 .. Len(v) /\ 2 * k \in 1 .. Len(v)
        /\ 2 * w + 2 * k - 1 = Len(u) + (2 * k - 1) /\ 2 * w + 2 * k = Len(u) + 2 * k
    BY <1>6, <1>11
  <2>2. p[2 * w + 2 * k - 1] = s[k][1] /\ p[2 * w + 2 * k] = s[k][2]
    BY <1>5, <1>10, <1>11, <1>12, <2>1
  <2> QED
    BY <1>2, <1>3, <2>2
<1> QED
  BY <1>1, <1>5, <1>6, <1>10, <1>11, <1>12, <1>13

LEMMA TimedTwice ==
  ASSUME NEW a, NEW b
  PROVE  Sequence(Timed(a) \o Timed(b))
BY TimedSequence, Concatenated

LEMMA SweepSequence == Sequence(SweepPlan)
<1>1. ASSUME NEW pay
      PROVE  Sequence(FlattenSeq([i \in DOMAIN Chunks |-> Timed(Configured("async", pay, <<"chunk", Chunks[i]>>))]))
  <2>1. PICK s : s = [i \in DOMAIN Chunks |-> Timed(Configured("async", pay, <<"chunk", Chunks[i]>>))]
    OBVIOUS
  <2>2. PICK n \in Nat : DOMAIN Chunks = 1 .. n
    BY ExperimentsAssumption
  <2>3. Sequence(s)
    <3>1. s = [i \in 1 .. n |-> s[i]]
      BY <2>1, <2>2
    <3> QED
      BY <3>1, Listed
  <2>4. \A i \in DOMAIN s : Sequence(s[i])
    BY <2>1, TimedSequence
  <2> QED
    BY <2>1, <2>3, <2>4, FlattenBlocks
<1> DEFINE A(pay) == Timed(Configured("sync", pay, <<>>))
                     \o FlattenSeq([i \in DOMAIN Chunks |-> Timed(Configured("async", pay, <<"chunk", Chunks[i]>>))])
           B(pay) == Timed(Configured("async", pay, <<"finalize_stream", "comm">>))
                     \o Timed(Configured("async", pay, <<"finalize_stream", "separate">>))
           C      == Timed(Binary("serial")) \o Timed(Binary("cuda_1gpu"))
                     \o Timed(Configured("sync", "packed", <<>>))
<1>2. \A pay : Sequence(A(pay))
  BY <1>1, TimedSequence, Concatenated
<1>3. \A pay : Sequence(B(pay))
  BY TimedTwice
<1>4. Sequence(C)
  BY TimedTwice, TimedSequence, Concatenated
<1>5. SweepPlan = A("f64") \o A("packed") \o B("f64") \o B("packed") \o C
  BY DEF SweepPlan
<1> HIDE DEF A, B, C
<1>6. Sequence(A("f64") \o A("packed"))
  BY <1>2, Concatenated
<1>7. Sequence(A("f64") \o A("packed") \o B("f64"))
  BY <1>3, <1>6, Concatenated
<1>8. Sequence(A("f64") \o A("packed") \o B("f64") \o B("packed"))
  BY <1>3, <1>7, Concatenated
<1> QED
  BY <1>4, <1>5, <1>8, Concatenated

LEMMA P2pSequence == Sequence(P2pPlan)
<1>1. ASSUME NEW arms PROVE Sequence(FlattenSeq([i \in 1 .. 2 |-> Timed(arms[i])]))
  <2>1. PICK s : s = [i \in 1 .. 2 |-> Timed(arms[i])]
    OBVIOUS
  <2>2. s = [i \in 1 .. 2 |-> s[i]]
    BY <2>1
  <2>3. Sequence(s)
    BY <2>2, Listed
  <2>4. \A i \in DOMAIN s : Sequence(s[i])
    BY <2>1, TimedSequence
  <2> QED
    BY <2>1, <2>3, <2>4, FlattenBlocks
<1>2. ASSUME NEW mode, NEW word
      PROVE  Sequence(FlattenSeq([i \in 1 .. 2 |-> Timed(Labelled(Configured(mode, SweptPayloads[i], <<>>), word))]))
  <2>1. PICK arms : arms = [i \in 1 .. 2 |-> Labelled(Configured(mode, SweptPayloads[i], <<>>), word)]
    OBVIOUS
  <2>2. [i \in 1 .. 2 |-> Timed(Labelled(Configured(mode, SweptPayloads[i], <<>>), word))] = [i \in 1 .. 2 |-> Timed(arms[i])]
    BY <2>1
  <2> QED
    BY <1>1, <2>2
<1> DEFINE Side(p2p) ==
        FlattenSeq([i \in 1 .. 2 |-> Timed(Labelled(Configured("sync", SweptPayloads[i], <<>>), p2p))])
        \o FlattenSeq([i \in 1 .. 2 |-> Timed(Labelled(Configured("async", SweptPayloads[i], <<>>), p2p))])
<1>3. \A p2p : Sequence(Side(p2p))
  BY <1>2, Concatenated
<1>4. P2pPlan = Side("p2pon") \o Side("p2poff")
  BY DEF P2pPlan
<1> HIDE DEF Side
<1> QED
  BY <1>3, <1>4, Concatenated

(* The pairs of trials a crossover is made of. *)
TwoColumns(o, p) ==
  /\ o \in Crossovers
  /\ \E b, c : /\ b # c
               /\ \A k \in 1 .. NBlocksPaired :
                    /\ p[2 * Warmups + 2 * k - 1].arm = IF o[k] = "bc" THEN b ELSE c
                    /\ p[2 * Warmups + 2 * k].arm = IF o[k] = "bc" THEN c ELSE b

LEMMA CrossedColumns ==
  ASSUME NEW b, NEW c, b.arm # c.arm, NEW o \in Crossovers
  PROVE  Sequence(Crossed(b, c, o)) /\ TwoColumns(o, Crossed(b, c, o))
<1>1. PICK p : p = Crossed(b, c, o)
  OBVIOUS
<1>2. Sequence(p) /\ \A k \in 1 .. NBlocksPaired :
         /\ p[2 * Warmups + 2 * k - 1] = IF o[k] = "bc" THEN Measured(b) ELSE Measured(c)
         /\ p[2 * Warmups + 2 * k] = IF o[k] = "bc" THEN Measured(c) ELSE Measured(b)
  BY <1>1, CrossedSequence
<1>3. Measured(b).arm = b.arm /\ Measured(c).arm = c.arm
  BY DEF Measured, PlanEntry
<1>4. \A k \in 1 .. NBlocksPaired :
         /\ p[2 * Warmups + 2 * k - 1].arm = IF o[k] = "bc" THEN b.arm ELSE c.arm
         /\ p[2 * Warmups + 2 * k].arm = IF o[k] = "bc" THEN c.arm ELSE b.arm
  BY <1>2, <1>3
<1> QED
  BY <1>1, <1>2, <1>4 DEF TwoColumns

LEMMA ReproColumns ==
  ASSUME NEW o \in Crossovers
  PROVE  Sequence(ReproPlan(o)) /\ TwoColumns(o, ReproPlan(o))
<1>1. PICK b, c : b = Configured("sync", "f64", <<>>) /\ c = Configured("sync", "packed", <<>>)
  OBVIOUS
<1>2. b.arm # c.arm
  <2>1. b.arm = <<"sync", "f64">> \o <<>> /\ c.arm = <<"sync", "packed">> \o <<>>
    BY <1>1 DEF Configured
  <2>2. (<<"sync", "f64">> \o <<>>)[2] = "f64" /\ (<<"sync", "packed">> \o <<>>)[2] = "packed"
    OBVIOUS
  <2> QED
    BY <2>1, <2>2
<1>3. PICK w \in Nat, n \in Nat : w = Warmups /\ n = NBlocksPaired
  BY ExperimentsAssumption
<1>4. PICK p, q, t : p = Crossed(b, c, o) /\ t = Measured(Configured("async", "packed", <<>>)) /\ q = Times(Repeats, t)
  OBVIOUS
<1>5. Sequence(p) /\ Len(p) = 2 * w + 2 * n /\ TwoColumns(o, p)
  BY <1>2, <1>3, <1>4, CrossedSequence, CrossedColumns
<1>6. Sequence(q)
  BY <1>4, Repetition, ExperimentsAssumption
<1>7. PICK r : r = p \o q
  OBVIOUS
<1>8. Sequence(r) /\ \A i \in 1 .. Len(p) : r[i] = p[i]
  BY <1>5, <1>6, <1>7, Concatenated
<1>9. \A k \in 1 .. n : r[2 * w + 2 * k - 1] = p[2 * w + 2 * k - 1] /\ r[2 * w + 2 * k] = p[2 * w + 2 * k]
  <2> SUFFICES ASSUME NEW k \in 1 .. n
               PROVE  r[2 * w + 2 * k - 1] = p[2 * w + 2 * k - 1] /\ r[2 * w + 2 * k] = p[2 * w + 2 * k]
    OBVIOUS
  <2>1. 2 * w + 2 * k - 1 \in 1 .. Len(p) /\ 2 * w + 2 * k \in 1 .. Len(p)
    BY <1>5
  <2> QED
    BY <1>8, <2>1
<1>10. TwoColumns(o, r)
  <2>1. PICK x1, y1 : /\ x1 # y1
                    /\ \A k \in 1 .. n : /\ p[2 * w + 2 * k - 1].arm = IF o[k] = "bc" THEN x1 ELSE y1
                                         /\ p[2 * w + 2 * k].arm = IF o[k] = "bc" THEN y1 ELSE x1
    BY <1>3, <1>5 DEF TwoColumns
  <2>2. \A k \in 1 .. n : /\ r[2 * w + 2 * k - 1].arm = IF o[k] = "bc" THEN x1 ELSE y1
                          /\ r[2 * w + 2 * k].arm = IF o[k] = "bc" THEN y1 ELSE x1
    BY <1>9, <2>1
  <2> QED
    BY <1>3, <2>1, <2>2 DEF TwoColumns
<1>11. ReproPlan(o) = r
  BY <1>1, <1>4, <1>7 DEF ReproPlan
<1> QED
  BY <1>8, <1>10, <1>11

LEMMA ParsingArms ==
  ASSUME NEW specs
  PROVE  DOMAIN Parsing(specs) = DOMAIN specs /\ \A i \in DOMAIN specs : Parsing(specs)[i].arm = specs[i]
BY DEF Parsing

(* What is drawn and planned when a script starts. *)
LEMMA Planned ==
  ASSUME MeasureInit
  PROVE  Sequence(plan) /\ (script \in {"paired", "repro"} => TwoColumns(order, plan))
<1>1. CASE Matrix
  <2>1. plan = <<>> /\ script = "matrix"
    BY <1>1 DEF Matrix
  <2> QED
    BY <2>1 DEF Sequence
<1>2. CASE Person
  <2>1. PICK t : plan = <<t>>
    BY <1>2 DEF Person
  <2>2. script = "person"
    BY <1>2 DEF Person
  <2>3. <<t>> \in Seq({<<t>>[i] : i \in DOMAIN <<t>>}) /\ Len(<<t>>) = 1
    OBVIOUS
  <2> QED
    BY <2>1, <2>2, <2>3 DEF Sequence
<1>3. CASE Screen
  <2>1. PICK S \in {T \in SUBSET Parsable : Cardinality(T) = ArmCount},
             rounds \in [1 .. Repeats -> SetToSeqs(1 .. ArmCount)] :
          plan = ScreenPlan(Parsing(SetToSeq(S)), rounds)
    BY <1>3 DEF Screen
  <2>2. IsFiniteSet(S) /\ Cardinality(S) \in Nat
    <3>1. S \subseteq ArmSpecs
      BY <2>1 DEF Parsable
    <3> QED
      BY <3>1, ExperimentsAssumption, FS_Subset, FS_CardinalityType
  <2>3. PICK arms : arms = Parsing(SetToSeq(S))
    OBVIOUS
  <2>4. DOMAIN arms = 1 .. Cardinality(S)
    <3>1. PICK n \in Nat : ExistsBijection(1 .. n, S)
      BY <2>2, FS_NatBijection
    <3>2. n = Cardinality(S)
      BY <3>1, FS_CountingElements
    <3>3. PICK g : g \in Bijection(1 .. n, S)
      BY <3>1 DEF ExistsBijection
    <3>4. g \in [1 .. n -> S] /\ IsInjective(g)
      BY <3>3 DEF Bijection, Injection, IsInjective
    <3>5. SetToSeq(S) \in [1 .. n -> S]
      BY <3>2, <3>4 DEF SetToSeq
    <3> QED
      BY <2>3, <3>2, <3>5, ParsingArms
  <2>5. DOMAIN rounds = 1 .. Repeats /\ Repeats \in Nat
    BY <2>1, ExperimentsAssumption
  <2>6. script = "screen"
    BY <1>3 DEF Screen
  <2> QED
    BY <2>1, <2>2, <2>3, <2>4, <2>5, <2>6, ScreenSequence
<1>4. CASE Paired
  <2>1. PICK b, c : b # c /\ plan = LET arms == Parsing(<<b, c>>) IN Crossed(arms[1], arms[2], order)
    BY <1>4 DEF Paired
  <2>2. PICK arms : arms = Parsing(<<b, c>>)
    OBVIOUS
  <2>3. arms[1].arm = b /\ arms[2].arm = c
    <3>1. DOMAIN <<b, c>> = 1 .. 2 /\ <<b, c>>[1] = b /\ <<b, c>>[2] = c
      OBVIOUS
    <3>2. 1 \in 1 .. 2 /\ 2 \in 1 .. 2
      OBVIOUS
    <3> QED
      BY <2>2, <3>1, <3>2, ParsingArms
  <2>4. PICK x1, y1, o : x1 = arms[1] /\ y1 = arms[2] /\ o = order
    OBVIOUS
  <2>5. o \in Crossovers /\ x1.arm # y1.arm /\ plan = Crossed(x1, y1, o)
    BY <1>4, <2>1, <2>2, <2>3, <2>4 DEF Paired
  <2> QED
    BY <2>4, <2>5, CrossedColumns
<1>5. CASE Repro
  BY <1>5, ReproColumns DEF Repro
<1>6. CASE Fixed
  BY <1>6, SweepSequence, P2pSequence DEF Fixed
<1> QED
  BY <1>1, <1>2, <1>3, <1>4, <1>5, <1>6 DEF MeasureInit

(* The inductive invariant of a session: what was planned, what has been   *)
(* kept of it, and what is written once all of it is there.                *)
AllRight == \A i \in DOMAIN ran : ~Wrong(ran[i])

(* A process that ends well has found nothing wrong. *)
Agrees(st, rec) == rec # NoRecord /\ st = 0 => ~Wrong(rec)

ReportMade ==
  /\ runner = "done" /\ Scripted /\ Len(ran) = Len(plan)
  /\ result_file = [kind |-> script, order |-> order,
                filed |-> [arm \in Labels |-> KeptTrials(arm)],
                rows |-> IF script \in {"paired", "repro"} THEN BlockRows ELSE <<>>,
                tol_failures |-> [arm \in Labels |-> Failures(arm)]]

TrialsInv ==
  /\ Sequence(plan) /\ Sequence(ran)
  /\ script \in {"paired", "repro"} => TwoColumns(order, plan)
  /\ Agrees(status, record)
  /\ Scripted /\ script # "p2p" => AllRight
  /\ result_file # NoReport => ReportMade

LEMMA TrialsStart == MeasureInit => TrialsInv
<1> SUFFICES ASSUME MeasureInit PROVE TrialsInv
  OBVIOUS
<1>1. record = NoRecord /\ ran = <<>> /\ result_file = NoReport
  BY DEF MeasureInit, EngineInit
<1>2. Sequence(ran) /\ DOMAIN ran = {}
  BY <1>1 DEF Sequence
<1> QED
  BY <1>1, <1>2, Planned DEF TrialsInv, AllRight, Agrees

(* The report stays what it is. *)
LEMMA SameReport ==
  ASSUME TrialsInv, UNCHANGED session_vars, UNCHANGED runner \/ runner # "done",
         Agrees(status', record')
  PROVE  TrialsInv'
<1>1. script' = script /\ plan' = plan /\ order' = order /\ ran' = ran /\ result_file' = result_file
  BY DEF session_vars
<1>2. AllRight' <=> AllRight
  BY <1>1 DEF AllRight, Wrong
<1>3. result_file # NoReport => runner' = runner
  BY DEF TrialsInv, ReportMade
<1>4. runner' = runner => (ReportMade' <=> ReportMade)
  BY <1>1 DEF ReportMade, Scripted, Labels, KeptTrials, BlockRows, Failures, Wrong
<1> QED
  BY <1>1, <1>2, <1>3, <1>4 DEF TrialsInv, Scripted

(* The engine's status and its record do not contradict each other. *)
LEMMA StatusOfRecord ==
  ASSUME TrialsInv, EngineInv, EngineNext \/ (\E line : Exec(line)) \/ EngineGone \/ UNCHANGED engine_vars
  PROVE  Agrees(status', record')
<1>1. CASE Report
  <2>1. PICK outcome, r : /\ record' = r /\ r = RecordMade(outcome)
                         /\ status' = IF outcome = "right" THEN 0 ELSE 1
    BY <1>1 DEF Report
  <2>2. ASSUME outcome = "right" PROVE ~Wrong(r)
    <3>1. r.validation_ran = cfg.validate /\ (r.validation_passed <=> cfg.validate)
      BY <2>1, <2>2, Zenon DEF RecordMade
    <3>2. r.iterations_passed = r.iterations_validated
      BY <2>1, <2>2, Zenon DEF RecordMade
    <3> QED
      BY <3>1, <3>2, Zenon DEF Wrong
  <2> QED
    BY <2>1, <2>2 DEF Agrees
<1>2. CASE ParseArguments \/ Load
  <2>1. record' = record /\ record = NoRecord
    BY <1>2 DEF ParseArguments, Load, Refuse, EngineInv
  <2> QED
    BY <2>1 DEF Agrees
<1>3. CASE WarmupBatch \/ TimedBatch \/ SingleBatch \/ ResidentEnd \/ Chunk \/ PipelineEnd \/ UNCHANGED engine_vars
  <2>1. record' = record /\ status' = status
    BY <1>3 DEF WarmupBatch, TimedBatch, SingleBatch, ResidentEnd, Chunk, PipelineEnd, engine_vars
  <2> QED
    BY <2>1 DEF TrialsInv
<1>4. CASE (\E line : Exec(line)) \/ EngineGone
  BY <1>4 DEF Exec, EngineGone, Agrees
<1> QED
  BY <1>1, <1>2, <1>3, <1>4 DEF EngineNext

(* One more record; of a script that looks at the status, of a right outcome. *)
LEMMA TakesOne ==
  ASSUME TrialsInv, NEW st, NEW rec, TakeRecord(st, rec), EngineGone \/ UNCHANGED engine_vars,
         runner # "done", Agrees(st, rec), EngineInv
  PROVE  TrialsInv'
<1>1. script' = script /\ plan' = plan /\ order' = order /\ result_file' = result_file
  BY DEF TakeRecord
<1>2. Agrees(status', record')
  BY StatusOfRecord
<1>3. result_file = NoReport
  BY DEF TrialsInv, ReportMade
<1>4. CASE ran' = ran
  <2>1. AllRight' <=> AllRight
    BY <1>4 DEF AllRight, Wrong
  <2> QED
    BY <1>1, <1>2, <1>3, <1>4, <2>1 DEF TrialsInv, Scripted
<1>5. CASE ran' = Append(ran, rec) /\ (Scripted => Keeps(st, rec))
  <2>1. PICK q, r : q = ran /\ r = Append(ran, rec)
    OBVIOUS
  <2>2. /\ Sequence(r) /\ DOMAIN q = 1 .. Len(q) /\ DOMAIN r = 1 .. Len(q) + 1 /\ Len(q) \in Nat
        /\ \A i \in 1 .. Len(q) : r[i] = q[i]
        /\ r[Len(q) + 1] = rec
    <3>1. Sequence(q) /\ r = Append(q, rec)
      BY <2>1 DEF TrialsInv
    <3>2. Len(q) \in Nat
      BY <3>1 DEF Sequence
    <3> QED
      BY <3>1, <3>2, Appended
  <2>3. ran' = r
    BY <1>5, <2>1
  <2>4. ASSUME Scripted, script # "p2p" PROVE \A i \in DOMAIN r : ~Wrong(r[i])
    <3>1. ~Wrong(rec)
      BY <1>5, <2>4 DEF Keeps, Agrees
    <3>2. \A i \in DOMAIN q : ~Wrong(q[i])
      BY <2>1, <2>4 DEF TrialsInv, AllRight
    <3>3. \A i \in 1 .. Len(q) + 1 : i \in 1 .. Len(q) \/ i = Len(q) + 1
      BY <2>2
    <3> QED
      BY <2>2, <3>1, <3>2, <3>3
  <2>5. Scripted /\ script # "p2p" => AllRight'
    BY <2>3, <2>4 DEF AllRight, Wrong
  <2>6. Sequence(ran)'
    BY <2>2, <2>3
  <2> QED
    BY <1>1, <1>2, <1>3, <2>5, <2>6 DEF TrialsInv, Scripted
<1> QED
  BY <1>4, <1>5 DEF TakeRecord

LEMMA RecordAgrees ==
  ASSUME NEW line, NEW outcome, NEW st, NEW rec, st = (IF outcome = "right" THEN 0 ELSE 1), rec = RecordOf(line, outcome)
  PROVE  Agrees(st, rec)
<1>1. SUFFICES ASSUME outcome = "right" PROVE ~Wrong(rec)
  BY DEF Agrees
<1>2. CASE OnCuda(line)
  <2>1. PICK c : rec = CudaRecord(c, outcome)
    BY <1>2 DEF RecordOf
  <2>2. PICK yes, passed : yes = c.validate /\ passed = (c.validate /\ outcome = "right")
    OBVIOUS
  <2>3. rec.kind # "resident" /\ rec.validation_ran = yes /\ rec.validation_passed = passed
    BY <2>1, <2>2 DEF CudaRecord
  <2> QED
    BY <1>1, <2>2, <2>3 DEF Wrong
<1>3. CASE ~OnCuda(line)
  <2>1. rec.kind = "other" /\ rec.validation_ran = TRUE /\ rec.validation_passed = TRUE
    BY <1>1, <1>3 DEF RecordOf, OtherRecord
  <2> QED
    BY <2>1 DEF Wrong
<1> QED
  BY <1>2, <1>3

LEMMA TrialsNext == TrialsInv /\ EngineInv /\ [MeasureNext]_measure_vars => TrialsInv'
<1> SUFFICES ASSUME TrialsInv, EngineInv, [MeasureNext]_measure_vars PROVE TrialsInv'
  OBVIOUS
<1>1. CASE MatrixStep
  <2>1. MatrixNext /\ UNCHANGED session_vars
    BY <1>1 DEF MatrixStep
  <2>2. CASE \E n \in Arms : StartArm(n)
    <3>1. runner # "done" /\ \E line : Exec(line)
      BY <2>2 DEF StartArm
    <3> QED
      BY <2>1, <3>1, StatusOfRecord, SameReport
  <2>3. CASE Raises \/ Returns
    <3>1. runner # "done" /\ EngineGone
      BY <2>3 DEF Raises, Returns
    <3> QED
      BY <2>1, <3>1, StatusOfRecord, SameReport
  <2>4. CASE BeginBlock \/ AppendBlock \/ WriteBlock \/ EndOfPlan \/ WriteFinal
    <3>1. runner # "done" /\ UNCHANGED engine_vars
      BY <2>4 DEF BeginBlock, AppendBlock, WriteBlock, EndOfPlan, WriteFinal
    <3> QED
      BY <2>1, <3>1, StatusOfRecord, SameReport
  <2> QED
    BY <2>1, <2>2, <2>3, <2>4 DEF MatrixNext
<1>2. CASE LaunchTrial
  <2>1. runner # "done" /\ UNCHANGED session_vars /\ ((\E line : Exec(line)) \/ UNCHANGED engine_vars)
    BY <1>2 DEF LaunchTrial
  <2> QED
    BY <2>1, StatusOfRecord, SameReport
<1>3. CASE EngineStep
  <2>1. runner # "done" /\ UNCHANGED session_vars /\ EngineNext
    BY <1>3 DEF EngineStep
  <2> QED
    BY <2>1, StatusOfRecord, SameReport
<1>4. CASE Ends
  <2>1. PICK st, rec : st = status /\ rec = record
    OBVIOUS
  <2>2. runner # "done" /\ TakeRecord(st, rec) /\ EngineGone /\ Agrees(st, rec)
    BY <1>4, <2>1 DEF Ends, TrialsInv
  <2> QED
    BY <2>2, TakesOne
<1>5. CASE OtherEnds
  <2>1. runner # "done" /\ UNCHANGED engine_vars
    BY <1>5 DEF OtherEnds
  <2>2. CASE TakeRecord(2, NoRecord)
    <3>1. PICK st, rec : st = 2 /\ rec = NoRecord
      OBVIOUS
    <3>2. TakeRecord(st, rec) /\ Agrees(st, rec)
      BY <2>2, <3>1 DEF Agrees
    <3> QED
      BY <2>1, <3>2, TakesOne
  <2>3. CASE \E line, outcome : TakeRecord(IF outcome = "right" THEN 0 ELSE 1, RecordOf(line, outcome))
    <3>1. PICK line, outcome, st, rec : /\ st = (IF outcome = "right" THEN 0 ELSE 1) /\ rec = RecordOf(line, outcome)
                                       /\ TakeRecord(st, rec)
      BY <2>3
    <3>2. Agrees(st, rec)
      BY <3>1, RecordAgrees
    <3> QED
      BY <2>1, <3>1, <3>2, TakesOne
  <2> QED
    BY <1>5, <2>2, <2>3 DEF OtherEnds
<1>6. CASE WriteReport
  <2>1. /\ script' = script /\ plan' = plan /\ order' = order /\ ran' = ran /\ runner' = "done"
        /\ Len(ran) = Len(plan) /\ Scripted /\ UNCHANGED engine_vars
        /\ result_file' = [kind |-> script, order |-> order,
                filed |-> [arm \in Labels |-> KeptTrials(arm)],
                rows |-> IF script \in {"paired", "repro"} THEN BlockRows ELSE <<>>,
                tol_failures |-> [arm \in Labels |-> Failures(arm)]]
    BY <1>6 DEF WriteReport
  <2>2. AllRight' <=> AllRight
    BY <2>1 DEF AllRight, Wrong
  <2>3. ReportMade'
    BY <2>1 DEF ReportMade, Scripted, Labels, KeptTrials, BlockRows, Failures, Wrong
  <2>4. Agrees(status', record')
    BY <2>1, StatusOfRecord
  <2> QED
    BY <2>1, <2>2, <2>3, <2>4 DEF TrialsInv, Scripted
<1>7. CASE KillScript
  <2>1. runner # "done" /\ UNCHANGED session_vars /\ UNCHANGED engine_vars
    BY <1>7 DEF KillScript
  <2> QED
    BY <2>1, StatusOfRecord, SameReport
<1>8. CASE UNCHANGED measure_vars
  <2>1. UNCHANGED runner /\ UNCHANGED session_vars /\ UNCHANGED engine_vars
    BY <1>8 DEF measure_vars
  <2> QED
    BY <2>1, StatusOfRecord, SameReport
<1> QED
  BY <1>1, <1>2, <1>3, <1>4, <1>5, <1>6, <1>7, <1>8 DEF MeasureNext

(* A session keeps what it planned, and only what it looked at. *)
THEOREM TrialsInvariance == MeasureSpec => []TrialsInv
BY TrialsStart, TrialsNext, EngineInvariance, PTL DEF MeasureSpec

(* A crossover has as many blocks in one order as in the other, or one more. *)
LEMMA CrossoverHalves ==
  ASSUME NEW o \in Crossovers
  PROVE  Cardinality({k \in DOMAIN o : o[k] = "cb"}) - Cardinality({k \in DOMAIN o : o[k] = "bc"}) \in {0, 1}
<1>1. PICK n \in Nat : n = NBlocksPaired
  BY ExperimentsAssumption
<1>2. PICK X, Y, D : /\ D = DOMAIN o /\ X = {k \in DOMAIN o : o[k] = "cb"} /\ Y = {k \in DOMAIN o : o[k] = "bc"}
  OBVIOUS
<1>3. D = 1 .. n /\ \A k \in D : o[k] = "bc" \/ o[k] = "cb"
  BY <1>1, <1>2 DEF Crossovers
<1>4. X \cup Y = D /\ X \cap Y = {}
  BY <1>2, <1>3
<1>5. IsFiniteSet(D) /\ Cardinality(D) = n
  BY <1>3, FS_Interval
<1>6. IsFiniteSet(X) /\ IsFiniteSet(Y)
  BY <1>4, <1>5, FS_Subset
<1>7. PICK x1 \in Nat, y1 \in Nat : x1 = Cardinality(X) /\ y1 = Cardinality(Y)
  BY <1>6, FS_CardinalityType
<1>8. Cardinality(X \cup Y) = x1 + y1
  <2>1. Cardinality(X \cap Y) = 0
    BY <1>4, FS_EmptySet
  <2>2. Cardinality(X \cup Y) = Cardinality(X) + Cardinality(Y) - Cardinality(X \cap Y)
    BY <1>6, FS_Union
  <2> QED
    BY <1>7, <2>1, <2>2
<1>9. x1 + y1 = n
  BY <1>4, <1>5, <1>8
<1>10. y1 = n \div 2
  BY <1>1, <1>2, <1>7 DEF Crossovers
<1>11. x1 - y1 \in {0, 1}
  BY <1>9, <1>10
<1> QED
  BY <1>2, <1>7, <1>11

(* Whatever the arms, the numbers of rounds and blocks and the order drawn. *)
THEOREM ReportsAreTrue == MeasureSpec => []ReportTrue
<1>1. TrialsInv => ReportTrue
  <2> SUFFICES ASSUME TrialsInv, result_file # NoReport PROVE ReportTrue
    BY DEF ReportTrue
  <2>1. PICK x1 : x1 = result_file
    OBVIOUS
  <2>2. /\ x1.order = order /\ x1.filed = [arm \in Labels |-> KeptTrials(arm)]
        /\ x1.rows = IF script \in {"paired", "repro"} THEN BlockRows ELSE <<>>
        /\ x1.tol_failures = [arm \in Labels |-> Failures(arm)]
        /\ Len(ran) = Len(plan) /\ Scripted
    BY <2>1 DEF TrialsInv, ReportMade
  <2>3. DOMAIN ran = DOMAIN plan /\ IsFiniteSet(DOMAIN plan)
    <3>1. PICK n \in Nat : n = Len(plan) /\ DOMAIN plan = 1 .. n /\ DOMAIN ran = 1 .. n
      BY <2>2 DEF TrialsInv, Sequence
    <3> QED
      BY <3>1, FS_Interval
  <2>4. ASSUME NEW arm \in Labels
        PROVE  /\ x1.filed[arm] \subseteq DOMAIN ran
               /\ Cardinality({i \in x1.filed[arm] : ran[i].tol_failures > 0}) <= x1.tol_failures[arm]
               /\ script # "p2p" => \A i \in x1.filed[arm] : ~Wrong(ran[i])
    <3>1. PICK X, Y : /\ X = {i \in KeptTrials(arm) : ran[i].tol_failures > 0}
                      /\ Y = {i \in DOMAIN plan : plan[i].arm = arm /\ ran[i].tol_failures > 0}
      OBVIOUS
    <3>2. X \subseteq Y /\ Y \subseteq DOMAIN plan
      BY <3>1 DEF KeptTrials
    <3>3. IsFiniteSet(Y)
      BY <2>3, <3>2, FS_Subset
    <3>4. Cardinality(X) <= Cardinality(Y)
      BY <3>2, <3>3, FS_Subset
    <3>5. x1.filed[arm] = KeptTrials(arm) /\ x1.tol_failures[arm] = Cardinality(Y)
      BY <2>2, <2>4, <3>1 DEF Failures
    <3>7. KeptTrials(arm) \subseteq DOMAIN ran
      BY <2>3 DEF KeptTrials
    <3>6. ASSUME script # "p2p" PROVE \A i \in KeptTrials(arm) : ~Wrong(ran[i])
      BY <2>2, <3>6, <3>7 DEF TrialsInv, AllRight
    <3> QED
      BY <3>1, <3>4, <3>5, <3>6, <3>7
  <2>5. /\ \A r, s \in ToSet(x1.rows) :
             /\ plan[r.baseline].arm = plan[s.baseline].arm /\ plan[r.candidate].arm = plan[s.candidate].arm
             /\ plan[r.baseline].arm # plan[r.candidate].arm
        /\ \A k \in DOMAIN x1.rows : (x1.order[k] = "bc") = (x1.rows[k].baseline < x1.rows[k].candidate)
        /\ x1.rows # <<>> =>
             Cardinality({k \in DOMAIN x1.rows : x1.order[k] = "cb"})
               - Cardinality({k \in DOMAIN x1.rows : x1.order[k] = "bc"}) \in {0, 1}
    <3>1. CASE script \notin {"paired", "repro"}
      <4>1. x1.rows = <<>>
        BY <2>2, <3>1
      <4>2. ToSet(x1.rows) = {} /\ DOMAIN x1.rows = {}
        BY <4>1 DEF ToSet
      <4> QED
        BY <4>1, <4>2
    <3>2. CASE script \in {"paired", "repro"}
      <4>1. PICK o, p : o = order /\ p = plan /\ o \in Crossovers /\ TwoColumns(o, p)
        BY <3>2 DEF TrialsInv, TwoColumns
      <4>2. PICK w \in Nat, n \in Nat : w = Warmups /\ n = NBlocksPaired
        BY ExperimentsAssumption
      <4>3. DOMAIN o = 1 .. n
        BY <4>1, <4>2 DEF Crossovers
      <4>4. PICK b, c : /\ b # c
                        /\ \A k \in 1 .. n :
                             /\ p[2 * w + 2 * k - 1].arm = IF o[k] = "bc" THEN b ELSE c
                             /\ p[2 * w + 2 * k].arm = IF o[k] = "bc" THEN c ELSE b
        BY <4>1, <4>2 DEF TwoColumns
      <4>5. x1.rows = [k \in 1 .. n |-> Row(o[k], 2 * w + 2 * k - 1)]
        BY <2>2, <3>2, <4>1, <4>2, <4>3 DEF BlockRows
      <4>6. ASSUME NEW k \in 1 .. n
            PROVE  /\ p[x1.rows[k].baseline].arm = b /\ p[x1.rows[k].candidate].arm = c
                   /\ (o[k] = "bc") = (x1.rows[k].baseline < x1.rows[k].candidate)
        <5>1. PICK y1 : y1 = x1.rows[k]
          OBVIOUS
        <5>2. PICK i \in Nat : i = 2 * w + 2 * k - 1
          OBVIOUS
        <5>3. /\ p[i].arm = (IF o[k] = "bc" THEN b ELSE c)
              /\ p[i + 1].arm = (IF o[k] = "bc" THEN c ELSE b)
          <6>1. i + 1 = 2 * w + 2 * k
            BY <5>2
          <6> QED
            BY <4>4, <5>2, <6>1
        <5>4. y1 = IF o[k] = "bc" THEN [baseline |-> i, candidate |-> i + 1]
                                 ELSE [baseline |-> i + 1, candidate |-> i]
          BY <4>5, <5>1, <5>2 DEF Row
        <5>5. CASE o[k] = "bc"
          <6>1. y1.baseline = i /\ y1.candidate = i + 1 /\ i < i + 1
            BY <5>4, <5>5
          <6> QED
            BY <5>1, <5>2, <5>3, <5>5, <6>1
        <5>6. CASE o[k] # "bc"
          <6>1. y1.baseline = i + 1 /\ y1.candidate = i /\ ~ (i + 1 < i)
            BY <5>4, <5>6
          <6> QED
            BY <5>1, <5>2, <5>3, <5>6, <6>1
        <5> QED
          BY <5>5, <5>6
      <4>7. DOMAIN x1.rows = 1 .. n /\ \A r \in ToSet(x1.rows) : \E k \in 1 .. n : r = x1.rows[k]
        BY <4>5 DEF ToSet
      <4>8. \A r \in ToSet(x1.rows) : p[r.baseline].arm = b /\ p[r.candidate].arm = c
        BY <4>6, <4>7
      <4>9. Cardinality({k \in DOMAIN x1.rows : x1.order[k] = "cb"})
              - Cardinality({k \in DOMAIN x1.rows : x1.order[k] = "bc"}) \in {0, 1}
        <5>1. DOMAIN x1.rows = DOMAIN o /\ x1.order = o
          BY <2>2, <4>1, <4>3, <4>7
        <5> QED
          BY <4>1, <5>1, CrossoverHalves
      <4>10. \A r, s \in ToSet(x1.rows) :
               /\ plan[r.baseline].arm = plan[s.baseline].arm /\ plan[r.candidate].arm = plan[s.candidate].arm
               /\ plan[r.baseline].arm # plan[r.candidate].arm
        <5>1. ASSUME NEW r \in ToSet(x1.rows)
              PROVE  plan[r.baseline].arm = b /\ plan[r.candidate].arm = c
          BY <4>1, <4>8
        <5>2. b # c
          BY <4>4
        <5> QED
          BY <5>1, <5>2
      <4>11. \A k \in DOMAIN x1.rows : (x1.order[k] = "bc") = (x1.rows[k].baseline < x1.rows[k].candidate)
        <5>1. x1.order = o
          BY <2>2, <4>1
        <5>2. \A k \in 1 .. n : (o[k] = "bc") = (x1.rows[k].baseline < x1.rows[k].candidate)
          BY <4>6
        <5> QED
          BY <4>7, <5>1, <5>2
      <4> QED
        BY <4>9, <4>10, <4>11
    <3> QED
      BY <3>1, <3>2
  <2> QED
    BY <2>1, <2>2, <2>4, <2>5 DEF ReportTrue
<1> QED
  BY <1>1, TrialsInvariance, PTL

-----------------------------------------------------------------------------
(* A record is of what it is filed under.  The fold over the arguments goes *)
(* from one prefix of them to the next.                                     *)
ReadOne(f, line, s) == IF s = {} THEN ParseStart ELSE Argument(f[s \ {Max(s)}], line[Max(s)])
Reads(f, line) == f = [s \in SUBSET DOMAIN line |-> ReadOne(f, line, s)]

LEMMA ReadsExist ==
  ASSUME NEW line, NEW n \in Nat, DOMAIN line = 1 .. n
  PROVE  \E f : Reads(f, line)
<1>1. PICK C : C = {k \in Nat : \E f : \A s \in SUBSET (1 .. n) :
                      Cardinality(s) <= k => f[s] = ReadOne(f, line, s)}
  OBVIOUS
<1>2. ASSUME NEW k \in Nat, \A m \in Nat : m < k => m \in C PROVE k \in C
  <2>1. SUFFICES \E f : \A s \in SUBSET (1 .. n) : Cardinality(s) <= k => f[s] = ReadOne(f, line, s)
    BY <1>1
  <2>2. CASE k = 0
    <3>1. PICK f : f = [s \in SUBSET (1 .. n) |-> ParseStart]
      OBVIOUS
    <3>2. ASSUME NEW s \in SUBSET (1 .. n), Cardinality(s) <= 0 PROVE s = {}
      <4>1. ASSUME s # {} PROVE FALSE
        <5>1. Max(s) \in s /\ Cardinality(s \ {Max(s)}) = Cardinality(s) - 1 /\ Cardinality(s) \in Nat
              /\ s \ {Max(s)} \in SUBSET (1 .. n)
          BY <4>1, LastOf
        <5>2. PICK u : u = s \ {Max(s)}
          OBVIOUS
        <5>3. IsFiniteSet(u)
          <6>1. IsFiniteSet(s)
            BY <4>1, LastOf
          <6>2. u \in SUBSET s
            BY <5>2
          <6> QED
            BY <6>1, <6>2, FS_Subset
        <5>4. Cardinality(u) \in Nat
          BY <5>3, FS_CardinalityType
        <5> QED
          BY <3>2, <5>1, <5>2, <5>4
      <4> QED
        BY <4>1
    <3>3. ASSUME NEW s \in SUBSET (1 .. n), Cardinality(s) <= k PROVE f[s] = ReadOne(f, line, s)
      <4>1. s = {}
        BY <2>2, <3>2, <3>3
      <4>2. f[s] = ParseStart
        BY <3>1
      <4> QED
        BY <4>1, <4>2 DEF ReadOne
    <3> QED
      BY <3>3
  <2>3. CASE k # 0
    <3>1. k - 1 \in Nat /\ k - 1 < k
      BY <2>3
    <3>2. k - 1 \in C
      BY <1>2, <3>1
    <3>3. PICK g : \A s \in SUBSET (1 .. n) : Cardinality(s) <= k - 1 => g[s] = ReadOne(g, line, s)
      BY <1>1, <3>2
    <3>4. PICK f : f = [s \in SUBSET (1 .. n) |-> IF Cardinality(s) <= k - 1 THEN g[s] ELSE ReadOne(g, line, s)]
      OBVIOUS
    <3>5. ASSUME NEW s \in SUBSET (1 .. n), Cardinality(s) <= k PROVE f[s] = ReadOne(f, line, s)
      <4>1. f[s] = ReadOne(g, line, s)
        BY <3>3, <3>4
      <4>2. CASE s = {}
        BY <4>1, <4>2 DEF ReadOne
      <4>3. CASE s # {}
        <5>1. PICK u : u = s \ {Max(s)}
          OBVIOUS
        <5>2. u \in SUBSET (1 .. n) /\ Cardinality(u) = Cardinality(s) - 1 /\ Cardinality(s) \in Nat
          BY <4>3, <5>1, LastOf
        <5>3. Cardinality(u) <= k - 1
          BY <3>5, <5>2
        <5>4. f[u] = g[u]
          BY <3>4, <5>2, <5>3
        <5> QED
          BY <4>1, <4>3, <5>1, <5>4 DEF ReadOne
      <4> QED
        BY <4>2, <4>3
    <3> QED
      BY <3>5
  <2> QED
    BY <2>2, <2>3
<1>3. \A k \in Nat : k \in C
  BY <1>2, NumberInduction
<1>4. PICK g : \A s \in SUBSET (1 .. n) : Cardinality(s) <= n => g[s] = ReadOne(g, line, s)
  BY <1>1, <1>3
<1>5. ASSUME NEW s \in SUBSET (1 .. n) PROVE Cardinality(s) <= n
  <2>1. PICK S : S = 1 .. n
    OBVIOUS
  <2>2. IsFiniteSet(S) /\ Cardinality(S) = n
    BY <2>1, FS_Interval
  <2>3. s \in SUBSET S
    BY <2>1
  <2> QED
    BY <2>2, <2>3, FS_Subset
<1>6. PICK f : f = [s \in SUBSET (1 .. n) |-> g[s]]
  OBVIOUS
<1>7. ASSUME NEW s \in SUBSET (1 .. n) PROVE f[s] = ReadOne(f, line, s)
  <2>1. f[s] = ReadOne(g, line, s)
    BY <1>4, <1>5, <1>6
  <2>2. CASE s = {}
    BY <2>1, <2>2 DEF ReadOne
  <2>3. CASE s # {}
    <3>1. PICK u : u = s \ {Max(s)}
      OBVIOUS
    <3>2. u \in SUBSET (1 .. n)
      BY <3>1
    <3>3. f[u] = g[u]
      BY <1>6, <3>2
    <3> QED
      BY <2>1, <2>3, <3>1, <3>3 DEF ReadOne
  <2> QED
    BY <2>2, <2>3
<1>8. f = [s \in SUBSET (1 .. n) |-> ReadOne(f, line, s)]
  <2>1. f = [s \in SUBSET (1 .. n) |-> f[s]]
    BY <1>6
  <2>2. [s \in SUBSET (1 .. n) |-> f[s]] = [s \in SUBSET (1 .. n) |-> ReadOne(f, line, s)]
    BY <1>7
  <2> QED
    BY <2>1, <2>2
<1> QED
  BY <1>8 DEF Reads

(* at[k] is the state of the parser after k arguments. *)
Prefixed(at, line) ==
  /\ at[0] = ParseStart /\ Parsed(line) = at[Len(line)]
  /\ \A k \in 1 .. Len(line) : at[k] = Argument(at[k - 1], line[k])

LEMMA PrefixStates ==
  ASSUME NEW line, Sequence(line)
  PROVE  \E at : Prefixed(at, line)
<1>1. PICK n \in Nat : n = Len(line) /\ DOMAIN line = 1 .. n
  BY DEF Sequence
<1> DEFINE Chosen(g) == g = [s \in SUBSET DOMAIN line |-> IF s = {} THEN ParseStart
                                                  ELSE Argument(g[s \ {Max(s)}], line[Max(s)])]
<1>2. Parsed(line) = (CHOOSE g : Chosen(g))[DOMAIN line]
  BY DEF Parsed, FoldLeft, MapThenFoldSet
<1>3. \A g : Chosen(g) <=> Reads(g, line)
  BY DEF Reads, ReadOne
<1> HIDE DEF Chosen
<1>4. PICK f : f = (CHOOSE g : Chosen(g))
  OBVIOUS
<1>5. Chosen(f)
  BY <1>1, <1>3, <1>4, ReadsExist
<1>6. \A s \in SUBSET (1 .. n) : f[s] = ReadOne(f, line, s)
  BY <1>1, <1>3, <1>5 DEF Reads
<1>7. PICK at : at = [k \in 0 .. n |-> f[1 .. k]]
  OBVIOUS
<1>8. at[0] = ParseStart
  <2>1. {} \in SUBSET (1 .. n) /\ 1 .. 0 = {}
    OBVIOUS
  <2>2. f[{}] = ParseStart
    BY <1>6, <2>1 DEF ReadOne
  <2> QED
    BY <1>7, <2>1, <2>2
<1>9. ASSUME NEW k \in 1 .. n PROVE at[k] = Argument(at[k - 1], line[k])
  <2>1. PICK s : s = 1 .. k
    OBVIOUS
  <2>2. s \in SUBSET (1 .. n) /\ s # {}
    BY <2>1
  <2>3. Max(s) \in s /\ \A i \in s : i <= Max(s)
    BY <2>2, LastOf
  <2>4. Max(s) = k
    BY <2>1, <2>3
  <2>5. s \ {k} = 1 .. k - 1
    BY <2>1
  <2>6. f[s] = Argument(f[1 .. k - 1], line[k])
    BY <1>6, <2>2, <2>4, <2>5 DEF ReadOne
  <2>7. k \in 0 .. n /\ k - 1 \in 0 .. n
    OBVIOUS
  <2> QED
    BY <1>7, <2>1, <2>6, <2>7
<1>10. Parsed(line) = f[1 .. n]
  BY <1>1, <1>2, <1>4
<1>11. at[n] = f[1 .. n]
  <2>1. n \in 0 .. n
    OBVIOUS
  <2> QED
    BY <1>7, <2>1
<1>12. PICK p : p = Parsed(line)
  OBVIOUS
<1>13. p = at[n]
  BY <1>10, <1>11, <1>12
<1> QED
  BY <1>1, <1>8, <1>9, <1>12, <1>13 DEF Prefixed

(* Between two settings the parser holds a configuration and waits for a flag. *)
Yes == TRUE
No == FALSE
Parser(c, f, e) == [cfg |-> c, flag |-> f, error |-> e]
Idle(c) == Parser(c, NoFlag, No)
With(c, f, v) == [c EXCEPT ![f] = v]
Awaits(p, f) == [p EXCEPT !.flag = f]
Stored(p, v) == [p EXCEPT !.cfg[p.flag] = v, !.flag = NoFlag]
Switched(p, f) == [p EXCEPT !.cfg[f] = Yes]
After(p, f, v) == Argument(Argument(p, f), v)

Fields == DOMAIN Defaults
OfFields(c) == c = [f \in Fields |-> c[f]]
Only(f, c, d) == OfFields(d) /\ \A g \in Fields : g # f => d[g] = c[g]

LEMMA ParserHolds ==
  ASSUME NEW c, NEW f, NEW e, NEW p, p = Parser(c, f, e)
  PROVE  p.cfg = c /\ p.flag = f /\ p.error = e
  BY DEF Parser

LEMMA ParserAwaits ==
  ASSUME NEW c, NEW f, NEW e, NEW p, p = Parser(c, f, e), NEW g
  PROVE  Awaits(p, g) = Parser(c, g, e)
  BY DEF Parser, Awaits

LEMMA ParserStores ==
  ASSUME NEW c, NEW f, NEW e, NEW p, p = Parser(c, f, e), NEW v
  PROVE  Stored(p, v) = Parser(With(c, f, v), NoFlag, e)
<1>1. PICK d, none : d = [c EXCEPT ![f] = v] /\ none = NoFlag
  OBVIOUS
<1>2. PICK q : q = [p EXCEPT !.cfg[f] = v]
  OBVIOUS
<1>3. q = [cfg |-> d, flag |-> f, error |-> e]
  BY <1>1, <1>2 DEF Parser
<1>4. [q EXCEPT !.flag = none] = [cfg |-> d, flag |-> none, error |-> e]
  BY <1>3
<1>5. [p EXCEPT !.cfg[f] = v, !.flag = none] = [q EXCEPT !.flag = none]
  BY <1>2
<1>6. p.flag = f
  BY DEF Parser
<1> QED
  BY <1>1, <1>4, <1>5, <1>6 DEF Stored, Parser, With

LEMMA ParserSwitches ==
  ASSUME NEW c, NEW f, NEW e, NEW p, p = Parser(c, f, e), NEW g
  PROVE  Switched(p, g) = Parser(With(c, g, Yes), f, e)
<1>1. PICK yes : yes = Yes
  OBVIOUS
<1>2. [p EXCEPT !.cfg[g] = yes] = [cfg |-> [c EXCEPT ![g] = yes], flag |-> f, error |-> e]
  BY DEF Parser
<1> QED
  BY <1>1, <1>2 DEF Switched, Parser, With

LEMMA ParserFails ==
  ASSUME NEW c, NEW f, NEW e, NEW p, p = Parser(c, f, e)
  PROVE  ParseFailed(p) = Parser(c, f, Yes)
<1>1. PICK yes : yes = Yes
  OBVIOUS
<1>2. [p EXCEPT !.error = yes] = [cfg |-> c, flag |-> f, error |-> yes]
  BY DEF Parser
<1> QED
  BY <1>1, <1>2 DEF ParseFailed, Parser, Yes

LEMMA StartsIdle == ParseStart = Idle(Defaults) /\ OfFields(Defaults)
<1>1. ParseStart = Idle(Defaults)
  BY DEF ParseStart, Idle, Parser, No
<1>2. OfFields(Defaults)
  BY Zenon DEF OfFields, Fields, Defaults
<1> QED
  BY <1>1, <1>2

LEMMA SetField ==
  ASSUME NEW c, OfFields(c), NEW f \in Fields, NEW v
  PROVE  Only(f, c, With(c, f, v)) /\ With(c, f, v)[f] = v
<1>1. PICK d : d = [c EXCEPT ![f] = v]
  OBVIOUS
<1>2. PICK F : F = Fields
  OBVIOUS
<1>3. c = [g \in F |-> c[g]] /\ f \in F
  BY <1>2 DEF OfFields
<1>4. d = [g \in F |-> d[g]] /\ d[f] = v /\ \A g \in F : g # f => d[g] = c[g]
  BY <1>1, <1>3
<1> QED
  BY <1>1, <1>2, <1>4 DEF Only, OfFields, With

LEMMA Waits ==
  ASSUME NEW c, NEW f \in NumberFlags \cup WordFlags \cup OnOffFlags
  PROVE  Argument(Idle(c), f) = Parser(c, f, No) /\ f \in Fields /\ f # NoFlag
<1>1. f \notin Switches
  BY DEF NumberFlags, WordFlags, OnOffFlags, Switches
<1>2. f \in Fields /\ f # NoFlag
  BY SMT DEF NumberFlags, WordFlags, OnOffFlags, Fields, Defaults, NoFlag
<1>3. PICK p, none, no : p = Idle(c) /\ none = NoFlag /\ no = No
  OBVIOUS
<1>4. p = Parser(c, none, no)
  BY <1>3 DEF Idle
<1>5. p.error = no /\ p.flag = none /\ \A g : Awaits(p, g) = Parser(c, g, no)
  BY <1>4, ParserHolds, ParserAwaits, ParserStores, ParserSwitches, ParserFails
<1>6. Argument(p, f) = Flag(p, f)
  BY <1>3, <1>5 DEF Argument, No
<1>7. Flag(p, f) = Awaits(p, f)
  BY <1>1 DEF Flag, Awaits
<1> QED
  BY <1>2, <1>3, <1>5, <1>6, <1>7

LEMMA StoresValue ==
  ASSUME NEW c, OfFields(c), NEW f \in Fields, f # NoFlag, NEW v, NEW w,
         NEW p, p = Parser(c, f, No), Value(p, v) = Stored(p, w)
  PROVE  \E d : Argument(p, v) = Idle(d) /\ Only(f, c, d) /\ d[f] = w
<1>1. PICK no : no = No
  OBVIOUS
<1>2. p.error = no /\ p.flag = f /\ Stored(p, w) = Parser(With(c, f, w), NoFlag, no)
  BY <1>1, ParserHolds, ParserAwaits, ParserStores, ParserSwitches, ParserFails
<1>3. Argument(p, v) = Value(p, v)
  BY <1>1, <1>2 DEF Argument, No
<1>4. Argument(p, v) = Idle(With(c, f, w))
  BY <1>1, <1>2, <1>3 DEF Idle
<1> QED
  BY <1>4, SetField

LEMMA TakesWord ==
  ASSUME NEW c, OfFields(c), NEW f \in WordFlags, NEW v
  PROVE  \E d : After(Idle(c), f, v) = Idle(d) /\ Only(f, c, d) /\ d[f] = v
<1>1. PICK p, w : p = Parser(c, f, No) /\ w = v
  OBVIOUS
<1>2. Argument(Idle(c), f) = p /\ f \in Fields /\ f # NoFlag
  BY <1>1, Waits
<1>3. f \notin NumberFlags \cup DelayFlags /\ f \notin OnOffFlags
  BY DEF NumberFlags, WordFlags, OnOffFlags, DelayFlags
<1>4. PICK no : no = No
  OBVIOUS
<1>5. p.flag = f
  BY <1>1, <1>4, ParserHolds, ParserAwaits, ParserStores, ParserSwitches, ParserFails
<1>6. Value(p, v) = Stored(p, v)
  BY <1>3, <1>5 DEF Value, Stored
<1>7. PICK d : Argument(p, v) = Idle(d) /\ Only(f, c, d) /\ d[f] = w
  BY <1>1, <1>2, <1>6, StoresValue
<1> QED
  BY <1>1, <1>2, <1>7 DEF After

LEMMA TakesNumber ==
  ASSUME NEW c, OfFields(c), NEW f \in NumberFlags, NEW v
  PROVE  \E d : After(Idle(c), f, v) = Idle(d) /\ Only(f, c, d) /\ d[f] = Number(v)
<1>1. PICK p, w : p = Parser(c, f, No) /\ w = Number(v)
  OBVIOUS
<1>2. Argument(Idle(c), f) = p /\ f \in Fields /\ f # NoFlag
  BY <1>1, Waits
<1>3. PICK no : no = No
  OBVIOUS
<1>4. p.flag = f
  BY <1>1, <1>3, ParserHolds, ParserAwaits, ParserStores, ParserSwitches, ParserFails
<1>5. Value(p, v) = Stored(p, w)
  <2>1. p.flag \in NumberFlags \cup DelayFlags /\ p.flag \notin OnOffFlags
    BY <1>4 DEF NumberFlags, OnOffFlags
  <2> QED
    BY <1>1, <2>1 DEF Value, Stored
<1>6. PICK d : Argument(p, v) = Idle(d) /\ Only(f, c, d) /\ d[f] = w
  BY <1>1, <1>2, <1>5, StoresValue
<1> QED
  BY <1>1, <1>2, <1>6 DEF After

LEMMA TakesOnOff ==
  ASSUME NEW c, OfFields(c), NEW f \in OnOffFlags, NEW v \in {"on", "off"}
  PROVE  \E d : After(Idle(c), f, v) = Idle(d) /\ Only(f, c, d) /\ d[f] = v
<1>1. PICK p, w : p = Parser(c, f, No) /\ w = v
  OBVIOUS
<1>2. Argument(Idle(c), f) = p /\ f \in Fields /\ f # NoFlag
  BY <1>1, Waits
<1>3. f \notin NumberFlags \cup DelayFlags
  BY DEF NumberFlags, OnOffFlags, DelayFlags
<1>4. PICK no : no = No
  OBVIOUS
<1>5. p.flag = f
  BY <1>1, <1>4, ParserHolds, ParserAwaits, ParserStores, ParserSwitches, ParserFails
<1>6. Value(p, v) = Stored(p, v)
  BY <1>3, <1>5 DEF Value, Stored
<1>7. PICK d : Argument(p, v) = Idle(d) /\ Only(f, c, d) /\ d[f] = w
  BY <1>1, <1>2, <1>6, StoresValue
<1> QED
  BY <1>1, <1>2, <1>7 DEF After

LEMMA TakesSwitch ==
  ASSUME NEW c, OfFields(c), NEW f \in Switches
  PROVE  \E d : Argument(Idle(c), f) = Idle(d) /\ Only(f, c, d) /\ d[f] = Yes
<1>1. f \in Fields
  BY SMT DEF Switches, Fields, Defaults
<1>2. PICK p, none, no : p = Idle(c) /\ none = NoFlag /\ no = No
  OBVIOUS
<1>3. p = Parser(c, none, no)
  BY <1>2 DEF Idle
<1>4. p.error = no /\ p.flag = none /\ \A g : Switched(p, g) = Parser(With(c, g, Yes), none, no)
  BY <1>3, ParserHolds, ParserAwaits, ParserStores, ParserSwitches, ParserFails
<1>5. Argument(p, f) = Flag(p, f)
  BY <1>2, <1>4 DEF Argument, No
<1>6. Flag(p, f) = Switched(p, f)
  <2>1. PICK yes : yes = Yes
    OBVIOUS
  <2>2. PICK q : q = [p EXCEPT !.cfg[f] = yes]
    OBVIOUS
  <2>3. Flag(p, f) = q
    <3>1. f \notin NumberFlags \cup WordFlags \cup OnOffFlags /\ f \notin DelayFlags
      BY DEF Switches, NumberFlags, WordFlags, OnOffFlags, DelayFlags
    <3> QED
      BY <2>1, <2>2, <3>1 DEF Flag, Yes
  <2> QED
    BY <2>1, <2>2, <2>3 DEF Switched
<1>7. Argument(p, f) = Idle(With(c, f, Yes))
  BY <1>2, <1>4, <1>5, <1>6 DEF Idle
<1>8. PICK yes : yes = Yes
  OBVIOUS
<1>9. Only(f, c, With(c, f, yes)) /\ With(c, f, yes)[f] = yes
  BY <1>1, SetField
<1> QED
  BY <1>2, <1>7, <1>8, <1>9

(* Without profiling a delay is an error. *)
LEMMA TakesDelay ==
  ASSUME NEW c, OfFields(c), NEW f \in DelayFlags, NEW v, Complete(After(Idle(c), f, v))
  PROVE  \E d : After(Idle(c), f, v) = Idle(d) /\ Only(f, c, d) /\ d[f] = Number(v)
<1>1. PICK i, none, no : i = Idle(c) /\ none = NoFlag /\ no = No
  OBVIOUS
<1>2. f \in Fields /\ f # NoFlag /\ f \notin Switches
  BY SMT DEF DelayFlags, Fields, Defaults, NoFlag, Switches
<1>3. i = Parser(c, none, no)
  BY <1>1 DEF Idle
<1>4. /\ i.error = no /\ i.flag = none /\ \A g : Awaits(i, g) = Parser(c, g, no)
      /\ ParseFailed(i) = Parser(c, none, Yes)
  BY <1>3, ParserHolds, ParserAwaits, ParserStores, ParserSwitches, ParserFails
<1>5. Argument(i, f) = Flag(i, f)
  BY <1>1, <1>4 DEF Argument, No
<1>6. CASE ~Profiling
  <2>1. Flag(i, f) = ParseFailed(i)
    <3>1. PICK q : q = ParseFailed(i)
      OBVIOUS
    <3>2. f \notin NumberFlags \cup WordFlags \cup OnOffFlags /\ ~Profiling
      BY <1>6 DEF NumberFlags, WordFlags, OnOffFlags, DelayFlags
    <3>3. Flag(i, f) = q
      BY <1>2, <3>1, <3>2, Zenon DEF Flag
    <3> QED
      BY <3>1, <3>3
  <2>2. PICK q, yes : q = Parser(c, none, yes) /\ yes = Yes
    OBVIOUS
  <2>3. q.error = yes
    BY <2>2, ParserHolds, ParserAwaits, ParserStores, ParserSwitches, ParserFails
  <2>4. Argument(q, v) = q /\ ~Complete(q)
    BY <2>2, <2>3 DEF Argument, Complete, Yes
  <2> QED
    BY <1>1, <1>4, <1>5, <2>1, <2>2, <2>4 DEF After
<1>7. CASE Profiling
  <2>1. PICK p, w : p = Parser(c, f, No) /\ w = Number(v)
    OBVIOUS
  <2>2. Flag(i, f) = Awaits(i, f)
    BY <1>2, <1>7 DEF Flag, Awaits
  <2>3. Argument(i, f) = p
    BY <1>1, <1>4, <1>5, <2>1, <2>2
  <2>4. p.flag = f
    BY <1>1, <2>1, ParserHolds, ParserAwaits, ParserStores, ParserSwitches, ParserFails
  <2>5. Value(p, v) = Stored(p, w)
    <3>1. p.flag \in NumberFlags \cup DelayFlags /\ p.flag \notin OnOffFlags
      BY <2>4 DEF DelayFlags, OnOffFlags
    <3> QED
      BY <2>1, <3>1 DEF Value, Stored
  <2>6. PICK d : Argument(p, v) = Idle(d) /\ Only(f, c, d) /\ d[f] = w
    BY <1>2, <2>1, <2>5, StoresValue
  <2> QED
    BY <1>1, <2>1, <2>3, <2>6 DEF After
<1> QED
  BY <1>6, <1>7

(* One setting of the line: d is c with it. *)
Sets(c, f, v, d) ==
  /\ Only(f, c, d)
  /\ f \in NumberFlags => d[f] = Number(v)
  /\ f \in WordFlags \cup OnOffFlags => d[f] = v

Settable(f, v) == f \in NumberFlags \cup WordFlags \/ (f \in OnOffFlags /\ v \in {"on", "off"})

LEMMA SetsField ==
  ASSUME NEW c, OfFields(c), NEW f, NEW v, Settable(f, v)
  PROVE  \E d : After(Idle(c), f, v) = Idle(d) /\ Sets(c, f, v, d)
<1>1. NumberFlags \cap (WordFlags \cup OnOffFlags) = {}
  BY DEF NumberFlags, WordFlags, OnOffFlags
<1>2. CASE f \in NumberFlags
  <2>1. PICK d : After(Idle(c), f, v) = Idle(d) /\ Only(f, c, d) /\ d[f] = Number(v)
    BY <1>2, TakesNumber
  <2> QED
    BY <1>1, <1>2, <2>1 DEF Sets
<1>3. CASE f \in WordFlags
  <2>1. PICK d : After(Idle(c), f, v) = Idle(d) /\ Only(f, c, d) /\ d[f] = v
    BY <1>3, TakesWord
  <2> QED
    BY <1>1, <1>3, <2>1 DEF Sets
<1>4. CASE f \in OnOffFlags /\ v \in {"on", "off"}
  <2>1. PICK d : After(Idle(c), f, v) = Idle(d) /\ Only(f, c, d) /\ d[f] = v
    BY <1>4, TakesOnOff
  <2> QED
    BY <1>1, <1>4, <2>1 DEF Sets
<1> QED
  BY <1>2, <1>3, <1>4 DEF Settable

LEMMA TwoArguments ==
  ASSUME NEW line, NEW at, Prefixed(at, line), NEW n \in Nat, Len(line) = n,
         NEW k \in Nat, NEW j, j = k + 2, j <= n
  PROVE  at[j] = After(at[k], line[k + 1], line[j])
<1>1. k + 1 \in 1 .. Len(line) /\ j \in 1 .. Len(line) /\ (k + 1) - 1 = k /\ j - 1 = k + 1
  OBVIOUS
<1>2. at[k + 1] = Argument(at[k], line[k + 1])
  BY <1>1 DEF Prefixed
<1>3. at[j] = Argument(at[k + 1], line[j])
  BY <1>1 DEF Prefixed
<1> QED
  BY <1>2, <1>3 DEF After

(* After k arguments the configuration is c; the next ones are a setting, *)
(* a switch, or a delay that ends the line.                                *)
Reached(at, line, k, c) == Prefixed(at, line) /\ OfFields(c) /\ at[k] = Idle(c)
SettingAt(line, k, i, j) ==
  k \in Nat /\ i = k + 1 /\ j = k + 2 /\ Len(line) \in Nat /\ j <= Len(line) /\ Settable(line[i], line[j])
SwitchAt(line, k, j) ==
  k \in Nat /\ j = k + 1 /\ Len(line) \in Nat /\ j <= Len(line) /\ line[j] \in Switches
DelayAt(line, k, i, j) ==
  k \in Nat /\ i = k + 1 /\ j = k + 2 /\ Len(line) = j /\ line[i] \in DelayFlags

LEMMA ReadsSetting ==
  ASSUME NEW line, NEW at, NEW k, NEW i, NEW j, NEW c,
         Reached(at, line, k, c), SettingAt(line, k, i, j)
  PROVE  \E d : Reached(at, line, j, d) /\ Sets(c, line[i], line[j], d)
<1>1. PICK f, v, n : f = line[i] /\ v = line[j] /\ n = Len(line) /\ n \in Nat
  BY DEF SettingAt
<1>2. Settable(f, v) /\ OfFields(c) /\ Prefixed(at, line) /\ at[k] = Idle(c)
  BY <1>1 DEF Reached, SettingAt
<1>3. PICK d : After(Idle(c), f, v) = Idle(d) /\ Sets(c, f, v, d)
  BY <1>2, SetsField
<1>4. at[j] = After(at[k], line[k + 1], line[j])
  <2>1. k \in Nat /\ j = k + 2 /\ j <= n
    BY <1>1 DEF SettingAt
  <2> QED
    BY <1>1, <1>2, <2>1, TwoArguments
<1>5. i = k + 1
  BY DEF SettingAt
<1> QED
  BY <1>1, <1>2, <1>3, <1>4, <1>5 DEF Sets, Only, Reached

LEMMA ReadsSwitch ==
  ASSUME NEW line, NEW at, NEW k, NEW j, NEW c, Reached(at, line, k, c), SwitchAt(line, k, j)
  PROVE  \E d : Reached(at, line, j, d) /\ Only(line[j], c, d) /\ d[line[j]] = Yes
<1>1. PICK f : f = line[j]
  OBVIOUS
<1>2. f \in Switches /\ OfFields(c) /\ Prefixed(at, line) /\ at[k] = Idle(c)
  BY <1>1 DEF Reached, SwitchAt
<1>3. PICK d : Argument(Idle(c), f) = Idle(d) /\ Only(f, c, d) /\ d[f] = Yes
  BY <1>2, TakesSwitch
<1>4. at[j] = Argument(at[k], f)
  <2>1. j \in 1 .. Len(line) /\ j - 1 = k
    BY DEF SwitchAt
  <2> QED
    BY <1>1, <1>2, <2>1 DEF Prefixed
<1> QED
  BY <1>1, <1>2, <1>3, <1>4 DEF Only, Reached

LEMMA ReadsDelay ==
  ASSUME NEW line, NEW at, NEW k, NEW i, NEW j, NEW c,
         Reached(at, line, k, c), DelayAt(line, k, i, j), Complete(Parsed(line))
  PROVE  \E d : Reached(at, line, j, d) /\ Only(line[i], c, d) /\ d[line[i]] = Number(line[j])
<1>1. PICK f, v, n : f = line[i] /\ v = line[j] /\ n = Len(line) /\ n \in Nat
  BY DEF DelayAt
<1>2. f \in DelayFlags /\ OfFields(c) /\ Prefixed(at, line) /\ at[k] = Idle(c)
  BY <1>1 DEF Reached, DelayAt
<1>3. at[j] = After(Idle(c), f, v)
  <2>1. k \in Nat /\ j = k + 2 /\ j <= n /\ i = k + 1
    BY <1>1 DEF DelayAt
  <2>2. at[j] = After(at[k], line[k + 1], line[j])
    BY <1>1, <1>2, <2>1, TwoArguments
  <2> QED
    BY <1>1, <1>2, <2>1, <2>2
<1>4. Complete(After(Idle(c), f, v))
  BY <1>2, <1>3 DEF Prefixed, DelayAt
<1>5. PICK d : After(Idle(c), f, v) = Idle(d) /\ Only(f, c, d) /\ d[f] = Number(v)
  BY <1>2, <1>4, TakesDelay
<1> QED
  BY <1>1, <1>2, <1>3, <1>5 DEF Only, Reached

LEMMA ReadsFirst ==
  ASSUME NEW line, Sequence(line)
  PROVE  \E at : Reached(at, line, 0, Defaults)
<1>1. PICK at : Prefixed(at, line)
  BY PrefixStates
<1> QED
  BY <1>1, StartsIdle DEF Prefixed, Reached

LEMMA ReadsLast ==
  ASSUME NEW line, NEW at, NEW n, Len(line) = n, NEW c, Reached(at, line, n, c)
  PROVE  Parsed(line).cfg = c
<1>1. PICK p, none, no : p = Parsed(line) /\ none = NoFlag /\ no = No
  OBVIOUS
<1>2. p = Parser(c, none, no)
  BY <1>1 DEF Reached, Prefixed, Idle
<1>3. p.cfg = c
  BY <1>2, ParserHolds
<1> QED
  BY <1>1, <1>3

(* The words of the lane mapping in a line, after k others, and what they set. *)
MappingAt(line, k) ==
  /\ Sequence(line) /\ k \in Nat /\ Len(line) = k + 11
  /\ line[k + 1] = "validate" /\ line[k + 2] = "group" /\ line[k + 4] = "pair_order"
  /\ line[k + 6] = "hoist" /\ line[k + 8] = "plan_metrics" /\ line[k + 9] \in {"on", "off"}
  /\ line[k + 10] = "pre_timing_delay"

Mapped(c, line, k) ==
  /\ c["validate"] = Yes /\ c["group"] = Number(line[k + 3]) /\ c["pair_order"] = line[k + 5]
  /\ c["hoist"] = line[k + 7] /\ c["plan_metrics"] = line[k + 9]
  /\ c["pre_timing_delay"] = Number(line[k + 11])

LEMMA MappingFields ==
  ASSUME NEW line, NEW at, NEW k, NEW c, Reached(at, line, k, c), MappingAt(line, k), Complete(Parsed(line))
  PROVE  \E d : /\ Parsed(line).cfg = d /\ Mapped(d, line, k)
                /\ d["gpus"] = c["gpus"] /\ d["mode"] = c["mode"] /\ d["payload"] = c["payload"]
<1>1. /\ {"validate", "group", "pair_order", "hoist", "plan_metrics", "pre_timing_delay",
          "gpus", "mode", "payload"} \subseteq Fields
      /\ "validate" \in Switches /\ "group" \in NumberFlags /\ "plan_metrics" \in OnOffFlags
      /\ {"pair_order", "hoist"} \subseteq WordFlags /\ "pre_timing_delay" \in DelayFlags
  BY DEF Fields, Defaults, Switches, NumberFlags, WordFlags, OnOffFlags, DelayFlags
<1>2. PICK i1, i2, i3, i4, i5, i6, i7, i8, i9, i10, i11 :
        /\ i1 = k + 1 /\ i2 = k + 2 /\ i3 = k + 3 /\ i4 = k + 4 /\ i5 = k + 5 /\ i6 = k + 6
        /\ i7 = k + 7 /\ i8 = k + 8 /\ i9 = k + 9 /\ i10 = k + 10 /\ i11 = k + 11
  OBVIOUS
<1>3. /\ k \in Nat /\ Len(line) = i11
      /\ line[i1] = "validate" /\ line[i2] = "group" /\ line[i4] = "pair_order" /\ line[i6] = "hoist"
      /\ line[i8] = "plan_metrics" /\ line[i9] \in {"on", "off"} /\ line[i10] = "pre_timing_delay"
  BY <1>2 DEF MappingAt
<1>4. /\ line[i1] \in Switches /\ Settable(line[i2], line[i3]) /\ Settable(line[i4], line[i5])
      /\ Settable(line[i6], line[i7]) /\ Settable(line[i8], line[i9]) /\ line[i10] \in DelayFlags
  BY <1>1, <1>3 DEF Settable
<1>5. /\ SwitchAt(line, k, i1) /\ SettingAt(line, i1, i2, i3) /\ SettingAt(line, i3, i4, i5)
      /\ SettingAt(line, i5, i6, i7) /\ SettingAt(line, i7, i8, i9) /\ DelayAt(line, i9, i10, i11)
  BY <1>2, <1>3, <1>4 DEF SwitchAt, SettingAt, DelayAt
<1>6. PICK c1 : Reached(at, line, i1, c1) /\ Only(line[i1], c, c1) /\ c1[line[i1]] = Yes
  BY <1>5, ReadsSwitch
<1>7. PICK c2 : Reached(at, line, i3, c2) /\ Sets(c1, line[i2], line[i3], c2)
  BY <1>5, <1>6, ReadsSetting
<1>8. PICK c3 : Reached(at, line, i5, c3) /\ Sets(c2, line[i4], line[i5], c3)
  BY <1>5, <1>7, ReadsSetting
<1>9. PICK c4 : Reached(at, line, i7, c4) /\ Sets(c3, line[i6], line[i7], c4)
  BY <1>5, <1>8, ReadsSetting
<1>10. PICK c5 : Reached(at, line, i9, c5) /\ Sets(c4, line[i8], line[i9], c5)
  BY <1>5, <1>9, ReadsSetting
<1>11. PICK d : Reached(at, line, i11, d) /\ Only(line[i10], c5, d) /\ d[line[i10]] = Number(line[i11])
  BY <1>5, <1>10, ReadsDelay
<1>12. Parsed(line).cfg = d
  BY <1>3, <1>11, ReadsLast
<1>13. /\ d["validate"] = Yes /\ d["group"] = Number(line[i3]) /\ d["pair_order"] = line[i5]
       /\ d["hoist"] = line[i7] /\ d["plan_metrics"] = line[i9] /\ d["pre_timing_delay"] = Number(line[i11])
  BY <1>1, <1>3, <1>6, <1>7, <1>8, <1>9, <1>10, <1>11 DEF Sets, Only
<1>14. d["gpus"] = c["gpus"] /\ d["mode"] = c["mode"] /\ d["payload"] = c["payload"]
  BY <1>1, <1>3, <1>6, <1>7, <1>8, <1>9, <1>10, <1>11 DEF Sets, Only
<1> QED
  BY <1>2, <1>12, <1>13, <1>14 DEF Mapped

ArmArguments(line) ==
  /\ MappingAt(line, 6)
  /\ line[1] = "gpus" /\ line[3] = "mode" /\ line[5] = "payload"

LEMMA ArmFields ==
  ASSUME NEW line, ArmArguments(line), Complete(Parsed(line))
  PROVE  \E c : /\ Parsed(line).cfg = c /\ Mapped(c, line, 6)
                /\ c["gpus"] = Number(line[2]) /\ c["mode"] = line[4] /\ c["payload"] = line[6]
<1>1. /\ {"gpus", "mode", "payload"} \subseteq Fields /\ "gpus" \in NumberFlags
      /\ {"mode", "payload"} \subseteq WordFlags
  BY DEF Fields, Defaults, NumberFlags, WordFlags
<1>2. Sequence(line) /\ Len(line) = 17
  BY DEF ArmArguments, MappingAt
<1>3. SettingAt(line, 0, 1, 2) /\ SettingAt(line, 2, 3, 4) /\ SettingAt(line, 4, 5, 6)
  BY <1>2 DEF ArmArguments, SettingAt, Settable, NumberFlags, WordFlags
<1>4. PICK at, c0 : Reached(at, line, 0, c0)
  BY <1>2, ReadsFirst
<1>5. PICK c1 : Reached(at, line, 2, c1) /\ Sets(c0, line[1], line[2], c1)
  BY <1>3, <1>4, ReadsSetting
<1>6. PICK c2 : Reached(at, line, 4, c2) /\ Sets(c1, line[3], line[4], c2)
  BY <1>3, <1>5, ReadsSetting
<1>7. PICK c3 : Reached(at, line, 6, c3) /\ Sets(c2, line[5], line[6], c3)
  BY <1>3, <1>6, ReadsSetting
<1>8. c3["gpus"] = Number(line[2]) /\ c3["mode"] = line[4] /\ c3["payload"] = line[6]
  BY <1>1, <1>5, <1>6, <1>7 DEF ArmArguments, Sets, Only
<1>9. PICK c : /\ Parsed(line).cfg = c /\ Mapped(c, line, 6)
               /\ c["gpus"] = c3["gpus"] /\ c["mode"] = c3["mode"] /\ c["payload"] = c3["payload"]
  <2>1. PICK six : six = 6
    OBVIOUS
  <2>2. Reached(at, line, six, c3) /\ MappingAt(line, six)
    BY <1>7, <2>1 DEF ArmArguments
  <2> QED
    BY <2>1, <2>2, MappingFields
<1> QED
  BY <1>8, <1>9

MatrixArguments(line) ==
  /\ Sequence(line) /\ Len(line) = 22
  /\ line[1] = "gpus" /\ line[3] = "partition" /\ line[5] = "payload" /\ line[7] = "mode"
  /\ line[9] = "group" /\ line[11] = "pair_order" /\ line[13] = "hoist"
  /\ line[15] = "plan_metrics" /\ line[16] \in {"on", "off"}
  /\ line[17] = "validate" /\ line[18] = "resident" /\ line[19] = "warmup" /\ line[21] = "repeat"

LEMMA MatrixFields ==
  ASSUME NEW line, MatrixArguments(line), Complete(Parsed(line))
  PROVE  \E c : /\ Parsed(line).cfg = c
                /\ c["gpus"] = Number(line[2]) /\ c["partition"] = line[4] /\ c["payload"] = line[6]
<1>1. /\ {"gpus", "partition", "payload"} \subseteq Fields
      /\ "gpus" \in NumberFlags /\ {"partition", "payload"} \subseteq WordFlags
  BY DEF Fields, Defaults, NumberFlags, WordFlags
<1>2. Sequence(line) /\ Len(line) = 22
  BY DEF MatrixArguments
<1>3. /\ SettingAt(line, 0, 1, 2) /\ SettingAt(line, 2, 3, 4) /\ SettingAt(line, 4, 5, 6)
      /\ SettingAt(line, 6, 7, 8) /\ SettingAt(line, 8, 9, 10) /\ SettingAt(line, 10, 11, 12)
      /\ SettingAt(line, 12, 13, 14) /\ SettingAt(line, 14, 15, 16) /\ SwitchAt(line, 16, 17)
      /\ SwitchAt(line, 17, 18) /\ SettingAt(line, 18, 19, 20) /\ SettingAt(line, 20, 21, 22)
  BY <1>2 DEF MatrixArguments, SettingAt, SwitchAt, DelayAt, Settable, Switches, NumberFlags, WordFlags, OnOffFlags, DelayFlags
<1>4. PICK at, c0 : Reached(at, line, 0, c0)
  BY <1>2, ReadsFirst
<1>5. PICK c1 : Reached(at, line, 2, c1) /\ Sets(c0, line[1], line[2], c1)
  BY <1>3, <1>4, ReadsSetting
<1>6. PICK c2 : Reached(at, line, 4, c2) /\ Sets(c1, line[3], line[4], c2)
  BY <1>3, <1>5, ReadsSetting
<1>7. PICK c3 : Reached(at, line, 6, c3) /\ Sets(c2, line[5], line[6], c3)
  BY <1>3, <1>6, ReadsSetting
<1>8. PICK c4 : Reached(at, line, 8, c4) /\ Sets(c3, line[7], line[8], c4)
  BY <1>3, <1>7, ReadsSetting
<1>9. PICK c5 : Reached(at, line, 10, c5) /\ Sets(c4, line[9], line[10], c5)
  BY <1>3, <1>8, ReadsSetting
<1>10. PICK c6 : Reached(at, line, 12, c6) /\ Sets(c5, line[11], line[12], c6)
  BY <1>3, <1>9, ReadsSetting
<1>11. PICK c7 : Reached(at, line, 14, c7) /\ Sets(c6, line[13], line[14], c7)
  BY <1>3, <1>10, ReadsSetting
<1>12. PICK c8 : Reached(at, line, 16, c8) /\ Sets(c7, line[15], line[16], c8)
  BY <1>3, <1>11, ReadsSetting
<1>13. PICK c9 : Reached(at, line, 17, c9) /\ Only(line[17], c8, c9)
  BY <1>3, <1>12, ReadsSwitch
<1>14. PICK c10 : Reached(at, line, 18, c10) /\ Only(line[18], c9, c10)
  BY <1>3, <1>13, ReadsSwitch
<1>15. PICK c11 : Reached(at, line, 20, c11) /\ Sets(c10, line[19], line[20], c11)
  BY <1>3, <1>14, ReadsSetting
<1>16. PICK c12 : Reached(at, line, 22, c12) /\ Sets(c11, line[21], line[22], c12)
  BY <1>3, <1>15, ReadsSetting
<1>17. c12["gpus"] = Number(line[2])
  BY <1>1, <1>5, <1>6, <1>7, <1>8, <1>9, <1>10, <1>11, <1>12, <1>13, <1>14, <1>15, <1>16 DEF MatrixArguments, Sets, Only
<1>18. c12["partition"] = line[4]
  BY <1>1, <1>6, <1>7, <1>8, <1>9, <1>10, <1>11, <1>12, <1>13, <1>14, <1>15, <1>16 DEF MatrixArguments, Sets, Only
<1>19. c12["payload"] = line[6]
  BY <1>1, <1>7, <1>8, <1>9, <1>10, <1>11, <1>12, <1>13, <1>14, <1>15, <1>16 DEF MatrixArguments, Sets, Only
<1>20. Parsed(line).cfg = c12
  BY <1>2, <1>16, ReadsLast
<1> QED
  BY <1>20, <1>17, <1>18, <1>19

SweptArguments(line) ==
  /\ Sequence(line) /\ Len(line) \in {7, 9}
  /\ line[1] = "gpus" /\ line[3] = "mode" /\ line[5] = "payload" /\ line[7] = "validate"
  /\ Len(line) = 9 => line[8] \in {"chunk", "finalize_stream"}

(* Nothing of the lane mapping is set, and the results are validated. *)
Unmapped(c) ==
  c["validate"] = Yes /\ c["hoist"] = "off" /\ c["plan_metrics"] = "off" /\ c["pre_timing_delay"] = 0

LEMMA SweptFields ==
  ASSUME NEW line, SweptArguments(line)
  PROVE  \E c : /\ Parsed(line).cfg = c
                /\ c["gpus"] = Number(line[2]) /\ c["mode"] = line[4] /\ c["payload"] = line[6]
                /\ Unmapped(c)
                /\ Len(line) = 9 =>
                     /\ line[8] = "chunk" => c["chunk"] = Number(line[9])
                     /\ line[8] = "finalize_stream" => c["finalize_stream"] = line[9]
<1>1. /\ {"gpus", "mode", "payload", "hoist", "plan_metrics", "pre_timing_delay", "validate",
          "chunk", "finalize_stream"} \subseteq Fields
      /\ {"gpus", "chunk"} \subseteq NumberFlags /\ {"mode", "payload", "finalize_stream"} \subseteq WordFlags
  BY DEF Fields, Defaults, NumberFlags, WordFlags
<1>2. Sequence(line) /\ Len(line) \in {7, 9}
  BY DEF SweptArguments
<1>3. /\ SettingAt(line, 0, 1, 2) /\ SettingAt(line, 2, 3, 4) /\ SettingAt(line, 4, 5, 6) /\ SwitchAt(line, 6, 7)
      /\ Len(line) = 9 => SettingAt(line, 7, 8, 9)
  <2>1. PICK n : n = Len(line)
    OBVIOUS
  <2>2. n \in Nat /\ n >= 7
    BY <1>2, <2>1
  <2>3. /\ Settable(line[1], line[2]) /\ Settable(line[3], line[4]) /\ Settable(line[5], line[6])
        /\ line[7] \in Switches
        /\ n = 9 => Settable(line[8], line[9])
    BY <2>1 DEF SweptArguments, Settable, Switches, NumberFlags, WordFlags
  <2>4. /\ SettingAt(line, 0, 1, 2) /\ SettingAt(line, 2, 3, 4) /\ SettingAt(line, 4, 5, 6)
        /\ SwitchAt(line, 6, 7)
    BY <2>1, <2>3, <2>2 DEF SettingAt, SwitchAt
  <2>5. n = 9 => SettingAt(line, 7, 8, 9)
    BY <2>1, <2>3, <2>2 DEF SettingAt
  <2> QED
    BY <2>1, <2>4, <2>5
<1>4. PICK at, c0 : Reached(at, line, 0, c0) /\ c0 = Defaults
  BY <1>2, ReadsFirst
<1>5. PICK c1 : Reached(at, line, 2, c1) /\ Sets(c0, line[1], line[2], c1)
  BY <1>3, <1>4, ReadsSetting
<1>6. PICK c2 : Reached(at, line, 4, c2) /\ Sets(c1, line[3], line[4], c2)
  BY <1>3, <1>5, ReadsSetting
<1>7. PICK c3 : Reached(at, line, 6, c3) /\ Sets(c2, line[5], line[6], c3)
  BY <1>3, <1>6, ReadsSetting
<1>8. PICK c4 : Reached(at, line, 7, c4) /\ Only(line[7], c3, c4) /\ c4[line[7]] = Yes
  BY <1>3, <1>7, ReadsSwitch
<1>9. c0["hoist"] = "off" /\ c0["plan_metrics"] = "off" /\ c0["pre_timing_delay"] = 0
  BY <1>4 DEF Defaults
<1>10. c4["gpus"] = Number(line[2])
  BY <1>1, <1>5, <1>6, <1>7, <1>8 DEF SweptArguments, Sets, Only
<1>11. c4["mode"] = line[4]
  BY <1>1, <1>6, <1>7, <1>8 DEF SweptArguments, Sets, Only
<1>12. c4["payload"] = line[6]
  BY <1>1, <1>7, <1>8 DEF SweptArguments, Sets, Only
<1>13. Unmapped(c4)
  BY <1>1, <1>5, <1>6, <1>7, <1>8, <1>9 DEF SweptArguments, Sets, Only, Unmapped
<1>14. CASE Len(line) = 7
  <2>1. Parsed(line).cfg = c4
    BY <1>8, <1>14, ReadsLast
  <2> QED
    BY <1>10, <1>11, <1>12, <1>13, <1>14, <2>1
<1>15. CASE Len(line) = 9
  <2>1. PICK c5 : Reached(at, line, 9, c5) /\ Sets(c4, line[8], line[9], c5)
    BY <1>3, <1>8, <1>15, ReadsSetting
  <2>2. Parsed(line).cfg = c5
    BY <1>15, <2>1, ReadsLast
  <2>3. /\ c5["gpus"] = Number(line[2]) /\ c5["mode"] = line[4] /\ c5["payload"] = line[6]
        /\ Unmapped(c5)
    BY <1>1, <1>10, <1>11, <1>12, <1>13, <1>15, <2>1 DEF SweptArguments, Sets, Only, Unmapped
  <2>4. /\ line[8] = "chunk" => c5["chunk"] = Number(line[9])
        /\ line[8] = "finalize_stream" => c5["finalize_stream"] = line[9]
    BY <1>1, <2>1 DEF Sets
  <2> QED
    BY <2>2, <2>3, <2>4
<1> QED
  BY <1>2, <1>14, <1>15

Leading(spec, n) == SubSeq(spec, 1, n)
Rest(spec, n) == SubSeq(spec, n + 1, Len(spec))

LEMMA RestOf ==
  ASSUME NEW S, NEW s \in Seq(S), NEW n \in Nat, n <= Len(s), NEW q, q = Rest(s, n)
  PROVE  q \in Seq(S) /\ Len(q) = Len(s) - n /\ \A i \in 1 .. Len(s) - n : q[i] = s[n + i]
BY DEF Rest

(* The words of an arm: up to the last that is not one of ArmWords, and the rest. *)
LEMMA ArmParts ==
  ASSUME NEW spec \in Seq(STRING), NEW line, line = parse_arm(spec), line # Rejected
  PROVE  \E n \in Nat :
           /\ n >= 1 /\ n <= Len(spec) /\ \A i \in n + 1 .. Len(spec) : spec[i] \in ArmWords
           /\ \/ line = Other /\ spec[1] = "legacy"
              \/ n = 3 /\ spec[1] = "cuda" /\ line = CudaCommand(Leading(spec, n), Rest(spec, n))
              \/ n \in {4, 5} /\ spec[1] \in DOMAIN ArmGpus /\ line = NcclCommand(Leading(spec, n), Rest(spec, n))
<1>1. PICK m \in Nat : m = Len(spec) /\ DOMAIN spec = 1 .. m
  OBVIOUS
<1>2. PICK S : S = {0} \cup {i \in DOMAIN spec : spec[i] \notin ArmWords}
  OBVIOUS
<1>3. S # {} /\ S \subseteq Int /\ \A x1 \in S : x1 <= m
  BY <1>1, <1>2
<1>4. PICK n : n = Max(S)
  OBVIOUS
<1>5. n \in S /\ \A x1 \in S : n >= x1
  <2>1. m \in Int
    OBVIOUS
  <2> QED
    BY <1>3, <1>4, <2>1, MaxMember
<1>6. n \in 0 .. m /\ \A i \in n + 1 .. m : spec[i] \in ArmWords
  <2>1. n \in 0 .. m
    BY <1>1, <1>2, <1>5
  <2>2. ASSUME NEW i \in n + 1 .. m, spec[i] \notin ArmWords PROVE FALSE
    <3>1. i \in 1 .. m /\ i > n
      BY <2>1
    <3>2. i \in S
      BY <1>1, <1>2, <2>2, <3>1
    <3> QED
      BY <1>5, <2>1, <3>1, <3>2
  <2> QED
    BY <2>1, <2>2
<1>7. PICK parts, words : parts = SubSeq(spec, 1, n) /\ words = SubSeq(spec, n + 1, Len(spec))
  OBVIOUS
<1>8. line = CASE n = 0 -> Rejected
              [] n > 0 /\ parts[1] = "legacy" -> Other
              [] parts[1] = "cuda" /\ n = 3 -> CudaCommand(parts, words)
              [] parts[1] \in DOMAIN ArmGpus /\ n \in {4, 5} -> NcclCommand(parts, words)
              [] OTHER -> Rejected
  BY <1>2, <1>4, <1>7 DEF parse_arm
<1>9. PICK legacy, cuda, nccl : /\ legacy = (n > 0 /\ parts[1] = "legacy") /\ cuda = (parts[1] = "cuda" /\ n = 3)
                                /\ nccl = (parts[1] \in DOMAIN ArmGpus /\ n \in {4, 5})
  OBVIOUS
<1>10. PICK x1, y1 : x1 = CudaCommand(parts, words) /\ y1 = NcclCommand(parts, words)
  OBVIOUS
<1>11. line = CASE n = 0 -> Rejected [] legacy -> Other [] cuda -> x1 [] nccl -> y1 [] OTHER -> Rejected
  BY <1>8, <1>9, <1>10
<1>12. "legacy" # "cuda" /\ "legacy" \notin DOMAIN ArmGpus /\ "cuda" \notin DOMAIN ArmGpus
  BY DEF ArmGpus
<1>13. n # 0 /\ ((legacy /\ line = Other) \/ (cuda /\ line = x1) \/ (nccl /\ line = y1))
  <2>1. n = 0 => ~legacy /\ ~cuda /\ ~nccl
    <3>1. n = 0 => ~(n > 0) /\ n # 3 /\ n \notin {4, 5}
      OBVIOUS
    <3> QED
      BY <1>9, <3>1, Zenon
  <2>2. ~(legacy /\ cuda) /\ ~(legacy /\ nccl) /\ ~(cuda /\ nccl)
    BY <1>9, <1>12
  <2> QED
    BY <1>11, <2>1, <2>2
<1>14. n \in 1 .. m /\ parts[1] = spec[1]
  BY <1>1, <1>6, <1>7, <1>13
<1>15. parts = Leading(spec, n) /\ words = Rest(spec, n)
  BY <1>7 DEF Leading, Rest
<1>16. /\ n \in Nat /\ n >= 1 /\ n <= Len(spec) /\ \A i \in n + 1 .. Len(spec) : spec[i] \in ArmWords
  BY <1>1, <1>6, <1>14
<1> QED
  BY <1>9, <1>10, <1>13, <1>14, <1>15, <1>16

(* Of the words of a kind the first one counts. *)
LEMMA FirstOf ==
  ASSUME NEW words \in Seq(STRING), NEW S, NEW otherwise
  PROVE  \/ First(words, S, otherwise) = otherwise /\ \A i \in DOMAIN words : words[i] \notin S
         \/ \E i \in DOMAIN words : /\ words[i] \in S /\ First(words, S, otherwise) = words[i]
                                    /\ \A j \in 1 .. i - 1 : words[j] \notin S
<1>1. PICK found : found = {i \in DOMAIN words : words[i] \in S}
  OBVIOUS
<1>2. First(words, S, otherwise) = IF found = {} THEN otherwise ELSE words[Min(found)]
  BY <1>1 DEF First
<1>3. CASE found = {}
  BY <1>1, <1>2, <1>3
<1>4. CASE found # {}
  <2>1. found \in SUBSET Nat
    BY <1>1
  <2>2. PICK i : i = Min(found)
    OBVIOUS
  <2>3. i \in found /\ \A j \in found : i <= j
    BY <1>4, <2>1, <2>2, MinMember
  <2>4. i \in DOMAIN words /\ words[i] \in S /\ First(words, S, otherwise) = words[i]
    BY <1>1, <1>2, <1>4, <2>2, <2>3
  <2>5. ASSUME NEW j \in 1 .. i - 1, words[j] \in S PROVE FALSE
    <3>1. j \in DOMAIN words /\ j < i
      BY <2>4
    <3>2. j \in found /\ j \in Nat /\ i \in Nat
      BY <1>1, <2>4, <2>5, <3>1
    <3> QED
      BY <2>3, <3>1, <3>2
  <2> QED
    BY <2>4, <2>5
<1> QED
  BY <1>3, <1>4

Blank == ""
On == "on"
Off == "off"
Sync == "sync"

LEMMA OnOffLeads ==
  ASSUME NEW words \in Seq(STRING), NEW on, NEW off, on # Blank, on # off, NEW v, v = OnOff(words, on, off)
  PROVE  v \in {On, Off} /\ (v = On <=> Leads(words, on, {off}))
<1>1. PICK f, S : f = First(words, S, Blank) /\ S = {on, off}
  OBVIOUS
<1>2. \/ f = Blank /\ \A i \in DOMAIN words : words[i] \notin S
      \/ \E i \in DOMAIN words : /\ words[i] \in S /\ f = words[i]
                                 /\ \A j \in 1 .. i - 1 : words[j] \notin S
  BY <1>1, FirstOf
<1>3. v = (IF f = on THEN On ELSE Off) /\ On # Off
  BY <1>1 DEF OnOff, On, Off, Blank
<1>4. f = on => Leads(words, on, {off})
  BY <1>1, <1>2 DEF Leads
<1>5. ASSUME Leads(words, on, {off}) PROVE f = on
  <2>1. PICK i \in DOMAIN words : words[i] = on /\ \A j \in 1 .. i - 1 : words[j] # off
    BY <1>5 DEF Leads
  <2>2. PICK k \in DOMAIN words : /\ words[k] \in S /\ f = words[k]
                                 /\ \A j \in 1 .. k - 1 : words[j] \notin S
    BY <1>1, <1>2, <2>1
  <2>3. PICK n \in Nat : DOMAIN words = 1 .. n
    OBVIOUS
  <2>4. ~(i \in 1 .. k - 1)
    BY <1>1, <2>1, <2>2
  <2>5. k \in 1 .. i - 1 \/ k = i
    BY <2>3, <2>4
  <2> QED
    BY <1>1, <2>1, <2>2, <2>5
<1> QED
  BY <1>3, <1>4, <1>5

LEMMA DelayLeads ==
  ASSUME NEW words \in Seq(STRING)
  PROVE  /\ \A d \in DOMAIN Delays : Leads(words, d, DOMAIN Delays) => DelayOf(words) = Delays[d]
         /\ (\A i \in DOMAIN words : words[i] \notin DOMAIN Delays) => DelayOf(words) = "0"
<1>1. PICK f, S : f = First(words, S, Blank) /\ S = DOMAIN Delays
  OBVIOUS
<1>2. \/ f = Blank /\ \A i \in DOMAIN words : words[i] \notin S
      \/ \E i \in DOMAIN words : /\ words[i] \in S /\ f = words[i]
                                 /\ \A j \in 1 .. i - 1 : words[j] \notin S
  BY <1>1, FirstOf
<1>3. DelayOf(words) = IF f = Blank THEN "0" ELSE Delays[f]
  BY <1>1 DEF DelayOf, Blank
<1>4. Blank \notin S
  BY <1>1, WordsAssumption DEF PlainWords, Blank
<1>5. ASSUME NEW d \in S, Leads(words, d, S) PROVE f = d
  <2>1. PICK i \in DOMAIN words : words[i] = d /\ \A j \in 1 .. i - 1 : words[j] \notin S
    BY <1>5 DEF Leads
  <2>2. PICK k \in DOMAIN words : /\ words[k] \in S /\ f = words[k]
                                 /\ \A j \in 1 .. k - 1 : words[j] \notin S
    BY <1>2, <1>5, <2>1
  <2>3. PICK n \in Nat : DOMAIN words = 1 .. n
    OBVIOUS
  <2>4. ~(i \in 1 .. k - 1) /\ ~(k \in 1 .. i - 1)
    BY <1>5, <2>1, <2>2
  <2>5. k = i
    BY <2>3, <2>4
  <2> QED
    BY <2>1, <2>2, <2>5
<1> QED
  BY <1>1, <1>2, <1>3, <1>4, <1>5

(* A word of the end of an arm leads in the arm as it leads there. *)
LEMMA LeadsAtEnd ==
  ASSUME NEW spec \in Seq(STRING), NEW n \in Nat, n <= Len(spec), NEW words, words = Rest(spec, n),
         NEW w, NEW S, \A i \in 1 .. n : spec[i] # w /\ spec[i] \notin S
  PROVE  Leads(spec, w, S) <=> Leads(words, w, S)
<1>1. PICK m \in Nat : m = Len(spec) /\ DOMAIN spec = 1 .. m
  OBVIOUS
<1>2. DOMAIN words = 1 .. m - n /\ \A i \in 1 .. m - n : words[i] = spec[n + i]
  BY <1>1 DEF Rest
<1>3. ASSUME NEW i \in 1 .. m, spec[i] = w, \A j \in 1 .. i - 1 : spec[j] \notin S PROVE Leads(words, w, S)
  <2>1. PICK k : k = i - n
    OBVIOUS
  <2>2. k \in 1 .. m - n /\ n + k = i
    BY <1>3, <2>1
  <2>3. ASSUME NEW j \in 1 .. k - 1 PROVE words[j] \notin S
    <3>1. n + j \in 1 .. i - 1 /\ j \in 1 .. m - n
      BY <2>2
    <3> QED
      BY <1>2, <1>3, <3>1
  <2> QED
    BY <1>2, <1>3, <2>2, <2>3 DEF Leads
<1>4. ASSUME NEW k \in 1 .. m - n, words[k] = w, \A j \in 1 .. k - 1 : words[j] \notin S PROVE Leads(spec, w, S)
  <2>1. PICK i : i = n + k
    OBVIOUS
  <2>2. i \in 1 .. m /\ spec[i] = w
    BY <1>1, <1>2, <1>4, <2>1
  <2>3. ASSUME NEW j \in 1 .. i - 1 PROVE spec[j] \notin S
    <3>1. CASE j <= n
      <4>1. j \in 1 .. n
        BY <2>1, <3>1
      <4> QED
        BY <4>1
    <3>2. CASE j > n
      <4>1. PICK l : l = j - n
        OBVIOUS
      <4>2. l \in 1 .. k - 1 /\ l \in 1 .. m - n /\ n + l = j
        BY <1>1, <2>1, <3>2, <4>1
      <4> QED
        BY <1>2, <1>4, <4>2
    <3> QED
      BY <3>1, <3>2
  <2> QED
    BY <1>1, <2>2, <2>3 DEF Leads
<1> QED
  BY <1>1, <1>2, <1>3, <1>4 DEF Leads

(* The line of an arm: its words, and the lane mapping. *)
Follows(s, q, r, m, n) ==
  /\ Sequence(s) /\ Len(s) = m + n
  /\ \A i \in 1 .. m : s[i] = q[i]
  /\ \A i \in 1 .. n : s[m + i] = r[i]

LEMMA Following ==
  ASSUME NEW q, Sequence(q), NEW r, Sequence(r), NEW s, s = q \o r, NEW m, m = Len(q), NEW n, n = Len(r)
  PROVE  Follows(s, q, r, m, n)
BY Concatenated DEF Follows

LEMMA MappingWords ==
  ASSUME NEW g, NEW o, NEW words, NEW m, m = Mapping(g, o, words)
  PROVE  /\ Sequence(m) /\ Len(m) = 11
         /\ m[1] = "validate" /\ m[2] = "group" /\ m[3] = g /\ m[4] = "pair_order" /\ m[5] = o
         /\ m[6] = "hoist" /\ m[7] = OnOff(words, "hoist", "nohoist") /\ m[8] = "plan_metrics"
         /\ m[9] = OnOff(words, "metrics", "nometrics") /\ m[9] \in {"on", "off"}
         /\ m[10] = "pre_timing_delay" /\ m[11] = DelayOf(words)
<1>1. PICK h, t, d : /\ h = OnOff(words, "hoist", "nohoist") /\ t = OnOff(words, "metrics", "nometrics")
                     /\ d = DelayOf(words)
  OBVIOUS
<1>2. m = <<"validate", "group", g, "pair_order", o, "hoist", h, "plan_metrics", t, "pre_timing_delay", d>>
  BY <1>1 DEF Mapping
<1>3. t \in {"on", "off"}
  BY <1>1 DEF OnOff
<1>4. PICK k \in Nat : k = 11
  OBVIOUS
<1>5. m = [i \in 1 .. k |-> m[i]]
  BY <1>2, <1>4
<1>6. Sequence(m) /\ Len(m) = k
  BY <1>5, Listed
<1>7. m[7] = h /\ m[9] = t /\ m[11] = d
  BY <1>2
<1>8. /\ m[1] = "validate" /\ m[2] = "group" /\ m[3] = g /\ m[4] = "pair_order" /\ m[5] = o
      /\ m[6] = "hoist" /\ m[8] = "plan_metrics" /\ m[10] = "pre_timing_delay"
  BY <1>2
<1> QED
  BY <1>1, <1>3, <1>4, <1>6, <1>7, <1>8

(* What the mapping in a line is, from the words that follow k others. *)
MappedAs(line, k, g, o, words) ==
  /\ MappingAt(line, k)
  /\ line[k + 3] = g /\ line[k + 5] = o /\ line[k + 7] = OnOff(words, "hoist", "nohoist")
  /\ line[k + 9] = OnOff(words, "metrics", "nometrics") /\ line[k + 11] = DelayOf(words)

LEMMA MappingFollows ==
  ASSUME NEW p, Sequence(p), NEW k, k = Len(p), NEW g, NEW o, NEW words, NEW line, line = p \o Mapping(g, o, words)
  PROVE  MappedAs(line, k, g, o, words) /\ \A i \in 1 .. k : line[i] = p[i]
<1>1. PICK m, eleven : m = Mapping(g, o, words) /\ eleven = 11
  OBVIOUS
<1>2. /\ Sequence(m) /\ Len(m) = eleven
      /\ m[1] = "validate" /\ m[2] = "group" /\ m[3] = g /\ m[4] = "pair_order" /\ m[5] = o
      /\ m[6] = "hoist" /\ m[7] = OnOff(words, "hoist", "nohoist") /\ m[8] = "plan_metrics"
      /\ m[9] = OnOff(words, "metrics", "nometrics") /\ m[9] \in {"on", "off"}
      /\ m[10] = "pre_timing_delay" /\ m[11] = DelayOf(words)
  BY <1>1, MappingWords
<1>3. line = p \o m
  BY <1>1
<1>4. Follows(line, p, m, k, eleven)
  BY <1>2, <1>3, Following
<1>5. k \in Nat
  BY DEF Sequence
<1>6. /\ Sequence(line) /\ Len(line) = k + 11 /\ \A i \in 1 .. 11 : line[k + i] = m[i]
      /\ \A i \in 1 .. k : line[i] = p[i]
  BY <1>1, <1>4 DEF Follows
<1>7. /\ line[k + 1] = m[1] /\ line[k + 2] = m[2] /\ line[k + 3] = m[3] /\ line[k + 4] = m[4]
      /\ line[k + 5] = m[5] /\ line[k + 6] = m[6] /\ line[k + 7] = m[7] /\ line[k + 8] = m[8]
      /\ line[k + 9] = m[9] /\ line[k + 10] = m[10] /\ line[k + 11] = m[11]
  <2>1. /\ 1 \in 1 .. 11 /\ 2 \in 1 .. 11 /\ 3 \in 1 .. 11 /\ 4 \in 1 .. 11 /\ 5 \in 1 .. 11 /\ 6 \in 1 .. 11
        /\ 7 \in 1 .. 11 /\ 8 \in 1 .. 11 /\ 9 \in 1 .. 11 /\ 10 \in 1 .. 11 /\ 11 \in 1 .. 11
    OBVIOUS
  <2> QED
    BY <1>6, <2>1, Zenon
<1> QED
  BY <1>2, <1>5, <1>6, <1>7 DEF MappedAs, MappingAt

LEMMA ArmLine ==
  ASSUME NEW spec \in Seq(STRING), NEW n \in Nat, n >= 4, n <= 5, n <= Len(spec), NEW parts, parts = Leading(spec, n),
         NEW words, NEW line, line = NcclCommand(parts, words)
  PROVE  /\ ArmArguments(line) /\ MappedAs(line, 6, spec[2], spec[3], words)
         /\ line[2] = ArmGpus[spec[1]] /\ (n = 5 => line[4] = spec[5]) /\ (n # 5 => line[4] = Sync)
         /\ line[6] = spec[4]
<1>1. Len(parts) = n /\ \A i \in 1 .. n : parts[i] = spec[i]
  BY DEF Leading
<1>2. parts[1] = spec[1] /\ parts[2] = spec[2] /\ parts[3] = spec[3] /\ parts[4] = spec[4]
      /\ (n = 5 => parts[5] = spec[5])
  BY <1>1
<1>3. PICK g, m, y1 : g = ArmGpus[parts[1]] /\ m = ModeOf(parts) /\ y1 = parts[4]
  OBVIOUS
<1>4. PICK p : p = <<"gpus", g, "mode", m, "payload", y1>>
  OBVIOUS
<1>5. PICK six : six = 6
  OBVIOUS
<1>6. Sequence(p) /\ Len(p) = six
  <2>1. p = [i \in 1 .. six |-> p[i]] /\ six \in Nat
    BY <1>4, <1>5
  <2> QED
    BY <2>1, Listed
<1>7. PICK r, o : r = spec[2] /\ o = spec[3]
  OBVIOUS
<1>8. line = p \o Mapping(r, o, words)
  BY <1>2, <1>3, <1>4, <1>7 DEF NcclCommand
<1>9. MappedAs(line, six, r, o, words) /\ \A i \in 1 .. six : line[i] = p[i]
  <2>1. MappedAs(line, six, r, o, words)
    BY <1>6, <1>8, MappingFollows
  <2>2. \A i \in 1 .. six : line[i] = p[i]
    BY <1>6, <1>8, MappingFollows
  <2> QED
    BY <2>1, <2>2
<1>10. line[1] = "gpus" /\ line[2] = g /\ line[3] = "mode" /\ line[4] = m /\ line[5] = "payload" /\ line[6] = y1
  BY <1>4, <1>5, <1>9
<1>11. m = IF n = 5 THEN spec[5] ELSE "sync"
  BY <1>1, <1>2, <1>3 DEF ModeOf
<1>12. ArmArguments(line)
  BY <1>5, <1>9, <1>10 DEF ArmArguments, MappedAs
<1> QED
  BY <1>2, <1>3, <1>5, <1>7, <1>9, <1>10, <1>11, <1>12 DEF Sync

(* The cuda backend's words begin after the name of the backend. *)
LEMMA CudaLine ==
  ASSUME NEW parts, NEW words, NEW line, line = CudaCommand(parts, words), NEW g, g = parts[2], NEW o, o = parts[3]
  PROVE  OnCuda(line) /\ line # Other /\ MappedAs(SubSeq(line, 3, Len(line)), 0, g, o, words)
<1>1. PICK p, two, m, eleven : p = <<"backend", "cuda">> /\ two = 2 /\ m = Mapping(g, o, words) /\ eleven = 11
  OBVIOUS
<1>2. line = p \o m
  BY <1>1 DEF CudaCommand
<1>3. Sequence(p) /\ Len(p) = two
  <2>1. p = [i \in 1 .. two |-> p[i]] /\ two \in Nat
    BY <1>1
  <2> QED
    BY <2>1, Listed
<1>4. Sequence(m) /\ Len(m) = eleven
  BY <1>1, MappingWords
<1>5. Follows(line, p, m, two, eleven)
  BY <1>2, <1>3, <1>4, Following
<1>6. /\ Sequence(line) /\ Len(line) = 13 /\ line[1] = "backend"
      /\ \A i \in 1 .. 11 : line[2 + i] = m[i]
  <2>1. 1 \in 1 .. two /\ p[1] = "backend"
    BY <1>1
  <2> QED
    BY <1>1, <1>5, <2>1 DEF Follows
<1>7. OnCuda(line) /\ line # Other
  <2>1. ASSUME line = <<>> PROVE FALSE
    <3>1. Len(line) = 0
      BY <2>1
    <3> QED
      BY <1>6, <3>1
  <2> QED
    BY <1>6, <2>1 DEF OnCuda, Other
<1>8. PICK q : q = SubSeq(line, 3, Len(line))
  OBVIOUS
<1>9. q = m
  <2>1. PICK S : line \in Seq(S)
    BY <1>6 DEF Sequence
  <2>2. q \in Seq(S) /\ Len(q) = 11 /\ \A i \in 1 .. 11 : q[i] = line[2 + i]
    <3>1. q = Rest(line, two) /\ two \in Nat /\ two <= Len(line) /\ Len(line) - two = 11
      BY <1>1, <1>6, <1>8 DEF Rest
    <3>2. q \in Seq(S) /\ Len(q) = Len(line) - two /\ \A i \in 1 .. Len(line) - two : q[i] = line[two + i]
      BY <2>1, <3>1, RestOf
    <3> QED
      BY <1>1, <3>1, <3>2
  <2>3. PICK R : m \in Seq(R)
    BY <1>4 DEF Sequence
  <2>4. DOMAIN q = 1 .. 11 /\ DOMAIN m = 1 .. 11
    BY <1>1, <1>4, <2>2, <2>3
  <2> QED
    BY <1>6, <2>2, <2>3, <2>4
<1>10. PICK empty, none : empty = <<>> /\ none = 0
  OBVIOUS
<1>11. Sequence(empty) /\ Len(empty) = none
  BY <1>10 DEF Sequence
<1>12. m = empty \o m
  <2>1. PICK R : m \in Seq(R)
    BY <1>4 DEF Sequence
  <2> QED
    BY <1>10, <2>1
<1>13. MappedAs(m, none, g, o, words)
  BY <1>1, <1>11, <1>12, MappingFollows
<1> QED
  BY <1>7, <1>8, <1>9, <1>10, <1>13

(* What the record says of the configuration the process has accepted. *)
AsAsked(c, rec) ==
  /\ rec.mode = c["mode"] /\ rec.gpus = c["gpus"] /\ rec.chunk = c["chunk"] /\ rec.group = c["group"]
  /\ rec.pair_order = c["pair_order"] /\ rec.hoist = c["hoist"] /\ rec.plan_metrics = c["plan_metrics"]
  /\ rec.payload = c["payload"]
  /\ rec.finalize_stream = IF c["mode"] = "sync" THEN "not_applicable" ELSE c["finalize_stream"]
  /\ rec.pre_timing_delay = c["pre_timing_delay"] /\ rec.validation_ran = c["validate"]
  /\ rec.kind \in {"resident", "device", "pipeline"}

(* A trial is truthful when an accepted process' record shows its arm. *)
Truthful(arm, line) ==
  /\ line = Other => arm[1] \in {"legacy", "serial", "cuda_1gpu"}
  /\ OnCuda(line) /\ CudaAccepts(line) => \A outcome : Shows(arm, RecordOf(line, outcome))
  /\ line # Other /\ ~OnCuda(line) /\ Accepts(line) => \A rec : AsAsked(Parsed(line).cfg, rec) => Shows(arm, rec)

LEMMA AcceptedWords ==
  ASSUME NEW c, ~Refused(c)
  PROVE  /\ c["mode"] \in {"sync", "async"} /\ c["payload"] \in {"f64", "i32", "packed"}
         /\ c["pair_order"] \in {"source", "bylen"} /\ c["group"] \in {1, 2, 4, 8, 16, 32}
         /\ c["hoist"] \in {"on", "off"} /\ c["gpus"] \in 1 .. Visible
         /\ c["mode"] = "sync" => c["finalize_stream"] = "comm"
         /\ c["finalize_stream"] \in {"comm", "separate"}
BY DEF Refused, BadWord, BadNumber, BadMapping, BadFinalize

LEMMA AcceptedMapping ==
  ASSUME NEW c, ~BadMapping(c)
  PROVE  c["pair_order"] \in {"source", "bylen"} /\ c["group"] \in {1, 2, 4, 8, 16, 32}
BY DEF BadMapping

LEMMA NumberWord ==
  ASSUME NEW w, Number(w) \in Nat \ {0}
  PROVE  w \in DOMAIN Atoi /\ Atoi[w] = Number(w)
BY DEF Number

LEMMA WordKinds ==
  /\ DOMAIN ArmGpus = {"nccl", "nccl1", "nccl2"}
  /\ Number(ArmGpus["nccl"]) = 2 /\ Number(ArmGpus["nccl1"]) = 1 /\ Number(ArmGpus["nccl2"]) = 2
  /\ \A w \in {"nccl", "nccl1", "nccl2", "hoist", "nohoist", "metrics", "nometrics", "sync", "async",
               "f64", "i32", "packed", "source", "bylen", "comm", "separate", "chunk",
               "finalize_stream", "p2pon", "p2poff", "cuda"} :
       w \notin DOMAIN Atoi /\ w \notin DOMAIN Delays
  /\ \A w \in DOMAIN Delays : w \notin DOMAIN Atoi
<1>1. DOMAIN ArmGpus = {"nccl", "nccl1", "nccl2"}
  BY DEF ArmGpus
<1>2. Number("1") = 1 /\ Number("2") = 2
  BY WordsAssumption DEF Number
<1>3. ArmGpus["nccl"] = "2" /\ ArmGpus["nccl1"] = "1" /\ ArmGpus["nccl2"] = "2"
  BY DEF ArmGpus
<1>4. Number(ArmGpus["nccl"]) = 2 /\ Number(ArmGpus["nccl1"]) = 1 /\ Number(ArmGpus["nccl2"]) = 2
  BY <1>2, <1>3
<1>5. \A w \in PlainWords : w \notin DOMAIN Atoi /\ w \notin DOMAIN Delays
  BY WordsAssumption
<1>6. {"nccl", "nccl1", "nccl2", "hoist", "nohoist", "metrics", "nometrics", "sync", "async",
               "f64", "i32", "packed", "source", "bylen", "comm", "separate", "chunk",
               "finalize_stream", "p2pon", "p2poff", "cuda"} \subseteq PlainWords
  BY <1>1 DEF PlainWords
<1>7. \A w \in DOMAIN Delays : w \notin DOMAIN Atoi
  BY WordsAssumption
<1> QED
  BY <1>1, <1>4, <1>5, <1>6, <1>7

(* The kinds of the words of an arm that the command line has accepted. *)
ArmKinds(spec, n, words, c) ==
  /\ \A w \in ToSet(spec) :
       \/ w = spec[1] \/ (w \in DOMAIN Atoi /\ Atoi[w] = c["group"]) \/ w = c["pair_order"] \/ w = c["payload"]
       \/ (n = 5 /\ w = c["mode"])
       \/ (w \in ArmWords /\ \E i \in DOMAIN words : words[i] = w)
  /\ \A i \in DOMAIN words : words[i] \in ToSet(spec) /\ words[i] \in ArmWords
  /\ spec[1] \in ToSet(spec) /\ spec[1] \in DOMAIN ArmGpus /\ c["gpus"] = Number(ArmGpus[spec[1]])
  /\ n = 5 => c["mode"] \in ToSet(spec)
  /\ n # 5 => c["mode"] = "sync"

LEMMA ArmKindsHold ==
  ASSUME NEW spec \in Seq(STRING), NEW n \in {4, 5}, n <= Len(spec), spec[1] \in DOMAIN ArmGpus,
         \A i \in n + 1 .. Len(spec) : spec[i] \in ArmWords,
         NEW words, words = SubSeq(spec, n + 1, Len(spec)), NEW c, ~Refused(c),
         c["gpus"] = Number(ArmGpus[spec[1]]), c["mode"] = (IF n = 5 THEN spec[5] ELSE "sync"),
         c["payload"] = spec[4], c["group"] = Number(spec[2]), c["pair_order"] = spec[3]
  PROVE  ArmKinds(spec, n, words, c)
<1>1. PICK m \in Nat : m = Len(spec) /\ DOMAIN spec = 1 .. m
  OBVIOUS
<1>2. ToSet(spec) = {spec[i] : i \in 1 .. m}
  BY <1>1 DEF ToSet
<1>3. DOMAIN words = 1 .. m - n /\ \A i \in 1 .. m - n : words[i] = spec[n + i]
  BY <1>1
<1>4. c["group"] \in Nat \ {0}
  <2>1. c["group"] \in {1, 2, 4, 8, 16, 32}
    BY AcceptedWords
  <2> QED
    BY <2>1
<1>5. spec[2] \in DOMAIN Atoi /\ Atoi[spec[2]] = c["group"]
  BY <1>4, NumberWord
<1>6. ASSUME NEW w \in ToSet(spec)
      PROVE  \/ w = spec[1] \/ (w \in DOMAIN Atoi /\ Atoi[w] = c["group"])
             \/ w = c["pair_order"] \/ w = c["payload"]
             \/ (n = 5 /\ w = c["mode"])
             \/ (w \in ArmWords /\ \E i \in DOMAIN words : words[i] = w)
  <2>1. PICK i \in 1 .. m : w = spec[i]
    BY <1>2
  <2>2. CASE i <= 4
    <3>1. i = 1 \/ i = 2 \/ i = 3 \/ i = 4
      BY <2>2
    <3> QED
      BY <1>5, <2>1, <3>1
  <2>3. CASE i = 5 /\ n = 5
    BY <2>1, <2>3
  <2>4. CASE i > n
    <3>1. PICK j : j = i - n
      OBVIOUS
    <3>2. j \in 1 .. m - n /\ n + j = i /\ i \in n + 1 .. m
      BY <1>1, <2>4, <3>1
    <3> QED
      BY <1>1, <1>3, <2>1, <3>2
  <2> QED
    BY <2>2, <2>3, <2>4
<1>7. ASSUME NEW i \in DOMAIN words PROVE words[i] \in ToSet(spec) /\ words[i] \in ArmWords
  <2>1. n + i \in n + 1 .. m /\ n + i \in 1 .. m
    BY <1>1, <1>3
  <2> QED
    BY <1>1, <1>2, <1>3, <2>1
<1>8. spec[1] \in ToSet(spec) /\ (n = 5 => spec[5] \in ToSet(spec))
  BY <1>1, <1>2
<1> QED
  BY <1>6, <1>7, <1>8 DEF ArmKinds

(* The beginning of an accepted arm has no word that is one of its end. *)
ArmNames == {"cuda", "nccl", "nccl1", "nccl2", "f64", "i32", "packed", "sync", "async"}

LEMMA MappingShown ==
  ASSUME NEW spec \in Seq(STRING), NEW n \in Nat, n >= 3, n <= Len(spec),
         \A i \in n + 1 .. Len(spec) : spec[i] \in ArmWords,
         \A i \in 1 .. n : i = 2 \/ i = 3 \/ spec[i] \in ArmNames,
         NEW words, words = Rest(spec, n), NEW k, NEW line, MappedAs(line, k, spec[2], spec[3], words),
         NEW c, Mapped(c, line, k),
         c["pair_order"] \in {"source", "bylen"}, c["group"] \in {1, 2, 4, 8, 16, 32},
         NEW rec, rec.group = c["group"], rec.pair_order = c["pair_order"], rec.hoist = c["hoist"],
         rec.plan_metrics = c["plan_metrics"], rec.pre_timing_delay = c["pre_timing_delay"]
  PROVE  ShowsMapping(spec, rec) /\ \A numbers : rec.group \in numbers => ShowsNumbers(spec, numbers)
<1>1. PICK m \in Nat : m = Len(spec) /\ DOMAIN spec = 1 .. m
  OBVIOUS
<1>2. /\ rec.group = Number(spec[2]) /\ rec.pair_order = spec[3]
      /\ rec.hoist = OnOff(words, "hoist", "nohoist")
      /\ rec.plan_metrics = OnOff(words, "metrics", "nometrics")
      /\ rec.pre_timing_delay = Number(DelayOf(words))
  BY Zenon DEF Mapped, MappedAs
<1>3. words \in Seq(STRING)
  BY RestOf
<1>4. spec[2] \in DOMAIN Atoi /\ Atoi[spec[2]] = rec.group
  <2>1. Number(spec[2]) \in Nat \ {0}
    BY <1>2
  <2> QED
    BY <1>2, <2>1, NumberWord
<1>5. PICK T : T = {"hoist", "nohoist", "metrics", "nometrics"} \cup DOMAIN Delays
  OBVIOUS
<1>6. ASSUME NEW i \in 1 .. n PROVE spec[i] \notin T
  <2>1. CASE i = 2
    BY <1>4, <1>5, <2>1, WordKinds
  <2>2. CASE i = 3
    <3>1. spec[3] \in {"source", "bylen"}
      BY <1>2
    <3> QED
      BY <1>5, <2>2, <3>1, WordKinds
  <2>3. CASE spec[i] \in ArmNames
    BY <1>5, <2>3, WordKinds DEF ArmNames
  <2> QED
    BY <2>1, <2>2, <2>3
<1>7. ASSUME NEW w \in T, NEW U, U \subseteq T PROVE Leads(spec, w, U) <=> Leads(words, w, U)
  <2>1. \A i \in 1 .. n : spec[i] # w /\ spec[i] \notin U
    BY <1>6, <1>7
  <2> QED
    BY <2>1, LeadsAtEnd
<1>8. (rec.hoist = "on") = Leads(spec, "hoist", {"nohoist"})
  <2>1. PICK on, off, U, v : on = "hoist" /\ off = "nohoist" /\ U = {off} /\ v = OnOff(words, on, off)
    OBVIOUS
  <2>2. v = On <=> Leads(words, on, {off})
    <3>1. on # Blank /\ on # off
      BY <2>1 DEF Blank
    <3> QED
      BY <1>3, <2>1, <3>1, OnOffLeads
  <2>3. Leads(spec, on, U) <=> Leads(words, on, U)
    BY <1>5, <1>7, <2>1
  <2>4. rec.hoist = v
    BY <1>2, <2>1
  <2>5. (v = On) = Leads(spec, on, U)
    BY <2>1, <2>2, <2>3 DEF Leads
  <2> QED
    BY <2>1, <2>4, <2>5, Zenon DEF On
<1>9. (rec.plan_metrics = "on") = Leads(spec, "metrics", {"nometrics"})
  <2>1. PICK on, off, U, v : on = "metrics" /\ off = "nometrics" /\ U = {off} /\ v = OnOff(words, on, off)
    OBVIOUS
  <2>2. v = On <=> Leads(words, on, {off})
    <3>1. on # Blank /\ on # off
      BY <2>1 DEF Blank
    <3> QED
      BY <1>3, <2>1, <3>1, OnOffLeads
  <2>3. Leads(spec, on, U) <=> Leads(words, on, U)
    BY <1>5, <1>7, <2>1
  <2>4. rec.plan_metrics = v
    BY <1>2, <2>1
  <2>5. (v = On) = Leads(spec, on, U)
    BY <2>1, <2>2, <2>3 DEF Leads
  <2> QED
    BY <2>1, <2>4, <2>5, Zenon DEF On
<1>10. ASSUME NEW d \in DOMAIN Delays, Leads(spec, d, DOMAIN Delays) PROVE rec.pre_timing_delay = Number(Delays[d])
  <2>1. PICK U : U = DOMAIN Delays
    OBVIOUS
  <2>2. d \in T /\ U \subseteq T
    BY <1>5, <2>1
  <2>3. Leads(words, d, U)
    BY <1>7, <1>10, <2>1, <2>2
  <2>4. DelayOf(words) = Delays[d]
    BY <1>3, <2>1, <2>3, DelayLeads
  <2> QED
    BY <1>2, <2>4
<1>11. ASSUME ToSet(spec) \cap DOMAIN Delays = {} PROVE rec.pre_timing_delay = 0
  <2>1. ASSUME NEW i \in DOMAIN words PROVE words[i] \notin DOMAIN Delays
    <3>1. Len(words) = m - n /\ \A j \in 1 .. m - n : words[j] = spec[n + j]
      BY <1>1 DEF Rest
    <3>2. i \in 1 .. m - n /\ n + i \in 1 .. m
      BY <1>1, <1>3, <3>1
    <3>3. words[i] \in ToSet(spec)
      BY <1>1, <3>1, <3>2 DEF ToSet
    <3> QED
      BY <1>11, <3>3
  <2>2. DelayOf(words) = "0"
    BY <1>3, <2>1, DelayLeads
  <2> QED
    BY <1>2, <2>2, WordsAssumption
<1>12. ASSUME NEW w \in ToSet(spec)
       PROVE  /\ w \in {"source", "bylen"} => w = rec.pair_order
              /\ w \in DOMAIN Atoi => Atoi[w] = rec.group
  <2>1. PICK i \in 1 .. m : w = spec[i]
    BY <1>1 DEF ToSet
  <2>2. CASE i > n
    <3>1. i \in n + 1 .. Len(spec)
      BY <1>1, <2>2
    <3>2. w \in ArmWords
      BY <2>1, <3>1
    <3> QED
      BY <3>2, WordKinds DEF ArmWords
  <2>3. CASE i <= n
    <3>1. i \in 1 .. n
      BY <2>3
    <3>2. CASE i = 2
      BY <1>4, <2>1, <3>2, WordKinds
    <3>3. CASE i = 3
      <4>1. w = rec.pair_order /\ w \in {"source", "bylen"}
        BY <1>2, <2>1, <3>3
      <4> QED
        BY <4>1, WordKinds
    <3>4. CASE spec[i] \in ArmNames
      BY <2>1, <3>4, WordKinds DEF ArmNames
    <3> QED
      BY <3>1, <3>2, <3>3, <3>4
  <2> QED
    BY <1>1, <2>2, <2>3
<1>13. ShowsMapping(spec, rec)
  <2>1. ToSet(spec) \cap {"source", "bylen"} \subseteq {rec.pair_order}
    BY <1>12
  <2> QED
    BY <1>8, <1>9, <1>10, <1>11, <2>1, Zenon DEF ShowsMapping
<1> QED
  BY <1>12, <1>13 DEF ShowsNumbers

(* What an NCCL arm says of the run. *)
LEMMA RunShown ==
  ASSUME NEW spec, NEW n \in {4, 5}, NEW words, NEW c, ~Refused(c), ArmKinds(spec, n, words, c),
         NEW rec, AsAsked(c, rec)
  PROVE  ShowsRun(spec, rec)
<1>1. ~Refused(c) /\ AsAsked(c, rec) /\ ArmKinds(spec, n, words, c)
  OBVIOUS
<1>2. PICK W : W = ToSet(spec)
  OBVIOUS
<1>3. rec.mode = IF "async" \in W THEN "async" ELSE "sync"
  <2>1. rec.mode = c["mode"] /\ c["mode"] \in {"sync", "async"}
    BY <1>1, AcceptedWords DEF AsAsked
  <2>2. c["mode"] = "async" => "async" \in W
    BY <1>1, <1>2 DEF ArmKinds
  <2>3. "async" \in W => c["mode"] = "async"
    BY <1>1, <1>2, AcceptedWords, WordKinds DEF ArmKinds, ArmWords
  <2> QED
    BY <2>1, <2>2, <2>3
<1>4. W \cap {"f64", "i32", "packed"} \subseteq {rec.payload}
  <2>1. rec.payload = c["payload"]
    BY <1>1 DEF AsAsked
  <2>2. ASSUME NEW w \in {"f64", "i32", "packed"}, w \in W PROVE w = c["payload"]
    BY <1>1, <1>2, <2>2, AcceptedWords, WordKinds DEF ArmKinds, ArmWords
  <2> QED
    BY <2>1, <2>2
<1>5. W \cap {"comm", "separate"} \subseteq {rec.finalize_stream}
  <2>1. ASSUME NEW w \in {"comm", "separate"}, w \in W PROVE FALSE
    BY <1>1, <1>2, <2>1, AcceptedWords, WordKinds DEF ArmKinds, ArmWords
  <2> QED
    BY <2>1
<1>6. rec.gpus = IF "nccl1" \in W THEN 1 ELSE 2
  <2>1. rec.gpus = Number(ArmGpus[spec[1]])
    BY <1>1, <1>2 DEF AsAsked, ArmKinds
  <2>2. "nccl1" \in W <=> spec[1] = "nccl1"
    BY <1>1, <1>2, AcceptedWords, WordKinds DEF ArmKinds, ArmWords
  <2>3. spec[1] = "nccl" \/ spec[1] = "nccl1" \/ spec[1] = "nccl2"
    BY <1>1, WordKinds DEF ArmKinds
  <2> QED
    BY <2>1, <2>2, <2>3, WordKinds
<1> QED
  BY <1>2, <1>3, <1>4, <1>5, <1>6 DEF ShowsRun

LEMMA NcclTruthful ==
  ASSUME NEW spec \in Seq(STRING), NEW n \in {4, 5}, n <= Len(spec), spec[1] \in DOMAIN ArmGpus,
         \A i \in n + 1 .. Len(spec) : spec[i] \in ArmWords,
         NEW line, line = NcclCommand(Leading(spec, n), Rest(spec, n)), Accepts(line),
         NEW rec, AsAsked(Parsed(line).cfg, rec)
  PROVE  Shows(spec, rec)
<1>1. PICK words, six : words = Rest(spec, n) /\ six = 6
  OBVIOUS
<1>2. /\ ArmArguments(line) /\ MappedAs(line, six, spec[2], spec[3], words)
      /\ line[2] = ArmGpus[spec[1]] /\ (n = 5 => line[4] = spec[5]) /\ (n # 5 => line[4] = Sync)
      /\ line[6] = spec[4]
  <2>1. PICK parts : parts = Leading(spec, n)
    OBVIOUS
  <2>2. line = NcclCommand(parts, words)
    BY <1>1, <2>1
  <2>3. n \in Nat /\ n >= 4 /\ n <= 5 /\ n <= Len(spec)
    OBVIOUS
  <2> QED
    BY <1>1, <2>1, <2>2, <2>3, ArmLine
<1>3. Complete(Parsed(line)) /\ ~Refused(Parsed(line).cfg)
  BY DEF Accepts
<1>4. PICK c : /\ Parsed(line).cfg = c /\ Mapped(c, line, six)
               /\ c["gpus"] = Number(line[2]) /\ c["mode"] = line[4] /\ c["payload"] = line[6]
  BY <1>1, <1>2, <1>3, ArmFields
<1>5. ~Refused(c) /\ AsAsked(c, rec)
  BY <1>3, <1>4
<1>6. /\ c["gpus"] = Number(ArmGpus[spec[1]]) /\ c["mode"] = (IF n = 5 THEN spec[5] ELSE "sync")
      /\ c["payload"] = spec[4] /\ c["group"] = Number(spec[2]) /\ c["pair_order"] = spec[3]
  BY <1>2, <1>4 DEF Sync, Mapped, MappedAs
<1>7. ArmKinds(spec, n, words, c)
  BY <1>1, <1>5, <1>6, ArmKindsHold DEF Rest
<1>8. ShowsRun(spec, rec)
  BY <1>5, <1>7, RunShown
<1>9. ShowsMapping(spec, rec) /\ \A numbers : rec.group \in numbers => ShowsNumbers(spec, numbers)
  <2>1. c["pair_order"] \in {"source", "bylen"} /\ c["group"] \in {1, 2, 4, 8, 16, 32}
        /\ c["mode"] \in {"sync", "async"} /\ c["payload"] \in {"f64", "i32", "packed"}
    BY <1>5, AcceptedWords
  <2>2. /\ rec.group = c["group"] /\ rec.pair_order = c["pair_order"] /\ rec.hoist = c["hoist"]
        /\ rec.plan_metrics = c["plan_metrics"] /\ rec.pre_timing_delay = c["pre_timing_delay"]
    BY <1>5 DEF AsAsked
  <2>3. ASSUME NEW i \in 1 .. n PROVE i = 2 \/ i = 3 \/ spec[i] \in ArmNames
    <3>1. i \in {1, 2, 3, 4} \/ (i = 5 /\ n = 5)
      OBVIOUS
    <3>2. spec[1] \in ArmNames
      BY WordKinds DEF ArmNames
    <3>3. spec[4] \in ArmNames /\ (n = 5 => spec[5] \in ArmNames)
      BY <1>6, <2>1 DEF ArmNames
    <3> QED
      BY <3>1, <3>2, <3>3
  <2>4. n \in Nat /\ n >= 3
    OBVIOUS
  <2>5. MappedAs(line, six, spec[2], spec[3], words) /\ Mapped(c, line, six)
    BY <1>2, <1>4
  <2> HIDE DEF MappedAs, Mapped, ShowsMapping, ShowsNumbers
  <2> QED
    BY <1>1, <2>1, <2>2, <2>3, <2>4, <2>5, MappingShown
<1>10. rec.validation_ran /\ rec.kind # "other" /\ rec.kind # "cuda"
  <2>1. rec.validation_ran = c["validate"] /\ rec.kind \in {"resident", "device", "pipeline"}
    BY <1>5 DEF AsAsked
  <2>2. c["validate"] = TRUE
    BY <1>4 DEF Mapped, Yes
  <2> QED
    BY <2>1, <2>2
<1>11. ShowsNumbers(spec, {rec.group, rec.chunk})
  BY <1>9
<1> QED
  BY <1>8, <1>9, <1>10, <1>11 DEF Shows

LEMMA CudaTruthful ==
  ASSUME NEW spec \in Seq(STRING), NEW n, n = 3, n <= Len(spec), spec[1] = "cuda",
         \A i \in n + 1 .. Len(spec) : spec[i] \in ArmWords,
         NEW line, line = CudaCommand(Leading(spec, n), Rest(spec, n)), CudaAccepts(line), NEW outcome
  PROVE  Shows(spec, RecordOf(line, outcome))
<1>1. PICK parts, words : parts = Leading(spec, n) /\ words = Rest(spec, n)
  OBVIOUS
<1>2. parts[2] = spec[2] /\ parts[3] = spec[3]
  BY <1>1 DEF Leading
<1>3. PICK q, none : q = SubSeq(line, 3, Len(line)) /\ none = 0
  OBVIOUS
<1>4. OnCuda(line) /\ MappedAs(q, none, spec[2], spec[3], words)
  BY <1>1, <1>2, <1>3, CudaLine
<1>5. Complete(Parsed(q)) /\ ~BadMapping(Parsed(q).cfg)
  BY <1>3 DEF CudaAccepts, CudaConfig
<1>6. PICK d : Parsed(q).cfg = d /\ Mapped(d, q, none)
  <2>1. MappingAt(q, none) /\ Sequence(q)
    BY <1>4 DEF MappedAs, MappingAt
  <2>2. PICK at, c : Reached(at, q, none, c)
    BY <1>3, <2>1, ReadsFirst
  <2> QED
    BY <1>5, <2>1, <2>2, MappingFields
<1>7. PICK rec : rec = CudaRecord(d, outcome)
  OBVIOUS
<1>8. RecordOf(line, outcome) = rec
  BY <1>3, <1>4, <1>6, <1>7 DEF RecordOf, CudaConfig
<1>9. /\ rec.kind = "cuda" /\ rec.group = d["group"] /\ rec.pair_order = d["pair_order"]
      /\ rec.hoist = d["hoist"] /\ rec.plan_metrics = d["plan_metrics"]
      /\ rec.pre_timing_delay = d["pre_timing_delay"] /\ rec.validation_ran = d["validate"]
  BY <1>7 DEF CudaRecord
<1>10. ShowsMapping(spec, rec) /\ \A numbers : rec.group \in numbers => ShowsNumbers(spec, numbers)
  <2>1. d["pair_order"] \in {"source", "bylen"} /\ d["group"] \in {1, 2, 4, 8, 16, 32}
    BY <1>5, <1>6, AcceptedMapping
  <2>2. ASSUME NEW i \in 1 .. n PROVE i = 2 \/ i = 3 \/ spec[i] \in ArmNames
    BY DEF ArmNames
  <2>3. n \in Nat /\ n >= 3
    OBVIOUS
  <2> QED
    BY <1>1, <1>4, <1>6, <1>9, <2>1, <2>2, <2>3, MappingShown
<1>11. rec.validation_ran
  BY <1>6, <1>9 DEF Mapped, Yes
<1>12. ShowsNumbers(spec, {rec.group})
  BY <1>10
<1> QED
  BY <1>8, <1>9, <1>10, <1>11, <1>12 DEF Shows

LEMMA OtherLine == ~OnCuda(Other)
BY DEF OnCuda, Other

LEMMA ArmTruthful ==
  ASSUME NEW spec \in Seq(STRING), NEW line, line = parse_arm(spec), line # Rejected
  PROVE  Truthful(spec, line)
<1>1. PICK n \in Nat :
           /\ n >= 1 /\ n <= Len(spec) /\ \A i \in n + 1 .. Len(spec) : spec[i] \in ArmWords
           /\ \/ line = Other /\ spec[1] = "legacy"
              \/ n = 3 /\ spec[1] = "cuda" /\ line = CudaCommand(Leading(spec, n), Rest(spec, n))
              \/ n \in {4, 5} /\ spec[1] \in DOMAIN ArmGpus /\ line = NcclCommand(Leading(spec, n), Rest(spec, n))
  BY ArmParts
<1>2. CASE line = Other /\ spec[1] = "legacy"
  BY <1>2, OtherLine DEF Truthful
<1>3. CASE n = 3 /\ spec[1] = "cuda" /\ line = CudaCommand(Leading(spec, n), Rest(spec, n))
  <2>1. OnCuda(line) /\ line # Other
    BY <1>3, CudaLine
  <2>2. CudaAccepts(line) => \A outcome : Shows(spec, RecordOf(line, outcome))
    BY <1>1, <1>3, CudaTruthful
  <2> QED
    BY <2>1, <2>2 DEF Truthful
<1>4. CASE n \in {4, 5} /\ spec[1] \in DOMAIN ArmGpus /\ line = NcclCommand(Leading(spec, n), Rest(spec, n))
  <2>1. line # Other /\ ~OnCuda(line)
    <3>1. PICK parts, words : parts = Leading(spec, n) /\ words = Rest(spec, n)
      OBVIOUS
    <3>2. ArmArguments(line)
      <4>1. n \in Nat /\ n >= 4 /\ n <= 5 /\ n <= Len(spec) /\ line = NcclCommand(parts, words)
        BY <1>1, <1>4, <3>1
      <4> QED
        BY <3>1, <4>1, ArmLine
    <3>3. line[1] = "gpus"
      BY <3>2 DEF ArmArguments
    <3> QED
      BY <3>3 DEF OnCuda, Other
  <2>2. Accepts(line) => \A rec : AsAsked(Parsed(line).cfg, rec) => Shows(spec, rec)
    BY <1>1, <1>4, NcclTruthful
  <2> QED
    BY <2>1, <2>2 DEF Truthful
<1> QED
  BY <1>1, <1>2, <1>3, <1>4

(* The words of a configuration of gpu_sweeps, p2p_ab or repro_session, and its line. *)
SweptWords(arm, line, mode, form) ==
  /\ line[2] = "2" /\ line[4] = mode /\ line[6] = form
  /\ mode \in {"sync", "async"} /\ form \in {"f64", "packed"}
  /\ mode \in ToSet(arm) /\ form \in ToSet(arm)
  /\ \A w \in ToSet(arm) : \/ w \in {mode, form, "p2pon", "p2poff"}
                           \/ Len(line) = 9 /\ (w = line[8] \/ w = line[9])
  /\ Len(line) = 9 => \/ line[8] = "chunk" /\ line[9] \in DOMAIN Atoi
                      \/ line[8] = "finalize_stream" /\ line[9] \in {"comm", "separate"} /\ mode = "async"

LEMMA SweptTruthful ==
  ASSUME NEW arm, NEW line, SweptArguments(line), NEW mode, NEW form, SweptWords(arm, line, mode, form)
  PROVE  Truthful(arm, line)
<1>1. SUFFICES ASSUME NEW rec, AsAsked(Parsed(line).cfg, rec) PROVE Shows(arm, rec)
  <2>1. line[1] = "gpus"
    BY DEF SweptArguments
  <2>2. line # Other /\ ~OnCuda(line)
    BY <2>1 DEF Other, OnCuda
  <2> QED
    BY <2>2 DEF Truthful
<1>2. PICK c : /\ Parsed(line).cfg = c
               /\ c["gpus"] = Number(line[2]) /\ c["mode"] = line[4] /\ c["payload"] = line[6]
               /\ Unmapped(c)
               /\ Len(line) = 9 =>
                     /\ line[8] = "chunk" => c["chunk"] = Number(line[9])
                     /\ line[8] = "finalize_stream" => c["finalize_stream"] = line[9]
  BY SweptFields
<1>3. /\ rec.mode = mode /\ rec.gpus = Number("2") /\ rec.payload = form
      /\ rec.hoist = "off" /\ rec.plan_metrics = "off" /\ rec.chunk = c["chunk"]
      /\ rec.finalize_stream = IF mode = "sync" THEN "not_applicable" ELSE c["finalize_stream"]
      /\ rec.pre_timing_delay = 0 /\ rec.validation_ran = TRUE /\ rec.kind \in {"resident", "device", "pipeline"}
  <2>1. AsAsked(c, rec)
    BY <1>1, <1>2, Zenon
  <2>2. line[2] = "2" /\ line[4] = mode /\ line[6] = form
    BY DEF SweptWords
  <2>3. c["gpus"] = Number("2") /\ c["mode"] = mode /\ c["payload"] = form
        /\ c["hoist"] = "off" /\ c["plan_metrics"] = "off" /\ c["pre_timing_delay"] = 0 /\ c["validate"] = TRUE
    BY <1>2, <2>2 DEF Unmapped, Yes
  <2> QED
    BY <2>1, <2>3 DEF AsAsked
<1>4. Len(line) = 9 =>
        /\ line[8] = "chunk" => c["chunk"] = Number(line[9])
        /\ line[8] = "finalize_stream" => c["finalize_stream"] = line[9]
  BY <1>2
<1>5. PICK W : W = ToSet(arm)
  OBVIOUS
<1>6. /\ mode \in {"sync", "async"} /\ form \in {"f64", "packed"} /\ mode \in W /\ form \in W
      /\ \A w \in W : w \in {mode, form, "p2pon", "p2poff", "chunk", "finalize_stream"}
                      \/ (w = line[9] /\ Len(line) = 9)
      /\ Len(line) = 9 => \/ line[8] = "chunk" /\ line[9] \in DOMAIN Atoi
                          \/ line[8] = "finalize_stream" /\ line[9] \in {"comm", "separate"} /\ mode = "async"
  BY <1>5 DEF SweptWords
<1>7. rec.mode = IF "async" \in W THEN "async" ELSE "sync"
  <2>1. "async" \in W <=> mode = "async"
    BY <1>6, WordKinds
  <2> QED
    BY <1>3, <1>6, <2>1
<1>8. W \cap {"f64", "i32", "packed"} \subseteq {rec.payload}
  <2>1. ASSUME NEW w \in {"f64", "i32", "packed"}, w \in W PROVE w = form
    BY <1>6, <2>1, WordKinds
  <2> QED
    BY <1>3, <2>1
<1>9. W \cap {"source", "bylen"} = {}
  <2>1. ASSUME NEW w \in {"source", "bylen"}, w \in W PROVE FALSE
    BY <1>6, <2>1, WordKinds
  <2> QED
    BY <2>1
<1>10. W \cap {"comm", "separate"} \subseteq {rec.finalize_stream}
  <2>1. ASSUME NEW w \in {"comm", "separate"}, w \in W PROVE w = rec.finalize_stream
    <3>1. w = line[9] /\ Len(line) = 9 /\ w \notin DOMAIN Atoi
      BY <1>6, <2>1, WordKinds
    <3>2. line[8] = "finalize_stream" /\ mode = "async"
      BY <1>6, <3>1
    <3>3. c["finalize_stream"] = w
      BY <1>4, <3>1, <3>2
    <3>4. rec.finalize_stream = c["finalize_stream"]
      BY <1>3, <3>2
    <3> QED
      BY <3>3, <3>4
  <2> QED
    BY <2>1
<1>11. "hoist" \notin W /\ "metrics" \notin W /\ W \cap DOMAIN Delays = {}
  <2>1. "hoist" \notin W /\ "metrics" \notin W
    BY <1>6, WordKinds
  <2>2. ASSUME NEW w \in W, w \in DOMAIN Delays PROVE FALSE
    BY <1>6, <2>2, WordKinds
  <2> QED
    BY <2>1, <2>2
<1>12. "nccl1" \notin W
  BY <1>6, WordKinds
<1>13. \A w \in W \cap DOMAIN Atoi : Atoi[w] \in {rec.group, rec.chunk}
  <2>1. ASSUME NEW w \in W, w \in DOMAIN Atoi PROVE Atoi[w] = rec.chunk
    <3>1. w = line[9] /\ Len(line) = 9
      BY <1>6, <2>1, WordKinds
    <3>2. line[8] = "chunk"
      BY <1>6, <2>1, <3>1, WordKinds
    <3>3. c["chunk"] = Number(w)
      BY <1>4, <3>1, <3>2
    <3>4. rec.chunk = Number(w)
      BY <1>3, <3>3
    <3> QED
      BY <2>1, <3>4 DEF Number
  <2> QED
    BY <2>1
<1>14. Number("2") = 2
  BY WordsAssumption DEF Number
<1>15. rec.hoist # "on" /\ rec.plan_metrics # "on"
  BY <1>3
<1>16. rec.gpus = IF "nccl1" \in W THEN 1 ELSE 2
  BY <1>3, <1>12, <1>14
<1>17. \A i \in DOMAIN arm : arm[i] \in W
  BY <1>5 DEF ToSet
<1>18. ShowsMapping(arm, rec)
  <2>1. ~Leads(arm, "hoist", {"nohoist"}) /\ ~Leads(arm, "metrics", {"nometrics"})
    BY <1>11, <1>17 DEF Leads
  <2>2. \A d \in DOMAIN Delays : ~Leads(arm, d, DOMAIN Delays)
    BY <1>11, <1>17 DEF Leads
  <2>3. rec.pre_timing_delay = 0
    BY <1>3
  <2>4. (rec.hoist = "on") = Leads(arm, "hoist", {"nohoist"})
        /\ (rec.plan_metrics = "on") = Leads(arm, "metrics", {"nometrics"})
    BY <1>15, <2>1 DEF Leads
  <2> QED
    BY <1>5, <1>9, <2>2, <2>3, <2>4, Zenon DEF ShowsMapping
<1>19. ShowsRun(arm, rec)
  BY <1>5, <1>7, <1>8, <1>10, <1>16 DEF ShowsRun
<1>20. ShowsNumbers(arm, {rec.group, rec.chunk})
  BY <1>5, <1>13 DEF ShowsNumbers
<1>21. rec.validation_ran /\ rec.kind # "other" /\ rec.kind # "cuda"
  BY <1>3
<1> QED
  BY <1>18, <1>19, <1>20, <1>21 DEF Shows

(* A line of the sweep with its extra words, which are none or a flag with its value. *)
ExtraWords(extra) == extra = <<>> \/ \E f, v : extra = <<f, v>> /\ f \in {"chunk", "finalize_stream"}
LineWith(line, mode, form, extra) ==
  /\ SweptArguments(line) /\ line[2] = "2" /\ line[4] = mode /\ line[6] = form
  /\ extra = <<>> => Len(line) = 7
  /\ \A f, v : extra = <<f, v>> => Len(line) = 9 /\ line[8] = f /\ line[9] = v

LEMMA SweptJoined ==
  ASSUME NEW mode, NEW form, NEW extra, ExtraWords(extra), NEW line, line = SweepLine(mode, form) \o extra
  PROVE  LineWith(line, mode, form, extra)
<1>1. extra = <<>> \/ \E f, v : extra = <<f, v>> /\ f \in {"chunk", "finalize_stream"}
  BY DEF ExtraWords
<1>2. PICK q : q = SweepLine(mode, form)
  OBVIOUS
<1>3. q = <<"gpus", "2", "mode", mode, "payload", form, "validate">>
  BY <1>2 DEF SweepLine
<1>4. PICK S : S = {"gpus", "2", "mode", mode, "payload", form, "validate"}
  OBVIOUS
<1>5. /\ q \in Seq(S) /\ Len(q) = 7 /\ DOMAIN q = 1 .. 7
      /\ q[1] = "gpus" /\ q[2] = "2" /\ q[3] = "mode" /\ q[4] = mode /\ q[5] = "payload"
      /\ q[6] = form /\ q[7] = "validate"
  BY <1>3, <1>4
<1>6. Sequence(q)
  <2>1. PICK n : n = 7
    OBVIOUS
  <2>2. q = [i \in 1 .. n |-> q[i]] /\ n \in Nat
    BY <1>5, <2>1
  <2> QED
    BY <2>2, Listed
<1>7. Sequence(extra) /\ (extra = <<>> => Len(extra) = 0)
      /\ \A f, v : extra = <<f, v>> => Len(extra) = 2 /\ extra[1] = f /\ extra[2] = v
  <2>1. extra \in Seq({extra[i] : i \in DOMAIN extra}) /\ Len(extra) \in Nat
    <3>1. CASE extra = <<>>
      BY <3>1
    <3>2. CASE \E f, v : extra = <<f, v>> /\ f \in {"chunk", "finalize_stream"}
      <4>1. PICK f, v : extra = <<f, v>>
        BY <3>2
      <4>2. extra = [i \in 1 .. 2 |-> extra[i]]
        BY <4>1
      <4> QED
        BY <4>2, Listed DEF Sequence
    <3> QED
      BY <1>1, <3>1, <3>2
  <2>2. \A f, v : extra = <<f, v>> => Len(extra) = 2 /\ extra[1] = f /\ extra[2] = v
    OBVIOUS
  <2> QED
    BY <2>1, <2>2 DEF Sequence
<1>8. line = q \o extra
  BY <1>2
<1>9. /\ Sequence(line) /\ Len(line) = 7 + Len(extra)
      /\ \A i \in 1 .. 7 : line[i] = q[i]
      /\ \A i \in 1 .. Len(extra) : line[7 + i] = extra[i]
  <2>1. /\ Sequence(q \o extra) /\ Len(q \o extra) = Len(q) + Len(extra)
        /\ \A i \in 1 .. Len(q) : (q \o extra)[i] = q[i]
        /\ \A i \in 1 .. Len(extra) : (q \o extra)[Len(q) + i] = extra[i]
    <3>1. Sequence(extra)
      BY <1>7
    <3> QED
      BY <1>6, <3>1, Concatenated
  <2> QED
    BY <1>5, <1>8, <2>1
<1>10. /\ line[1] = "gpus" /\ line[2] = "2" /\ line[3] = "mode" /\ line[4] = mode /\ line[5] = "payload"
      /\ line[6] = form /\ line[7] = "validate"
  BY <1>5, <1>9
<1>11. \A f, v : extra = <<f, v>> => Len(line) = 9 /\ line[8] = f /\ line[9] = v
  <2>1. ASSUME NEW f, NEW v, extra = <<f, v>> PROVE Len(line) = 9 /\ line[8] = f /\ line[9] = v
    <3>1. Len(extra) = 2 /\ extra[1] = f /\ extra[2] = v
      BY <1>7, <2>1
    <3>2. line[7 + 1] = f /\ line[7 + 2] = v
      BY <1>9, <3>1
    <3> QED
      BY <1>9, <3>1, <3>2
  <2> QED
    BY <2>1
<1>12. extra = <<>> => Len(line) = 7
  BY <1>7, <1>9
<1>13. Len(line) \in {7, 9} /\ (Len(line) = 9 => line[8] \in {"chunk", "finalize_stream"})
  <2>1. CASE extra = <<>>
    BY <1>12, <2>1
  <2>2. CASE \E f, v : extra = <<f, v>> /\ f \in {"chunk", "finalize_stream"}
    BY <1>11, <2>2
  <2> QED
    BY <1>1, <2>1, <2>2
<1> QED
  BY <1>9, <1>10, <1>11, <1>12, <1>13 DEF SweptArguments, LineWith

(* Plans of truthful trials. *)
Honest(t) == Truthful(t.arm, t.line)
TruePlan(p) == Sequence(p) /\ \A i \in DOMAIN p : Honest(p[i])

LEMMA PlansJoined ==
  ASSUME NEW q, TruePlan(q), NEW r, TruePlan(r)
  PROVE  TruePlan(q \o r)
<1>1. Sequence(q) /\ Sequence(r)
  BY DEF TruePlan
<1>2. PICK p : p = q \o r
  OBVIOUS
<1>3. /\ Sequence(p) /\ Len(p) = Len(q) + Len(r) /\ DOMAIN q = 1 .. Len(q)
      /\ \A i \in 1 .. Len(q) : p[i] = q[i]
      /\ \A i \in 1 .. Len(r) : p[Len(q) + i] = r[i]
  BY <1>1, <1>2, Concatenated
<1>4. PICK m \in Nat, n \in Nat : m = Len(q) /\ n = Len(r)
  BY <1>1 DEF Sequence
<1>5. DOMAIN p = 1 .. m + n /\ DOMAIN r = 1 .. n
  BY <1>1, <1>3, <1>4 DEF Sequence
<1>6. ASSUME NEW i \in 1 .. m + n PROVE Honest(p[i])
  <2>1. CASE i <= m
    BY <1>3, <1>4, <2>1 DEF TruePlan
  <2>2. CASE i > m
    <3>1. i - m \in 1 .. n /\ m + (i - m) = i
      BY <1>4, <2>2
    <3> QED
      BY <1>3, <1>4, <1>5, <3>1 DEF TruePlan
  <2> QED
    BY <2>1, <2>2
<1> QED
  BY <1>2, <1>3, <1>5, <1>6 DEF TruePlan

LEMMA TimesPlan ==
  ASSUME NEW n \in Nat, NEW t, Honest(t)
  PROVE  TruePlan(Times(n, t))
<1>1. Sequence(Times(n, t))
  BY Repetition
<1>2. PICK p : p = Times(n, t)
  OBVIOUS
<1>3. DOMAIN p = 1 .. n /\ \A i \in 1 .. n : p[i] = t
  BY <1>2 DEF Times
<1> QED
  BY <1>1, <1>2, <1>3 DEF TruePlan

LEMMA FlattenPlans ==
  ASSUME NEW s, Sequence(s), \A i \in DOMAIN s : TruePlan(s[i])
  PROVE  TruePlan(FlattenSeq(s))
<1>1. PICK n \in Nat : n = Len(s)
  BY DEF Sequence
<1>2. DOMAIN s = 1 .. n
  BY <1>1 DEF Sequence
<1>3. CASE n = 0
  <2>1. FlattenSeq(s) = s
    BY <1>1, <1>3 DEF FlattenSeq
  <2>2. DOMAIN s = {}
    BY <1>2, <1>3
  <2> QED
    BY <2>1, <2>2 DEF TruePlan
<1>4. CASE n # 0
  <2>1. PICK f : Joins(f, s, n) /\ FlattenSeq(s) = f[n]
    BY <1>1, <1>4, Flattened
  <2>2. PICK C : C = {k \in Nat : k \in 1 .. n => TruePlan(f[k])}
    OBVIOUS
  <2>3. ASSUME NEW k \in Nat, \A m \in Nat : m < k => m \in C PROVE k \in C
    <3>1. SUFFICES ASSUME k \in 1 .. n PROVE TruePlan(f[k])
      BY <2>2
    <3>2. TruePlan(s[k])
      BY <1>2, <3>1
    <3>3. CASE k = 1
      <4>1. f[k] = s[k]
        BY <2>1, <3>3 DEF Joins
      <4> QED
        BY <3>2, <4>1
    <3>4. CASE k # 1
      <4>1. k \in 2 .. n /\ k - 1 \in Nat /\ k - 1 < k /\ k - 1 \in 1 .. n
        BY <3>1, <3>4
      <4>2. PICK g, e : g = f[k - 1] /\ e = s[k]
        OBVIOUS
      <4>3. TruePlan(g) /\ TruePlan(e)
        BY <2>2, <2>3, <3>2, <4>1, <4>2
      <4>4. f[k] = g \o e
        BY <2>1, <4>1, <4>2 DEF Joins
      <4>5. TruePlan(g \o e)
        BY <4>3, PlansJoined
      <4> QED
        BY <4>4, <4>5
    <3> QED
      BY <3>3, <3>4
  <2>4. \A k \in Nat : k \in C
    BY <2>3, NumberInduction
  <2>5. n \in C /\ n \in 1 .. n
    BY <1>4, <2>4
  <2> QED
    BY <2>1, <2>2, <2>5
<1> QED
  BY <1>3, <1>4

(* Each script's plan, from the arms it is made of. *)
LEMMA ArmTrials ==
  ASSUME NEW a, Honest(a)
  PROVE  Honest(Measured(a)) /\ \A w : Honest(PlanEntry(a.arm, a.line, w))
<1>1. \A w : PlanEntry(a.arm, a.line, w).arm = a.arm /\ PlanEntry(a.arm, a.line, w).line = a.line
  BY DEF PlanEntry
<1> QED
  BY <1>1 DEF Honest, Measured

LEMMA WarmUpPlan ==
  ASSUME NEW n \in Nat, NEW arms, DOMAIN arms = 1 .. n, \A i \in 1 .. n : Honest(arms[i])
  PROVE  TruePlan(WarmUp(arms))
<1>1. PICK s : s = [i \in DOMAIN arms |-> Times(Warmups, PlanEntry(arms[i].arm, arms[i].line, TRUE))]
  OBVIOUS
<1>2. s = [i \in 1 .. n |-> s[i]]
  BY <1>1
<1>3. ASSUME NEW i \in DOMAIN s PROVE TruePlan(s[i])
  <2>1. PICK yes, t : yes = TRUE /\ t = PlanEntry(arms[i].arm, arms[i].line, yes)
    OBVIOUS
  <2>2. Honest(t)
    BY <1>1, <2>1, ArmTrials
  <2>3. TruePlan(Times(Warmups, t))
    BY <2>2, TimesPlan, ExperimentsAssumption
  <2> QED
    BY <1>1, <2>1, <2>3
<1>4. Sequence(s)
  BY <1>2, Listed
<1>5. TruePlan(FlattenSeq(s))
  BY <1>3, <1>4, FlattenPlans
<1> QED
  BY <1>1, <1>5 DEF WarmUp

LEMMA TimedPlan ==
  ASSUME NEW arm, Honest(arm)
  PROVE  TruePlan(Timed(arm))
<1>1. PICK arms : arms = <<arm>>
  OBVIOUS
<1>2. TruePlan(WarmUp(arms))
  <2>1. PICK n \in Nat : n = 1
    OBVIOUS
  <2>2. DOMAIN arms = 1 .. n /\ \A i \in 1 .. n : arms[i] = arm
    BY <1>1, <2>1
  <2> QED
    BY <2>2, WarmUpPlan
<1>3. PICK t : t = Measured(arm)
  OBVIOUS
<1>4. TruePlan(Times(Repeats, t))
  BY <1>3, ArmTrials, TimesPlan, ExperimentsAssumption
<1>5. TruePlan(WarmUp(arms) \o Times(Repeats, t))
  BY <1>2, <1>4, PlansJoined
<1> QED
  BY <1>1, <1>3, <1>5 DEF Timed

LEMMA ScreenTruePlan ==
  ASSUME NEW n \in Nat, NEW arms, DOMAIN arms = 1 .. n, \A i \in 1 .. n : Honest(arms[i]),
         NEW m \in Nat, NEW rounds, DOMAIN rounds = 1 .. m,
         \A r \in 1 .. m : \A k \in 1 .. n : rounds[r][k] \in 1 .. n
  PROVE  TruePlan(ScreenPlan(arms, rounds))
<1>1. PICK s : s = [r \in DOMAIN rounds |-> [k \in DOMAIN arms |-> Measured(arms[rounds[r][k]])]]
  OBVIOUS
<1>2. s = [r \in 1 .. m |-> s[r]] /\ \A r \in DOMAIN s : s[r] = [k \in 1 .. n |-> s[r][k]]
  BY <1>1
<1>3. Sequence(s) /\ \A r \in DOMAIN s : Sequence(s[r])
  BY <1>2, Listed
<1>4. ASSUME NEW r \in DOMAIN s PROVE TruePlan(s[r])
  <2>1. DOMAIN (s[r]) = 1 .. n /\ \A k \in 1 .. n : s[r][k] = Measured(arms[rounds[r][k]])
    BY <1>1
  <2>2. ASSUME NEW k \in 1 .. n PROVE Honest(s[r][k])
    <3>1. PICK a : a = arms[rounds[r][k]]
      OBVIOUS
    <3>2. Honest(a)
      BY <1>1, <3>1
    <3> QED
      BY <2>1, <3>1, <3>2, ArmTrials
  <2> QED
    BY <1>3, <2>1, <2>2 DEF TruePlan
<1>5. TruePlan(FlattenSeq(s))
  BY <1>3, <1>4, FlattenPlans
<1>6. TruePlan(WarmUp(arms))
  BY WarmUpPlan
<1>7. TruePlan(WarmUp(arms) \o FlattenSeq(s))
  BY <1>5, <1>6, PlansJoined
<1> QED
  BY <1>1, <1>7 DEF ScreenPlan

LEMMA CrossedPlan ==
  ASSUME NEW b, NEW c, Honest(b), Honest(c), NEW o \in Crossovers
  PROVE  TruePlan(Crossed(b, c, o))
<1>1. PICK n \in Nat : n = NBlocksPaired
  BY ExperimentsAssumption
<1>2. DOMAIN o = 1 .. n
  BY <1>1 DEF Crossovers
<1>3. PICK s : s = [k \in DOMAIN o |-> IF o[k] = "bc" THEN <<Measured(b), Measured(c)>>
                                                     ELSE <<Measured(c), Measured(b)>>]
  OBVIOUS
<1>4. PICK arms : arms = <<b, c>>
  OBVIOUS
<1>5. Crossed(b, c, o) = WarmUp(arms) \o FlattenSeq(s)
  BY <1>3, <1>4 DEF Crossed
<1>6. TruePlan(WarmUp(arms))
  <2>1. PICK two \in Nat : two = 2
    OBVIOUS
  <2>2. DOMAIN arms = 1 .. two /\ \A i \in 1 .. two : arms[i] = b \/ arms[i] = c
    BY <1>4, <2>1
  <2>3. \A i \in 1 .. two : Honest(arms[i])
    BY <2>2
  <2> QED
    BY <2>2, <2>3, WarmUpPlan
<1>7. s = [k \in 1 .. n |-> s[k]]
  BY <1>2, <1>3
<1>8. Sequence(s)
  BY <1>7, Listed
<1>9. ASSUME NEW k \in DOMAIN s PROVE TruePlan(s[k])
  <2>1. PICK x1, y1 : s[k] = <<x1, y1>> /\ x1 \in {Measured(b), Measured(c)} /\ y1 \in {Measured(b), Measured(c)}
    BY <1>3
  <2>2. Honest(x1) /\ Honest(y1)
    BY <2>1, ArmTrials
  <2>3. PICK q : q = <<x1, y1>>
    OBVIOUS
  <2>4. PICK m \in Nat : m = 2
    OBVIOUS
  <2>5. q = [i \in 1 .. m |-> q[i]] /\ DOMAIN q = 1 .. m /\ \A i \in 1 .. m : q[i] = x1 \/ q[i] = y1
    BY <2>3, <2>4
  <2>6. Sequence(q) /\ \A i \in DOMAIN q : Honest(q[i])
    BY <2>2, <2>5, Listed
  <2> QED
    BY <2>1, <2>3, <2>6 DEF TruePlan
<1>10. TruePlan(FlattenSeq(s))
  BY <1>8, <1>9, FlattenPlans
<1>11. TruePlan(WarmUp(arms) \o FlattenSeq(s))
  BY <1>6, <1>10, PlansJoined
<1> QED
  BY <1>5, <1>11

(* The arms of the scripts that have no specs. *)
(* A configuration with its values, or with a label of its own. *)
LEMMA ConfiguredHonest ==
  ASSUME NEW mode \in {"sync", "async"}, NEW form \in {"f64", "packed"}, NEW f, NEW v,
         \/ f = "chunk" /\ v \in DOMAIN Atoi
         \/ f = "finalize_stream" /\ v \in {"comm", "separate"} /\ mode = "async"
  PROVE  Honest(Configured(mode, form, <<f, v>>))
<1>1. PICK extra : extra = <<f, v>>
  OBVIOUS
<1>2. PICK arm, line : arm = <<mode, form>> \o extra /\ line = SweepLine(mode, form) \o extra
  OBVIOUS
<1>3. ToSet(arm) = {mode, form, f, v}
  BY <1>1, <1>2 DEF ToSet
<1>4. LineWith(line, mode, form, extra)
  <2>1. ExtraWords(extra)
    BY <1>1 DEF ExtraWords
  <2> QED
    BY <1>2, <2>1, SweptJoined
<1>5. /\ SweptArguments(line) /\ line[2] = "2" /\ line[4] = mode /\ line[6] = form
      /\ Len(line) = 9 /\ line[8] = f /\ line[9] = v
  BY <1>1, <1>4 DEF LineWith
<1>6. SweptWords(arm, line, mode, form)
  BY <1>3, <1>5 DEF SweptWords
<1>7. Truthful(arm, line)
  BY <1>5, <1>6, SweptTruthful
<1>8. PICK t : t = Configured(mode, form, extra)
  OBVIOUS
<1>9. t.arm = arm /\ t.line = line
  BY <1>2, <1>8 DEF Configured
<1> QED
  BY <1>1, <1>7, <1>8, <1>9 DEF Honest

LEMMA PlainTruthful ==
  ASSUME NEW mode \in {"sync", "async"}, NEW form \in {"f64", "packed"}, NEW arm,
         mode \in ToSet(arm), form \in ToSet(arm),
         \A w \in ToSet(arm) : w \in {mode, form, "p2pon", "p2poff"}
  PROVE  Truthful(arm, SweepLine(mode, form) \o <<>>)
<1>1. PICK extra : extra = <<>>
  OBVIOUS
<1>2. PICK line : line = SweepLine(mode, form) \o extra
  OBVIOUS
<1>3. /\ SweptArguments(line) /\ line[2] = "2" /\ line[4] = mode /\ line[6] = form
      /\ Len(line) = 7
  <2>1. LineWith(line, mode, form, extra)
    <3>1. ExtraWords(extra)
      BY <1>1 DEF ExtraWords
    <3> QED
      BY <1>2, <3>1, SweptJoined
  <2> QED
    BY <1>1, <2>1 DEF LineWith
<1>4. SweptWords(arm, line, mode, form)
  BY <1>3 DEF SweptWords
<1> QED
  BY <1>1, <1>2, <1>3, <1>4, SweptTruthful

LEMMA PlainHonest ==
  ASSUME NEW mode \in {"sync", "async"}, NEW form \in {"f64", "packed"}
  PROVE  /\ Honest(Configured(mode, form, <<>>))
         /\ \A word \in {"p2pon", "p2poff"} : Honest(Labelled(Configured(mode, form, <<>>), word))
<1>1. PICK t : t = Configured(mode, form, <<>>)
  OBVIOUS
<1>2. t.arm = <<mode, form>> \o <<>> /\ t.line = SweepLine(mode, form) \o <<>>
  BY <1>1 DEF Configured
<1>3. PICK arm : arm = t.arm
  OBVIOUS
<1>4. ToSet(arm) = {mode, form}
  BY <1>2, <1>3 DEF ToSet
<1>5. Truthful(arm, SweepLine(mode, form) \o <<>>)
  BY <1>4, PlainTruthful
<1>6. ASSUME NEW word \in {"p2pon", "p2poff"} PROVE Honest(Labelled(t, word))
  <2>1. PICK u : u = Labelled(t, word)
    OBVIOUS
  <2>2. u.arm = Append(t.arm, word) /\ u.line = t.line
    BY <1>1, <2>1 DEF Labelled, Configured
  <2>3. PICK b : b = u.arm
    OBVIOUS
  <2>4. ToSet(b) = {mode, form, word}
    <3>1. b = Append(<<mode, form>> \o <<>>, word)
      BY <1>2, <2>2, <2>3
    <3> QED
      BY <3>1 DEF ToSet
  <2>5. Truthful(b, SweepLine(mode, form) \o <<>>)
    BY <2>4, PlainTruthful
  <2> QED
    BY <1>2, <2>1, <2>2, <2>3, <2>5 DEF Honest
<1>7. Honest(t)
  BY <1>2, <1>3, <1>5 DEF Honest
<1> QED
  BY <1>1, <1>6, <1>7

LEMMA BinaryHonest == ASSUME NEW name \in {"serial", "cuda_1gpu"} PROVE Honest(Binary(name))
<1>1. PICK t : t = Binary(name)
  OBVIOUS
<1>2. t.arm[1] = name /\ t.line = Other
  BY <1>1 DEF Binary
<1> QED
  BY <1>1, <1>2, OtherLine DEF Honest, Truthful

(* Their plans. *)
LEMMA SweepTruePlan == TruePlan(SweepPlan)
<1>1. ASSUME NEW pay \in {"f64", "packed"}
      PROVE  TruePlan(FlattenSeq([i \in DOMAIN Chunks |-> Timed(Configured("async", pay, <<"chunk", Chunks[i]>>))]))
  <2>1. PICK s : s = [i \in DOMAIN Chunks |-> Timed(Configured("async", pay, <<"chunk", Chunks[i]>>))]
    OBVIOUS
  <2>2. PICK n \in Nat : DOMAIN Chunks = 1 .. n
    BY ExperimentsAssumption
  <2>3. Sequence(s)
    <3>1. s = [i \in 1 .. n |-> s[i]]
      BY <2>1, <2>2
    <3> QED
      BY <3>1, Listed
  <2>4. ASSUME NEW i \in DOMAIN s PROVE TruePlan(s[i])
    <3>1. Chunks[i] \in DOMAIN Atoi
      BY <2>1, ExperimentsAssumption
    <3>2. PICK t : t = Configured("async", pay, <<"chunk", Chunks[i]>>)
      OBVIOUS
    <3>3. Honest(t)
      BY <3>1, <3>2, ConfiguredHonest
    <3>4. TruePlan(Timed(t))
      BY <3>3, TimedPlan
    <3> QED
      BY <2>1, <3>2, <3>4
  <2> QED
    BY <2>1, <2>3, <2>4, FlattenPlans
<1> DEFINE A(pay) == Timed(Configured("sync", pay, <<>>))
                     \o FlattenSeq([i \in DOMAIN Chunks |-> Timed(Configured("async", pay, <<"chunk", Chunks[i]>>))])
           B(pay) == Timed(Configured("async", pay, <<"finalize_stream", "comm">>))
                     \o Timed(Configured("async", pay, <<"finalize_stream", "separate">>))
           C      == Timed(Binary("serial")) \o Timed(Binary("cuda_1gpu"))
                     \o Timed(Configured("sync", "packed", <<>>))
<1>2. ASSUME NEW pay \in {"f64", "packed"} PROVE TruePlan(A(pay))
  <2>1. TruePlan(Timed(Configured("sync", pay, <<>>)))
    BY PlainHonest, TimedPlan
  <2> QED
    BY <1>1, <2>1, PlansJoined
<1>3. ASSUME NEW pay \in {"f64", "packed"} PROVE TruePlan(B(pay))
  <2>1. ASSUME NEW v \in {"comm", "separate"}
        PROVE  TruePlan(Timed(Configured("async", pay, <<"finalize_stream", v>>)))
    BY ConfiguredHonest, TimedPlan
  <2> QED
    BY <2>1, PlansJoined
<1>4. TruePlan(C)
  <2>1. TruePlan(Timed(Binary("serial"))) /\ TruePlan(Timed(Binary("cuda_1gpu")))
    BY BinaryHonest, TimedPlan
  <2>2. TruePlan(Timed(Configured("sync", "packed", <<>>)))
    BY PlainHonest, TimedPlan
  <2> QED
    BY <2>1, <2>2, PlansJoined
<1>5. SweepPlan = A("f64") \o A("packed") \o B("f64") \o B("packed") \o C
  BY DEF SweepPlan
<1> HIDE DEF A, B, C
<1>6. TruePlan(A("f64") \o A("packed"))
  BY <1>2, PlansJoined
<1>7. TruePlan(A("f64") \o A("packed") \o B("f64"))
  BY <1>3, <1>6, PlansJoined
<1>8. TruePlan(A("f64") \o A("packed") \o B("f64") \o B("packed"))
  BY <1>3, <1>7, PlansJoined
<1> QED
  BY <1>4, <1>5, <1>8, PlansJoined

LEMMA P2pTruePlan == TruePlan(P2pPlan)
<1>1. ASSUME NEW mode \in {"sync", "async"}, NEW word \in {"p2pon", "p2poff"}
      PROVE  TruePlan(FlattenSeq([i \in 1 .. 2 |-> Timed(Labelled(Configured(mode, SweptPayloads[i], <<>>), word))]))
  <2>1. PICK s : s = [i \in 1 .. 2 |-> Timed(Labelled(Configured(mode, SweptPayloads[i], <<>>), word))]
    OBVIOUS
  <2>2. s = [i \in 1 .. 2 |-> s[i]]
    BY <2>1
  <2>3. Sequence(s)
    BY <2>2, Listed
  <2>4. ASSUME NEW i \in DOMAIN s PROVE TruePlan(s[i])
    <3>1. i \in 1 .. 2
      BY <2>1
    <3>2. PICK pay : pay = SweptPayloads[i]
      OBVIOUS
    <3>3. pay \in {"f64", "packed"}
      BY <3>1, <3>2 DEF SweptPayloads
    <3>4. PICK t : t = Labelled(Configured(mode, pay, <<>>), word)
      OBVIOUS
    <3>5. Honest(t)
      BY <3>3, <3>4, PlainHonest
    <3> QED
      BY <2>1, <3>2, <3>4, <3>5, TimedPlan
  <2> QED
    BY <2>1, <2>3, <2>4, FlattenPlans
<1> DEFINE Side(p2p) ==
        FlattenSeq([i \in 1 .. 2 |-> Timed(Labelled(Configured("sync", SweptPayloads[i], <<>>), p2p))])
        \o FlattenSeq([i \in 1 .. 2 |-> Timed(Labelled(Configured("async", SweptPayloads[i], <<>>), p2p))])
<1>2. \A p2p \in {"p2pon", "p2poff"} : TruePlan(Side(p2p))
  BY <1>1, PlansJoined
<1>3. P2pPlan = Side("p2pon") \o Side("p2poff")
  BY DEF P2pPlan
<1> HIDE DEF Side
<1> QED
  BY <1>2, <1>3, PlansJoined

LEMMA ReproTruePlan ==
  ASSUME NEW o \in Crossovers
  PROVE  TruePlan(ReproPlan(o))
<1>1. PICK b, c, t : /\ b = Configured("sync", "f64", <<>>) /\ c = Configured("sync", "packed", <<>>)
                     /\ t = Configured("async", "packed", <<>>)
  OBVIOUS
<1>2. Honest(b) /\ Honest(c) /\ Honest(t)
  BY <1>1, PlainHonest
<1>3. TruePlan(Crossed(b, c, o))
  BY <1>2, CrossedPlan
<1>4. PICK m : m = Measured(t)
  OBVIOUS
<1>5. TruePlan(Times(Repeats, m))
  BY <1>2, <1>4, ArmTrials, TimesPlan, ExperimentsAssumption
<1>6. TruePlan(Crossed(b, c, o) \o Times(Repeats, m))
  BY <1>3, <1>5, PlansJoined
<1> QED
  BY <1>1, <1>4, <1>6 DEF ReproPlan

(* A spec that is planned for is one that the parser takes. *)
LEMMA ParsedHonest ==
  ASSUME NEW s \in Parsable
  PROVE  Truthful(s, parse_arm(s))
<1>1. s \in Seq(STRING) /\ parse_arm(s) # Rejected
  BY WordsAssumption DEF Parsable
<1>2. PICK line : line = parse_arm(s)
  OBVIOUS
<1> QED
  BY <1>1, <1>2, ArmTruthful

LEMMA PlannedTruly ==
  ASSUME MeasureInit, Scripted
  PROVE  TruePlan(plan)
<1>1. CASE Matrix
  <2>1. plan = <<>>
    BY <1>1 DEF Matrix
  <2>2. Sequence(plan) /\ DOMAIN plan = {}
    BY <2>1 DEF Sequence
  <2> QED
    BY <2>2 DEF TruePlan
<1>2. CASE Person
  BY <1>2 DEF Person, Scripted
<1>3. CASE Screen
  <2>1. PICK S \in {T \in SUBSET Parsable : Cardinality(T) = ArmCount},
             rounds \in [1 .. Repeats -> SetToSeqs(1 .. ArmCount)] :
          plan = ScreenPlan(Parsing(SetToSeq(S)), rounds)
    BY <1>3 DEF Screen
  <2>2. IsFiniteSet(S) /\ Cardinality(S) \in Nat
    <3>1. S \subseteq ArmSpecs
      BY <2>1 DEF Parsable
    <3> QED
      BY <3>1, ExperimentsAssumption, FS_Subset, FS_CardinalityType
  <2>3. PICK specs, arms : specs = SetToSeq(S) /\ arms = Parsing(specs)
    OBVIOUS
  <2>4. PICK n \in Nat : n = Cardinality(S) /\ n = ArmCount
    BY <2>1, <2>2
  <2>5. specs \in [1 .. n -> S]
    <3>1. PICK k \in Nat : ExistsBijection(1 .. k, S)
      BY <2>2, FS_NatBijection
    <3>2. k = Cardinality(S)
      BY <3>1, FS_CountingElements
    <3>3. PICK g : g \in Bijection(1 .. k, S)
      BY <3>1 DEF ExistsBijection
    <3>4. g \in [1 .. k -> S] /\ IsInjective(g)
      BY <3>3 DEF Bijection, Injection, IsInjective
    <3>5. SetToSeq(S) \in [1 .. k -> S]
      BY <3>2, <3>4 DEF SetToSeq
    <3> QED
      BY <2>3, <2>4, <3>2, <3>5
  <2>6. DOMAIN arms = 1 .. n /\ \A i \in 1 .. n : arms[i].arm = specs[i] /\ arms[i].line = parse_arm(specs[i])
    BY <2>3, <2>5 DEF Parsing
  <2>7. ASSUME NEW i \in 1 .. n PROVE Honest(arms[i])
    <3>1. PICK s : s = specs[i]
      OBVIOUS
    <3>2. s \in Parsable
      BY <2>1, <2>5, <3>1
    <3> QED
      BY <2>6, <3>1, <3>2, ParsedHonest DEF Honest
  <2>8. PICK m \in Nat : m = Repeats /\ DOMAIN rounds = 1 .. m
    BY <2>1, ExperimentsAssumption
  <2>9. ASSUME NEW r \in 1 .. m, NEW k \in 1 .. n PROVE rounds[r][k] \in 1 .. n
    <3>1. rounds[r] \in SetToSeqs(1 .. n)
      BY <2>1, <2>4, <2>8
    <3>2. Cardinality(1 .. n) = n
      BY FS_Interval
    <3>3. rounds[r] \in [1 .. n -> 1 .. n]
      BY <3>1, <3>2 DEF SetToSeqs
    <3> QED
      BY <3>3
  <2> QED
    BY <2>1, <2>3, <2>6, <2>7, <2>8, <2>9, ScreenTruePlan
<1>4. CASE Paired
  <2>1. PICK b \in Parsable, c \in Parsable : plan = LET arms == Parsing(<<b, c>>) IN Crossed(arms[1], arms[2], order)
    BY <1>4 DEF Paired
  <2>2. PICK arms : arms = Parsing(<<b, c>>)
    OBVIOUS
  <2>3. /\ arms[1].arm = b /\ arms[1].line = parse_arm(b)
        /\ arms[2].arm = c /\ arms[2].line = parse_arm(c)
    BY <2>2 DEF Parsing
  <2>4. PICK x1, y1, o : x1 = arms[1] /\ y1 = arms[2] /\ o = order
    OBVIOUS
  <2>5. o \in Crossovers /\ plan = Crossed(x1, y1, o)
    BY <1>4, <2>1, <2>2, <2>4 DEF Paired
  <2>6. Honest(x1) /\ Honest(y1)
    BY <2>3, <2>4, ParsedHonest DEF Honest
  <2> QED
    BY <2>5, <2>6, CrossedPlan
<1>5. CASE Repro
  BY <1>5, ReproTruePlan DEF Repro
<1>6. CASE Fixed
  BY <1>6, SweepTruePlan, P2pTruePlan DEF Fixed
<1> QED
  BY <1>1, <1>2, <1>3, <1>4, <1>5, <1>6 DEF MeasureInit

(* The command line of a configuration of the matrix. *)
CommandOf(line, n) ==
  /\ MatrixArguments(line) /\ line[2] = ToString(CONFIGS[n].gpus)
  /\ line[4] = CONFIGS[n].partition /\ line[6] = CONFIGS[n].payload

LEMMA CommandWords == ASSUME NEW n \in Arms PROVE CommandOf(Command(n), n)
<1>1. PICK x1, y1, z, u, v : /\ x1 = ToString(CONFIGS[n].gpus) /\ y1 = CONFIGS[n].partition
                           /\ z = CONFIGS[n].payload
                           /\ u = ToString(args.warmup) /\ v = ToString(args.repeat)
  OBVIOUS
<1>2. PICK p : p = <<"gpus", x1, "partition", y1, "payload", z>>
  OBVIOUS
<1>3. PICK q : q = COMMON
  OBVIOUS
<1>4. PICK r : r = <<"warmup", u, "repeat", v>>
  OBVIOUS
<1>5. /\ Sequence(p) /\ Len(p) = 6 /\ p[1] = "gpus" /\ p[2] = x1 /\ p[3] = "partition" /\ p[4] = y1
      /\ p[5] = "payload" /\ p[6] = z
  <2>1. PICK k \in Nat : k = 6
    OBVIOUS
  <2>2. p = [i \in 1 .. k |-> p[i]]
    BY <1>2, <2>1
  <2>3. Sequence(p) /\ Len(p) = k
    BY <2>2, Listed
  <2> QED
    BY <1>2, <2>1, <2>3
<1>6. /\ Sequence(q) /\ Len(q) = 12 /\ q[1] = "mode" /\ q[3] = "group" /\ q[5] = "pair_order"
      /\ q[7] = "hoist" /\ q[9] = "plan_metrics" /\ q[10] = "off" /\ q[11] = "validate" /\ q[12] = "resident"
  <2>1. PICK k \in Nat : k = 12
    OBVIOUS
  <2>2. q = [i \in 1 .. k |-> q[i]]
    BY <1>3, <2>1 DEF COMMON
  <2>3. Sequence(q) /\ Len(q) = k
    BY <2>2, Listed
  <2> QED
    BY <1>3, <2>1, <2>3 DEF COMMON
<1>7. Sequence(r) /\ Len(r) = 4 /\ r[1] = "warmup" /\ r[3] = "repeat"
  <2>1. PICK k \in Nat : k = 4
    OBVIOUS
  <2>2. r = [i \in 1 .. k |-> r[i]]
    BY <1>4, <2>1
  <2>3. Sequence(r) /\ Len(r) = k
    BY <2>2, Listed
  <2> QED
    BY <1>4, <2>1, <2>3
<1>8. PICK s : s = p \o q
  OBVIOUS
<1>9. /\ Sequence(s) /\ Len(s) = 18 /\ \A i \in 1 .. 6 : s[i] = p[i]
      /\ \A i \in 1 .. 12 : s[6 + i] = q[i]
  <2>1. PICK six : six = 6
    OBVIOUS
  <2>2. PICK twelve : twelve = 12
    OBVIOUS
  <2>3. Sequence(p) /\ Sequence(q) /\ six = Len(p) /\ twelve = Len(q)
    BY <1>5, <1>6, <2>1, <2>2
  <2>4. Follows(s, p, q, six, twelve)
    BY <1>8, <2>3, Following
  <2> QED
    BY <2>1, <2>2, <2>4 DEF Follows
<1>10. PICK line : line = s \o r
  OBVIOUS
<1>11. /\ Sequence(line) /\ Len(line) = 22 /\ \A i \in 1 .. 18 : line[i] = s[i]
       /\ \A i \in 1 .. 4 : line[18 + i] = r[i]
  <2>1. PICK k : k = 18
    OBVIOUS
  <2>2. PICK four : four = 4
    OBVIOUS
  <2>3. Sequence(s) /\ Sequence(r) /\ k = Len(s) /\ four = Len(r)
    BY <1>7, <1>9, <2>1, <2>2
  <2>4. Follows(line, s, r, k, four)
    BY <1>10, <2>3, Following
  <2> QED
    BY <2>1, <2>2, <2>4 DEF Follows
<1>12. Command(n) = line
  BY <1>1, <1>2, <1>3, <1>4, <1>8, <1>10 DEF Command
<1>13. /\ line[1] = "gpus" /\ line[2] = x1 /\ line[3] = "partition" /\ line[4] = y1
       /\ line[5] = "payload" /\ line[6] = z
  BY <1>5, <1>9, <1>11
<1>14. /\ s[6 + 1] = "mode" /\ s[6 + 3] = "group" /\ s[6 + 5] = "pair_order" /\ s[6 + 7] = "hoist"
       /\ s[6 + 9] = "plan_metrics" /\ s[6 + 10] = "off" /\ s[6 + 11] = "validate" /\ s[6 + 12] = "resident"
  BY <1>6, <1>9
<1>15. /\ line[7] = "mode" /\ line[9] = "group" /\ line[11] = "pair_order" /\ line[13] = "hoist"
       /\ line[15] = "plan_metrics" /\ line[16] = "off" /\ line[17] = "validate" /\ line[18] = "resident"
  BY <1>11, <1>14
<1>16. line[18 + 1] = "warmup" /\ line[18 + 3] = "repeat"
  BY <1>7, <1>11
<1> QED
  BY <1>1, <1>11, <1>12, <1>13, <1>15, <1>16 DEF CommandOf, MatrixArguments

(* What a record says of the run it was made by: the configuration, and where the pairs were. *)
Spread(rec, gpus, total) ==
  Len(rec.pair_ranges) = gpus /\ UNION {Members(rec.pair_ranges[i]) : i \in 1 .. gpus} = 0 .. total - 1

Reports(line, total, rec) ==
  /\ Accepts(line) /\ AsAsked(Parsed(line).cfg, rec)
  /\ rec.partition = Parsed(line).cfg["partition"] /\ Spread(rec, Parsed(line).cfg["gpus"], total)

NamedRun(n, rec) ==
  /\ Len(rec.pair_ranges) = CONFIGS[n].gpus
  /\ rec.partition = CONFIGS[n].partition /\ rec.payload = CONFIGS[n].payload
  /\ UNION {Members(rec.pair_ranges[i]) : i \in 1 .. CONFIGS[n].gpus} = 0 .. NPairs - 1

LEMMA CommandTruthful ==
  ASSUME NEW n \in Arms, NEW rec, Reports(Command(n), NPairs, rec)
  PROVE  NamedRun(n, rec)
<1>1. PICK line : line = Command(n)
  OBVIOUS
<1>2. CommandOf(line, n) /\ Reports(line, NPairs, rec)
  BY <1>1, CommandWords
<1>3. MatrixArguments(line) /\ Complete(Parsed(line))
  BY <1>2 DEF CommandOf, Reports, Accepts
<1>4. PICK c : /\ Parsed(line).cfg = c
               /\ c["gpus"] = Number(line[2]) /\ c["partition"] = line[4] /\ c["payload"] = line[6]
  BY <1>3, MatrixFields
<1>5. PICK k : k = CONFIGS[n].gpus
  OBVIOUS
<1>6. k \in {1, 2}
  BY <1>5 DEF Arms, CONFIGS
<1>7. Number(ToString(k)) = k
  BY <1>6, WordsAssumption DEF Number
<1>8. c["gpus"] = k /\ c["partition"] = CONFIGS[n].partition /\ c["payload"] = CONFIGS[n].payload
  BY <1>2, <1>4, <1>5, <1>7 DEF CommandOf
<1>9. AsAsked(c, rec) /\ rec.partition = c["partition"] /\ Spread(rec, c["gpus"], NPairs)
  BY <1>2, <1>4 DEF Reports
<1>10. rec.payload = c["payload"]
  BY <1>9 DEF AsAsked
<1>11. Spread(rec, k, NPairs)
  BY <1>8, <1>9
<1> QED
  BY <1>5, <1>8, <1>9, <1>10, <1>11 DEF NamedRun, Spread

LEMMA RecordSpread ==
  ASSUME ~Refused(cfg), n_pairs \in Nat, NEW failing
  PROVE  Spread(RecordMade(failing), cfg.gpus, n_pairs)
<1>1. PICK k \in Nat \ {0}, t \in Nat : k = cfg.gpus /\ t = n_pairs
  <2>1. cfg.gpus \in 1 .. Visible /\ Visible \in Nat
    BY CommandLineAssumption DEF Refused, BadNumber
  <2>2. cfg.gpus \in Nat \ {0}
    BY <2>1
  <2> QED
    BY <2>2
<1>2. PICK ranges : ranges = [g \in 1 .. k |-> PairRange(g - 1)]
  OBVIOUS
<1>3. RecordMade(failing).pair_ranges = ranges
  BY <1>1, <1>2 DEF RecordMade
<1>4. Len(ranges) = k
  <2>1. ranges = [g \in 1 .. k |-> ranges[g]] /\ k \in Nat
    BY <1>1, <1>2
  <2> QED
    BY <2>1, Listed
<1>5. UNION {Members(ranges[i]) : i \in 1 .. k} = 0 .. t - 1
  <2>1. CASE Collective
    <3>1. \A i \in 1 .. k : Members(ranges[i]) = 0 .. t - 1
      BY <1>1, <1>2, <2>1 DEF PairRange, Members
    <3>2. 1 \in 1 .. k
      BY <1>1
    <3> QED
      BY <3>1, <3>2
  <2>2. CASE ~Collective
    <3>1. \A i \in 1 .. k : ranges[i] = SplitRange(t, i - 1, k)
      BY <1>1, <1>2, <2>2 DEF PairRange
    <3>2. ASSUME NEW i \in 1 .. k PROVE Members(ranges[i]) \subseteq 0 .. t - 1
      <4>1. i - 1 \in 0 .. k - 1
        BY <1>1
      <4>2. PICK g \in 0 .. k - 1 : g = i - 1
        BY <4>1
      <4>3. Members(SplitRange(t, g, k)) \subseteq 0 .. t - 1
        BY SplitWithin
      <4> QED
        BY <3>1, <4>2, <4>3
    <3>3. ASSUME NEW x1 \in 0 .. t - 1 PROVE \E i \in 1 .. k : x1 \in Members(ranges[i])
      <4>1. PICK g \in 0 .. k - 1 : x1 \in Members(SplitRange(t, g, k))
        BY SplitCovers
      <4>2. PICK i : i = g + 1
        OBVIOUS
      <4>3. i \in 1 .. k /\ i - 1 = g
        BY <1>1, <4>2
      <4> QED
        BY <3>1, <4>1, <4>3
    <3> QED
      BY <3>2, <3>3
  <2> QED
    BY <2>1, <2>2
<1> QED
  BY <1>1, <1>3, <1>4, <1>5 DEF Spread

LEMMA RecordOfRun ==
  ASSUME Accepts(argv), parse = Parsed(argv), n_pairs \in Nat, NEW failing
  PROVE  Reports(argv, n_pairs, RecordMade(failing))
<1>1. PICK rec : rec = RecordMade(failing)
  OBVIOUS
<1>2. /\ rec.mode = cfg.mode /\ rec.gpus = cfg.gpus /\ rec.chunk = cfg.chunk /\ rec.group = cfg.group
      /\ rec.pair_order = cfg.pair_order /\ rec.hoist = cfg.hoist /\ rec.plan_metrics = cfg.plan_metrics
      /\ rec.payload = cfg.payload /\ rec.partition = cfg.partition
      /\ rec.finalize_stream = IF InSync THEN "not_applicable" ELSE cfg.finalize_stream
      /\ rec.kind = IF cfg.resident THEN "resident" ELSE IF InSync THEN "device" ELSE "pipeline"
      /\ rec.pre_timing_delay = cfg.pre_timing_delay /\ rec.validation_ran = cfg.validate
  BY <1>1 DEF RecordMade
<1>3. rec.kind \in {"resident", "device", "pipeline"}
  BY <1>2
<1>4. cfg = Parsed(argv).cfg
  BY DEF cfg
<1>5. AsAsked(cfg, rec)
  BY <1>2, <1>3 DEF AsAsked, InSync
<1>6. Spread(rec, cfg.gpus, n_pairs)
  <2>1. ~Refused(cfg)
    BY <1>4 DEF Accepts
  <2> QED
    BY <1>1, <2>1, RecordSpread
<1> QED
  BY <1>1, <1>2, <1>3, <1>4, <1>5, <1>6 DEF Reports

(* The inductive invariant: a record is of the command line of its process, *)
(* and the command line is that of the arm or the configuration at work.    *)
ProcessInv ==
  /\ phase \in {"load", "run", "report"} => Accepts(argv) /\ parse = Parsed(argv)
  /\ record # NoRecord => Reports(argv, n_pairs, record)
  /\ status = 0 => record # NoRecord

AtWork ==
  /\ runner = "waiting" => now \in Arms /\ argv = Command(now)
  /\ Scripted /\ runner = "process" =>
       Len(ran) + 1 \in DOMAIN plan /\ argv = plan[Len(ran) + 1].line /\ argv # Other /\ ~OnCuda(argv)
  /\ Scripted /\ runner = "other" =>
       /\ Len(ran) + 1 \in DOMAIN plan
       /\ plan[Len(ran) + 1].line = Other \/ OnCuda(plan[Len(ran) + 1].line)

ShownSoFar == Scripted => \A i \in DOMAIN ran : Shows(plan[i].arm, ran[i])
NamedSoFar == \A n \in DOMAIN runs : n \in Arms /\ NamedRun(n, runs[n])

NamedInv ==
  /\ ProcessInv /\ AtWork /\ NamedSoFar /\ ShownSoFar
  /\ Scripted => n_pairs = NPairs /\ TruePlan(plan)

LEMMA NamedStart == ASSUME MeasureInit PROVE NamedInv
<1>1. /\ phase = "exit" /\ record = NoRecord /\ status = -1 /\ ran = <<>>
      /\ n_pairs \in IF script = "person" THEN PairCounts ELSE {NPairs}
  BY DEF MeasureInit, EngineInit
<1>2. runs = <<>> /\ runner \in {"next", "launch"}
  BY DEF MeasureInit, Matrix, MatrixInit, NoMatrix
<1>3. ProcessInv
  BY <1>1 DEF ProcessInv
<1>4. AtWork
  BY <1>2 DEF AtWork
<1>5. NamedSoFar
  <2>1. DOMAIN runs = {}
    BY <1>2
  <2> QED
    BY <2>1 DEF NamedSoFar
<1>6. ShownSoFar
  <2>1. DOMAIN ran = {}
    BY <1>1
  <2> QED
    BY <2>1 DEF ShownSoFar
<1>7. Scripted => n_pairs = NPairs
  BY <1>1 DEF Scripted
<1> QED
  BY <1>3, <1>4, <1>5, <1>6, <1>7, PlannedTruly DEF NamedInv

(* The process: what it has accepted is what it reports. *)
LEMMA RecordNext ==
  ASSUME ProcessInv, EngineInv, EngineNext
  PROVE  ProcessInv' /\ argv' = argv /\ n_pairs' = n_pairs
<1>1. CASE ParseArguments
  <2>1. /\ parse' = Parsed(argv) /\ argv' = argv /\ n_pairs' = n_pairs /\ record = NoRecord /\ record' = record
        /\ \/ Accepts(argv) /\ phase' = "load" /\ status' = status
           \/ phase' = "exit" /\ status' = 2
    BY <1>1 DEF ParseArguments, Refuse, EngineInv
  <2> QED
    BY <2>1 DEF ProcessInv
<1>2. CASE Load
  <2>1. /\ phase = "load" /\ parse' = parse /\ argv' = argv /\ n_pairs' = n_pairs
        /\ record = NoRecord /\ record' = record
        /\ \/ phase' = "run" /\ status' = status
           \/ phase' = "exit" /\ status' = 2
    BY <1>2 DEF Load, Refuse, EngineInv
  <2> QED
    BY <2>1 DEF ProcessInv
<1>3. CASE WarmupBatch \/ TimedBatch \/ SingleBatch \/ ResidentEnd \/ Chunk \/ PipelineEnd
  <2>1. /\ phase = "run" /\ parse' = parse /\ argv' = argv /\ n_pairs' = n_pairs
        /\ record' = record /\ status' = status
    BY <1>3 DEF WarmupBatch, TimedBatch, SingleBatch, ResidentEnd, Chunk, PipelineEnd
  <2> QED
    BY <2>1 DEF ProcessInv
<1>4. CASE Report
  <2>1. PICK failing : record' = RecordMade(failing)
    BY <1>4 DEF Report
  <2>2. phase = "report" /\ phase' = "exit" /\ parse' = parse /\ argv' = argv /\ n_pairs' = n_pairs
    BY <1>4 DEF Report
  <2>3. Reports(argv, n_pairs, RecordMade(failing))
    BY <2>2, RecordOfRun DEF ProcessInv, EngineInv
  <2>4. record' # NoRecord
    <3>1. RecordMade(failing).kind # "none" /\ NoRecord.kind = "none"
      BY DEF RecordMade, NoRecord
    <3> QED
      BY <2>1, <3>1
  <2> QED
    BY <2>1, <2>2, <2>3, <2>4 DEF ProcessInv
<1> QED
  BY <1>1, <1>2, <1>3, <1>4 DEF EngineNext

LEMMA RecordFresh ==
  ASSUME EngineGone \/ (\E line : Exec(line))
  PROVE  ProcessInv' /\ n_pairs' = n_pairs
<1>1. phase' \in {"exit", "parse"} /\ record' = NoRecord /\ status' = -1 /\ n_pairs' = n_pairs
  BY DEF EngineGone, Exec
<1> QED
  BY <1>1 DEF ProcessInv

(* What was kept stays what it is. *)
LEMMA ShownStays ==
  ASSUME ShownSoFar, script' = script, plan' = plan, ran' = ran
  PROVE  ShownSoFar'
BY DEF ShownSoFar, Scripted

LEMMA NamedStays ==
  ASSUME NamedInv, UNCHANGED session_vars, UNCHANGED runs, n_pairs' = n_pairs, ProcessInv', AtWork'
  PROVE  NamedInv'
<1>1. script' = script /\ plan' = plan /\ ran' = ran /\ runs' = runs
  BY DEF session_vars
<1>2. NamedSoFar'
  BY <1>1 DEF NamedInv, NamedSoFar, NamedRun
<1>3. ShownSoFar'
  BY <1>1, ShownStays DEF NamedInv
<1>4. (Scripted => n_pairs = NPairs /\ TruePlan(plan))'
  BY <1>1 DEF NamedInv, Scripted, TruePlan
<1> QED
  BY <1>2, <1>3, <1>4 DEF NamedInv

LEMMA NamedMatrix == ASSUME NamedInv, EngineInv, MatrixStep PROVE NamedInv'
<1>1. MatrixNext /\ UNCHANGED session_vars /\ script = "matrix"
  BY DEF MatrixStep
<1>2. CASE \E n \in Arms : StartArm(n)
  <2>1. PICK n \in Arms : StartArm(n)
    BY <1>2
  <2>2. PICK line : line = Command(n)
    OBVIOUS
  <2>3. /\ Exec(line) /\ runs' = runs /\ now' = n /\ runner' = "waiting" /\ args' = args
    BY <2>1, <2>2 DEF StartArm
  <2>4. Command(n)' = line
    BY <2>2, <2>3 DEF Command
  <2>5. argv' = line
    BY <2>3 DEF Exec
  <2>6. AtWork'
    BY <2>1, <2>3, <2>4, <2>5 DEF AtWork, Command
  <2>7. ProcessInv' /\ n_pairs' = n_pairs
    BY <2>3, RecordFresh
  <2> QED
    BY <1>1, <2>3, <2>6, <2>7, NamedStays
<1>3. CASE Raises
  <2>1. runner' = "arms" /\ EngineGone /\ runs' = runs
    BY <1>3 DEF Raises
  <2>2. AtWork'
    BY <2>1 DEF AtWork
  <2> QED
    BY <1>1, <2>1, <2>2, RecordFresh, NamedStays
<1>4. CASE Returns
  <2>1. /\ runner = "waiting" /\ status = 0 /\ runner' = "arms" /\ EngineGone
        /\ \/ runs' = runs
           \/ runs' = [n \in DOMAIN runs \cup {now} |-> IF n = now THEN record ELSE runs[n]]
    BY <1>4 DEF Returns
  <2>2. AtWork'
    BY <2>1 DEF AtWork
  <2>3. ProcessInv' /\ n_pairs' = n_pairs
    BY <2>1, RecordFresh
  <2>4. CASE runs' = runs
    BY <1>1, <2>2, <2>3, <2>4, NamedStays
  <2>5. CASE runs' = [n \in DOMAIN runs \cup {now} |-> IF n = now THEN record ELSE runs[n]]
    <3>1. now \in Arms /\ argv = Command(now) /\ record # NoRecord
      BY <2>1 DEF NamedInv, AtWork, ProcessInv
    <3>2. n_pairs = NPairs /\ Reports(argv, n_pairs, record)
      BY <1>1, <3>1 DEF NamedInv, ProcessInv, Scripted
    <3>3. PICK m, rec : m = now /\ rec = record
      OBVIOUS
    <3>4. m \in Arms /\ Reports(Command(m), NPairs, rec)
      BY <3>1, <3>2, <3>3
    <3>5. NamedRun(m, rec)
      BY <3>4, CommandTruthful
    <3>6. PICK q : q = runs'
      OBVIOUS
    <3>7. DOMAIN q = DOMAIN runs \cup {m} /\ \A n \in DOMAIN q : q[n] = IF n = m THEN rec ELSE runs[n]
      BY <2>5, <3>3, <3>6
    <3>8. \A n \in DOMAIN q : n \in Arms /\ NamedRun(n, q[n])
      BY <3>4, <3>5, <3>7 DEF NamedInv, NamedSoFar
    <3>9. NamedSoFar'
      BY <3>6, <3>8 DEF NamedSoFar, NamedRun
    <3>10. script' = script /\ plan' = plan /\ ran' = ran
      BY <1>1 DEF session_vars
    <3>11. ShownSoFar'
      BY <3>10, ShownStays DEF NamedInv
    <3>12. (Scripted => n_pairs = NPairs /\ TruePlan(plan))'
      BY <2>3, <3>10 DEF NamedInv, Scripted, TruePlan
    <3> QED
      BY <2>2, <2>3, <3>9, <3>11, <3>12 DEF NamedInv
  <2> QED
    BY <2>1, <2>4, <2>5
<1>5. CASE BeginBlock
  <2>1. /\ runner' = "arms" /\ runs' = <<>> /\ UNCHANGED engine_vars
    BY <1>5 DEF BeginBlock
  <2>2. AtWork'
    BY <2>1 DEF AtWork
  <2>3. ProcessInv' /\ n_pairs' = n_pairs
    BY <2>1 DEF NamedInv, ProcessInv, engine_vars
  <2>4. NamedSoFar'
    <3>1. DOMAIN runs' = {}
      BY <2>1
    <3> QED
      BY <3>1 DEF NamedSoFar
  <2>5. script' = script /\ plan' = plan /\ ran' = ran
    BY <1>1 DEF session_vars
  <2>6. ShownSoFar'
    BY <2>5, ShownStays DEF NamedInv
  <2>7. (Scripted => n_pairs = NPairs /\ TruePlan(plan))'
    BY <2>3, <2>5 DEF NamedInv, Scripted, TruePlan
  <2> QED
    BY <2>2, <2>3, <2>4, <2>6, <2>7 DEF NamedInv
<1>6. CASE AppendBlock \/ WriteBlock \/ EndOfPlan \/ WriteFinal
  <2>1. /\ runner' \in {"write", "final", "next", "done"} /\ runs' = runs /\ UNCHANGED engine_vars
    BY <1>6 DEF AppendBlock, WriteBlock, EndOfPlan, WriteFinal, matrix_vars
  <2>2. AtWork'
    BY <2>1 DEF AtWork
  <2>3. ProcessInv' /\ n_pairs' = n_pairs
    BY <2>1 DEF NamedInv, ProcessInv, engine_vars
  <2> QED
    BY <1>1, <2>1, <2>2, <2>3, NamedStays
<1> QED
  BY <1>1, <1>2, <1>3, <1>4, <1>5, <1>6 DEF MatrixNext

(* One more record, under the arm of its place in the plan. *)
LEMMA NamedTrial ==
  ASSUME NamedInv, TrialsInv, NEW st, NEW rec, TakeRecord(st, rec), ProcessInv', n_pairs' = n_pairs,
         Scripted /\ Keeps(st, rec) => Shows(plan[Len(ran) + 1].arm, rec)
  PROVE  NamedInv'
<1>1. script' = script /\ plan' = plan /\ runs' = runs /\ runner' \in {"launch", "aborted"}
  BY DEF TakeRecord, matrix_vars
<1>2. AtWork'
  BY <1>1 DEF AtWork
<1>3. NamedSoFar'
  BY <1>1 DEF NamedInv, NamedSoFar, NamedRun
<1>4. (Scripted => n_pairs = NPairs /\ TruePlan(plan))'
  BY <1>1 DEF NamedInv, Scripted, TruePlan
<1>5. ShownSoFar'
  <2>1. CASE ran' = ran
    BY <1>1, <2>1, ShownStays DEF NamedInv
  <2>2. CASE ran' = Append(ran, rec) /\ (Scripted => Keeps(st, rec))
    <3>1. PICK q, r, p : q = ran /\ r = Append(ran, rec) /\ p = plan
      OBVIOUS
    <3>2. /\ DOMAIN r = 1 .. Len(q) + 1 /\ DOMAIN q = 1 .. Len(q) /\ Len(q) \in Nat
          /\ \A i \in 1 .. Len(q) : r[i] = q[i]
          /\ r[Len(q) + 1] = rec
      <4>1. Sequence(q) /\ r = Append(q, rec)
        BY <3>1 DEF TrialsInv
      <4>2. Len(q) \in Nat
        BY <4>1 DEF Sequence
      <4> QED
        BY <4>1, <4>2, Appended
    <3>3. ASSUME Scripted, NEW i \in DOMAIN r PROVE Shows(p[i].arm, r[i])
      <4>1. CASE i \in 1 .. Len(q)
        <5>1. Shows(p[i].arm, q[i])
          BY <3>1, <3>2, <3>3, <4>1 DEF NamedInv, ShownSoFar
        <5> QED
          BY <3>2, <3>3, <4>1, <5>1
      <4>2. CASE i = Len(q) + 1
        <5>1. Shows(p[Len(q) + 1].arm, rec)
          BY <2>2, <3>1, <3>2, <3>3, <4>2
        <5> QED
          BY <3>2, <4>2, <5>1
      <4> QED
        BY <3>2, <3>3, <4>1, <4>2
    <3>4. ran' = r /\ plan' = p
      BY <1>1, <2>2, <3>1
    <3>5. script' = script /\ (\A i \in DOMAIN r : Scripted => Shows(p[i].arm, r[i]))
      BY <1>1, <3>3
    <3> QED
      BY <3>4, <3>5 DEF ShownSoFar, Scripted
  <2> QED
    BY <2>1, <2>2 DEF TakeRecord
<1> QED
  BY <1>2, <1>3, <1>4, <1>5 DEF NamedInv

LEMMA NamedNext == NamedInv /\ TrialsInv /\ EngineInv /\ [MeasureNext]_measure_vars => NamedInv'
<1> SUFFICES ASSUME NamedInv, TrialsInv, EngineInv, [MeasureNext]_measure_vars PROVE NamedInv'
  OBVIOUS
<1>1. CASE MatrixStep
  BY <1>1, NamedMatrix
<1>2. CASE LaunchTrial
  <2>1. /\ runner = "launch" /\ Len(ran) < Len(plan) /\ UNCHANGED session_vars /\ runs' = runs
    BY <1>2 DEF LaunchTrial, matrix_vars
  <2>2. script' = script /\ plan' = plan /\ ran' = ran
    BY <2>1 DEF session_vars
  <2>3. Len(ran) + 1 \in DOMAIN plan
    <3>1. Len(ran) \in Nat /\ Len(plan) \in Nat /\ DOMAIN plan = 1 .. Len(plan)
      BY DEF TrialsInv, Sequence
    <3> QED
      BY <2>1, <3>1
  <2>4. PICK line : line = plan[Len(ran) + 1].line
    OBVIOUS
  <2>5. CASE line = Other \/ OnCuda(line)
    <3>1. runner' = "other" /\ UNCHANGED engine_vars
      BY <1>2, <2>4, <2>5 DEF LaunchTrial
    <3>2. ProcessInv' /\ n_pairs' = n_pairs
      BY <3>1 DEF NamedInv, ProcessInv, engine_vars
    <3>3. AtWork'
      BY <2>2, <2>3, <2>4, <2>5, <3>1 DEF AtWork, OnCuda
    <3> QED
      BY <2>1, <3>2, <3>3, NamedStays
  <2>6. CASE line # Other /\ ~OnCuda(line)
    <3>1. runner' = "process" /\ Exec(line)
      BY <1>2, <2>4, <2>6 DEF LaunchTrial
    <3>2. ProcessInv' /\ n_pairs' = n_pairs
      BY <3>1, RecordFresh
    <3>3. AtWork'
      <4>1. argv' = line
        BY <3>1 DEF Exec
      <4> QED
        BY <2>2, <2>3, <2>4, <2>6, <3>1, <4>1 DEF AtWork, OnCuda, Scripted
    <3> QED
      BY <2>1, <3>2, <3>3, NamedStays
  <2> QED
    BY <2>5, <2>6
<1>3. CASE EngineStep
  <2>1. EngineNext /\ UNCHANGED session_vars /\ runner' = runner /\ UNCHANGED matrix_vars
    BY <1>3 DEF EngineStep
  <2>2. ProcessInv' /\ argv' = argv /\ n_pairs' = n_pairs
    BY <2>1, RecordNext DEF NamedInv
  <2>3. AtWork'
    BY <2>1, <2>2 DEF NamedInv, AtWork, OnCuda, Scripted, Command, session_vars, matrix_vars
  <2> QED
    BY <2>1, <2>2, <2>3, NamedStays DEF matrix_vars
<1>4. CASE Ends
  <2>1. PICK st, rec : st = status /\ rec = record
    OBVIOUS
  <2>2. runner = "process" /\ TakeRecord(st, rec) /\ EngineGone
    BY <1>4, <2>1 DEF Ends
  <2>3. ASSUME Scripted, Keeps(st, rec) PROVE Shows(plan[Len(ran) + 1].arm, rec)
    <3>1. PICK i, t : i = Len(ran) + 1 /\ t = plan[i]
      OBVIOUS
    <3>2. i \in DOMAIN plan /\ argv = t.line /\ t.line # Other /\ ~OnCuda(t.line)
      BY <2>2, <2>3, <3>1 DEF NamedInv, AtWork
    <3>3. Reports(t.line, n_pairs, rec)
      BY <2>1, <2>3, <3>2 DEF NamedInv, ProcessInv, Keeps
    <3>4. Truthful(t.arm, t.line)
      BY <2>3, <3>1, <3>2 DEF NamedInv, TruePlan, Honest
    <3>5. Shows(t.arm, rec)
      BY <3>2, <3>3, <3>4 DEF Truthful, Reports
    <3> QED
      BY <3>1, <3>5
  <2> QED
    BY <2>2, <2>3, RecordFresh, NamedTrial
<1>5. CASE OtherEnds
  <2>1. UNCHANGED engine_vars
    BY <1>5 DEF OtherEnds
  <2>2. ProcessInv' /\ n_pairs' = n_pairs
    BY <2>1 DEF NamedInv, ProcessInv, engine_vars
  <2>3. CASE TakeRecord(2, NoRecord)
    <3>1. PICK st, rec : st = 2 /\ rec = NoRecord
      OBVIOUS
    <3>2. TakeRecord(st, rec) /\ ~Keeps(st, rec)
      BY <2>3, <3>1 DEF Keeps
    <3> QED
      BY <2>2, <3>2, NamedTrial
  <2>4. CASE ~TakeRecord(2, NoRecord)
    <3>1. PICK i, t : i = Len(ran) + 1 /\ t = plan[i]
      OBVIOUS
    <3>2. PICK outcome, st, rec :
             /\ OnCuda(t.line) => CudaAccepts(t.line)
             /\ rec = RecordOf(t.line, outcome) /\ TakeRecord(st, rec)
      BY <1>5, <2>4, <3>1 DEF OtherEnds
    <3>3. ASSUME Scripted PROVE Shows(t.arm, rec)
      <4>1. i \in DOMAIN plan /\ (t.line = Other \/ OnCuda(t.line))
        BY <1>5, <3>1, <3>3 DEF OtherEnds, NamedInv, AtWork
      <4>2. Truthful(t.arm, t.line)
        BY <3>1, <3>3, <4>1 DEF NamedInv, TruePlan, Honest
      <4>3. CASE OnCuda(t.line)
        BY <3>2, <4>2, <4>3 DEF Truthful
      <4>4. CASE t.line = Other
        <5>1. rec = OtherRecord(outcome) /\ t.arm[1] \in {"legacy", "serial", "cuda_1gpu"}
          BY <3>2, <4>2, <4>4, OtherLine DEF Truthful, RecordOf
        <5>2. rec.kind = "other" /\ rec.validation_ran
          BY <5>1 DEF OtherRecord
        <5> QED
          BY <5>1, <5>2 DEF Shows
      <4> QED
        BY <4>1, <4>3, <4>4
    <3> QED
      BY <2>2, <3>1, <3>2, <3>3, NamedTrial
  <2> QED
    BY <2>3, <2>4
<1>6. CASE WriteReport
  <2>1. /\ UNCHANGED matrix_vars /\ UNCHANGED engine_vars /\ script' = script /\ plan' = plan
        /\ ran' = ran /\ runner' = "done"
    BY <1>6 DEF WriteReport
  <2>2. ProcessInv' /\ n_pairs' = n_pairs
    BY <2>1 DEF NamedInv, ProcessInv, engine_vars
  <2>3. AtWork'
    BY <2>1 DEF AtWork
  <2>4. NamedSoFar' /\ ShownSoFar'
    <3>1. runs' = runs
      BY <2>1 DEF matrix_vars
    <3>2. NamedSoFar'
      BY <3>1 DEF NamedInv, NamedSoFar, NamedRun
    <3>3. ShownSoFar'
      BY <2>1, ShownStays DEF NamedInv
    <3> QED
      BY <3>2, <3>3
  <2>5. (Scripted => n_pairs = NPairs /\ TruePlan(plan))'
    BY <2>1, <2>2 DEF NamedInv, Scripted, TruePlan
  <2> QED
    BY <2>2, <2>3, <2>4, <2>5 DEF NamedInv
<1>7. CASE KillScript
  <2>1. /\ UNCHANGED matrix_vars /\ UNCHANGED engine_vars /\ UNCHANGED session_vars /\ runner' = "killed"
    BY <1>7 DEF KillScript
  <2>2. ProcessInv' /\ n_pairs' = n_pairs
    BY <2>1 DEF NamedInv, ProcessInv, engine_vars
  <2>3. AtWork'
    BY <2>1 DEF AtWork
  <2> QED
    BY <2>1, <2>2, <2>3, NamedStays DEF matrix_vars
<1>8. CASE UNCHANGED measure_vars
  <2>1. /\ UNCHANGED matrix_vars /\ UNCHANGED engine_vars /\ UNCHANGED session_vars /\ runner' = runner
    BY <1>8 DEF measure_vars
  <2>2. ProcessInv' /\ n_pairs' = n_pairs /\ argv' = argv
    BY <2>1 DEF NamedInv, ProcessInv, engine_vars
  <2>3. AtWork'
    BY <2>1, <2>2 DEF NamedInv, AtWork, OnCuda, Scripted, Command, session_vars, matrix_vars
  <2> QED
    BY <2>1, <2>2, <2>3, NamedStays DEF matrix_vars
<1> QED
  BY <1>1, <1>2, <1>3, <1>4, <1>5, <1>6, <1>7, <1>8 DEF MeasureNext

(* Every record is of the command line of its process, in every script. *)
THEOREM NamedInvariance == MeasureSpec => []NamedInv
BY NamedStart, NamedNext, TrialsInvariance, EngineInvariance, PTL DEF MeasureSpec

(* What is filed under an arm or a configuration is the record of a process  *)
(* that was asked for it, whatever the specs and the numbers in them, the    *)
(* values of --chunk, the number of blocks and rounds and the order drawn.   *)
THEOREM RunsAreAsNamed == MeasureSpec => []RunsAsNamed
<1>1. NamedInv => RunsAsNamed
  BY DEF NamedInv, NamedSoFar, ShownSoFar, NamedRun, RunsAsNamed
<1> QED
  BY <1>1, NamedInvariance, PTL
=============================================================================
