------------------------------ MODULE Similarity ------------------------------
(***************************************************************************)
(* The Pearson similarity of two rating vectors, in the two forms of       *)
(* docs/pearson_contract.md section 3: two passes with centred ratings     *)
(* (cf_train.py) and sufficient statistics (export_fixture.py and every    *)
(* backend).  A vector is a function from dimensions to whole ratings.     *)
(*                                                                         *)
(* A similarity is represented by its sign and its square, one rational    *)
(* number in lowest terms, so that no root is taken; the order of          *)
(* similarities is the order of these numbers.  One effect of rounding is  *)
(* kept: centred ratings whose products cancel may leave a Residue above 0 *)
(* and below EPS, which cf_train.py writes and everything behind the       *)
(* exporter drops (section 5).  A residue below 0 is dropped by both, as 0 *)
(* is, and the sums of the other form are whole and leave none.            *)
(***************************************************************************)
EXTENDS Integers, FiniteSets, FiniteSetsExt, Functions

CONSTANT MIN_OVERLAP

ASSUME MinOverlapAssumption == MIN_OVERLAP \in Nat \ {0}

Zero == [p |-> 0, q |-> 1]
Residue == [p |-> 0, q |-> 2]  \* no similarity in lowest terms

Signed(num, den) ==  \* num / sqrt(den)
  LET sq == num * num
      g  == Max({d \in 1 .. den : den % d = 0 /\ sq % d = 0})
  IN  [p |-> (IF num < 0 THEN -sq ELSE sq) \div g, q |-> den \div g]

Retained(s) == s.p > 0                  \* sim > EPS
Positive(s) == s.p > 0 \/ s = Residue   \* sim > 0
Above(s, t) == s.p * t.q > t.p * s.q \/ (s.p = 0 /\ t.p = 0 /\ s.q > t.q)  \* a residue above 0

(* The elements of S in order, least first; Before is a strict total order. *)
Ordered(S, Before(_, _)) ==
  [k \in 1 .. Cardinality(S) |-> CHOOSE x \in S : Cardinality({y \in S : Before(y, x)}) = k - 1]

Ascending(S) == Ordered(S, <)

Overlap(r, s) == DOMAIN r \cap DOMAIN s

pearson_from_stats(n, sx, sy, sxx, syy, sxy) ==
  LET num == n * sxy - sx * sy
      vx  == n * sxx - sx * sx
      vy  == n * syy - sy * sy
  IN  IF num = 0 \/ vx <= 0 \/ vy <= 0 THEN Zero ELSE Signed(num, vx * vy)

Total(v, D) == FoldFunctionOnSet(+, 0, v, D)
Dot(v, w, D) == Total([d \in D |-> v[d] * w[d]], D)

pair_sim(r, s) ==
  LET D == Overlap(r, s)
  IN  pearson_from_stats(Cardinality(D), Total(r, D), Total(s, D),
                         Dot(r, r, D), Dot(s, s, D), Dot(r, s, D))

(***************************************************************************)
(* item_pearson_similarity and user_pearson_similarity.  All deviations    *)
(* are multiplied by n, which keeps them whole and cancels in the end.     *)
(***************************************************************************)
pearson_similarity(r, s) ==
  LET D == Overlap(r, s)
      n == Cardinality(D)
      Deviation(v) == LET sum == Total(v, D) IN [d \in D |-> n * v[d] - sum]
      tmp_1 == Deviation(r)
      tmp_2 == Deviation(s)
      num   == Dot(tmp_1, tmp_2, D)
      den   == Dot(tmp_1, tmp_1, D) * Dot(tmp_2, tmp_2, D)
  IN  IF num = 0 \/ den = 0 THEN Zero ELSE Signed(num, den)

(* The deviations cancel and are not all 0: where rounding may show.       *)
Varies(v, D) == \E d, e \in D : v[d] # v[e]
Cancels(r, s) ==
  LET D == Overlap(r, s)
  IN  Varies(r, D) /\ Varies(s, D) /\ pearson_similarity(r, s) = Zero
=============================================================================
