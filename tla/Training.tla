------------------------------- MODULE Training -------------------------------
(***************************************************************************)
(* Training (cf_train.py) and prediction (cf_predict.py) on a file of      *)
(* reviews.  Identifiers are numbers, in the order of the strings.         *)
(*                                                                         *)
(* Two orders are Spark's own: the index that distinct().collect() gives a *)
(* business (idx), and the order in which users come out of a reduceByKey  *)
(* (order).  The reviews of one key are concatenated in the order of the   *)
(* file (docs/pearson_contract.md section 4).                              *)
(***************************************************************************)
EXTENDS Similarity, Sequences, SequencesExt

CONSTANTS
  Hashes,   \* the sequence of [a1, a2, b1, b2] of the hash functions
  LSH_P,    \* their modulus, 24251
  N         \* neighbours an item-based prediction is made of

ASSUME TrainingAssumption ==
  /\ \A i \in DOMAIN Hashes : \A f \in DOMAIN Hashes[i] : Hashes[i][f] \in Nat
  /\ LSH_P \in Nat \ {0} /\ N \in Nat \ {0}

(* A review is [user, business, stars]; mode decides what is compared. *)
Entity(rev, mode) == IF mode = "item" THEN rev.business ELSE rev.user
Dim(rev, mode)    == IF mode = "item" THEN rev.user ELSE rev.business

Entities(R, mode) == {Entity(R[i], mode) : i \in DOMAIN R}
Dims(R, mode)     == {Dim(R[i], mode) : i \in DOMAIN R}

(* Where the reviews of an entity are, and the reviews that are there. *)
Basket(R, mode, e) == {i \in DOMAIN R : Entity(R[i], mode) = e}
Picked(R, I) == LET kept == Ascending(I) IN [k \in DOMAIN kept |-> R[kept[k]]]

(* Of several reviews of one pair the last in the list stays. *)
list2dict(R, I, mode) ==
  [d \in {Dim(R[i], mode) : i \in I} |-> R[Max({i \in I : Dim(R[i], mode) = d})].stars]
Ratings(R, mode, e) == list2dict(R, Basket(R, mode, e), mode)

Eligible(R, mode) == {e \in Entities(R, mode) : Cardinality(Basket(R, mode, e)) >= MIN_OVERLAP}

Overlapping(R, mode, e, f) ==
  Cardinality(Overlap(Ratings(R, mode, e), Ratings(R, mode, f))) >= MIN_OVERLAP

(* Pairs of entities whose similarity may come out as a residue; off has   *)
(* those where it does.                                                    *)
Cancelling(R, mode) ==
  {{p[1], p[2]} : p \in {q \in Eligible(R, mode) \X Eligible(R, mode) :
                          Cancels(Ratings(R, mode, q[1]), Ratings(R, mode, q[2]))}}

Line(R, mode, e, f, off) ==
  [a |-> e, b |-> f,
   sim |-> IF {e, f} \in off THEN Residue ELSE pearson_similarity(Ratings(R, mode, e), Ratings(R, mode, f))]

KeptLine_AnySign(line) == line.sim # Zero  \* mutant: correlations of either sign are written
KeptLine(line) == Positive(line.sim)

ItemModel(R, off) ==
  {line \in {Line(R, "item", p[1], p[2], off) :
               p \in {q \in Eligible(R, "item") \X Eligible(R, "item") :
                        q[1] < q[2] /\ Overlapping(R, "item", q[1], q[2])}} : KeptLine(line)}

-----------------------------------------------------------------------------
(* Locality-sensitive hashing of the users: one band per hash function.    *)
Hash(i, x) ==
  LET h == Hashes[i]
  IN  (i * (h.a1 * x + h.b1) + i * (h.a2 * x + h.b2) + i * i) % LSH_P

min_hash(S, m) == [i \in DOMAIN Hashes |-> Min({Hash(i, x) % m : x \in S})]
band_hash(v) == v * 131  \* below 2^31 for every v < LSH_P: the mask changes nothing

jaccard(S, T) == [inter |-> Cardinality(S \cap T), union |-> Cardinality(S \cup T)]
Similar(S, T) == 100 * jaccard(S, T).inter >= jaccard(S, T).union  \* >= 0.01

Bucketed(S, T, m) ==
  \E i \in DOMAIN Hashes : band_hash(min_hash(S, m)[i]) = band_hash(min_hash(T, m)[i])

(* combinations of a bucket keep its order, and distinct tells <<u, v>>    *)
(* from <<v, u>>.                                                          *)
UserModel(R, idx, order, off) ==
  LET m == Cardinality(Dims(R, "user"))
      rated == [u \in Eligible(R, "user") |-> {idx[b] : b \in DOMAIN Ratings(R, "user", u)}]
      pairs == {p \in (DOMAIN rated) \X (DOMAIN rated) :
                  /\ order[p[1]] < order[p[2]]
                  /\ Bucketed(rated[p[1]], rated[p[2]], m)
                  /\ Similar(rated[p[1]], rated[p[2]])
                  /\ Overlapping(R, "user", p[1], p[2])}
  IN  {line \in {Line(R, "user", p[1], p[2], off) : p \in pairs} : KeptLine(line)}

-----------------------------------------------------------------------------
(***************************************************************************)
(* Prediction.  The model is a dictionary keyed by the pair as written and *)
(* read with the pair in ascending order; a pair it does not have weighs   *)
(* nothing.  A prediction is [avg |-> TRUE] if it falls back to an average *)
(* and otherwise the terms [stars, weight] its quotient is made of.        *)
(***************************************************************************)
Weight(model, e, f) ==
  LET key   == <<Min({e, f}), Max({e, f})>>
      found == {line \in model : line.a = key[1] /\ line.b = key[2]}
  IN  IF found = {} THEN Zero ELSE (CHOOSE line \in found : TRUE).sim

Heavier(s, t) == Above(s.weight, t.weight)

(* sorted(..., reverse=True)[:N] is stable. *)
Best(terms) ==
  LET Before(i, j) == Heavier(terms[i], terms[j])
                      \/ (~Heavier(terms[j], terms[i]) /\ i < j)
      ranked == Ordered(DOMAIN terms, Before)
  IN  [k \in 1 .. Min({N, Len(terms)}) |-> terms[ranked[k]]]

Average == [avg |-> TRUE, terms |-> <<>>]

item_predict(R, model, u, b) ==
  LET mine  == Picked(R, Basket(R, "user", u))
      terms == Best([i \in DOMAIN mine |->
                 [stars |-> mine[i].stars, weight |-> Weight(model, mine[i].business, b)]])
  IN  IF \A i \in DOMAIN terms : terms[i].weight = Zero THEN Average
      ELSE [avg |-> FALSE, terms |-> terms]

(* The users who rated the business, with their weights; where no weight   *)
(* is left the quotient is 0 and the user's average stays.                 *)
user_predict(R, model, u, b) ==
  LET raters == Picked(R, Basket(R, "item", b))
      terms  == SelectSeq([i \in DOMAIN raters |->
                             [stars |-> raters[i].stars, of |-> raters[i].user,
                              weight |-> Weight(model, raters[i].user, u)]],
                          LAMBDA t : t.weight # Zero)
  IN  [avg |-> terms = <<>>, terms |-> terms]

(* The join drops a test pair whose user (item) or business (user) has no  *)
(* review.  rmse.py scores a pair without prediction by an average.        *)
ItemPredictions(R, model, test) ==
  [t \in {p \in test : p[1] \in Entities(R, "user")} |-> item_predict(R, model, t[1], t[2])]
UserPredictions(R, model, test) ==
  [t \in {p \in test : p[2] \in Entities(R, "item")} |-> user_predict(R, model, t[1], t[2])]

Scored(predictions, test) ==
  [t \in test |-> IF t \in DOMAIN predictions THEN predictions[t] ELSE Average]
=============================================================================
