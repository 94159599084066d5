------------------------------- MODULE Fixture -------------------------------
(***************************************************************************)
(* Fixtures: what export_fixture.py writes, what the tools make of it, and *)
(* what reads it: validate_fixture.py, the engine's loader, its result     *)
(* check, sims_to_model.py and crosscheck_archived.py.                     *)
(*                                                                         *)
(* A directory is a function from the files that are there to contents; a  *)
(* hash is the content.  The indices that files hold count from 0, as in   *)
(* the code; a pair is one element of "pairs".                             *)
(***************************************************************************)
EXTENDS Training

CONSTANTS
  Buckets,  \* of make_lane_bands.py
  Window,
  WARP      \* lanes of a warp, 32

(* The lengths of a bucket, with the window, are of its rounds, and those  *)
(* of the two sides apart.                                                 *)
ASSUME FixtureAssumption ==
  /\ Window \in Nat /\ WARP \in Nat \ {0}
  /\ \A b \in Buckets : /\ b.rounds \in Nat /\ b.full \in Nat /\ b.tail \in Nat
                         /\ WARP * (b.rounds - 1) < b.tail /\ b.full <= WARP * b.rounds
                         /\ b.tail + Window < b.full - Window
  /\ \A b, c \in Buckets : b.rounds = c.rounds => b = c

DataFiles == {"offsets", "dims", "vals", "pairs", "golden", "entities", "dimids"}
Files == DataFiles \cup {"meta"}
NoDir == [f \in {} |-> <<>>]
Put(dir, f, c) == [g \in DOMAIN dir \cup {f} |-> IF g = f THEN c ELSE dir[g]]
Without(dir, f) == Restrict(dir, DOMAIN dir \ {f})

Below(p, q) == p[1] < q[1] \/ (p[1] = q[1] /\ p[2] < q[2])

-----------------------------------------------------------------------------
(***************************************************************************)
(* The export.  The last review of a pair stays, rows and pairs are        *)
(* sorted, and the similarity of every candidate pair is computed.         *)
(* subset is <<mod, rem>>, or <<>> for all entities.                       *)
(***************************************************************************)
Newer_Older(i, j) == i < j  \* mutant: the first review of a pair stays
Newer(i, j) == i > j

Dedup(R) ==
  LET Same(i, j) == R[i].user = R[j].user /\ R[i].business = R[j].business
  IN  Picked(R, {i \in DOMAIN R : \A j \in DOMAIN R : Same(i, j) => i = j \/ Newer(i, j)})

Subset(R, mode, subset) ==
  LET all == Ascending(Entities(R, mode))
      keep == {all[i] : i \in {j \in DOMAIN all : (j - 1) % subset[1] = subset[2]}}
  IN  IF subset = <<>> THEN R ELSE Picked(R, {i \in DOMAIN R : Entity(R[i], mode) \in keep})

(* Rows by index: dimension index -> rating. *)
RowsOf(T, mode) ==
  LET entities == Ascending(Entities(T, mode))
      dims     == Ascending(Dims(T, mode))
  IN  [i \in 0 .. Len(entities) - 1 |->
         LET r == Ratings(T, mode, entities[i + 1])
         IN  [d \in {e \in 0 .. Len(dims) - 1 : dims[e + 1] \in DOMAIN r} |-> r[dims[d + 1]]]]

Candidates_Unverified(rows, mode, m) ==  \* mutant: hashed pairs are not verified
  LET eligible == {i \in DOMAIN rows : Cardinality(DOMAIN rows[i]) >= MIN_OVERLAP}
  IN  {p \in eligible \X eligible : p[1] < p[2]}
Candidates(rows, mode, m) ==
  LET eligible == {i \in DOMAIN rows : Cardinality(DOMAIN rows[i]) >= MIN_OVERLAP}
      Hashed(p) == mode = "user" => /\ \E i \in DOMAIN Hashes :
                                         min_hash(DOMAIN rows[p[1]], m)[i] = min_hash(DOMAIN rows[p[2]], m)[i]
                                    /\ Similar(DOMAIN rows[p[1]], DOMAIN rows[p[2]])
  IN  {p \in eligible \X eligible :
         p[1] < p[2] /\ Hashed(p) /\ Cardinality(Overlap(rows[p[1]], rows[p[2]])) >= MIN_OVERLAP}

(* What is written for these rows and pairs: the arrays, and a document    *)
(* with their hashes.  A cell is a rating, <<row, dimension>>; the arrays  *)
(* hold the cells row by row.                                              *)
Cells(rows) == UNION {{i} \X DOMAIN rows[i] : i \in DOMAIN rows}

Arrays(rows, pairs, golden, entities, dimids) ==
  LET all   == Cells(rows)
      cells == Ordered(all, Below)
  IN  [offsets  |-> [i \in 1 .. Cardinality(DOMAIN rows) + 1 |->
                       Cardinality({c \in all : c[1] < i - 1})],
       dims     |-> [k \in DOMAIN cells |-> cells[k][2]],
       vals     |-> [k \in DOMAIN cells |-> rows[cells[k][1]][cells[k][2]]],
       pairs    |-> pairs,
       golden   |-> golden,
       entities |-> entities,
       dimids   |-> dimids]

Described(mode, n, n_dims, data) ==
  LET meta == [mode |-> mode, n_entities |-> n, n_dims |-> n_dims,
               nnz |-> Len(data.vals), n_pairs |-> Len(data.golden),
               n_emitted |-> Cardinality({k \in DOMAIN data.golden : Retained(data.golden[k])}),
               files |-> data]
  IN  [f \in Files |-> IF f = "meta" THEN meta ELSE data[f]]

Written(mode, rows, pairs, golden, entities, dimids) ==
  Described(mode, Cardinality(DOMAIN rows), Len(dimids),
            Arrays(rows, pairs, golden, entities, dimids))

Export(R, mode, subset) ==
  LET T       == Subset(Dedup(R), mode, subset)
      rows    == RowsOf(T, mode)
      pairs   == Ordered(Candidates(rows, mode, Cardinality(Dims(T, mode))), Below)
      golden  == [k \in DOMAIN pairs |-> pair_sim(rows[pairs[k][1]], rows[pairs[k][2]])]
  IN  Written(mode, rows, pairs, golden, Ascending(Entities(T, mode)), Ascending(Dims(T, mode)))

(* The order in which the files are written. *)
WriteOrder == <<"offsets", "dims", "vals", "pairs", "golden", "entities", "dimids", "meta">>

(***************************************************************************)
(* make_domain_fixtures.py: a fixture of rows that are given; n_dims       *)
(* counts the dimensions that occur.                                       *)
(***************************************************************************)
Synthetic(rows) ==
  LET n      == Cardinality(DOMAIN rows)
      pairs  == Ordered({p \in (DOMAIN rows) \X (DOMAIN rows) :
                                p[1] < p[2] /\ Cardinality(Overlap(rows[p[1]], rows[p[2]])) >= MIN_OVERLAP},
                             Below)
      golden == [k \in DOMAIN pairs |-> pair_sim(rows[pairs[k][1]], rows[pairs[k][2]])]
  IN  Written("synthetic", rows, pairs, golden, [i \in 1 .. n |-> i],
              Ascending(UNION {DOMAIN rows[i] : i \in DOMAIN rows}))

-----------------------------------------------------------------------------
(***************************************************************************)
(* Fixture::load, and what the kernels make of the arrays.                 *)
(***************************************************************************)
Loads(dir) ==
  /\ {"offsets", "dims", "vals", "pairs", "golden"} \subseteq DOMAIN dir
  /\ dir["offsets"] # <<>> /\ dir["offsets"][1] = 0 /\ Last(dir["offsets"]) = Len(dir["vals"])
  /\ Len(dir["dims"]) = Len(dir["vals"])
  /\ Len(dir["pairs"]) = Len(dir["golden"])

Slice(dir, i) == dir["offsets"][i + 1] + 1 .. dir["offsets"][i + 2]
AscendingRow(dir, i) == \A k, l \in Slice(dir, i) : k < l => dir["dims"][k] < dir["dims"][l]

(* What the loader does not check: offsets that never decrease, pairs of   *)
(* entities that exist, rows in ascending order.                           *)
WellFormed(dir) ==
  LET n == Len(dir["offsets"]) - 1
  IN  /\ \A i \in 1 .. n : dir["offsets"][i] <= dir["offsets"][i + 1]
      /\ \A i \in 0 .. n - 1 : AscendingRow(dir, i)
      /\ \A k \in DOMAIN dir["pairs"] : \A e \in {1, 2} : dir["pairs"][k][e] \in 0 .. n - 1

RowAt(dir, i) ==
  [d \in {dir["dims"][k] : k \in Slice(dir, i)} |->
     dir["vals"][CHOOSE k \in Slice(dir, i) : dir["dims"][k] = d]]

PairAt(dir, k) == <<RowAt(dir, dir["pairs"][k][1]), RowAt(dir, dir["pairs"][k][2])>>

(* A backend that computes every pair; NotANumber stands for whatever it   *)
(* makes of arrays that are not well formed.                               *)
NotANumber == [p |-> 0, q |-> 0]
Computed(dir) ==
  [k \in DOMAIN dir["pairs"] |->
     IF WellFormed(dir) THEN pair_sim(PairAt(dir, k)[1], PairAt(dir, k)[2]) ELSE NotANumber]

(* check_result: lengths, numbers, values, and the retained set by index.  *)
check_result(out, golden) ==
  /\ Len(out) = Len(golden)
  /\ \A k \in DOMAIN out : /\ out[k] # NotANumber
                           /\ out[k] = golden[k]
                           /\ Retained(out[k]) <=> Retained(golden[k])

-----------------------------------------------------------------------------
(***************************************************************************)
(* validate_fixture.py, without --sample.  A file or a key that is not     *)
(* there, or a pair of entities that do not exist, ends it with an         *)
(* exception, which is no success either.                                  *)
(***************************************************************************)
HashesMatch_Off(dir) == TRUE  \* mutant: the hashes are not compared
HashesMatch(dir) ==
  /\ DOMAIN dir["meta"].files = DataFiles
  /\ \A f \in DataFiles : dir[f] = dir["meta"].files[f]

Sorted(s) == \A i, j \in DOMAIN s : i < j => s[i] <= s[j]

(* The lines of a file of names; that of no names is a newline.            *)
Names(s) == IF s = <<>> THEN 1 ELSE Len(s)

Structure(dir) ==
  LET meta == dir["meta"]
      n    == meta.n_entities
  IN  /\ Names(dir["entities"]) = n /\ Sorted(dir["entities"])
      /\ Names(dir["dimids"]) = meta.n_dims /\ Sorted(dir["dimids"])
      /\ Len(dir["offsets"]) = n + 1 /\ dir["offsets"][1] = 0 /\ Last(dir["offsets"]) = meta.nnz
      /\ \A i \in 1 .. n : dir["offsets"][i] <= dir["offsets"][i + 1]
      /\ Len(dir["dims"]) = meta.nnz /\ Len(dir["vals"]) = meta.nnz
      /\ \A i \in 0 .. n - 1 : AscendingRow(dir, i)
      /\ Len(dir["pairs"]) = meta.n_pairs /\ Len(dir["golden"]) = meta.n_pairs
      /\ \A k \in DOMAIN dir["pairs"] : dir["pairs"][k][1] < dir["pairs"][k][2]
      /\ \A k, l \in DOMAIN dir["pairs"] : k < l => Below(dir["pairs"][k], dir["pairs"][l])

Recomputed(dir) ==
  /\ \A k \in DOMAIN dir["pairs"] :
       /\ dir["pairs"][k][2] < dir["meta"].n_entities
       /\ Cardinality(Overlap(PairAt(dir, k)[1], PairAt(dir, k)[2])) >= MIN_OVERLAP
       /\ pair_sim(PairAt(dir, k)[1], PairAt(dir, k)[2]) = dir["golden"][k]
  /\ Cardinality({k \in DOMAIN dir["golden"] : Retained(dir["golden"][k])}) = dir["meta"].n_emitted

Valid(dir) ==
  /\ DOMAIN dir = Files
  /\ HashesMatch(dir) /\ Structure(dir) /\ Recomputed(dir)

-----------------------------------------------------------------------------
(* sims_to_model.py: the lines of the model. *)
ToModel(dir, sims) ==
  {[a |-> dir["entities"][dir["pairs"][k][1] + 1],
    b |-> dir["entities"][dir["pairs"][k][2] + 1], sim |-> sims[k]] :
     k \in {j \in DOMAIN sims : Retained(sims[j])}}

(* The names of every pair that is written are there; otherwise the script *)
(* ends with an exception.                                                 *)
Named(dir, sims) ==
  /\ {"meta", "entities"} \subseteq DOMAIN dir
  /\ \A k \in DOMAIN sims, e \in {1, 2} :
       Retained(sims[k]) => dir["pairs"][k][e] < Len(dir["entities"])

(* crosscheck_archived.py.  Within its band around EPS are the residues.   *)
CrossChecks(dir, model) ==
  LET theirs == {[line EXCEPT !.a = Min({line.a, line.b}), !.b = Max({line.a, line.b})] :
                   line \in {l \in model : Retained(l.sim)}}
  IN  ToModel(dir, dir["golden"]) = theirs

-----------------------------------------------------------------------------
(***************************************************************************)
(* Derived fixtures: the source's ratings with some of its pairs; hashed   *)
(* are the files whose hashes meta holds.                                  *)
(***************************************************************************)
Derived(dir, keep, mode, n_emitted, hashed) ==
  LET data == [f \in DataFiles |-> IF f \in {"pairs", "golden"}
                                   THEN [k \in DOMAIN keep |-> dir[f][keep[k]]] ELSE dir[f]]
      meta == [mode |-> mode, n_entities |-> dir["meta"].n_entities,
               n_dims |-> dir["meta"].n_dims, nnz |-> dir["meta"].nnz,
               n_pairs |-> Len(keep), n_emitted |-> n_emitted,
               files |-> [f \in hashed |-> data[f]]]
  IN  [f \in Files |-> IF f = "meta" THEN meta ELSE data[f]]

(* make_overlap_fixtures.py: the pairs in a band of overlaps. *)
OverlapAt(dir, k) == Cardinality(Overlap(PairAt(dir, k)[1], PairAt(dir, k)[2]))
InBand(dir, band) == Ascending({k \in DOMAIN dir["pairs"] : OverlapAt(dir, k) \in band})

EmittedOf_Source(dir, keep) == dir["meta"].n_emitted  \* mutant: the count of the source
EmittedOf(dir, keep) ==
  Cardinality({k \in DOMAIN keep : Retained(dir["golden"][keep[k]])})

(* The means of an empty band are a division by zero, after the data is    *)
(* written and before meta is.                                             *)
Band(dir, keep, mode, n_emitted) ==
  LET full == Derived(dir, keep, mode, n_emitted, DataFiles)
  IN  IF keep = <<>> THEN Without(full, "meta") ELSE full

OverlapBand(dir, band) ==
  LET keep == InBand(dir, band) IN Band(dir, keep, "overlap-band", EmittedOf(dir, keep))

(* make_prefix_fixtures.py: the first n pairs.  It means to refuse a size  *)
(* where a swap at the border of the two halves or at the end would hide,  *)
(* and compares the similarities there as doubles.                         *)
Middle(n) == n \div 2

Hides(golden, n) ==
  \/ n >= 2 /\ golden[Middle(n)] = golden[Middle(n) + 1]
  \/ n >= 3 /\ golden[n] = golden[n - 1]

Prefix(dir, n) ==
  Derived(dir, [k \in 1 .. n |-> k], "pair-count boundary prefix", dir["meta"].n_emitted, {})

(***************************************************************************)
(* make_lane_bands.py: two fixtures of as many pairs each, whose shorter   *)
(* rows need the same rounds of a warp and fill the last one or not.  The  *)
(* pairs of a bucket are matched by the length of the longer row and the   *)
(* share of hits.  Buckets holds [rounds, full, tail]; the code's window   *)
(* around these lengths is Window.                                         *)
(***************************************************************************)
Short(dir, k) == Min({Cardinality(Slice(dir, dir["pairs"][k][e])) : e \in {1, 2}})
Long(dir, k)  == Max({Cardinality(Slice(dir, dir["pairs"][k][e])) : e \in {1, 2}})

BitLength(x) == CHOOSE b \in 0 .. 31 : 2 ^ b > x /\ (b = 0 \/ 2 ^ (b - 1) <= x)
Stratum(dir, k) ==
  <<BitLength(Long(dir, k)), Min({(OverlapAt(dir, k) * 10) \div Short(dir, k), 9})>>

Lengths(bucket, side) ==
  IF side = "full" THEN bucket.full - Window .. bucket.full ELSE bucket.tail .. bucket.tail + Window

InBucket(dir, bucket, side, stratum) ==
  Ascending({k \in DOMAIN dir["pairs"] :
               Short(dir, k) \in Lengths(bucket, side) /\ Stratum(dir, k) = stratum})

Take_All(own, other) == Len(own)  \* mutant: the pairs are not matched
Take(own, other) == Min({Len(own), Len(other)})

LanePairs(dir, side) ==
  LET strata == {Stratum(dir, k) : k \in DOMAIN dir["pairs"]}
      Taken(b, st) ==
        LET own   == InBucket(dir, b, side, st)
            other == InBucket(dir, b, IF side = "full" THEN "tail" ELSE "full", st)
        IN  {own[i] : i \in 1 .. Take(own, other)}
  IN  Ascending(UNION {Taken(b, st) : b \in Buckets, st \in strata})

effective(dir, keep) == MapThenSumSet(LAMBDA i : Short(dir, keep[i]), DOMAIN keep)
lane_slots(dir, keep) ==
  MapThenSumSet(LAMBDA i : WARP * ((Short(dir, keep[i]) + WARP - 1) \div WARP), DOMAIN keep)

LaneBand(dir, side) ==
  Band(dir, LanePairs(dir, side), "lane-utilisation band", dir["meta"].n_emitted)
=============================================================================
