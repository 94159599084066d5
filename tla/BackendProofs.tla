--------------------------- MODULE BackendProofs ---------------------------
(***************************************************************************)
(* Proofs about two backends that add up what their parts have computed,   *)
(* for any number of GPUs, ranks, pairs and dimensions.                    *)
(*                                                                         *)
(* SyncBatches: what is copied back after a batch is of that batch, on     *)
(* buffers that are never cleared, and the exit status covers every batch  *)
(* that was timed.                                                         *)
(*                                                                         *)
(* MpiBackend: the reduced statistics are complete on every rank, and all  *)
(* ranks leave with the verdict.                                           *)
(***************************************************************************)
EXTENDS SyncBatches, MpiBackend, ProofLemmas, FiniteSetTheorems

-----------------------------------------------------------------------------
(* The synchronous batches: the inductive invariant.                      *)

(* The batches whose results are in host memory. *)
Copied == IF pc \in {"idle", "done"} THEN batch ELSE batch - 1

(* The GPUs that finalize, and the slots a GPU computes. *)
Finals == IF collective THEN {0} ELSE Owners
Filled(g) == {s \in Pairs : s + Begin(g) \in PairShard(g)}

Options ==
  /\ collective \in BOOLEAN /\ resident \in BOOLEAN /\ validate \in BOOLEAN
  /\ warmups \in Nat /\ repeats \in Nat \ {0} /\ (~resident => warmups = 0 /\ repeats = 1)

Progress ==
  /\ pc \in {"idle", "stats", "reduce", "finalize", "done"}
  /\ exit \in {None, 0, 1, 2} /\ (pc = "done" <=> exit # None)
  /\ batch \in 0 .. Warmups + Timed
  /\ pc \in {"stats", "reduce", "finalize"} => batch >= 1
  /\ exit \in {0, 1} => batch = Warmups + Timed
  /\ faulty \subseteq 1 .. batch
  /\ DOMAIN stats = Gpus /\ DOMAIN sims = Gpus
  /\ DOMAIN host = 0 .. OutSlots - 1
  /\ exit # 2 => out_slot = IF resident /\ validate /\ Copied > Warmups
                            THEN (Copied - Warmups) % OutSlots ELSE 0

(* A stream holds at most the one operation of the stage the host is in. *)
Op(k) == <<[op |-> k, batch |-> batch]>>

Streams ==
  /\ pc = "idle" => \A g \in Gpus : queue[g] = <<>>
  /\ pc = "stats" => \A g \in Gpus :
       queue[g] = <<>> \/ (g \in Owners /\ queue[g] = Op("stats"))
  /\ pc = "reduce" =>
       \/ \A g \in Gpus : queue[g] = <<>>
       \/ collective /\ \A g \in Gpus : queue[g] = Op("allreduce")
  /\ pc = "finalize" => \A g \in Gpus :
       queue[g] = <<>> \/ (g \in Finals /\ queue[g] = Op("finalize"))

(* What the GPUs hold of the current batch, when F computed it wrong. *)
Spoilt(F) == F \subseteq Owners /\ (F # {} <=> batch \in faulty)

Computed(g, F) ==
  \A s \in Filled(g) :
    /\ stats[g][s].batch = batch /\ (stats[g][s].sound <=> g \notin F)
    /\ \A d \in Dims :
         stats[g][s].count[d] = IF d \in DimShard(g) THEN 1 ELSE 0

Reduced(g, F) ==
  \A s \in Filled(g) :
    stats[g][s].batch = batch /\ (Complete(stats[g][s]) <=> g \notin F)

Similar(g, F) ==
  \A p \in PairShard(g) :
    sims[g][p].batch = batch /\ (sims[g][p].right <=> g \notin F)

Contents ==
  /\ pc = "stats" => \E F \in SUBSET Owners :
       /\ Spoilt(F)
       /\ \A g \in F : queue[g] = <<>>
       /\ \A g \in Owners : queue[g] = <<>> => Computed(g, F)
  /\ pc = "reduce" => \E F \in SUBSET Owners :
       /\ Spoilt(F)
       /\ IF collective /\ queue[0] # <<>> THEN \A g \in Gpus : Computed(g, F)
          ELSE F \subseteq Finals /\ \A g \in Finals : Reduced(g, F)
  /\ pc = "finalize" => \E F \in SUBSET Finals :
       /\ Spoilt(F)
       /\ \A g \in Finals : Reduced(g, F) /\ (queue[g] = <<>> => Similar(g, F))

(* What the host holds of the batches it has copied. *)
Results ==
  \A i \in 1 .. Copied - Warmups :
    (OutSlots > 1 \/ i = Copied - Warmups) =>
      /\ \A p \in Pairs :
           host[(i - 1) % OutSlots][p].batch = Warmups + i
      /\ Passed((i - 1) % OutSlots) <=> Warmups + i \notin faulty

BatchInv ==
  /\ Options /\ Progress /\ Streams /\ Contents
  /\ exit # 2 => Results
  /\ VerdictCoversBatches
-----------------------------------------------------------------------------
(* Which GPU has which pair, and where. *)

LEMMA Sizes ==
  /\ NGpus \in Nat \ {0} /\ NPairs \in Nat \ {0} /\ NDims \in Nat
  /\ Gpus = 0 .. NGpus - 1 /\ 0 \in Gpus
  /\ Pairs = 0 .. NPairs - 1 /\ 0 \in Pairs
  /\ Dims = 0 .. NDims - 1
  BY SizesAssumption
  DEF Gpus, Pairs, Dims

(* A shard of pairs is an interval. *)
LEMMA ShardInterval ==
  ASSUME NEW g \in Gpus
  PROVE  /\ PairShard(g) \subseteq Pairs
         /\ \E lo, hi \in Int : PairShard(g) = lo .. hi
<1>1. CASE collective
  BY <1>1, Sizes DEF PairShard
<1>2. CASE ~collective
  <2>1. PairShard(g) = Members(SplitRange(NPairs, g, NGpus))
    BY <1>2 DEF PairShard
  <2>2. g \in 0 .. NGpus - 1 /\ g \in Nat /\ NPairs \in Nat
    BY Sizes
  <2>3. Members(SplitRange(NPairs, g, NGpus)) \subseteq 0 .. NPairs - 1
    BY <2>2, Sizes, SplitWithin
  <2>4. SplitRange(NPairs, g, NGpus).begin \in Nat /\ SplitRange(NPairs, g, NGpus).end \in Nat
    BY <2>2, Sizes, SplitType
  <2> QED
    BY <2>1, <2>3, <2>4, Sizes DEF Members
<1> QED
  BY <1>1, <1>2

(* Its first pair is in the GPU's slot 0, and the others follow. *)
LEMMA ShardSlots ==
  ASSUME NEW g \in Gpus, NEW p \in PairShard(g)
  PROVE  p - Begin(g) \in Filled(g)
<1>1. PICK lo \in Int, hi \in Int : PairShard(g) = lo .. hi
  BY ShardInterval
<1>2. p \in Pairs /\ lo \in Pairs /\ lo <= p /\ p \in Int
  <2>1. lo \in lo .. hi /\ lo <= p /\ p \in Int
    BY <1>1
  <2> QED
    BY <1>1, <2>1, ShardInterval
<1>3. Begin(g) = lo
  <2>1. lo \in lo .. hi /\ \A y \in lo .. hi : lo <= y
    BY <1>1
  <2>2. \A x \in lo .. hi : (\A y \in lo .. hi : x <= y) => x = lo
    BY <1>1, <2>1
  <2>3. Min(lo .. hi) = lo
    BY <2>1, <2>2 DEF Min
  <2> QED
    BY <1>1, <2>1, <2>3 DEF Begin
<1>4. p - lo \in Pairs /\ (p - lo) + lo = p
  <2>1. lo \in 0 .. NPairs - 1 /\ p \in 0 .. NPairs - 1 /\ NPairs \in Nat
    BY <1>2, Sizes
  <2>2. p - lo \in 0 .. NPairs - 1 /\ (p - lo) + lo = p
    BY <1>2, <2>1
  <2> QED
    BY <2>2, Sizes
<1> QED
  BY <1>3, <1>4 DEF Filled

(* Under the dim partition every GPU has every pair, in its own slot. *)
LEMMA DimSlots ==
  ASSUME collective, NEW g \in Gpus
  PROVE  /\ PairShard(g) = Pairs /\ g \in Owners
         /\ Begin(g) = 0 /\ Filled(g) = Pairs
<1>1. PairShard(g) = Pairs
  BY DEF PairShard
<1>2. g \in Owners
  BY <1>1, Sizes DEF Owners
<1>3. Begin(g) = 0
  <2>1. \A y \in Pairs : 0 <= y /\ y \in Int
    BY Sizes
  <2>2. \A x \in Pairs : (\A y \in Pairs : x <= y) => x = 0
    BY <2>1, Sizes
  <2>3. Min(Pairs) = 0
    BY <2>1, <2>2, Sizes DEF Min
  <2> QED
    BY <1>1, <2>3, Sizes DEF Begin
<1>4. \A s \in Pairs : s + 0 = s
  BY Sizes
<1> QED
  BY <1>1, <1>2, <1>3, <1>4 DEF Filled

LEMMA FinalsOwn ==
  Finals \subseteq Owners /\ Owners \subseteq Gpus
  BY DimSlots, Sizes DEF Finals, Owners

(* The host takes each pair from a GPU that finalized it. *)
LEMMA SourceFinal ==
  ASSUME collective \in BOOLEAN, NEW p \in Pairs
  PROVE  /\ Source(p) \in Finals /\ p \in PairShard(Source(p))
         /\ \A g \in Finals : p \in PairShard(g) => Source(p) = g
<1> DEFINE From == {g \in Gpus : p \in Window(g)}
<1>1. PICK g \in Finals : /\ From = {g} /\ p \in PairShard(g)
                           /\ \A h \in Finals : p \in PairShard(h) => h = g
  <2>1. CASE collective
    <3>1. From = {0}
      BY <2>1, Sizes DEF Window
    <3>2. p \in PairShard(0)
      BY <2>1, DimSlots, Sizes
    <3> QED
      BY <2>1, <3>1, <3>2 DEF Finals
  <2>2. CASE ~collective
    <3>1. p \in 0 .. NPairs - 1 /\ NPairs \in Nat
      BY Sizes
    <3>2. /\ \E g \in 0 .. NGpus - 1 : p \in Members(SplitRange(NPairs, g, NGpus))
          /\ \A g, h \in 0 .. NGpus - 1 : p \in Members(SplitRange(NPairs, g, NGpus))
               /\ p \in Members(SplitRange(NPairs, h, NGpus)) => g = h
      BY <3>1, Sizes, SplitOwnsOnce
    <3>3. \A g : PairShard(g) = Members(SplitRange(NPairs, g, NGpus))
      BY <2>2 DEF PairShard
    <3>4. \A g : Window(g) = PairShard(g)
      BY <2>2 DEF Window
    <3>5. PICK g \in Gpus : p \in PairShard(g)
      BY <3>2, <3>3, Sizes
    <3>6. From = {g}
      BY <3>2, <3>3, <3>4, <3>5, Sizes
    <3>7. g \in Owners
      BY <3>5 DEF Owners
    <3>8. \A h \in Gpus : p \in PairShard(h) => h = g
      BY <3>2, <3>3, <3>5, Sizes
    <3> QED
      BY <2>2, <3>5, <3>6, <3>7, <3>8, FinalsOwn DEF Finals
  <2> QED
    BY <2>1, <2>2
<1>2. g \in Int
  BY <1>1, FinalsOwn, Sizes
<1>3. g >= g
  BY <1>2
<1>4. Max(From) = g
  <2> HIDE DEF From
  <2> QED
    BY <1>1, <1>3 DEF Max
<1> QED
  BY <1>1, <1>4 DEF Source

(* The options: how many batches there are, and where the last one goes. *)
LEMMA Counts ==
  ASSUME Options
  PROVE  /\ Warmups \in Nat /\ Timed \in Nat \ {0}
         /\ OutSlots \in Nat \ {0}
         /\ OutSlots > 1 \/ validate => OutSlots = Timed
         /\ resident /\ validate => OutSlots = Timed
         /\ ~(resident /\ validate) => OutSlots = 1
  BY DEF Options, Warmups, Timed, OutSlots
-----------------------------------------------------------------------------
(* Adding up. *)

(* Every dimension is of one GPU, so the sum counts it once. *)
LEMMA CountedOnce ==
  ASSUME collective, NEW ss, NEW d \in Dims,
         \A g \in Gpus : ss[g].count[d] = IF d \in DimShard(g) THEN 1 ELSE 0
  PROVE  StatSum(ss).count[d] = 1
<1> DEFINE G == Gpus
           Has(q) == \E g \in q : d \in DimShard(g)
           Chosen(q) == CHOOSE x \in q : TRUE
           Rec(f) == [q \in SUBSET G |-> IF q = {} THEN 0
                                         ELSE ss[Chosen(q)].count[d] + f[q \ {Chosen(q)}]]
           H == [q \in SUBSET G |-> IF Has(q) THEN 1 ELSE 0]
<1>1. StatSum(ss).count[d] = (CHOOSE f : f = Rec(f))[G]
  BY DEF StatSum, FoldSet, MapThenFoldSet
<1>2. /\ \E g \in G : d \in DimShard(g)
      /\ \A g, h \in G : d \in DimShard(g) /\ d \in DimShard(h) => g = h
  <2>1. d \in 0 .. NDims - 1 /\ NDims \in Nat
    BY Sizes
  <2>2. /\ \E g \in 0 .. NGpus - 1 : d \in Members(SplitRange(NDims, g, NGpus))
        /\ \A g, h \in 0 .. NGpus - 1 : d \in Members(SplitRange(NDims, g, NGpus))
             /\ d \in Members(SplitRange(NDims, h, NGpus)) => g = h
    BY <2>1, Sizes, SplitOwnsOnce
  <2>3. \A g : DimShard(g) = Members(SplitRange(NDims, g, NGpus))
    BY DEF DimShard
  <2> QED
    BY <2>2, <2>3, Sizes
<1>3. ASSUME NEW q \in SUBSET G, q # {}
      PROVE  H[q] = ss[Chosen(q)].count[d] + H[q \ {Chosen(q)}] /\ Chosen(q) \in q
  <2>1. PICK x \in q : x = Chosen(q)
    BY <1>3
  <2>2. ss[x].count[d] = IF d \in DimShard(x) THEN 1 ELSE 0
    OBVIOUS
  <2>3. H[q] = (IF Has(q) THEN 1 ELSE 0) /\ H[q \ {x}] = IF Has(q \ {x}) THEN 1 ELSE 0
    OBVIOUS
  <2>4. CASE d \in DimShard(x)
    <3>1. Has(q) /\ ~ Has(q \ {x})
      BY <1>2, <2>1, <2>4
    <3> QED
      BY <2>1, <2>2, <2>3, <2>4, <3>1
  <2>5. CASE d \notin DimShard(x)
    <3>1. Has(q) <=> Has(q \ {x})
      BY <2>1, <2>5
    <3> QED
      BY <2>1, <2>2, <2>3, <2>5, <3>1
  <2> QED
    BY <2>4, <2>5
<1>4. H = Rec(H)
  BY <1>3
<1>5. ASSUME NEW f, f = Rec(f) PROVE f = H
  <2>1. IsFiniteSet(G)
    BY FS_Interval, Sizes
  <2>2. ASSUME NEW q \in SUBSET G, \A u \in SUBSET q : u # q => f[u] = H[u] PROVE f[q] = H[q]
    <3>1. CASE q = {}
      BY <1>4, <1>5, <3>1
    <3>2. CASE q # {}
      <4>1. f[q \ {Chosen(q)}] = H[q \ {Chosen(q)}]
        <5>1. q \ {Chosen(q)} \in SUBSET q /\ q \ {Chosen(q)} # q
          BY <1>3, <3>2
        <5> HIDE DEF H, Chosen
        <5> QED
          BY <2>2, <5>1
      <4>2. f[q] = ss[Chosen(q)].count[d] + f[q \ {Chosen(q)}]
        BY <1>5, <3>2
      <4> QED
        BY <1>3, <3>2, <4>1, <4>2
    <3> QED
      BY <3>1, <3>2
  <2>3. f = [q \in SUBSET G |-> f[q]] /\ H = [q \in SUBSET G |-> H[q]]
    BY <1>5
  <2>4. \A q \in SUBSET G : f[q] = H[q]
    <3> HIDE DEF H, G
    <3> QED
      BY <2>1, <2>2, AgreeOnSets
  <2> QED
    BY <2>3, <2>4
<1>6. (CHOOSE f : f = Rec(f)) = H
  <2> HIDE DEF H, Rec
  <2> QED
    BY <1>4, <1>5
<1>7. H[G] = 1
  BY <1>2
<1> QED
  BY <1>1, <1>6, <1>7

(* So the sum of what the GPUs computed is complete, unless one was wrong. *)
LEMMA SumOfComputed ==
  ASSUME collective, NEW F, NEW s \in Pairs, F \subseteq Gpus,
         \A g \in Gpus : Computed(g, F)
  PROVE  LET t == StatSum([h \in Gpus |-> stats[h][s]])
         IN  t.batch = batch /\ (Complete(t) <=> F = {})
<1> DEFINE ss == [h \in Gpus |-> stats[h][s]]
           t  == StatSum(ss)
<1>1. ASSUME NEW h \in Gpus
      PROVE  /\ ss[h].batch = batch /\ (ss[h].sound <=> h \notin F)
             /\ \A d \in Dims : ss[h].count[d] = IF d \in DimShard(h) THEN 1 ELSE 0
  <2>1. s \in Filled(h) /\ ss[h] = stats[h][s]
    BY DimSlots
  <2> QED
    BY <2>1 DEF Computed
<1> HIDE DEF ss
<1>2. \A h \in Gpus : ss[h].batch = batch /\ (ss[h].sound <=> h \notin F)
  BY <1>1
<1>3. ASSUME NEW d \in Dims PROVE t.count[d] = 1
  BY <1>1, CountedOnce
<1>4. t.batch = batch /\ (t.sound <=> F = {})
  <2>1. t.sound <=> \A g \in Gpus : ss[g].sound
    BY DEF StatSum
  <2>2. t.batch = ss[0].batch
    BY <1>2 DEF StatSum
  <2> QED
    BY <1>2, <2>1, <2>2, Sizes
<1> QED
  <2> HIDE DEF t
  <2>1. t.batch = batch /\ (Complete(t) <=> F = {})
    BY <1>3, <1>4 DEF Complete
  <2> QED
    BY <2>1 DEF t, ss

-----------------------------------------------------------------------------
(* What does not change, while the options do not. *)

LEMMA Static ==
  ASSUME UNCHANGED input
  PROVE  /\ Warmups' = Warmups /\ Timed' = Timed
         /\ OutSlots' = OutSlots
         /\ Owners' = Owners /\ Finals' = Finals
         /\ \A g : /\ PairShard(g)' = PairShard(g)
                   /\ DimShard(g)' = DimShard(g)
                   /\ Filled(g)' = Filled(g)
  BY DEF input, Warmups, Timed, OutSlots, Owners,
         Finals, PairShard, DimShard, Filled, Begin

LEMMA ComputedKept ==
  ASSUME UNCHANGED <<input, batch>>, NEW g, UNCHANGED stats[g], NEW F, NEW E,
         g \in F <=> g \in E
  PROVE  Computed(g, F) => Computed(g, E)'
<1>1. UNCHANGED input
  OBVIOUS
<1> QED
  BY <1>1, Static DEF Computed

LEMMA ReducedKept ==
  ASSUME UNCHANGED <<input, batch>>, NEW g, UNCHANGED stats[g], NEW F
  PROVE  Reduced(g, F) => Reduced(g, F)'
<1>1. UNCHANGED input
  OBVIOUS
<1>2. \A s : Complete(stats[g][s])' <=> Complete(stats[g][s])
  BY DEF Complete
<1> QED
  BY <1>1, <1>2, Static DEF Reduced

(* A fault of the current batch does not concern what was copied before. *)
LEMMA ResultsKept ==
  ASSUME BatchInv, exit # 2, UNCHANGED <<input, host>>, Copied' = Copied,
         faulty' = faulty \/ (faulty' = faulty \cup {batch} /\ Copied < batch)
  PROVE  Results'
<1>1. UNCHANGED input
  OBVIOUS
<1>2. /\ Warmups' = Warmups /\ OutSlots' = OutSlots
      /\ \A k : Passed(k)' <=> Passed(k)
  BY <1>1, Static DEF Passed
<1>3. Warmups \in Nat /\ batch \in Nat /\ Copied \in Int
  BY Counts DEF BatchInv, Progress, Copied
<1>4. ASSUME NEW i \in 1 .. Copied - Warmups
      PROVE  Warmups + i \in faulty' <=> Warmups + i \in faulty
  <2>1. Warmups + i <= Copied /\ Warmups + i \in Int
    BY <1>3
  <2>2. Copied < batch => Warmups + i # batch
    BY <1>3, <2>1
  <2> QED
    BY <2>2
<1>5. Results
  BY DEF BatchInv
<1> QED
  BY <1>2, <1>4, <1>5 DEF Results

(* The bookkeeping, while no batch is copied. *)
LEMMA ProgressKept ==
  ASSUME Options, Progress, exit = None, exit' = exit,
         UNCHANGED <<input, out_slot>>, Copied' = Copied,
         pc' \in {"stats", "reduce", "finalize"},
         batch' \in 1 .. Warmups + Timed, faulty' \subseteq 1 .. batch',
         DOMAIN stats' = DOMAIN stats, DOMAIN sims' = DOMAIN sims, host' = host
  PROVE  Progress'
<1>1. UNCHANGED input
  OBVIOUS
<1>2. /\ Warmups' = Warmups /\ Timed' = Timed
      /\ OutSlots' = OutSlots /\ Gpus' = Gpus
      /\ resident' = resident /\ validate' = validate /\ None' = None
  BY <1>1, Static DEF Gpus, input, None
<1>3. batch' \in 0 .. Warmups' + Timed' /\ batch' >= 1
  BY <1>2, Counts
<1>4. exit' \notin {0, 1} /\ exit' # 2 /\ exit # 2
  BY DEF None
<1>5. out_slot' = IF resident' /\ validate' /\ Copied' > Warmups'
                  THEN (Copied' - Warmups') % OutSlots' ELSE 0
  BY <1>2, <1>4 DEF Progress
<1> QED
  BY <1>2, <1>3, <1>4, <1>5 DEF Progress

-----------------------------------------------------------------------------
(* The steps of the host. *)

LEMMA BatchInit == Init => BatchInv
<1> SUFFICES ASSUME Init PROVE BatchInv
  OBVIOUS
<1>1. Options
  BY DEF Init, Options
<1>2. Progress
  BY <1>1, Counts DEF Init, Progress, None, Copied
<1>3. Results
  <2>1. Copied - Warmups <= 0
    BY <1>1, Counts DEF Init, Copied
  <2> QED
    BY <1>1, <2>1, Counts DEF Results, Init, Copied
<1> QED
  BY <1>1, <1>2, <1>3
  DEF Init, BatchInv, Streams, Contents, VerdictCoversBatches, None

LEMMA StartBatchStep == BatchInv /\ StartBatch => BatchInv'
<1> SUFFICES ASSUME BatchInv, StartBatch PROVE BatchInv'
  OBVIOUS
<1>1. /\ pc = "idle" /\ pc' = "stats" /\ exit = None /\ exit' = exit
      /\ batch' = batch + 1 /\ batch < Warmups + Timed
      /\ UNCHANGED <<input, out_slot, stats, sims, faulty, host>>
  BY DEF StartBatch, Step
<1>2. UNCHANGED input
  BY <1>1
<1>3. Options /\ Progress /\ Options'
  BY <1>1 DEF BatchInv, Options, input
<1>4. batch \in Nat /\ Copied' = Copied /\ Copied' = batch
  BY <1>1, <1>3, Counts DEF Progress, Copied
<1>5. Progress'
  <2>1. batch' \in 1 .. Warmups + Timed /\ faulty' \subseteq 1 .. batch'
    BY <1>1, <1>3, <1>4, Counts DEF Progress
  <2> QED
    BY <1>1, <1>3, <1>4, <2>1, ProgressKept
<1>6. \A g \in Gpus :
        queue'[g] = IF g \in Owners THEN Op("stats")' ELSE <<>>
  <2>1. \A g \in Gpus :
          queue'[g] = IF g \in Owners
                      THEN Append(<<>>, [op |-> "stats", batch |-> batch']) ELSE <<>>
    BY <1>1 DEF StartBatch, Launch
  <2> QED
    BY <2>1 DEF Op
<1>7. Streams'
  BY <1>1, <1>2, <1>6, Static DEF Streams, Gpus
<1>8. Contents'
  <2>1. batch' \notin faulty'
    BY <1>1, <1>3, <1>4 DEF Progress
  <2>2. Spoilt({})'
    BY <2>1 DEF Spoilt
  <2>3. \A g \in Owners' : queue'[g] # <<>>
    <3>1. Op("stats")' # <<>>
      BY DEF Op
    <3>2. \A g \in Owners' : g \in Owners /\ g \in Gpus
      BY <1>2, Static DEF Owners
    <3> QED
      BY <1>6, <3>1, <3>2
  <2> QED
    BY <1>1, <2>2, <2>3 DEF Contents
<1>9. Results'
  BY <1>1, <1>2, <1>4, ResultsKept DEF None
<1> QED
  BY <1>1, <1>3, <1>5, <1>7, <1>8, <1>9 DEF BatchInv, VerdictCoversBatches, None

LEMMA ReduceBatchStep == BatchInv /\ Reduce => BatchInv'
<1> SUFFICES ASSUME BatchInv, Reduce PROVE BatchInv'
  OBVIOUS
<1>1. /\ pc = "stats" /\ pc' = "reduce" /\ exit = None /\ exit' = exit
      /\ batch' = batch
      /\ UNCHANGED <<input, out_slot, stats, sims, faulty, host>>
  BY DEF Reduce, Step
<1>2. UNCHANGED input
  BY <1>1
<1>3. Options /\ Progress /\ Options'
  BY <1>1 DEF BatchInv, Options, input
<1>4. batch \in Nat /\ Copied' = Copied
  BY <1>1, <1>3, Counts DEF Progress, Copied
<1>5. Progress'
  <2>1. batch' \in 1 .. Warmups + Timed /\ faulty' \subseteq 1 .. batch'
    BY <1>1, <1>3, <1>4, Counts DEF Progress
  <2> QED
    BY <1>1, <1>3, <1>4, <2>1, ProgressKept
<1>6. \A g \in Gpus : queue[g] = <<>>
  BY <1>1 DEF BatchInv, Streams, Reduce, Waits
<1>7. \A g \in Gpus : queue'[g] = IF collective THEN Op("allreduce")' ELSE <<>>
  <2>1. \A g \in Gpus :
          queue'[g] = IF collective THEN Append(<<>>, [op |-> "allreduce", batch |-> batch']) ELSE <<>>
    BY <1>6 DEF Reduce, Launch, Participants
  <2> QED
    BY <2>1 DEF Op
<1>8. Streams'
  BY <1>1, <1>2, <1>3, <1>7 DEF Streams, Gpus, Options, input
<1>9. Contents'
  <2>1. PICK F \in SUBSET Owners :
          Spoilt(F) /\ \A g \in Owners : Computed(g, F)
    BY <1>1, <1>6 DEF BatchInv, Contents, Owners
  <2>2. Spoilt(F)'
    BY <1>1, <1>2, <2>1, Static DEF Spoilt
  <2>3. CASE collective
    <3>1. \A g \in Gpus : Computed(g, F)'
      BY <1>1, <2>1, <2>3, DimSlots, ComputedKept
    <3>2. queue'[0] # <<>> /\ collective'
      <4>1. queue'[0] = Op("allreduce")'
        BY <1>7, <2>3, Sizes
      <4>2. Op("allreduce")' # <<>>
        BY DEF Op
      <4> QED
        BY <1>1, <2>3, <4>1, <4>2 DEF input
    <3>3. Gpus' = Gpus
      BY DEF Gpus
    <3> QED
      BY <1>1, <1>2, <2>1, <2>2, <3>1, <3>2, <3>3, Static DEF Contents
  <2>4. CASE ~collective
    <3>1. ASSUME NEW g \in Finals PROVE Reduced(g, F)
      <4>1. DimShard(g) = Dims
        BY <2>4 DEF DimShard
      <4>2. Computed(g, F)
        BY <2>1, <2>4, <3>1 DEF Finals
      <4> QED
        BY <4>1, <4>2 DEF Computed, Reduced, Complete
    <3>2. \A g \in Finals : Reduced(g, F)'
      BY <1>1, <3>1, ReducedKept
    <3>3. F \subseteq Finals /\ ~collective'
      BY <1>1, <2>1, <2>4 DEF Finals, input
    <3> QED
      BY <1>1, <1>2, <2>1, <2>2, <3>2, <3>3, Static DEF Contents
  <2> QED
    BY <2>3, <2>4
<1>10. Results'
  BY <1>1, <1>2, <1>4, ResultsKept DEF None
<1> QED
  BY <1>1, <1>3, <1>5, <1>8, <1>9, <1>10 DEF BatchInv, VerdictCoversBatches, None

LEMMA FinalizeBatchStep == BatchInv /\ Finalize => BatchInv'
<1> SUFFICES ASSUME BatchInv, Finalize PROVE BatchInv'
  OBVIOUS
<1>1. /\ pc = "reduce" /\ pc' = "finalize" /\ exit = None /\ exit' = exit
      /\ batch' = batch
      /\ UNCHANGED <<input, out_slot, stats, sims, faulty, host>>
  BY DEF Finalize, Step
<1>2. UNCHANGED input
  BY <1>1
<1>3. Options /\ Progress /\ Options'
  BY <1>1 DEF BatchInv, Options, input
<1>4. batch \in Nat /\ Copied' = Copied
  BY <1>1, <1>3, Counts DEF Progress, Copied
<1>5. Progress'
  <2>1. batch' \in 1 .. Warmups + Timed /\ faulty' \subseteq 1 .. batch'
    BY <1>1, <1>3, <1>4, Counts DEF Progress
  <2> QED
    BY <1>1, <1>3, <1>4, <2>1, ProgressKept
<1>6. \A g \in Gpus : queue[g] = <<>>
  BY <1>1 DEF BatchInv, Streams, Finalize, Waits
<1>7. \A g \in Gpus : queue'[g] = IF g \in Finals THEN Op("finalize")' ELSE <<>>
  <2>1. \A g \in Gpus :
          queue'[g] = IF g \in Finals
                      THEN Append(<<>>, [op |-> "finalize", batch |-> batch']) ELSE <<>>
    BY <1>6 DEF Finalize, Launch, Finals
  <2> QED
    BY <2>1 DEF Op
<1>8. Streams'
  BY <1>1, <1>2, <1>7, Static DEF Streams, Gpus
<1>9. Contents'
  <2>1. PICK F \in SUBSET Owners :
          Spoilt(F) /\ F \subseteq Finals /\ \A g \in Finals : Reduced(g, F)
    BY <1>1, <1>6, Sizes DEF BatchInv, Contents
  <2>2. Spoilt(F)'
    BY <1>1, <1>2, <2>1, Static DEF Spoilt
  <2>3. \A g \in Finals : Reduced(g, F)' /\ queue'[g] # <<>>
    BY <1>1, <1>7, <2>1, ReducedKept, FinalsOwn DEF Op
  <2> QED
    BY <1>1, <1>2, <2>1, <2>2, <2>3, Static DEF Contents
<1>10. Results'
  BY <1>1, <1>2, <1>4, ResultsKept DEF None
<1> QED
  BY <1>1, <1>3, <1>5, <1>8, <1>9, <1>10 DEF BatchInv, VerdictCoversBatches, None

LEMMA CopyBatchStep == BatchInv /\ CopyBack => BatchInv'
<1> SUFFICES ASSUME BatchInv, CopyBack PROVE BatchInv'
  OBVIOUS
<1> DEFINE W == Warmups
           T == Timed
           O == OutSlots
<1>1. /\ pc = "finalize" /\ pc' = "idle" /\ exit = None /\ exit' = exit
      /\ UNCHANGED <<input, batch, queue, stats, sims, faulty>>
      /\ host' = [host EXCEPT ![out_slot] =
                      [p \in Pairs |-> sims[Source(p)][p]]]
      /\ out_slot' = IF resident /\ validate /\ batch > W THEN (out_slot + 1) % O ELSE out_slot
  BY DEF CopyBack, Step, device, NextSlot
<1>2. UNCHANGED input
  BY <1>1
<1>3. Options /\ Progress /\ Options'
  BY <1>1 DEF BatchInv, Options, input
<1>4. /\ W' = W /\ T' = T /\ O' = O /\ resident' = resident /\ validate' = validate
      /\ None' = None
  BY <1>2, Static DEF input, None
<1>5. /\ W \in Nat /\ T \in Nat \ {0} /\ O \in Nat \ {0}
      /\ O > 1 => O = T /\ (resident /\ validate)
      /\ resident /\ validate => O = T
      /\ ~(resident /\ validate) => O = 1
  BY <1>3, Counts
<1>6. /\ batch \in Nat /\ batch >= 1 /\ batch <= W + T
      /\ Copied = batch - 1 /\ Copied' = batch /\ faulty \subseteq 1 .. batch
  BY <1>1, <1>3, <1>5 DEF Progress, Copied
<1>7. out_slot = IF resident /\ validate /\ batch - 1 > W THEN (batch - 1 - W) % O ELSE 0
  BY <1>1, <1>3, <1>6 DEF Progress, None
<1>8. DOMAIN host = 0 .. O - 1 /\ exit \notin {0, 1, 2}
  BY <1>1, <1>3 DEF Progress, None
<1> HIDE DEF W, T, O
<1>9. \A k \in Nat : k < O => k % O = k
  <2>1. ASSUME NEW k \in Nat, k < O PROVE k % O = k
    <3>1. k \in 0 .. O - 1 /\ O * 0 = 0 /\ k = O * 0 + k
      BY <1>5, <2>1
    <3> QED
      BY <1>5, <3>1, ModUnique
  <2> QED
    BY <2>1
(* The slot of the batch is the one that belongs to it. *)
<1>10. out_slot \in 0 .. O - 1 /\ (batch > W => out_slot = (batch - W - 1) % O)
  <2>1. CASE resident /\ validate /\ batch - 1 > W
    <3>1. batch - 1 - W \in Nat /\ batch - 1 - W < O /\ batch - W - 1 = batch - 1 - W
      BY <1>5, <1>6, <2>1
    <3>2. (batch - 1 - W) % O = batch - 1 - W
      BY <1>9, <3>1
    <3> QED
      BY <1>5, <1>7, <2>1, <3>1, <3>2
  <2>2. CASE resident /\ validate /\ ~(batch - 1 > W)
    <3>1. out_slot = 0 /\ 0 \in 0 .. O - 1 /\ 0 % O = 0
      BY <1>5, <1>7, <1>9, <2>2
    <3>2. batch > W => batch - W - 1 = 0
      BY <1>5, <1>6, <2>2
    <3> QED
      BY <3>1, <3>2
  <2>3. CASE ~(resident /\ validate)
    <3>1. out_slot = 0 /\ O = 1
      BY <1>5, <1>7, <2>3
    <3>2. batch > W => (batch - W - 1) % 1 = 0
      BY <1>5, <1>6
    <3> QED
      BY <3>1, <3>2
  <2> QED
    BY <2>1, <2>2, <2>3
<1>11. out_slot' = IF resident /\ validate /\ batch > W THEN (batch - W) % O ELSE 0
  <2>1. CASE resident /\ validate /\ batch > W
    <3>1. batch - W - 1 \in Nat /\ batch - W - 1 < O /\ (batch - W - 1) + 1 = batch - W
      BY <1>5, <1>6, <2>1
    <3>2. out_slot = batch - W - 1
      BY <1>9, <1>10, <2>1, <3>1
    <3> QED
      BY <1>1, <2>1, <3>1, <3>2
  <2>2. CASE ~(resident /\ validate /\ batch > W)
    <3>1. ~(resident /\ validate /\ batch - 1 > W)
      BY <1>5, <1>6, <2>2
    <3> QED
      BY <1>1, <1>7, <2>2, <3>1
  <2> QED
    BY <2>1, <2>2
<1>12. DOMAIN host' = DOMAIN host
  BY <1>1
<1>13. Progress'
  <2>1. out_slot' = IF resident' /\ validate' /\ Copied' > W' THEN (Copied' - W') % O' ELSE 0
    BY <1>4, <1>6, <1>11
  <2>2. DOMAIN host' = 0 .. O' - 1
    BY <1>4, <1>8, <1>12
  <2>3. batch' \in 0 .. W' + T' /\ faulty' \subseteq 1 .. batch'
    BY <1>1, <1>4, <1>5, <1>6
  <2>4. /\ DOMAIN stats' = Gpus' /\ DOMAIN sims' = Gpus'
    BY <1>1, <1>3 DEF Progress, Gpus
  <2> QED
    BY <1>1, <1>4, <1>8, <2>1, <2>2, <2>3, <2>4 DEF Progress, W, T, O
<1>14. \A g \in Gpus : queue[g] = <<>>
  BY <1>1 DEF BatchInv, Streams, CopyBack, Waits, Finals
<1>15. Streams'
  BY <1>1, <1>14 DEF Streams, Gpus
<1>16. Contents'
  BY <1>1 DEF Contents
<1>17. PICK F \in SUBSET Finals : Spoilt(F) /\ \A g \in Finals : Similar(g, F)
  <2>1. Finals \subseteq Gpus
    BY FinalsOwn
  <2> QED
    BY <1>1, <1>14, <2>1 DEF BatchInv, Contents
<1>18. Results'
  <2> DEFINE new == [p \in Pairs |-> sims[Source(p)][p]]
  <2>1. host'[out_slot] = new /\ \A k \in 0 .. O - 1 : k # out_slot => host'[k] = host[k]
    BY <1>1, <1>8, <1>10
  <2>2. collective \in BOOLEAN
    BY <1>3 DEF Options
  <2>3. ASSUME NEW p \in Pairs
        PROVE  new[p].batch = batch /\ (new[p].right <=> Source(p) \notin F)
    <3>1. Source(p) \in Finals /\ p \in PairShard(Source(p))
      BY <2>2, SourceFinal
    <3> QED
      BY <1>17, <3>1 DEF Similar
  <2>4. (\A p \in Pairs : new[p].right) <=> F = {}
    <3>1. ASSUME NEW g \in F PROVE \E p \in Pairs : ~ new[p].right
      <4>1. g \in Finals /\ g \in Gpus /\ PairShard(g) # {}
        BY <1>17, FinalsOwn DEF Owners
      <4>2. PICK p \in Pairs : p \in PairShard(g)
        BY <4>1, ShardInterval
      <4>3. Source(p) = g
        BY <2>2, <4>1, <4>2, SourceFinal
      <4> QED
        BY <2>3, <4>2, <4>3
    <3> HIDE DEF new
    <3> QED
      BY <2>3, <3>1
  <2>5. F = {} <=> batch \notin faulty
    BY <1>17 DEF Spoilt
  <2> HIDE DEF new
  <2>6. ASSUME NEW i \in 1 .. batch - W, O > 1 \/ i = batch - W
        PROVE  /\ \A p \in Pairs : host'[(i - 1) % O][p].batch = W + i
               /\ (\A p \in Pairs : host'[(i - 1) % O][p].right) <=> W + i \notin faulty
    <3>1. CASE i = batch - W
      <4>1. batch > W /\ i - 1 = batch - W - 1 /\ W + i = batch
        BY <1>5, <1>6, <3>1
      <4>2. host'[(i - 1) % O] = new
        BY <1>10, <2>1, <4>1
      <4> QED
        BY <2>3, <2>4, <2>5, <4>1, <4>2
    <3>2. CASE i # batch - W
      <4>1. /\ O > 1 /\ O = T /\ i \in 1 .. batch - 1 - W
            /\ i - 1 \in Nat /\ i - 1 < O /\ batch - W - 1 \in Nat /\ batch - W - 1 < O
            /\ i - 1 # batch - W - 1 /\ batch > W
        BY <1>5, <1>6, <2>6, <3>2
      <4>2. (i - 1) % O = i - 1 /\ (batch - W - 1) % O = batch - W - 1
        BY <1>9, <4>1
      <4>3. (i - 1) % O \in 0 .. O - 1 /\ (i - 1) % O # out_slot
        BY <1>5, <1>10, <4>1, <4>2
      <4>4. host'[(i - 1) % O] = host[(i - 1) % O]
        BY <2>1, <4>3
      <4>5. Results /\ i \in 1 .. Copied - W
        BY <1>1, <1>6, <4>1 DEF BatchInv, None
      <4>6. /\ \A p \in Pairs : host[(i - 1) % O][p].batch = W + i
            /\ (\A p \in Pairs : host[(i - 1) % O][p].right) <=> W + i \notin faulty
        BY <4>1, <4>5 DEF Results, Passed, W, O
      <4> QED
        BY <4>4, <4>6
    <3> QED
      BY <3>1, <3>2
  <2>7. /\ Warmups' = W /\ OutSlots' = O /\ Copied' = batch /\ faulty' = faulty
        /\ Pairs' = Pairs
        /\ \A k : Passed(k)' <=> \A p \in Pairs : host'[k][p].right
    BY <1>1, <1>4, <1>6 DEF W, O, Pairs, Passed
  <2> QED
    BY <2>6, <2>7 DEF Results
<1> QED
  BY <1>1, <1>3, <1>8, <1>13, <1>15, <1>16, <1>18 DEF BatchInv, VerdictCoversBatches

LEMMA ExitStep == BatchInv /\ Exit => BatchInv'
<1> SUFFICES ASSUME BatchInv, Exit PROVE BatchInv'
  OBVIOUS
<1> DEFINE W == Warmups
           T == Timed
           O == OutSlots
<1>1. /\ pc = "idle" /\ pc' = "done" /\ exit = None /\ batch = W + T
      /\ exit' = IF validate /\ ~Verdict THEN 1 ELSE 0
      /\ UNCHANGED <<input, batch, out_slot, queue, stats, sims, faulty, host>>
  BY DEF Exit, Step, device
<1>2. UNCHANGED input
  BY <1>1
<1>3. Options /\ Progress /\ Options'
  BY <1>1 DEF BatchInv, Options, input
<1>4. /\ W' = W /\ T' = T /\ O' = O /\ resident' = resident /\ validate' = validate
      /\ None' = None
  BY <1>2, Static DEF input, None
<1>5. /\ W \in Nat /\ T \in Nat \ {0} /\ O \in Nat \ {0}
      /\ O > 1 \/ validate => O = T
  BY <1>3, Counts
<1>6. Copied = batch /\ Copied' = batch /\ exit \notin {0, 1, 2} /\ exit' \in {0, 1}
  BY <1>1 DEF Copied, None
<1>7. Results
  BY <1>6 DEF BatchInv
<1>8. Progress'
  BY <1>1, <1>3, <1>4, <1>6 DEF Progress, Gpus, None
<1>9. Streams' /\ Contents'
  BY <1>1 DEF Streams, Contents
<1>10. Results'
  BY <1>1, <1>6, ResultsKept
<1>11. ASSUME validate
       PROVE  Verdict <=> \A b \in faulty : ~(b > W)
  <2>1. ASSUME NEW i \in 0 .. T - 1
        PROVE  Passed(i % O) <=> W + (i + 1) \notin faulty
    <3>1. i + 1 \in 1 .. Copied - W /\ (i + 1) - 1 = i
      BY <1>1, <1>5, <1>6
    <3>2. O > 1 \/ i + 1 = Copied - W
      BY <1>1, <1>5, <1>6, <1>11
    <3> QED
      BY <1>7, <3>1, <3>2 DEF Results
  <2>2. \A b \in faulty : b \in Int /\ b <= W + T
    BY <1>1, <1>3, <1>5 DEF Progress
  <2>3. ASSUME NEW b \in faulty, b > W PROVE \E i \in 0 .. T - 1 : W + (i + 1) = b
    <3>1. b - W - 1 \in 0 .. T - 1 /\ W + ((b - W - 1) + 1) = b
      BY <1>5, <2>2, <2>3
    <3> QED
      BY <3>1
  <2>4. \A i \in 0 .. T - 1 : W + (i + 1) > W
    BY <1>5
  <2>5. Verdict <=> \A i \in 0 .. T - 1 : W + (i + 1) \notin faulty
    BY <2>1 DEF Verdict
  <2> QED
    BY <2>3, <2>4, <2>5
<1>12. VerdictCoversBatches'
  <2>1. VerdictCoversBatches' <=>
          (exit' \in {0, 1} => (exit' = 1 <=> validate /\ \E b \in faulty : b > W))
    BY <1>1, <1>4 DEF VerdictCoversBatches
  <2>2. exit' = 1 <=> validate /\ ~Verdict
    BY <1>1
  <2> HIDE DEF W
  <2> QED
    BY <1>11, <2>1, <2>2
<1> QED
  BY <1>3, <1>8, <1>9, <1>10, <1>12 DEF BatchInv

LEMMA HostFailStep == BatchInv /\ HostFail => BatchInv'
<1> SUFFICES ASSUME BatchInv, HostFail PROVE BatchInv'
  OBVIOUS
<1>1. /\ pc' = "done" /\ exit' = 2
      /\ UNCHANGED <<input, batch, out_slot, queue, stats, sims, faulty, host>>
  BY DEF HostFail, device
<1>2. UNCHANGED input
  BY <1>1
<1>3. Options' /\ Streams' /\ Contents' /\ VerdictCoversBatches'
  BY <1>1 DEF BatchInv, Options, input, Streams, Contents, VerdictCoversBatches
<1>4. Progress'
  BY <1>1, <1>2, Static DEF BatchInv, Progress, Gpus, None
<1> QED
  BY <1>1, <1>3, <1>4 DEF BatchInv

-----------------------------------------------------------------------------
(* The steps of the GPUs. *)

(* What an operation says of the host, which is waiting for it. *)
LEMMA AtStage ==
  ASSUME BatchInv, NEW g \in Gpus, NEW k \in {"stats", "allreduce", "finalize"},
         At(g, k)
  PROVE  /\ exit = None /\ queue[g] = Op(k)
         /\ k = "stats" => pc = "stats" /\ g \in Owners
         /\ k = "allreduce" => pc = "reduce" /\ collective
         /\ k = "finalize" => pc = "finalize" /\ g \in Finals
<1>1. exit = None /\ queue[g] # <<>> /\ Head(queue[g]).op = k
  BY DEF At
<1>2. pc \in {"idle", "stats", "reduce", "finalize"}
  BY <1>1 DEF BatchInv, Progress
<1>3. \A l \in {"stats", "allreduce", "finalize"} : queue[g] = Op(l) => l = k
  BY <1>1 DEF Op
<1> QED
  BY <1>1, <1>2, <1>3 DEF BatchInv, Streams

(* A finished operation leaves its stream empty. *)
LEMMA Popped ==
  ASSUME NEW gs, Pop(gs), NEW k,
         \A g \in Gpus : g \in gs => queue[g] = Op(k)
  PROVE  \A g \in Gpus : queue'[g] = IF g \in gs THEN <<>> ELSE queue[g]
<1>1. Tail(Op(k)) = <<>>
  BY DEF Op
<1> QED
  BY <1>1 DEF Pop

(* A step of a GPU leaves the host as it is. *)
LEMMA DeviceKeeps ==
  ASSUME BatchInv, UNCHANGED <<input, pc, batch, out_slot, host, exit>>,
         exit = None, pc \in {"stats", "reduce", "finalize"},
         faulty' \in {faulty, faulty \cup {batch}},
         DOMAIN stats' = DOMAIN stats, DOMAIN sims' = DOMAIN sims,
         Streams', Contents'
  PROVE  BatchInv'
<1>1. UNCHANGED input
  OBVIOUS
<1>2. Options /\ Progress /\ Options'
  BY DEF BatchInv, Options, input
<1>3. batch \in 1 .. Warmups + Timed /\ Copied' = Copied /\ Copied < batch
  BY <1>2, Counts DEF Progress, Copied
<1>4. faulty' \subseteq 1 .. batch'
  BY <1>2, <1>3 DEF Progress
<1>5. Progress'
  BY <1>2, <1>3, <1>4, ProgressKept
<1>6. exit # 2 /\ exit' = exit /\ exit' \notin {0, 1}
  BY DEF None
<1>7. Results'
  BY <1>3, <1>6, ResultsKept
<1> QED
  BY <1>2, <1>5, <1>6, <1>7 DEF BatchInv, VerdictCoversBatches

(* The statistics kernel, right and wrong. *)
LEMMA StatsStep ==
  ASSUME BatchInv, NEW g \in Gpus, StatsKernel(g) \/ FaultyKernel(g)
  PROVE  BatchInv'
<1>0. PICK bad \in BOOLEAN : bad <=> ~ StatsKernel(g)
  OBVIOUS
<1>1. /\ At(g, "stats") /\ Pop({g})
      /\ UNCHANGED <<input, pc, batch, out_slot, sims, host, exit>>
      /\ faulty' = IF bad THEN faulty \cup {Head(queue[g]).batch} ELSE faulty
  BY <1>0 DEF StatsKernel, FaultyKernel
<1>2. exit = None /\ queue[g] = Op("stats") /\ pc = "stats" /\ g \in Owners
  BY <1>1, AtStage
<1>3. Head(queue[g]).batch = batch
  BY <1>2 DEF Op
<1>4. \A h \in Gpus : queue'[h] = IF h = g THEN <<>> ELSE queue[h]
  BY <1>1, <1>2, Popped
<1>5. /\ DOMAIN stats' = DOMAIN stats
      /\ \A h \in Gpus : h # g => stats'[h] = stats[h]
      /\ \A s \in Filled(g) :
           stats'[g][s] = IF bad THEN [Stat(batch, DimShard(g)) EXCEPT !.sound = FALSE]
                            ELSE Stat(batch, DimShard(g))
  <2>1. DOMAIN stats = Gpus
    BY DEF BatchInv, Progress
  <2>2. CASE bad
    <3>1. stats' = [stats EXCEPT ![g] = [s \in Pairs |->
                        IF s + Begin(g) \in PairShard(g)
                        THEN [Stat(batch, DimShard(g)) EXCEPT !.sound = FALSE]
                        ELSE stats[g][s]]]
      BY <1>0, <1>3, <2>2 DEF FaultyKernel
    <3> QED
      BY <2>1, <2>2, <3>1 DEF Filled
  <2>3. CASE ~bad
    <3>1. stats' = [stats EXCEPT ![g] = [s \in Pairs |->
                        IF s + Begin(g) \in PairShard(g)
                        THEN Stat(batch, DimShard(g)) ELSE stats[g][s]]]
      BY <1>0, <1>3, <2>3 DEF StatsKernel
    <3> QED
      BY <2>1, <2>3, <3>1 DEF Filled
  <2> QED
    BY <2>2, <2>3
<1>6. UNCHANGED input
  BY <1>1
<1>7. Streams'
  <2>1. Op("stats")' = Op("stats") /\ Gpus' = Gpus
    BY <1>1 DEF Op, Gpus
  <2> QED
    BY <1>1, <1>2, <1>4, <1>6, <2>1, Static DEF BatchInv, Streams
<1>8. Contents'
  <2>1. PICK F \in SUBSET Owners :
          /\ Spoilt(F) /\ \A h \in F : queue[h] = <<>>
          /\ \A h \in Owners : queue[h] = <<>> => Computed(h, F)
    BY <1>2 DEF BatchInv, Contents
  <2>2. g \notin F
    BY <1>2, <2>1 DEF Op
  <2>31. PICK E \in SUBSET Owners : E = IF bad THEN F \cup {g} ELSE F
    BY <1>2
  <2>3. E \in SUBSET Owners /\ (g \in E <=> bad) /\ \A h : h # g => (h \in F <=> h \in E)
    BY <2>31, <2>2
  <2>4. E # {} <=> F # {} \/ bad
    BY <2>31
  <2>40. Spoilt(E)'
    <3>1. batch' = batch /\ faulty' = IF bad THEN faulty \cup {batch} ELSE faulty
      BY <1>1, <1>3
    <3>2. F # {} <=> batch \in faulty
      BY <2>1 DEF Spoilt
    <3>3. E # {} <=> batch' \in faulty'
      BY <2>4, <3>1, <3>2
    <3>4. Owners' = Owners
      BY <1>6, Static
    <3> QED
      BY <2>3, <3>3, <3>4 DEF Spoilt
  <2>5. \A h \in Owners : h \in Gpus
    BY FinalsOwn
  <2>6. \A h \in E : queue'[h] = <<>>
    BY <1>4, <2>1, <2>3, <2>5
  <2>7. Computed(g, E)'
    <3>1. Filled(g)' = Filled(g) /\ DimShard(g)' = DimShard(g)
          /\ Dims' = Dims
      BY <1>6, Static DEF Dims
    <3>2. ASSUME NEW s \in Filled(g)
          PROVE  /\ stats'[g][s].batch = batch
                 /\ (stats'[g][s].sound <=> ~bad)
                 /\ \A d \in Dims :
                      stats'[g][s].count[d] = IF d \in DimShard(g) THEN 1 ELSE 0
      <4>1. CASE bad
        <5>1. stats'[g][s] = [Stat(batch, DimShard(g)) EXCEPT !.sound = FALSE]
          BY <1>5, <4>1
        <5> QED
          BY <4>1, <5>1 DEF Stat
      <4>2. CASE ~bad
        <5>1. stats'[g][s] = Stat(batch, DimShard(g))
          BY <1>5, <4>2
        <5> QED
          BY <4>2, <5>1 DEF Stat
      <4> QED
        BY <4>1, <4>2
    <3>3. batch' = batch /\ (g \in E <=> bad)
      BY <1>1, <2>3
    <3> QED
      BY <3>1, <3>2, <3>3 DEF Computed
  <2>8. ASSUME NEW h \in Owners, queue'[h] = <<>> PROVE Computed(h, E)'
    <3>1. CASE h = g
      BY <2>7, <3>1
    <3>2. CASE h # g
      <4>1. queue[h] = <<>> /\ Computed(h, F)
        BY <1>4, <2>1, <2>5, <2>8, <3>2
      <4>2. UNCHANGED stats[h]
        BY <1>5, <2>5, <3>2
      <4>3. UNCHANGED <<input, batch>>
        BY <1>1
      <4>4. h \in F <=> h \in E
        BY <2>3, <3>2
      <4> QED
        BY <4>1, <4>2, <4>3, <4>4, ComputedKept
    <3> QED
      BY <3>1, <3>2
  <2>9. pc' = "stats" /\ Owners' = Owners
    BY <1>1, <1>2, <1>6, Static
  <2> QED
    BY <2>3, <2>6, <2>8, <2>9, <2>40 DEF Contents
<1> QED
  BY <1>1, <1>2, <1>3, <1>5, <1>7, <1>8, DeviceKeeps

LEMMA AllReduceStep == BatchInv /\ AllReduce => BatchInv'
<1> SUFFICES ASSUME BatchInv, AllReduce PROVE BatchInv'
  OBVIOUS
<1>1. /\ \A g \in Gpus : At(g, "allreduce")
      /\ Pop(Gpus)
      /\ UNCHANGED <<input, pc, batch, out_slot, sims, faulty, host, exit>>
      /\ stats' = [g \in Gpus |-> [s \in Pairs |->
                       StatSum([h \in Gpus |-> stats[h][s]])]]
  BY DEF AllReduce
<1>2. /\ exit = None /\ pc = "reduce" /\ collective
      /\ \A g \in Gpus : queue[g] = Op("allreduce")
  BY <1>1, AtStage, Sizes
<1>3. \A g \in Gpus : queue'[g] = <<>>
  BY <1>1, <1>2, Popped
<1>4. UNCHANGED input
  BY <1>1
<1>5. Streams'
  BY <1>1, <1>2, <1>3 DEF Streams, Gpus
<1>6. Contents'
  <2>1. PICK F \in SUBSET Owners : Spoilt(F) /\ \A g \in Gpus : Computed(g, F)
    <3>1. queue[0] # <<>>
      BY <1>2, Sizes DEF Op
    <3> QED
      BY <1>2, <3>1 DEF BatchInv, Contents
  <2> DEFINE E == IF F = {} THEN {} ELSE {0}
  <2>2. E \subseteq Finals /\ E \in SUBSET Owners /\ (0 \in E <=> F # {}) /\ (E = {} <=> F = {})
    BY <1>2, FinalsOwn DEF Finals
  <2> HIDE DEF E
  <2>3. Spoilt(E)'
    BY <1>1, <1>4, <2>1, <2>2, Static DEF Spoilt
  <2>4. Reduced(0, E)'
    <3>1. ASSUME NEW s \in Pairs
          PROVE  stats'[0][s].batch = batch /\ (Complete(stats'[0][s]) <=> F = {})
      <4>1. F \subseteq Gpus
        BY <2>1, FinalsOwn
      <4>2. stats'[0][s] = StatSum([h \in Gpus |-> stats[h][s]])
        BY <1>1, Sizes
      <4> QED
        BY <1>2, <2>1, <4>1, <4>2, SumOfComputed
    <3>2. Filled(0)' = Pairs
      BY <1>2, <1>4, DimSlots, Sizes, Static
    <3>3. \A s : Complete(stats[0][s])' <=> Complete(stats'[0][s])
      BY DEF Complete, Dims
    <3> QED
      BY <1>1, <2>2, <3>1, <3>2, <3>3 DEF Reduced
  <2>5. queue'[0] = <<>> /\ Finals' = {0} /\ E \subseteq Finals' /\ E \in SUBSET Owners'
    BY <1>2, <1>3, <1>4, <2>2, Sizes, Static DEF Finals
  <2> QED
    BY <1>1, <1>2, <2>3, <2>4, <2>5 DEF Contents
<1>7. DOMAIN stats' = DOMAIN stats
  BY <1>1 DEF BatchInv, Progress
<1> QED
  BY <1>1, <1>2, <1>5, <1>6, <1>7, DeviceKeeps

LEMMA FinalizeKernelStep ==
  ASSUME BatchInv, NEW g \in Gpus, FinalizeKernel(g)
  PROVE  BatchInv'
<1>1. /\ At(g, "finalize") /\ Pop({g})
      /\ UNCHANGED <<input, pc, batch, out_slot, stats, faulty, host, exit>>
      /\ sims' = [sims EXCEPT ![g] = [p \in Pairs |->
                      IF p \in PairShard(g)
                      THEN Sim(stats[g][p - Begin(g)]) ELSE sims[g][p]]]
  BY DEF FinalizeKernel
<1>2. exit = None /\ queue[g] = Op("finalize") /\ pc = "finalize" /\ g \in Finals
  BY <1>1, AtStage
<1>3. \A h \in Gpus : queue'[h] = IF h = g THEN <<>> ELSE queue[h]
  BY <1>1, <1>2, Popped
<1>4. UNCHANGED input
  BY <1>1
<1>5. Streams'
  <2>1. Op("finalize")' = Op("finalize") /\ Gpus' = Gpus
    BY <1>1 DEF Op, Gpus
  <2> QED
    BY <1>1, <1>2, <1>3, <1>4, <2>1, Static DEF BatchInv, Streams
<1>6. DOMAIN sims = Gpus
  BY DEF BatchInv, Progress
<1>7. Contents'
  <2>1. PICK F \in SUBSET Finals :
          /\ Spoilt(F)
          /\ \A h \in Finals : Reduced(h, F) /\ (queue[h] = <<>> => Similar(h, F))
    BY <1>2 DEF BatchInv, Contents
  <2>2. Spoilt(F)'
    BY <1>1, <1>4, <2>1, Static DEF Spoilt
  <2>3. \A h \in Finals : Reduced(h, F)'
    BY <1>1, <2>1, ReducedKept
  <2>4. Similar(g, F)'
    <3>1. ASSUME NEW p \in PairShard(g)
          PROVE  sims'[g][p].batch = batch /\ (sims'[g][p].right <=> g \notin F)
      <4>1. p \in Pairs /\ p - Begin(g) \in Filled(g)
        BY ShardInterval, ShardSlots
      <4>2. sims'[g][p] = Sim(stats[g][p - Begin(g)])
        BY <1>1, <1>6, <3>1, <4>1
      <4>3. /\ stats[g][p - Begin(g)].batch = batch
            /\ Complete(stats[g][p - Begin(g)]) <=> g \notin F
        BY <1>2, <2>1, <4>1 DEF Reduced
      <4>4. \A t : /\ Sim(t).batch = t.batch
                   /\ Sim(t).right <=> Complete(t)
        BY DEF Sim
      <4> QED
        BY <4>2, <4>3, <4>4
    <3> QED
      BY <1>1, <1>4, <3>1, Static DEF Similar
  <2>5. ASSUME NEW h \in Finals, queue'[h] = <<>> PROVE Similar(h, F)'
    <3>1. CASE h = g
      BY <2>4, <3>1
    <3>2. CASE h # g
      <4>1. h \in Gpus
        BY FinalsOwn
      <4>2. Similar(h, F) /\ sims'[h] = sims[h]
        BY <1>1, <1>3, <1>6, <2>1, <2>5, <3>2, <4>1
      <4> QED
        BY <1>1, <1>4, <4>2, Static DEF Similar
    <3> QED
      BY <3>1, <3>2
  <2> QED
    BY <1>1, <1>2, <1>4, <2>1, <2>2, <2>3, <2>5, Static DEF Contents
<1>8. DOMAIN sims' = DOMAIN sims
  BY <1>1
<1> QED
  BY <1>1, <1>2, <1>5, <1>7, <1>8, DeviceKeeps

LEMMA BatchStutter == BatchInv /\ UNCHANGED vars => BatchInv'
<1> SUFFICES ASSUME BatchInv, UNCHANGED vars PROVE BatchInv'
  OBVIOUS
<1>1. UNCHANGED <<input, pc, batch, out_slot, queue, stats, sims, faulty, host, exit>>
  BY DEF vars, device
<1>2. UNCHANGED <<collective, resident, validate, warmups, repeats>>
  BY <1>1 DEF input
<1>3. Options' /\ Copied' = Copied
  BY <1>1, <1>2 DEF BatchInv, Options, Copied
<1>4. UNCHANGED input
  BY <1>1
<1>5. Progress'
  <2>1. /\ Warmups' = Warmups /\ Timed' = Timed
        /\ OutSlots' = OutSlots /\ Gpus' = Gpus
        /\ None' = None
    BY <1>4, Static DEF Gpus, None
  <2> QED
    BY <1>1, <1>2, <1>3, <2>1 DEF BatchInv, Progress
<1>6. Streams'
  <2>1. \A k : Op(k)' = Op(k)
    BY <1>1 DEF Op
  <2>2. Gpus' = Gpus /\ Owners' = Owners /\ Finals' = Finals
    BY <1>4, Static DEF Gpus
  <2> QED
    BY <1>1, <1>2, <2>1, <2>2 DEF BatchInv, Streams
<1>7. Contents'
  <2>1. Gpus' = Gpus /\ Owners' = Owners /\ Finals' = Finals
    BY <1>4, Static DEF Gpus
  <2>4. Contents
    BY DEF BatchInv
  <2>5. CASE pc = "stats"
    <3>1. PICK F \in SUBSET Owners :
            /\ Spoilt(F) /\ \A g \in F : queue[g] = <<>>
            /\ \A g \in Owners : queue[g] = <<>> => Computed(g, F)
      BY <2>4, <2>5 DEF Contents
    <3>2. Spoilt(F)'
      BY <1>1, <2>1, <3>1 DEF Spoilt
    <3>3. ASSUME NEW g \in Owners, queue'[g] = <<>> PROVE Computed(g, F)'
      <4>1. Computed(g, F)
        BY <1>1, <3>1, <3>3
      <4> QED
        BY <1>1, <4>1, ComputedKept
    <3> QED
      BY <1>1, <2>1, <2>5, <3>1, <3>2, <3>3 DEF Contents
  <2>6. CASE pc = "reduce"
    <3>1. PICK F \in SUBSET Owners :
            /\ Spoilt(F)
            /\ IF collective /\ queue[0] # <<>> THEN \A g \in Gpus : Computed(g, F)
               ELSE F \subseteq Finals /\ \A g \in Finals : Reduced(g, F)
      BY <2>4, <2>6 DEF Contents
    <3>2. Spoilt(F)'
      BY <1>1, <2>1, <3>1 DEF Spoilt
    <3>3. CASE collective /\ queue[0] # <<>>
      <4>1. ASSUME NEW g \in Gpus PROVE Computed(g, F)'
        <5>1. Computed(g, F)
          BY <3>1, <3>3
        <5> QED
          BY <1>1, <5>1, ComputedKept
      <4> QED
        BY <1>1, <1>2, <2>1, <2>6, <3>2, <3>3, <4>1 DEF Contents
    <3>4. CASE ~(collective /\ queue[0] # <<>>)
      <4>1. ASSUME NEW g \in Finals PROVE Reduced(g, F)'
        <5>1. Reduced(g, F)
          BY <3>1, <3>4
        <5> QED
          BY <1>1, <5>1, ReducedKept
      <4> QED
        BY <1>1, <1>2, <2>1, <2>6, <3>1, <3>2, <3>4, <4>1 DEF Contents
    <3> QED
      BY <3>3, <3>4
  <2>7. CASE pc = "finalize"
    <3>1. PICK F \in SUBSET Finals :
            /\ Spoilt(F)
            /\ \A g \in Finals : Reduced(g, F) /\ (queue[g] = <<>> => Similar(g, F))
      BY <2>4, <2>7 DEF Contents
    <3>2. Spoilt(F)'
      BY <1>1, <2>1, <3>1 DEF Spoilt
    <3>3. ASSUME NEW g \in Finals PROVE Reduced(g, F)'
      <4>1. Reduced(g, F)
        BY <3>1
      <4> QED
        BY <1>1, <4>1, ReducedKept
    <3>4. ASSUME NEW g \in Finals, queue'[g] = <<>> PROVE Similar(g, F)'
      <4>1. Similar(g, F)
        BY <1>1, <3>1, <3>4
      <4> QED
        BY <1>1, <1>4, <4>1, Static DEF Similar
    <3> QED
      BY <1>1, <2>1, <2>7, <3>2, <3>3, <3>4 DEF Contents
  <2> QED
    BY <1>1, <2>5, <2>6, <2>7 DEF Contents
<1>8. exit' # 2 => Results'
  BY <1>1, <1>3, ResultsKept
<1>9. VerdictCoversBatches'
  BY <1>1, <1>2, <1>4, Static DEF BatchInv, VerdictCoversBatches
<1> QED
  BY <1>3, <1>5, <1>6, <1>7, <1>8, <1>9 DEF BatchInv

-----------------------------------------------------------------------------
(* The inductive invariant of the batches. *)
THEOREM BatchInvariance == Spec => []BatchInv
<1>1. BatchInv /\ [Next]_(vars) => BatchInv'
  BY StartBatchStep, ReduceBatchStep, FinalizeBatchStep, CopyBatchStep, ExitStep, HostFailStep,
     StatsStep, AllReduceStep, FinalizeKernelStep, BatchStutter
  DEF Next, Host, Device
<1> QED
  BY <1>1, BatchInit, PTL DEF Spec

(* What is copied back after a batch is that batch's own, for every pair. *)
THEOREM Freshness == Spec => []ResultsFresh
<1>1. ASSUME BatchInv PROVE ResultsFresh
  <2>1. SUFFICES ASSUME pc \in {"idle", "done"}, exit # 2 PROVE ResultsFresh
    BY DEF ResultsFresh
  <2>2. Results /\ Copied = batch
    BY <1>1, <2>1 DEF BatchInv, Copied
  <2> QED
    BY <2>2 DEF Results, ResultsFresh
<1> QED
  BY <1>1, BatchInvariance, PTL

(* The run fails exactly if a batch that counts was wrong. *)
THEOREM Verdicts == Spec => []VerdictCoversBatches
<1>1. BatchInv => VerdictCoversBatches
  BY DEF BatchInv
<1> QED
  BY <1>1, BatchInvariance, PTL

-----------------------------------------------------------------------------
(* The MPI job: the inductive invariant. *)
JobVerdict == IF validating /\ ~golden THEN 1 ELSE 0

JobTyped ==
  /\ rated \in Nat /\ aborted \in BOOLEAN
  /\ at \in [Ranks -> 1 .. 13] /\ inside \in [Ranks -> BOOLEAN]
  /\ n_dims \in [Ranks -> Nat] /\ owned \in [Ranks -> SUBSET Int]
  /\ counts \in [Ranks -> [RatedDims -> Nat]]
  /\ failed \in [Ranks -> {0, 1}] /\ status \in [Ranks -> {Unset, 0, 1}]

(* Collectives that nobody leaves before all are in it. *)
Together == {2, 5, 6, 8, 9, 12}
InStep == \A r, s \in Ranks : \A i \in Together : at[r] > i => Entered(s, i)

RankRange(r) == SplitRange(rated, r, World)
Counted ==
  \A r \in Ranks :
    /\ at[r] > 1 => n_dims[r] = rated
    /\ at[r] > 7 => owned[r] = Members(RankRange(r))
    /\ at[r] > 9 => \A d \in RatedDims : counts[r][d] = 1

(* Until the report nobody has an opinion. *)
Agreed ==
  \A r \in Ranks :
    /\ r = 0 => failed[r] = IF at[r] > 10 THEN JobVerdict ELSE 0
    /\ at[r] > 11 => failed[r] = JobVerdict /\ at[0] > 10
    /\ status[r] # Unset => status[r] = JobVerdict

JobInv == JobTyped /\ InStep /\ Counted /\ Agreed

-----------------------------------------------------------------------------
(* The steps of the program by their numbers. *)
LEMMA Steps ==
  ASSUME JobInv, NEW r \in Ranks
  PROVE  /\ Doing(r) = "load" <=> at[r] = 1
         /\ Doing(r) = "n_dims" <=> at[r] = 5
         /\ Doing(r) = "partial" <=> at[r] = 7
         /\ Doing(r) = "stats" <=> at[r] = 9
         /\ Doing(r) = "report" <=> at[r] = 10
         /\ Doing(r) = "bcast" <=> at[r] = 11
         /\ Doing(r) = "finalize" <=> at[r] = 12
         /\ Doing(r) \in Collectives <=> at[r] \in {2, 3, 4, 5, 6, 8, 9, 11, 12}
         /\ Doing(r) \in {"ready", "load_max"} <=> at[r] \in {3, 4}
<1>1. at[r] \in 1 .. 13 /\ DOMAIN Program = 1 .. 12
  BY DEF JobInv, JobTyped, Program
<1> QED
  BY <1>1 DEF Doing, Program, Collectives

LEMMA RanksFacts == Ranks \subseteq Nat /\ 0 \in Ranks /\ IsFiniteSet(Ranks)
BY WorldAssumption, FS_Interval DEF Ranks

(* The largest of the indices, when all ranks have loaded the same fixture. *)
LEMMA SameMax ==
  ASSUME NEW n \in Nat, \A s \in Ranks : n_dims[s] = n
  PROVE  Max({n_dims[s] : s \in Ranks}) = n
<1>1. {n_dims[s] : s \in Ranks} = {n}
  BY RanksFacts
<1> QED
  BY <1>1 DEF Max

(* The sum of the ranks' contributions: every dimension has one owner. *)
LEMMA OneOwner ==
  ASSUME NEW n \in Nat, NEW d \in 0 .. n - 1,
         \A s \in Ranks : owned[s] = Members(SplitRange(n, s, World))
  PROVE  Cardinality({s \in Ranks : d \in owned[s]}) = 1
<1>0. /\ \E g \in Ranks : d \in Members(SplitRange(n, g, World))
      /\ \A g, h \in Ranks :
           d \in Members(SplitRange(n, g, World)) /\ d \in Members(SplitRange(n, h, World)) => g = h
  BY SplitOwnsOnce, WorldAssumption DEF Ranks
<1>1. PICK g \in Ranks : d \in owned[g]
  BY <1>0
<1>2. \A h \in Ranks : d \in owned[h] => h = g
  BY <1>0, <1>1
<1>3. {s \in Ranks : d \in owned[s]} = {g}
  BY <1>1, <1>2
<1> QED
  BY <1>3, FS_Singleton

-----------------------------------------------------------------------------
LEMMA JobInitInv == JobInit => JobInv
<1> SUFFICES ASSUME JobInit PROVE JobInv
  OBVIOUS
<1>1. JobTyped
  <2>1. rated \in Nat
    BY MaxDimsAssumption DEF JobInit
  <2>2. at \in [Ranks -> 1 .. 13] /\ n_dims \in [Ranks -> Nat]
    BY DEF JobInit
  <2>5. inside \in [Ranks -> BOOLEAN] /\ aborted \in BOOLEAN
    BY Zenon DEF JobInit
  <2>3. /\ counts \in [Ranks -> [RatedDims -> Nat]]
        /\ failed \in [Ranks -> {0, 1}] /\ status \in [Ranks -> {Unset, 0, 1}]
    BY DEF JobInit
  <2>4. owned \in [Ranks -> SUBSET Int]
    <3>1. {} \in SUBSET Int
      OBVIOUS
    <3> QED
      BY <3>1 DEF JobInit
  <2> QED
    BY <2>1, <2>2, <2>3, <2>4, <2>5 DEF JobTyped
<1>2. InStep /\ Counted /\ Agreed
  BY DEF JobInit, InStep, Counted, Agreed, Together
<1> QED
  BY <1>1, <1>2 DEF JobInv

(***************************************************************************)
(* A local step moves one rank by one; no collective is left by it, and    *)
(* the others keep their place.                                            *)
(***************************************************************************)
LEMMA LocalInStep ==
  ASSUME JobInv, NEW r \in Ranks, at[r] \in {1, 7, 10}, Advance(r), inside' = inside
  PROVE  InStep'
<1> SUFFICES ASSUME NEW p \in Ranks, NEW s \in Ranks, NEW i \in Together, at'[p] > i
             PROVE  Entered(s, i)'
  BY DEF InStep
<1>1. at' = [at EXCEPT ![r] = at[r] + 1] /\ at \in [Ranks -> 1 .. 13]
  BY DEF Advance, JobInv, JobTyped
<1>2. at[p] > i
  BY <1>1 DEF Together
<1>3. Entered(s, i)
  BY <1>2 DEF JobInv, InStep
<1> QED
  BY <1>1, <1>3 DEF Entered, Together

LEMMA LoadInv == ASSUME JobInv, NEW r \in Ranks, Load(r) PROVE JobInv'
<1>1. /\ at[r] = 1 /\ Advance(r) /\ n_dims' = [n_dims EXCEPT ![r] = rated]
      /\ UNCHANGED <<rated, inside, rejected, golden, validating, owned, counts, failed,
                     published, status, aborted>>
  BY Steps DEF Load
<1>2. JobTyped'
  BY <1>1 DEF JobInv, JobTyped, Advance, RatedDims
<1>3. InStep'
  BY <1>1, LocalInStep
<1>4. Counted' /\ Agreed'
  BY <1>1 DEF JobInv, JobTyped, Counted, Agreed, Advance, RankRange, RatedDims, JobVerdict
<1> QED
  BY <1>2, <1>3, <1>4 DEF JobInv

LEMMA AbortInv == ASSUME JobInv, NEW r \in Ranks, Reject(r) \/ Die(r) PROVE JobInv'
<1>1. /\ aborted' = TRUE
      /\ UNCHANGED <<rated, at, inside, golden, validating, n_dims, owned, counts, failed, status>>
  BY DEF Reject, Die
<1> QED
  BY <1>1 DEF JobInv, JobTyped, InStep, Entered, Counted, Agreed, RankRange, RatedDims, JobVerdict

LEMMA PartialStatsInv == ASSUME JobInv, NEW r \in Ranks, PartialStats(r) PROVE JobInv'
<1>1. /\ at[r] = 7 /\ Advance(r)
      /\ owned' = [owned EXCEPT ![r] = Lo(r) .. Hi(r) - 1]
      /\ counts' = [counts EXCEPT ![r] = [d \in RatedDims |-> IF d \in Lo(r) .. Hi(r) - 1 THEN 1 ELSE 0]]
      /\ UNCHANGED <<rated, inside, golden, validating, n_dims, failed, status, aborted>>
  BY Steps DEF PartialStats
<1>2. Lo(r) .. Hi(r) - 1 = Members(RankRange(r))
  <2>1. n_dims[r] = rated
    BY <1>1 DEF JobInv, Counted
  <2> QED
    BY <2>1 DEF Lo, Hi, RankRange, Members, SplitRange
<1>3. JobTyped'
  <2>1. Members(RankRange(r)) \subseteq Int
    BY DEF Members
  <2> QED
    BY <1>1, <1>2, <2>1 DEF JobInv, JobTyped, Advance, RatedDims
<1>4. InStep'
  BY <1>1, LocalInStep
<1>5. Counted'
  BY <1>1, <1>2 DEF JobInv, JobTyped, Counted, Advance, RankRange, RatedDims
<1>6. Agreed'
  BY <1>1 DEF JobInv, JobTyped, Agreed, Advance, JobVerdict
<1> QED
  BY <1>3, <1>4, <1>5, <1>6 DEF JobInv

LEMMA ReportInv == ASSUME JobInv, NEW r \in Ranks, Report(r) PROVE JobInv'
<1>1. /\ at[r] = 10 /\ Advance(r)
      /\ failed' = [failed EXCEPT ![r] = IF r = 0 /\ validating /\ ~golden THEN 1 ELSE @]
      /\ UNCHANGED <<rated, inside, golden, validating, n_dims, owned, counts, status, aborted>>
  BY Steps DEF Report
<1>2. JobTyped'
  BY <1>1 DEF JobInv, JobTyped, Advance, RatedDims
<1>3. InStep'
  BY <1>1, LocalInStep
<1>4. Counted'
  BY <1>1 DEF JobInv, JobTyped, Counted, Advance, RankRange, RatedDims
<1>5. Agreed'
  BY <1>1 DEF JobInv, JobTyped, Agreed, Advance, JobVerdict
<1> QED
  BY <1>2, <1>3, <1>4, <1>5 DEF JobInv

LEMMA EnterInv == ASSUME JobInv, NEW r \in Ranks, Enter(r) PROVE JobInv'
<1>1. /\ inside' = [inside EXCEPT ![r] = TRUE]
      /\ UNCHANGED <<rated, at, golden, validating, n_dims, owned, counts, failed, status, aborted>>
  BY DEF Enter
<1>2. JobTyped' /\ Counted' /\ Agreed'
  BY <1>1 DEF JobInv, JobTyped, Counted, Agreed, RankRange, RatedDims, JobVerdict
<1>3. InStep'
  BY <1>1 DEF JobInv, JobTyped, InStep, Entered
<1> QED
  BY <1>2, <1>3 DEF JobInv

(***************************************************************************)
(* Leaving.  From a collective of Together, everybody is in it, and its    *)
(* result depends on what all of them brought.                             *)
(***************************************************************************)
LEMMA LeaveFacts ==
  ASSUME JobInv, NEW r \in Ranks, Leave(r)
  PROVE  /\ at[r] \in {2, 3, 4, 5, 6, 8, 9, 11, 12} /\ inside[r] /\ Advance(r)
         /\ inside' = [inside EXCEPT ![r] = FALSE]
         /\ at[r] \in Together => \A s \in Ranks : Entered(s, at[r])
         /\ at[r] = 11 => Entered(0, 11)
         /\ UNCHANGED <<rated, golden, validating, owned, aborted>>
<1>1. MayLeave(r) /\ at[r] \in {2, 3, 4, 5, 6, 8, 9, 11, 12}
  BY Steps DEF Leave
<1>2. at[r] \in Together => \A s \in Ranks : Entered(s, at[r])
  <2>1. at[r] \in Together => Doing(r) \notin {"ready", "load_max"} /\ Doing(r) # "bcast"
    BY Steps DEF Together
  <2> QED
    BY <1>1, <2>1 DEF MayLeave, AllEntered
<1>3. at[r] = 11 => Entered(0, 11)
  BY <1>1, Steps DEF MayLeave
<1> QED
  BY <1>1, <1>2, <1>3 DEF Leave

LEMMA LeaveInStep == ASSUME JobInv, NEW r \in Ranks, Leave(r) PROVE InStep'
<1> SUFFICES ASSUME NEW p \in Ranks, NEW s \in Ranks, NEW i \in Together, at'[p] > i
             PROVE  Entered(s, i)'
  BY DEF InStep
<1>1. at' = [at EXCEPT ![r] = at[r] + 1] /\ at \in [Ranks -> 1 .. 13]
  BY LeaveFacts DEF Advance, JobInv, JobTyped
<1>2. Entered(s, i)
  <2>1. CASE at[p] > i
    BY <2>1 DEF JobInv, InStep
  <2>2. CASE ~(at[p] > i)
    <3>1. p = r /\ at[r] = i
      BY <1>1, <2>2 DEF Together
    <3> QED
      BY <3>1, LeaveFacts
  <2> QED
    BY <2>1, <2>2
<1> QED
  BY <1>1, <1>2, LeaveFacts, SMTT(20) DEF Entered, Together, JobInv, JobTyped

LEMMA LeaveCounted == ASSUME JobInv, NEW r \in Ranks, Leave(r) PROVE Counted' /\ JobTyped'
<1>1. /\ at' = [at EXCEPT ![r] = at[r] + 1] /\ at \in [Ranks -> 1 .. 13]
      /\ UNCHANGED <<rated, owned>>
  BY LeaveFacts DEF Advance, JobInv, JobTyped
<1>2. n_dims' = IF at[r] = 5 THEN [n_dims EXCEPT ![r] = rated] ELSE n_dims
  <2>1. ASSUME at[r] = 5, NEW s \in Ranks PROVE n_dims[s] = rated
    <3>1. Entered(s, 5)
      BY <2>1, LeaveFacts DEF Together
    <3>2. at[s] >= 5 /\ at[s] \in 1 .. 13
      BY <1>1, <3>1 DEF Entered
    <3>3. at[s] > 1
      BY <3>2
    <3> QED
      BY <3>3 DEF JobInv, Counted
  <2>2. at[r] = 5 => Max({n_dims[s] : s \in Ranks}) = rated
    BY <2>1, SameMax DEF JobInv, JobTyped
  <2> QED
    BY <2>2, Steps DEF Leave
<1>3. counts' = IF at[r] = 9 THEN [counts EXCEPT ![r] = [d \in RatedDims |-> 1]] ELSE counts
  <2>1. ASSUME at[r] = 9, NEW s \in Ranks
        PROVE  owned[s] = Members(SplitRange(rated, s, World))
    <3>1. at[s] > 7
      BY <2>1, LeaveFacts, SMTT(20) DEF Together, Entered, JobInv, JobTyped
    <3> QED
      BY <3>1 DEF JobInv, Counted, RankRange
  <2>2. at[r] = 9 => \A d \in RatedDims : Cardinality({s \in Ranks : d \in owned[s]}) = 1
    BY <2>1, OneOwner DEF JobInv, JobTyped, RatedDims
  <2>3. at[r] = 9 => [d \in RatedDims |-> Cardinality({s \in Ranks : d \in owned[s]})] = [d \in RatedDims |-> 1]
    BY <2>2
  <2> QED
    BY <2>3, Steps DEF Leave
<1>4. Counted'
  <2> SUFFICES ASSUME NEW p \in Ranks
               PROVE  /\ at'[p] > 1 => n_dims'[p] = rated
                      /\ at'[p] > 7 => owned[p] = Members(RankRange(p))
                      /\ at'[p] > 9 => \A d \in RatedDims : counts'[p][d] = 1
    BY <1>1 DEF Counted, RankRange, RatedDims
  <2>1. /\ at[p] > 1 => n_dims[p] = rated
        /\ at[p] > 7 => owned[p] = Members(RankRange(p))
        /\ at[p] > 9 => \A d \in RatedDims : counts[p][d] = 1
    BY DEF JobInv, Counted
  <2>2. p # r => at'[p] = at[p] /\ n_dims'[p] = n_dims[p] /\ counts'[p] = counts[p]
    BY <1>1, <1>2, <1>3 DEF JobInv, JobTyped
  <2>3. p = r => at'[p] = at[p] + 1 /\ at[p] \in {2, 3, 4, 5, 6, 8, 9, 11, 12}
    BY <1>1, LeaveFacts
  <2>4. at[r] = 5 => n_dims'[r] = rated
    BY <1>2 DEF JobInv, JobTyped
  <2>5. at[r] = 9 => \A d \in RatedDims : counts'[r][d] = 1
    BY <1>3 DEF JobInv, JobTyped
  <2>6. at[r] # 9 => counts' = counts
    BY <1>3
  <2>7. at[r] # 5 => n_dims' = n_dims
    BY <1>2
  <2>8. CASE p # r
    BY <2>1, <2>2, <2>8
  <2>9. CASE p = r
    BY <2>1, <2>3, <2>4, <2>5, <2>6, <2>7, <2>9
  <2> QED
    BY <2>8, <2>9
<1>5. /\ at' \in [Ranks -> 1 .. 13] /\ inside' \in [Ranks -> BOOLEAN]
      /\ n_dims' \in [Ranks -> Nat]
  <2>1. at' \in [Ranks -> 1 .. 13]
    BY <1>1, LeaveFacts
  <2>2. inside' \in [Ranks -> BOOLEAN]
    BY LeaveFacts, Zenon DEF JobInv, JobTyped
  <2>3. n_dims' \in [Ranks -> Nat]
    BY <1>2 DEF JobInv, JobTyped
  <2> QED
    BY <2>1, <2>2, <2>3
<1>6. counts' \in [Ranks -> [RatedDims' -> Nat]]
  BY <1>1, <1>3 DEF JobInv, JobTyped, RatedDims
<1>7. failed' \in [Ranks -> {0, 1}] /\ status' \in [Ranks -> {Unset, 0, 1}]
  BY RanksFacts DEF JobInv, JobTyped, Leave, Received
<1> QED
  BY <1>1, <1>4, <1>5, <1>6, <1>7, LeaveFacts DEF JobInv, JobTyped

LEMMA LeaveAgreed == ASSUME JobInv, NEW r \in Ranks, Leave(r) PROVE Agreed'
<1>1. /\ at' = [at EXCEPT ![r] = at[r] + 1] /\ at \in [Ranks -> 1 .. 13] /\ 0 \in Ranks
      /\ JobVerdict' = JobVerdict
  BY LeaveFacts, RanksFacts DEF Advance, JobInv, JobTyped, JobVerdict
<1>2. at[r] # 10 /\ (at[r] = 11 => at[0] > 10)
  BY <1>1, LeaveFacts DEF Entered
<1>3. failed' = IF at[r] = 11 THEN [failed EXCEPT ![r] = JobVerdict] ELSE failed
  BY <1>1, <1>2, Steps DEF Leave, Received, JobInv, Agreed
<1>4. status' = IF at[r] = 12 THEN [status EXCEPT ![r] = JobVerdict] ELSE status
  <2>1. at[r] = 12 => failed[r] = JobVerdict
    BY DEF JobInv, Agreed
  <2> QED
    BY <2>1, Steps DEF Leave
<1> QED
  BY <1>1, <1>2, <1>3, <1>4, SMTT(20) DEF JobInv, JobTyped, Agreed

-----------------------------------------------------------------------------
(* What holds of all ranks at all times. *)
THEOREM MpiInvariance == JobSpec => []JobInv
<1>1. JobInv /\ [JobNext]_jobVars => JobInv'
  <2> SUFFICES ASSUME JobInv, [JobNext]_jobVars PROVE JobInv'
    OBVIOUS
  <2>1. CASE UNCHANGED jobVars
    BY <2>1 DEF JobInv, JobTyped, InStep, Entered, Counted, Agreed, RankRange, RatedDims, JobVerdict, jobVars
  <2>2. CASE JobNext
    <3>1. PICK r \in Ranks : RankStep(r) \/ Die(r)
      BY <2>2 DEF JobNext
    <3>2. Leave(r) => JobInv'
      BY LeaveInStep, LeaveCounted, LeaveAgreed DEF JobInv
    <3> QED
      BY <3>1, <3>2, LoadInv, AbortInv, PartialStatsInv, ReportInv, EnterInv DEF RankStep
  <2> QED
    BY <2>1, <2>2
<1> QED
  BY <1>1, JobInitInv, PTL DEF JobSpec

(* After the Allreduce every dimension is counted once, on every rank. *)
THEOREM Completeness == JobSpec => []SumsComplete
<1>1. JobInv => SumsComplete
  <2>1. StatsAt = 9
    BY DEF StatsAt, Program
  <2> QED
    BY <2>1 DEF JobInv, Counted, SumsComplete
<1> QED
  BY <1>1, MpiInvariance, PTL

(* Every rank that exits has the status of the verdict. *)
THEOREM Agreement == JobSpec => []SameStatus
<1>1. JobInv => SameStatus
  BY DEF JobInv, Agreed, SameStatus, JobVerdict
<1> QED
  BY <1>1, MpiInvariance, PTL
=============================================================================
