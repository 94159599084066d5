---------------------------- MODULE WorkDivision ----------------------------
(***************************************************************************)
(* How the synchronous NCCL backend divides the work and puts the results  *)
(* back together: the order of the pairs (plan_pairs), the shard of each   *)
(* GPU and its startup checks, and the way of a pair from the slot its     *)
(* statistics are computed in to its place in host memory.  When the       *)
(* stages run is the subject of SyncBatches; here every stage is one step. *)
(*                                                                         *)
(* A statistic is represented by how often it counts each dimension of     *)
(* each pair, so that a mix-up of slots, pairs or dimensions shows.        *)
(***************************************************************************)
EXTENDS Integers, FiniteSets, FiniteSetsExt, Partition

CONSTANTS NGpus, NPairs, NDims

ASSUME NGpusAssumption == NGpus \in Nat \ {0}
ASSUME NPairsAssumption == NPairs \in Nat \ {0}  \* no pairs: refused
ASSUME NDimsAssumption == NDims \in Nat

VARIABLES rows,       \* rows[p]: the rated dimensions of p's two entities
          partition,  \* --partition
          order_arg,  \* --pair-order
          pc,
          order,      \* plan.order: slot -> pair
          shards,     \* shards[g]: the pairs and dims of GPU g
          stats,      \* stats[g]: slot -> statistic
          sims,       \* sims[g]: pair -> statistic it was finalized from
          host        \* host[p]: the same, in host memory

input == <<rows, partition, order_arg>>
vars  == <<input, pc, order, shards, stats, sims, host>>

-----------------------------------------------------------------------------
Gpus  == 0 .. NGpus - 1
Pairs == 0 .. NPairs - 1
Dims  == 0 .. NDims - 1

collective == partition = "dim"

Nothing     == [p \in Pairs |-> [d \in Dims |-> 0]]
StatOf(p, ds) ==  \* the statistic of pair p over the dimensions ds
  [Nothing EXCEPT ![p] = [d \in Dims |->
     IF d \in ds \cap rows[p][1] \cap rows[p][2] THEN 1 ELSE 0]]
Plus(s, t) == [p \in Pairs |-> [d \in Dims |-> s[p][d] + t[p][d]]]

Init ==
  /\ rows \in [Pairs -> (SUBSET Dims) \X (SUBSET Dims)]
  /\ partition \in {"pair", "dim"} /\ order_arg \in {"source", "bylen"}
  /\ pc = "cli"
  /\ order  = [s \in Pairs |-> s]
  /\ shards = [g \in Gpus |-> [pairs |-> SplitRange(0, 0, 1), dims |-> SplitRange(0, 0, 1)]]
  /\ stats  = [g \in Gpus |-> [s \in Pairs |-> Nothing]]
  /\ sims   = [g \in Gpus |-> [p \in Pairs |-> Nothing]]
  /\ host   = [p \in Pairs |-> Nothing]

-----------------------------------------------------------------------------
(* The combination that is refused. *)
Refused_Never == FALSE  \* mutant: pair shards accept a sorted order
Refused == partition = "pair" /\ order_arg # "source"

Cli ==
  /\ pc = "cli"
  /\ pc' = IF Refused THEN "refused" ELSE "plan"
  /\ UNCHANGED <<input, order, shards, stats, sims, host>>

(* pair_short_len over all dimensions, and a stable sort by it. *)
ShortLen(p) == IF Cardinality(rows[p][1]) <= Cardinality(rows[p][2])
               THEN Cardinality(rows[p][1]) ELSE Cardinality(rows[p][2])
Before(p, q) == ShortLen(p) < ShortLen(q) \/ (ShortLen(p) = ShortLen(q) /\ p < q)
SortedSlot(p) == Cardinality({q \in Pairs : Before(q, p)})

PlanPairs ==
  /\ pc = "plan" /\ pc' = "shards"
  /\ order' = IF order_arg = "bylen"
              THEN [s \in Pairs |-> CHOOSE p \in Pairs : SortedSlot(p) = s]
              ELSE [s \in Pairs |-> s]
  /\ UNCHANGED <<input, shards, stats, sims, host>>

(* shard_for, and the startup checks of the pair partition. *)
ShardFor_Overlap(g) ==  \* mutant: the range of dimensions includes its end
  [pairs |-> IF collective THEN SplitRange(NPairs, 0, 1) ELSE SplitRange(NPairs, g, NGpus),
   dims  |-> [SplitRange(NDims, g, NGpus) EXCEPT !.end = @ + 1]]
ShardFor(g) ==
  [pairs |-> IF collective THEN SplitRange(NPairs, 0, 1) ELSE SplitRange(NPairs, g, NGpus),
   dims  |-> IF collective THEN SplitRange(NDims, g, NGpus) ELSE SplitRange(NDims, 0, 1)]

StartupCheck ==
  partition = "pair" =>
    /\ RangesTile([g \in Gpus |-> shards'[g].pairs], NGpus, NPairs)
    /\ OrderIsIdentity(order, NPairs)

DivideWork ==
  /\ pc = "shards"
  /\ shards' = [g \in Gpus |-> ShardFor(g)]
  /\ pc' = IF StartupCheck THEN "stats" ELSE "thrown"
  /\ UNCHANGED <<input, order, stats, sims, host>>

-----------------------------------------------------------------------------
Begin(g)  == shards[g].pairs.begin
Window(g) == Members(shards[g].pairs)
Slots(g)  == {s \in Pairs : s + Begin(g) \in Window(g)}

(* launch_stats: only the order is offset by the shard's first pair. *)
ComputeStats ==
  /\ pc = "stats" /\ pc' = "reduce"
  /\ stats' = [g \in Gpus |-> [s \in Pairs |->
       IF s \in Slots(g) THEN StatOf(order[Begin(g) + s], Members(shards[g].dims))
       ELSE stats[g][s]]]
  /\ UNCHANGED <<input, order, shards, sims, host>>

(* ncclAllReduce: slot by slot, whatever pair the slot stands for. *)
Total(s) == FoldSet(LAMBDA g, sum : Plus(stats[g][s], sum), Nothing, Gpus)

Reduce ==
  /\ pc = "reduce" /\ pc' = "finalize"
  /\ stats' = IF collective THEN [g \in Gpus |-> [s \in Pairs |-> Total(s)]] ELSE stats
  /\ UNCHANGED <<input, order, shards, sims, host>>

(* launch_finalize: slot s goes to the pair the order says it stands for. *)
Place_Slot(g, s) == Begin(g) + s  \* mutant: finalize ignores the order
Place(g, s) == order[Begin(g) + s]

Finalized(g, p) == {s \in Slots(g) : Place(g, s) = p}

Finalize ==
  /\ pc = "finalize" /\ pc' = "copy"
  /\ sims' = [g \in Gpus |-> [p \in Pairs |->
       IF (collective => g = 0) /\ Finalized(g, p) # {}
       THEN stats[g][Max(Finalized(g, p))] ELSE sims[g][p]]]
  /\ UNCHANGED <<input, order, shards, stats, host>>

(* copy_back: everything from GPU 0, or from each GPU its own window. *)
CopiedFrom(p) == {g \in Gpus : p \in Window(g) /\ (collective => g = 0)}

CopyBack ==
  /\ pc = "copy" /\ pc' = "done"
  /\ host' = [p \in Pairs |->
       IF CopiedFrom(p) = {} THEN host[p] ELSE sims[Max(CopiedFrom(p))][p]]
  /\ UNCHANGED <<input, order, shards, stats, sims>>

Next == \/ Cli \/ PlanPairs \/ DivideWork
        \/ ComputeStats \/ Reduce \/ Finalize \/ CopyBack

Spec == Init /\ [][Next]_vars

-----------------------------------------------------------------------------
(***************************************************************************)
(* Host memory holds, for every pair and at that pair's place, what its    *)
(* complete statistic gives: each common dimension counted once, and none  *)
(* of another pair, under either partition and either order.               *)
(***************************************************************************)
EveryPairInPlace == pc = "done" => \A p \in Pairs : host[p] = StatOf(p, Dims)

(***************************************************************************)
(* Under the pair partition every pair belongs to exactly one GPU, also    *)
(* when there are more GPUs than pairs ("'every pair computed exactly      *)
(* once' is the entire correctness claim", nccl_main.cu:483-484); under    *)
(* the dimension partition the same holds of every dimension.              *)
(***************************************************************************)
Owned(x, g) == x \in Members(IF collective THEN shards[g].dims ELSE shards[g].pairs)
OwnedOnce ==
  pc \in {"stats", "reduce", "finalize", "copy", "done"} =>
    \A x \in IF collective THEN Dims ELSE Pairs :
      /\ \E g \in Gpus : Owned(x, g)
      /\ \A g, h \in Gpus : Owned(x, g) /\ Owned(x, h) => g = h

(* No configuration that the command line accepts fails a startup check. *)
ChecksPass == pc # "thrown"
=============================================================================
