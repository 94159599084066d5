---------------------------- MODULE SyncBatches ----------------------------
(***************************************************************************)
(* The synchronous mode of nccl_main.cu, run once or, under                *)
(* --resident-bench, as warm-ups and timed batches on the same buffers.    *)
(* Under --partition dim every GPU computes every pair over its dimensions *)
(* and an AllReduce adds the statistics up; under --partition pair every   *)
(* GPU computes its own window of the pairs to completion.                 *)
(*                                                                         *)
(* Launching is asynchronous: a GPU's compute stream executes what was     *)
(* launched in FIFO order, and the host blocks at each stage's             *)
(* synchronize.  Nothing is cleared between batches, so every buffer still *)
(* holds the results of an earlier batch, which validation cannot tell     *)
(* from this batch's own: the model stamps every value with its batch.     *)
(***************************************************************************)
EXTENDS Integers, Sequences, FiniteSets, FiniteSetsExt, Partition

CONSTANTS NGpus, NPairs, NDims,
          MaxWarmups,  \* bound of --warmup
          MaxRepeats   \* bound of --repeat

ASSUME SizesAssumption ==
  /\ NGpus \in Nat \ {0} /\ NPairs \in Nat \ {0} /\ NDims \in Nat
  /\ MaxWarmups \in Nat /\ MaxRepeats \in Nat \ {0}

VARIABLES collective,  \* --partition dim
          resident,    \* --resident-bench
          validate,    \* --validate
          warmups,     \* warmup_count
          repeats,     \* repeat_count
          pc,          \* where the host is
          batch,       \* batches started, the warm-ups included
          out_slot,    \* the host slot the next copy fills
          queue,       \* queue[g]: launched on g's compute stream, unfinished
          stats,       \* stats[g][s]: the statistics in slot s of g
          sims,        \* sims[g][p]: the similarity of pair p on g
          host,        \* host[k][p]: slot k of the host's results
          faulty,      \* batches in which a GPU computed something wrong
          exit         \* exit status, or None

input  == <<collective, resident, validate, warmups, repeats>>
device == <<queue, stats, sims, faulty>>
vars   == <<input, pc, batch, out_slot, device, host, exit>>

-----------------------------------------------------------------------------
None  == -1
Gpus  == 0 .. NGpus - 1
Pairs == 0 .. NPairs - 1
Dims  == 0 .. NDims - 1

(* shard_for. *)
PairShard(g) == IF collective THEN Pairs ELSE Members(SplitRange(NPairs, g, NGpus))
DimShard(g)  == IF collective THEN Members(SplitRange(NDims, g, NGpus)) ELSE Dims
Begin(g)     == IF PairShard(g) = {} THEN 0 ELSE Min(PairShard(g))

(* Batches run before the program ends, and the timed ones among them. *)
Warmups == IF resident THEN warmups ELSE 0
Timed   == IF resident THEN repeats ELSE 1
OutSlots_One == 1  \* mutant: every batch is copied to the same place
OutSlots == IF resident /\ validate THEN repeats ELSE 1

(* A statistic: the batch that computed it, how often each dim is counted, *)
(* and whether every GPU that contributed to it computed its part right.   *)
Stat(b, ds) == [batch |-> b, sound |-> TRUE, count |-> [d \in Dims |-> IF d \in ds THEN 1 ELSE 0]]
NoStat      == Stat(None, {})
Complete(s) == s.sound /\ \A d \in Dims : s.count[d] = 1
StatSum(ss) ==  \* ss: one statistic per GPU
  [batch |-> IF \A g, h \in Gpus : ss[g].batch = ss[h].batch THEN ss[0].batch ELSE None,
   sound |-> \A g \in Gpus : ss[g].sound,
   count |-> [d \in Dims |-> FoldSet(LAMBDA g, n : ss[g].count[d] + n, 0, Gpus)]]

(* A similarity: of which batch, and whether its statistics were complete. *)
Sim(s) == [batch |-> s.batch, right |-> Complete(s)]
NoSim  == [batch |-> None, right |-> FALSE]

Init ==
  /\ collective \in BOOLEAN /\ resident \in BOOLEAN /\ validate \in BOOLEAN
  /\ warmups \in 0 .. MaxWarmups /\ repeats \in 1 .. MaxRepeats
  /\ ~resident => warmups = 0 /\ repeats = 1
  /\ pc = "idle" /\ batch = 0 /\ out_slot = 0
  /\ queue = [g \in Gpus |-> <<>>]
  /\ stats = [g \in Gpus |-> [s \in Pairs |-> NoStat]]
  /\ sims  = [g \in Gpus |-> [p \in Pairs |-> NoSim]]
  /\ host  = [k \in 0 .. OutSlots - 1 |-> [p \in Pairs |-> NoSim]]
  /\ faulty = {}
  /\ exit = None

-----------------------------------------------------------------------------
(* The host: run_batch, stage by stage. *)
Launch(k, gs) ==
  queue' = [g \in Gpus |->
              IF g \in gs THEN Append(queue[g], [op |-> k, batch |-> batch']) ELSE queue[g]]
Owners == {g \in Gpus : PairShard(g) # {}}  \* devices with a pair to compute

Step(from, to) == exit = None /\ pc = from /\ pc' = to

StartBatch ==
  /\ batch < Warmups + Timed
  /\ \A g \in Gpus : queue[g] = <<>>
  /\ Step("idle", "stats")
  /\ batch' = batch + 1
  /\ Launch("stats", Owners)
  /\ UNCHANGED <<input, out_slot, stats, sims, faulty, host, exit>>

(* cudaStreamSynchronize of the devices that take part in the stage. *)
Waits_Root(gs) == queue[0] = <<>>  \* mutant: only GPU 0 is waited for
Waits(gs) == \A g \in gs : queue[g] = <<>>

Participants_Few == Owners \ {NGpus - 1}  \* mutant: the last GPU is left out
Participants == Gpus

Reduce ==
  /\ Waits(Owners)
  /\ Step("stats", "reduce")
  /\ UNCHANGED batch
  /\ IF collective THEN Launch("allreduce", Participants) ELSE UNCHANGED queue
  /\ UNCHANGED <<input, out_slot, stats, sims, faulty, host, exit>>

Finalize ==
  /\ collective => Waits(Gpus)
  /\ Step("reduce", "finalize")
  /\ UNCHANGED batch
  /\ Launch("finalize", IF collective THEN {0} ELSE Owners)
  /\ UNCHANGED <<input, out_slot, stats, sims, faulty, host, exit>>

(* copy_back: the window of each device, or everything from GPU 0. *)
Window_All(g) == Pairs  \* mutant: all results are copied from every device
Window(g) == IF collective THEN (IF g = 0 THEN Pairs ELSE {}) ELSE PairShard(g)
Source(p) == Max({g \in Gpus : p \in Window(g)})  \* the copy that is last wins

NextSlot == (out_slot + 1) % OutSlots

CopyBack ==
  /\ Waits(IF collective THEN {0} ELSE Owners)
  /\ Step("finalize", "idle")
  /\ host' = [host EXCEPT ![out_slot] = [p \in Pairs |-> sims[Source(p)][p]]]
  /\ out_slot' = IF resident /\ validate /\ batch > Warmups
                 THEN NextSlot ELSE out_slot
  /\ UNCHANGED <<input, batch, device, exit>>

(* check_result of every timed batch, and of the last. *)
Passed(k) == \A p \in Pairs : host[k][p].right
Verdict_Last == Passed((Timed - 1) % OutSlots)  \* mutant: only the last is checked
Verdict == \A i \in 0 .. Timed - 1 : Passed(i % OutSlots)

Exit ==
  /\ batch = Warmups + Timed
  /\ Step("idle", "done")
  /\ exit' = IF validate /\ ~Verdict THEN 1 ELSE 0
  /\ UNCHANGED <<input, batch, out_slot, device, host>>

(* A CUDA or NCCL call throws. *)
HostFail ==
  /\ exit = None
  /\ exit' = 2 /\ pc' = "done"
  /\ UNCHANGED <<input, batch, out_slot, device, host>>

-----------------------------------------------------------------------------
(* The GPUs. *)
At(g, k) == exit = None /\ queue[g] # <<>> /\ Head(queue[g]).op = k
Pop(gs)  == queue' = [g \in Gpus |-> IF g \in gs THEN Tail(queue[g]) ELSE queue[g]]

(* Slot s of g stands for pair order[begin + s], the order being its own. *)
StatsKernel(g) ==
  /\ At(g, "stats")
  /\ stats' = [stats EXCEPT ![g] = [s \in Pairs |->
       IF s + Begin(g) \in PairShard(g) THEN Stat(Head(queue[g]).batch, DimShard(g)) ELSE @[s]]]
  /\ Pop({g})
  /\ UNCHANGED <<input, pc, batch, out_slot, sims, faulty, host, exit>>

(* A wrong result, at most one per run. *)
FaultyKernel(g) ==
  /\ At(g, "stats") /\ faulty = {}
  /\ faulty' = faulty \cup {Head(queue[g]).batch}
  /\ stats' = [stats EXCEPT ![g] = [s \in Pairs |->
       IF s + Begin(g) \in PairShard(g)
       THEN [Stat(Head(queue[g]).batch, DimShard(g)) EXCEPT !.sound = FALSE] ELSE @[s]]]
  /\ Pop({g})
  /\ UNCHANGED <<input, pc, batch, out_slot, sims, host, exit>>

AllReduce ==
  /\ \A g \in Gpus : At(g, "allreduce")
  /\ stats' = [g \in Gpus |-> [s \in Pairs |-> StatSum([h \in Gpus |-> stats[h][s]])]]
  /\ Pop(Gpus)
  /\ UNCHANGED <<input, pc, batch, out_slot, sims, faulty, host, exit>>

FinalizeKernel(g) ==
  /\ At(g, "finalize")
  /\ sims' = [sims EXCEPT ![g] = [p \in Pairs |->
       IF p \in PairShard(g) THEN Sim(stats[g][p - Begin(g)]) ELSE @[p]]]
  /\ Pop({g})
  /\ UNCHANGED <<input, pc, batch, out_slot, stats, faulty, host, exit>>

Host   == StartBatch \/ Reduce \/ Finalize \/ CopyBack \/ Exit
Device == AllReduce \/ \E g \in Gpus : StatsKernel(g) \/ FaultyKernel(g) \/ FinalizeKernel(g)

Next == Host \/ Device \/ HostFail

Spec == Init /\ [][Next]_vars

(* The host keeps running, and every GPU executes what is at its head. *)
FairSpec == /\ Spec /\ WF_vars(Host) /\ WF_vars(AllReduce)
            /\ \A g \in Gpus : WF_vars(StatsKernel(g) \/ FaultyKernel(g) \/ FinalizeKernel(g))

-----------------------------------------------------------------------------
(***************************************************************************)
(* The results copied back after a batch are that batch's own, for every   *)
(* pair: never left over from an earlier batch on the same buffers.        *)
(***************************************************************************)
ResultsFresh ==
  pc \in {"idle", "done"} /\ exit # 2 =>
    \A i \in 1 .. batch - Warmups :
      /\ OutSlots > 1 \/ i = batch - Warmups
      => \A p \in Pairs : host[(i - 1) % OutSlots][p].batch = Warmups + i

(***************************************************************************)
(* "One failing batch fails the run" (nccl_main.cu:967-968), and a correct *)
(* run passes: the exit status is 1 exactly if a timed batch was wrong.    *)
(***************************************************************************)
VerdictCoversBatches ==
  exit \in {0, 1} =>
    (exit = 1 <=> validate /\ \E b \in faulty : b > Warmups)

(* Every run ends. *)
RunEnds == <>(exit # None)
=============================================================================
