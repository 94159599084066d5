# Formal models of the Pearson similarity engine

TLA+ models of the parts of this repository in which something can go wrong
that a test would hardly reach: streams and events of several GPUs, MPI
collectives, packed words that are added without being unpacked, the lanes of
a warp, the division of the work, a command line that must refuse what it cannot
honour, benchmark scripts that are killed, resumed, or lose a line of their
processes' output, and the files that go from the reviews to the predictions.
Every definition is translated from the source; `PROJECT.json` names the lines
for each (`map`), and for each property a plausible bug in that code that breaks
it (`mutants`).

Run `tlc -config X.cfg M` for a run of `PROJECT.json`, and `tlapm M.tla` for a
module of proofs.

## 1. The system

A Spark job (`spark_pipeline/cf_train.py`) decides which pairs of entities are
candidates and trains a model; `export_fixture.py` writes the ratings (rows of
ascending dimension indices), the same pairs and golden similarities as a
fixture. The engine computes for every pair six statistics over the dimensions
both entities rated (n, sums, squares, product) and from them the Pearson
similarity (`docs/pearson_contract.md`). Five backends compute the same thing:
serial, OpenMP, one GPU (CUDA), several GPUs (NCCL), and MPI. `tools/` validate
fixtures, cut others from them and turn similarities into a model;
`cf_predict.py` predicts from either model. `engine/bench` runs the backends as
processes and compares their times.

| component | state | operations | interacts through |
|---|---|---|---|
| NCCL backend, asynchronous | per GPU: two slots of statistics, streams `compute`, `comm` (`fin` on GPU 0), three events per slot | per chunk: statistics, AllReduce, finalize, release of the slot; final synchronize | streams, events, NCCL group |
| NCCL backend, synchronous | statistics and similarities per GPU, result slots on the host | `run_batch`, `copy_back`, resident loop, verdict | stream order, synchronize |
| Work division | `plan.order`, `shards` | `plan_pairs`, `shard_for`, startup checks | read by kernels and copies |
| Payloads | words of statistics | domain check, pack, sum, unpack | the AllReduce |
| Kernels | registers of the lanes of a warp | slice bounds, broadcast, scan, shuffle reduction, store | shuffles under the full mask |
| MPI backend | six-statistic tensor per rank, verdict on rank 0 | load, barrier, reduces, local pass, Allreduce, Bcast | collectives, `MPI_Abort` |
| NCCL command line and record | the configuration, what was run so far | argument loop, refusals, record | arguments from the scripts, stdout |
| Benchmark session and report | trials, errors, live configurations, generator; checkpoint, JSON and CSV | warm-ups, rounds, timeout, checkpoint, `--resume`, summary, `headline_table.py` | processes, files |
| Architecture A/B runner | blocks, records, failures; the document | `run_matrix`, `schema_problems`, `summarise` | processes, files |
| Measuring scripts | the plan of a session, its trials, a report | `warp_packing` (screen, paired), `gpu_sweeps`, `p2p_ab`, `repro_session` | processes, files |
| Exporter and fixture tools | a directory of arrays and a meta file | export, validate, the four fixture generators, `sims_to_model`, cross-check | files |
| Loader, result check | the fixture, a verdict | `Fixture::load`, `check_result` | files |
| Training and prediction | review lists, model, predictions | candidate pairs, similarities, neighbours, fallbacks | files |

What is hard here:

* **Interleaving.** The host only enqueues; streams of all GPUs run side by
  side and are ordered by events alone. A slot that is declared free too early
  once was a bug (the comment at `nccl_main.cu:896-899`).
* **Deadlock.** A collective in which one GPU or rank is missing; a shuffle a
  lane does not reach.
* **Plausible stale results.** Buffers are not cleared between resident
  batches, and a wrong pair's similarity looks like any other.
* **Numeric edges.** Fields of 21 bits next to each other, ranges that do not
  divide evenly, a grid rounded up, a short last chunk.
* **Labels.** A record states what was run, and is written from the flags, not
  from what ran: a combination of flags that does nothing is a wrong record. A
  report files it once more, under the arm it was meant for.
* **Crash and resume.** The harness may die at any step and continues from its
  checkpoint; trials are processes of their own that may hang or survive it. An
  export may be cut off inside any of its eight files, over an older export.
* **Partial output.** A process prints up to two JSON lines, and its record is
  merged from those that arrived.
* **Two implementations of one thing.** Exporter and trainer each resolve
  duplicates, find candidates and compute similarities; validator and engine
  each recompute them; the orders in which Spark hands out keys differ.

`hazards` in `PROJECT.json` lists them at their lines, with the properties that
would catch them.

## 2. Modules

| module | models | notes |
|---|---|---|
| `SlotProtocol` | what the asynchronous pipeline promises: the protocol of the two slots | abstract specification |
| `AsyncPipeline` | the host's issue loop, streams, events, collectives (`nccl_main.cu:848-938`) | implements `SlotProtocol` |
| `SyncBatches` | `run_batch`, `copy_back`, the resident loop, the verdict (`:655-833`, `:955-978`) | |
| `Partition`, `WorkDivision` | order, shards, startup checks, the way of every pair into host memory (`pair_order.hpp`, `pair_partition.hpp`) | |
| `PackedReduce` | domain check, the three payloads and their sums (`payload_domain.hpp`, `pair_kernel.cuh:113-162`) | |
| `WarpKernel` | `subwarp_pair_stats`, lane by lane | |
| `MpiBackend` | the program of every rank (`mpi_main.cpp`) | |
| `BenchSession` | `bench_round_robin`, `run_once`, `atomic_write_json` (`run_bench.py:393-551`) | |
| `BenchReport` | lines and records of a process, `time_of`, the summary and files of `main`, `headline_table.py` | extends `BenchSession`, the composed specification |
| `CommandLine` | the arguments of the NCCL backend and its refusals (`nccl_main.cu:247-421`) | operators only |
| `RunConfig` | one process of that backend, from its arguments to its record | extends `CommandLine`, `Partition` |
| `ArchMatrix` | `run_matrix`, `schema_problems`, the blocks `summarise` compares (`architecture_ab.py`) | extends `RunConfig`: starts its processes |
| `Experiments` | the other measuring scripts, and a person at the command line | extends `ArchMatrix`, the composed specification |
| `Similarity` | the two forms of the Pearson similarity | operators only |
| `Training` | `cf_train.py`, `cf_predict.py`, the pairs `rmse.py` scores | operators only, extends `Similarity` |
| `Fixture` | the files of a fixture; exporter, validator, loader, result check, conversion, cross-check, four generators | operators only, extends `Training` |
| `Recommender` | the scripts one after another on one directory, with an export killed at any point | extends `Fixture`, the composed specification |
| `ProofLemmas` | what the proofs share: induction over numbers and finite sets, `\div` and `%`, balanced ranges, sorting, sums, common divisors, joined sequences | |
| `*Proofs` | theorems, section 5 | `BackendProofs` is about `SyncBatches` and `MpiBackend`, `MeasureProofs` about `PackedReduce` and `Experiments` (with `ArchMatrix`, `RunConfig`), `ScriptProofs` about `BenchReport` and `Recommender`; the others are named after their module |

An `MC...` module gives a model's constants the values that a `.cfg` cannot
express. Mutants stand beside the definition they mutate (`Fits_OneGpu` before
`Fits`) and are used by nothing else.

**State and actions.**

* `AsyncPipeline`: `pc`, `chunk`, `dev` are the host's position in the two
  nested loops; `queue[s]` is what is enqueued on stream `s`, `active[s]`
  whether its head is running; `recorded` and `fired` count how often an event
  was recorded by the host and passed by its stream, because a wait refers to
  the record before it. Kernels take two steps, begin and end, so that an
  access in progress is a state. A collective needs all GPUs (`Join`,
  `Combine`, `ReduceEnd`). `HostFail` is an exception at any call.
* `SlotProtocol` has the same three stages as counters per GPU, with guards
  instead of streams and events. `AsyncPipeline` maps to it by counting what
  is issued and not yet in a queue (`Abstract`).
* `SyncBatches` stamps every statistic and similarity with the batch that made
  it, because nothing else tells it from an older one, and with the dimensions
  that were counted in it. One device may compute something wrong once
  (`FaultyKernel`, a statistic that is not `sound`): only then can the verdict be
  checked.
* `WorkDivision` runs the stages one after another (when they run is the
  subject of `SyncBatches`) and represents a statistic by how often it counts
  each dimension of each pair, so that every mix-up shows.
* `PackedReduce` follows one pair. `Scan` takes the dimensions in any order,
  `Combine` adds any two partial sums: the collective's grouping is NCCL's
  choice. Base, word and integer range are constants; the code's are 2^21, 2^64
  and 2^31 - 1. `merged` and `group` are history: the exact sum a word stands
  for.
* `WarpKernel` lets lanes run on their own between shuffles, and a shuffle
  happens when all lanes of the warp are there, which is the meaning of its
  full mask. The six sums are a function of the bag of rating pairs that were
  added, so lanes accumulate that bag. `LowerBound` is the code's binary search,
  as a recursive function of the two ends.
* `MpiBackend` is one list of steps for all ranks (`Program`); entering and
  leaving a collective are two steps, and when a rank may leave follows the
  collective: a reduce holds only the root, a broadcast everyone but the root.
* `BenchSession` keeps memory, files and processes apart: `Kill` empties the
  first and leaves the others. The generator is represented by the lengths of
  the lists it has shuffled, which is all its state depends on besides the
  seed. A resumed session continues from the newest checkpoint and replaces
  it; that each session writes a file with another name by default makes no
  difference to what the next one reads.
* `BenchReport` continues where a session is done. A line of output is the set
  of its fields, a record the union of the lines that arrived and passed
  `REQUIRED_TIMING`; which lines a trial printed is chosen when its record is
  first looked at, in `Summarise`. `KillMain` is a kill after the session: the
  checkpoint is there, the report is not, and a resumed session reports again.
* `CommandLine` folds the argument loop over the arguments (`Parsed`); its state
  is the configuration so far and the flag that waits for a value. A flag is named by
  the variable it sets, any argument may be a value, and `Atoi` is the number
  an argument starts with. `Refused` has one operator per group of checks.
* `RunConfig` counts in `tally` what the process does (batches, collectives,
  bytes, chunks, result slots) next to the `record`, whose fields come from the
  flags as in the code; `phase` is where the process is, `n_pairs` the fixture
  all processes of a session are given. Streams and kernels are in `AsyncPipeline` and
  `SyncBatches`; here any validated result may be wrong.
* `ArchMatrix`: `arms_left` are the configurations left in the block, in any order
  (the code's is random); `doc` is the document in memory and `file` what the
  last atomic write left; `runner` is where the script is. A run is a process of `RunConfig` with the command the
  runner builds; it may be stopped by the timeout at any step, and its record may
  be unusable for a reason of its own.
* `Experiments`: `plan` is the list of trials a script draws, `ran` the records
  of those that are done; a report names for every time the trial it comes from.
  An arm's spec is a sequence of words, as `parse_arm` splits it. A process of
  another binary is an outcome.
* `Similarity` represents a similarity by its sign and its square, a rational in
  lowest terms: no root is taken, and equality and order are exact.
* `Fixture`: a directory is a function from the names of the files that are there
  to their contents (`Put` replaces one, `Without` removes one); a
  hash is the content. A cell is a rating, and the arrays of a fixture list the
  cells row by row (`Cells`, `Arrays`). What the tools compute is one operator each (`Export`,
  `Valid`, `check_result`, `OverlapBand`, `Prefix`, `LaneBand`, ...).
* `Recommender` runs them: `written` counts the files in the order of
  `WriteOrder`, `KillExporter` leaves the open file torn or not yet there, and everything
  behind it works on what the directory then holds, also when the validator said
  no, because no later script asks for its verdict. Spark's own orders, of
  `collect` and of a `reduceByKey`, are chosen.

## 3. What is checked

| run | instance | properties |
|---|---|---|
| `slot_protocol` | 3 GPUs, 4 chunks | `NoSlotRace`, `ResultsCorrect`, `CollectivesMatch`, `IInv` (the invariant of the proofs, with the type invariant) |
| `async_pipeline` | 2 GPUs, 7 pairs in chunks of 2, both finalize streams | `NoSlotRace`, `CompleteAtExit`, `RefinesSlotProtocol`, `Termination` |
| `sync_batches` | 3 GPUs, 2 pairs, 2 dimensions, up to 1 warm-up and 3 batches, one wrong result | `ResultsFresh`, `VerdictCoversBatches`, `RunEnds` |
| `work_division` | 3 GPUs, 2 pairs, 4 dimensions, all rows | `EveryPairInPlace`, `OwnedOnce`, `ChecksPass` |
| `packed_reduce` | 2 GPUs, 3 dimensions, ratings -1 to 2, fields below 3, integers up to 7 | `Lossless`, `NoCarry` |
| `warp_kernel` | warps of 4 lanes, groups of 1, 2, 4, hoisted or not, up to 2 slots | `StatsExact`, `OneWriter`, `KernelEnds` |
| `mpi_backend` | 3 ranks, 0 to 4 dimensions | `SumsComplete`, `SameStatus`, `JobEnds` |
| `bench_session` | 3 configurations (nccl async, cuda, mpi), 1 or 2 repeats, 2 warm-ups, 2 kills, any line lost, a crash of `mpirun` that leaves its children | `CheckpointConsistent`, `BalancedReport`, `OneTrialPerSession`, `ReplayExact`, `MeasurementReported`, `HeadlineWhole`, `SessionEnds` |
| `bench_replay` | 3 configurations, 1 kill | `ReplayPutsGeneratorBack`: **violated**, section 4 |
| `experiments` | a person's command lines of up to four flags with good, bad and missing values; a matrix of 2 blocks in 2 segments, failure limits 0 to 2, a kill; screenings and paired sessions of 2 arms, 1 warm-up and 2 repeats or 3 blocks; chunks of 2 and 4; arms with several suffixes, delays, of the legacy build and malformed; up to 2 results that are wrong beyond the tolerance, in another way or in an earlier batch; fixtures of 0, 3 and 5 pairs, 2 devices | `RecordTrue`, `NothingDropped`, `RunsAsNamed`, `ReportTrue` |
| `recommender` | 1136 inputs of 3 entities and up to 4 dimensions, in item, user and synthetic mode, with a duplicate, a subset of two entities or of none, or an older export in the directory; 3 orders of `collect`; any residues where similarities cancel; killed at or in any file; all bands, lanes and prefixes | `WholeExportPasses`, `ValidMeansWhole`, `SameModel`, `PredictionsInRange`, `BandsValid`, `LaneBandsMatch` |
| `model_order` | the same | `CanonicalOrder`: **violated**, section 4 |

Type correctness has no line of its own: it is part of the inductive invariant
of each module that has proofs (`Typed`), and the values of the others are those
of the code. The comment in front of a property says what it means and which
code it is about.

**Why the bounds are enough.**

* Four chunks use each of the two slots twice on every GPU, so that a reuse, and
  a reuse after a reuse, occur; the last chunk of seven pairs is short. Three
  GPUs make groupings of a sum that two cannot. With more GPUs than pairs
  (`sync_batches`, `work_division`), and more ranks than dimensions (`mpi_backend`), shards are
  empty.
* Fields below 3 and integers up to 7 are filled by two ratings of 1 or one of 2
  and overflow with one more, although the ratings of each GPU alone would fit;
  a word that is larger than three fields lets a carry out of the last field show.
* Two slots and four lanes make an idle lane, an inactive lane of an active warp
  and a warp of its own for each slot, and a slice of three elements a second
  round.
* Two kills let a session die that was itself resumed; three configurations let
  two stay live when one fails, so that the order of a round is still a choice. One
  of the three prints two lines, one is a job of `mpirun` with a process of its own, and the
  headline does not need that one.
* Four flags are every interaction the parser looks at (its largest check reads
  three). Two blocks are the fewest that can lie in two segments, and three
  runs over all blocks the fewest where a failure limit of 2 stops a matrix in
  a block. Two wrong results let a warm-up and a timed repeat both fail, and every
  way of being wrong meets every script.
* Three entities have three pairs: the fewest with a prefix of which the middle
  and the end are different borders, and rows of one to four dimensions are on both sides of
  `MIN_OVERLAP` = 2 and of a lane boundary of `WARP` = 2. The hash functions are
  two of the code's, with its prime.

The proofs of section 5 close what the bounds leave open for the slot protocol
and the pipeline that implements it, the synchronous batches, the division of the
work and the way of every pair to its place, the packed words, the lanes of the
kernel, the MPI backend, the benchmark session, the matrix runner, the record of
a run, the reports of the measuring scripts, an export that is cut off, an export
that is not, the bands and lane fixtures cut out of it, the model both programs make,
and the predictions.

**Fairness.** `AsyncPipeline`, `SyncBatches`: the host keeps issuing and every
stream executes what is at its head (weak fairness per stream); NCCL and CUDA
promise no more, and a collective that misses a participant stays stuck under
it. `MpiBackend`: each rank keeps running (weak fairness per rank); a rank that
dies ends the job, which is what `mpirun` does. `WarpKernel`: some lane that can
run does. `BenchReport`: the harness runs on and its timeout expires; no trial is
assumed to end. A failed run (`HostFail`, `Kill`, `KillScript`) is a legal end, hence
`CHECK_DEADLOCK FALSE` in the configurations: every model has final states.

## 4. Two disagreements between code and text

**The generator of a resumed session.** `run_bench.py:481-484` says of a resumed
session: "replaying the completed rounds' shuffles puts the generator back where
it was -- the resumed half sees the order it would have seen". The code
(`:511-514`) shuffles, once per completed round, the list of the configurations
that are live *now*. If one failed in a round, the rounds up to then had shuffled
a longer list and drawn more from the generator, so the resumed session sees
other orders. `bench_replay` finds the shortest such history. `ReplayExact` is
what does hold: if no configuration failed in a round, the generator is exactly
where it was. The session stays balanced either way (`BalancedReport`).

**The order of a pair in the user model.** `docs/pearson_contract.md:36` puts the
smaller identifier first in every pair, and `cf_predict.py:68` reads the model
by it. `cf_train.py:160` takes the pairs as they come out of Spark's grouping
(`:165-169`), whose order of users is not that of their identifiers.
`model_order` finds two users the wrong way round. `SameModel` holds all the
same: the similarity of the pair is right, in whichever order it is written.

Met on the way, without a run, because the text is about something that no
property of a state says, or the effect is a matter of taste:

* A cuda record without its `cuda_detail` line passes `REQUIRED_TIMING` by
  `t_compute_s`, and `time_of` falls back to another clock, where the comment at
  `run_bench.py:382-384` and the self-test at `:255-256` mean to refuse it.
  `MeasurementReported` is stated of what is required.
* A synchronous NCCL run accepts `--chunk`, which only the asynchronous branch
  reads, and records it (`nccl_main.cu:1149`; compare the comment at `:418-420`
  on another flag). `RecordTrue` says nothing of this field.
* `parse_arm` of `warp_packing.py` "rejects anything it cannot run exactly"
  (`:64`), but takes any words after `legacy`, of which the legacy build is given
  none (`:85-86`); of an arm with both `hoist` and `nohoist` it runs the leftmost and
  keeps both in its label; a delay that is no number (`delayx`) is a delay of 0
  (`std::atoi`). It always passes `--pre-timing-delay-ms`, which only a
  profiling build accepts. `RunsAsNamed` says what does hold of an arm, words
  after `legacy` excepted.
* "every trial validated against golden" (`p2p_ab.py:9`): the script neither looks
  at the status of a trial nor at `validation_passed`, only at `tol_failures`
  (`:28-31`). A result that is not a number, of the wrong length or with the wrong
  retained set has `tol_failures` 0 (`result_check.hpp:76-145`), becomes a time of
  the report and is not counted. It counts failed warm-ups among its failures.
  `ReportTrue` excepts this script from "no wrong result is kept" and
  asks of it that a result beyond the tolerance is counted.
* An export without candidate pairs is a fixture that validates, and that the
  serial, OpenMP and MPI backends pass on; the NCCL backend refuses it
  (`nccl_main.cu:432-436`) and the CUDA backend launches a grid of no blocks,
  which is an error (`cuda_backend.cu:106-118`). One without entities or dimensions
  (a subset that keeps none) does not validate: an empty list of names is written
  as a newline and read as one empty name (`export_fixture.py:255-258`,
  `validate_fixture.py:73-83`). `WholeExportPasses` says so.
* `make_prefix_fixtures.py` "refuses to emit a fixture whose two halves could hide
  a misplacement" (`:15-18`), and compares the similarities at the border with `==`
  (`:68`, `:72`), while the result check accepts a difference of up to 1e-12
  (`result_check.hpp:103-105`). Two that are equal but for rounding are
  written, and their exchange passes. `CutPrefix` therefore may write such a prefix,
  and no property says that a prefix shows an exchange.
* After a trial that fails `run_bench.py` only raises (`:417-422`); `killpg` is
  called on a timeout alone (`:410-416`). What a crashed `mpirun` leaves behind
  lives on beside the next trials. `OneTrialPerSession` allows that, of a
  configuration that is out of the session, and nothing else.
* Prefix and lane fixtures keep the `n_emitted` of their source, and a prefix has
  no hashes: the validator rejects a prefix, and a lane fixture unless the
  counts happen to agree. An empty band divides by zero after its
  data is written and leaves a fixture without a meta file.
* A trial that outlives a killed harness competes with the trials of the resumed
  session, and `--resume` does not compare the binary, its environment or the
  host with those of the checkpoint.
* `mpi_main.cpp:154` converts the number of statistics to `int`, which is
  negative from 357,913,942 pairs on.

## 5. What is proved

For every value of the constants, checked by TLAPS to the last leaf:

| module | theorem | says |
|---|---|---|
| `SlotProtocolProofs` | `TypeCorrect`, `RaceFreedom` | no two stages are in one slot of one GPU at a time, for any number of GPUs and chunks |
| | `Correctness`, `CollectiveAgreement` | each chunk is finalized from the complete sum of its own statistics; no collective mixes chunks |
| `PipelineProofs` | `PipelineInvariance`, `Refinement` | the pipeline of streams and events implements `SlotProtocol`, for any number of GPUs and pairs, any size of a chunk and either finalize stream |
| | `RaceFreedom`, `Completeness` | so no two streams are in one half of a buffer at once, and a finished batch has every similarity |
| `WorkDivisionProofs` | `Ownership`, `StartupAccepts` | every pair, or every dimension, has exactly one owner; no accepted configuration fails a startup check |
| | `Placement` | the complete statistics of each pair arrive at its own position in host memory, under both partitions and any order that is accepted |
| `MeasureProofs` | `LosslessReduction`, `CarryFreedom`, `AcceptedFits` | any payload the domain check accepts is lossless, in any grouping; no field carries on the way |
| | `MatrixInvariance`, `NothingIsDropped` | the matrix's file accounts for every configuration of every block, wherever the runner is killed, and all comparisons use the same blocks |
| | `EngineInvariance`, `RecordsAreTrue` | a record states the batches that were run, the bytes they moved and the slots that were validated, for any command line and fixture |
| | `TrialsInvariance`, `ReportsAreTrue` | a report is of a whole session: each trial a number of its own arm, none of them wrong (in `p2p_ab.py`: none beyond the tolerance uncounted), and the columns of the blocks of two arms, balanced to one, for any arms, orders, warm-ups and repeats |
| | `NamedInvariance`, `RunsAreAsNamed` | what is filed under an arm or a configuration is the record of a process that was asked for it: of an nccl or cuda arm every word shows in the record, delays included, of two suffixes of a kind the leftmost, for any specs, chunk sizes and orders; and the ranges of a matrix record cover the pairs |
| `WarpProofs` | `KernelInvariance`, `Statistics`, `Writers` | a slot is written once, by one thread, with the statistics of the pair the order puts there: for any rows, dimension ranges, warp width and group that divides it |
| `BackendProofs` | `BatchInvariance`, `Freshness` | a result that is copied back is of its own batch and complete, on buffers that are never cleared, for any number of GPUs, pairs, dimensions and batches |
| | `Verdicts` | the status is 1 exactly if a timed batch was wrong |
| | `MpiInvariance`, `Completeness`, `Agreement` | after the Allreduce every rank holds the statistics of the whole pair, and every rank that exits has the verdict's status, for any number of ranks and dimensions |
| `ScriptProofs` | `Checkpointing`, `Balance`, `Alone`, `Replaying` | for any configurations, repeats and kills: the checkpoint is always whole, a finished session is balanced, its trials do not overlap but for what a crashed `mpirun` of a failed configuration left, and a replay without a failure is exact |
| | `Reporting`, `Headlines` | a finished report accounts for every configuration, and no headline has a hole |
| | `ExportInvariance`, `Wholeness` | for any reviews, modes, subsets and older exports: a directory that validates is one whole export, at whichever file the exporter was killed |
| | `WholeInvariance`, `ExportPasses` | an export that is not interrupted validates if it has an entity and a dimension, no backend that runs on it fails, all of them run if it has a pair, and its similarities become a model |
| | `BandsPass` | a band of overlaps of a valid fixture is valid and a backend passes on it |
| | `LanesMatchAlways` | both lane fixtures have as many pairs and as many lane slots in total, the tail side fewer elements in total, whatever the export holds |
| | `ModelInvariance`, `SameModels` | exporter, engine and conversion make the model that Spark trains, but for the residues that only Spark writes: in item mode all other lines, in user mode the similarities of the pairs both found, for any reviews with any duplicates, any order of `collect` and any hash functions |
| | `PredictInvariance`, `Predictions` | the weights of an item-based prediction are not negative and not all 0, by whichever program its model was made |

* **SlotProtocol.** `NoSlotRace` is not inductive: it says nothing of how far
  one GPU may be ahead of another. `IInv` adds how the counters of the
  stages are ordered on each GPU and that no GPU is more than two chunks ahead
  of its release (`StageOrder`), that a chunk is reduced on a GPU only after all
  have joined its collective and the sum is the right one (`Summed`), and what
  each slot holds for the last two chunks started (`Fresh`). The proof has one
  lemma per action.
* **AsyncPipeline.** What the host issues to a stream is fixed by the chunk and
  the stream alone: a program (`At`). A queue is at all times a segment of its
  stream's program (`Queues`), which ends where the host is (`Issued`), so that
  the length of the queue says where the stream is (`Pos`). `Links` relates that
  position to the stages of the protocol, and says of a stage behind a wait that
  has passed that it has what it waited for; for that the invariant counts the
  records issued (`Recorded`) and says what each one that has fired is behind
  (`Fired`). `HeadCompute`, `HeadComm` and `HeadFin` then name the few
  operations that can be at the head of a stream. A step of the host extends
  segments and is hidden from the protocol; so are waits and records; every
  other step is one of the protocol's. What is proved of `SlotProtocol` holds of
  its image (`P`), and `RaceTransfer` and `CompleteTransfer` read it in terms of
  streams and pairs; the latter needs that the chunks cover the batch
  (`PairInChunk`) and, as the refinement does, that no pair is in two of them.
* **WorkDivision.** The arithmetic is the problem: that
  `total * g \div n` for g = 0, 1, ... are the ends of ranges that cover
  `[0, total)` without overlap. `SplitCovers` names the owner of x outright, the
  part `(n * (x + 1) - 1) \div total`, and shows that it is one by the Galois
  connection of `*` and `\div` (`DivGalois` in `ProofLemmas`), not by
  induction. The invariant then says that the shards in use are those of
  `ShardFor`, that the order is a permutation and under the pair partition the
  identity, and of every stage what each GPU has and has not filled. `Placement`
  follows a pair through it; that the sum over the GPUs counts each of its
  dimensions once is an induction over the set of GPUs (below).
* **PackedReduce.** The exact sums do not matter here, only their size.
  `SumOver(s, D)` therefore says of a statistic what the bounds need and addition
  preserves: its n is the number of
  dimensions in D and every other field is between 0 and the largest rating, or
  its square, times n. `IInv` states it of every partial sum, that groups of
  merged GPUs are disjoint, and that every word in the collective is the encoding
  of its exact sum. `EncodeAdd` shows that adding encodings is encoding the
  sum, in modular arithmetic and without any bound; the bound is needed only to
  decode (`DecodeEncode`), and `AcceptedFits` derives it from the domain check.
* **WarpKernel.** Three facts carry the proof. The binary search returns a
  position that divides the row (`Divides`) and there is only one (`OneDivision`),
  by induction over the length of what is left to search. The share of a lane is
  every `g`-th element of the slice (`Shared`), so the shares of all lanes are the
  common dimensions of the pair in the range, each once (`AllLanes`). And before a
  shuffle by `o` a lane has the shares of the lanes that equal it modulo `2 * o`
  (`Residue`), after it those modulo `o`, until lane 0 has all of them. `KernelInv`
  says this of every thread by where it is; lanes that are idle hold nothing the
  others need, and a warp whose lanes are of several groups keeps them apart
  (`Neighbour`). `Writers` follows because a slot determines the group, and only
  its first lane stores.
* **SyncBatches.** Nothing is cleared between batches, so `BatchInv` says what the
  buffers hold by the stage the host is in: a stream has at most the one operation
  of that stage (`Streams`), and a GPU that has done it has the current batch's
  statistics of its dimensions, its reduced statistics or its similarities
  (`Contents`), wrong on the GPUs of a set that is empty unless the batch is
  faulty. Of the batches that were copied the host's slots have the results, right
  exactly if the batch was not faulty (`Results`); that makes the verdict an
  equivalence. A sum over the GPUs counts a dimension once because one GPU has it
  (`CountedOnce`, an induction over the set of GPUs).
* **MpiBackend.** A rank's place in the list of steps says little about the
  others'. `IInv` adds that no rank is past a collective that some rank has not
  entered, as far as that collective's kind demands (`InStep`), that a rank's
  statistics are those of its range until the Allreduce and complete after it
  (`Counted`), and that a rank past the broadcast has the verdict of rank 0
  (`Agreed`). That the ranges add up to all dimensions is `SplitOwnsOnce` again.
* **Benchmark session.** A checkpoint is read by a process that was not there
  when it was written, so what memory and file have in common is the invariant:
  every trial of a live configuration is in every completed round and in no
  other (`Balanced`), what the generator has drawn follows from the rounds and
  failures of the session (`Drawn`), a file is an earlier state of the memory of
  some session with its parameters (`Files`), and only the processes of the current trial
  can be alive besides the orphans of killed sessions and what a crashed
  `mpirun` left of a configuration that then failed (`Processes`). `ReportInv`
  continues it over the summary; `TimeFound` goes through the lines that may
  have arrived and shows that a record that passed has a time to report.
* **Matrix runner.** `MatrixInv` divides the configurations of the block at work
  into those that are over and those that are left (`Over`): of the former each is
  a record or a failure and not both, of the latter none is either. A block is
  appended only when none is left, which makes `Accounted` an invariant of the
  document, and the file is the document of at most one block before. That the
  comparisons draw from the same blocks is a calculation with `Accounted`
  (`SameBlocks`).
* **Record of a run.** The record is written from the flags; the invariant says
  of the tally what the flags promise, phase by phase: batches and bytes in step
  (`Batched`), timed batches after the warm-ups and each in its own slot
  (`Repeated`), full chunks but for the last, whose lengths add up to the pairs
  (`Chunked`, by `ChunkCovers`). What makes the promise true are the refusals:
  `AcceptedConfig` is all that the proof uses of the parsed arguments, so it holds
  for whatever command line a script or a person comes up with.
* **Reports.** A plan is a concatenation of parts, some of them flattened
  (`Joins`), and a report reads it by arithmetic on positions. `Joined`,
  `Flattened` and `FlattenBlocks` say where an entry of a part comes to be, and a
  lemma per script what its plan is as a list (`WarmUpSequence`, `TimedSequence`,
  `ScreenSequence`, `CrossedSequence`, ...). Of a paired session that is
  `TwoColumns`: after the warm-ups of both arms, block k is at `2w + 2k - 1`
  and `2w + 2k`, in the order drawn for it. `TrialsInv` adds that a
  process whose record is there has the status of that record, which is not 0 where
  any of its results is wrong, so that a script that looks at the status keeps no
  wrong result (`AllRight`), and what a written report is (`ReportMade`).
* **Runs under their names.** Two things are to be shown: that the line which a
  script builds has the words of the arm, and that the loop over the arguments puts
  each where it belongs. For the second, a fold is its sequence of intermediate results
  (`Prefixed`), and a lemma each for a flag with its value, a switch and a delay
  moves along it (`ReadsSetting`, `ReadsSwitch`, `ReadsDelay`); `ArmFields`,
  `MatrixFields` and `SweptFields` walk the three kinds of lines. A delay may be
  refused, but only as the last setting. For the first, `parse_arm` is
  taken apart into the positional words and the suffixes, and what has passed the
  refusals says of each word what kind it is (`ArmKinds`): a word that
  is also a number can only be the group, and of the suffixes the leftmost of a kind
  decides, as it is the last to be taken off. `Truthful` is the result for one arm:
  whatever record an accepted process prints shows the arm. `TruePlan` carries it through the
  concatenations of every script's plan, and `NamedInv` says that the
  process at work has the line of its place in the plan, or of the configuration
  the matrix runner waits for, and that a record is of its process' line.
* **Exporter.** The meta file is never made of parts, so the document of a
  directory is that of the export being written, of the older one, or missing
  (`OneDocument`); and it has the hashes of all arrays, so a directory
  whose arrays match it is the whole export it belongs to (`Determined`). What has
  been written is the export's (`SoFar`), and a verdict is only worth something if
  nothing is written after it (`Judged`).
* **Whole exports.** That an export validates is a statement about sorting. In a
  strict order each element of a finite set has its own number of predecessors, so
  a listing by that number is in order and has every element once
  (`ListingOrders`). The cells of a fixture listed that way fall into the slices that the offsets
  bound, and reading a slice gives back the row (`HeldCells`, `RowsReadBack`).
  `Sound(d, matrix)` collects what is then known of a directory: its arrays hold
  the rows of that matrix, its pairs are ascending pairs of them with enough in
  common, its golden values their similarities, its document its counts and hashes.
  A sound directory is valid (`SoundIsValid`), what an exporter writes is sound
  (`TargetSound`), and `WholeInv` carries that to the engine and the model.
* **Fixtures cut from it.** A band has the same rows and fewer pairs, in the same
  order, so it is sound again with another document (`BandSound`).
* **Lane fixtures.** Within a bucket and a stratum the two sides take equally many pairs, so
  the pair at each place of one side faces one of the other (`Faces`); the
  fixtures hold what was taken, sorted by pair. Buckets that are apart make the facing
  a bijection (`OnePlace`, `Facing`): a pair's length tells its bucket and side, its
  place the rest. Facing pairs take the same rounds and the tail one is shorter
  (`FacingCosts`); sums that are renamed along a bijection do the rest
  (`LanesMatched`).
* **One model from two programs.** The engine computes a similarity from five
  sums over the common dimensions, Spark subtracts the means first; that the two are equal
  is a matter of sums over a set, which are linear. `ModelInv` says of the
  engine's model that every line has the similarity of the ratings its two entities have in
  the file (`TrueModel`), in whatever order they are named, of Spark's that it does or
  that it is a residue of a pair that cancels (`NearlyTrue`), and in item mode that the lines
  of the first are those of the second that are retained. That the ratings are the
  same needs that exporter and trainer resolve duplicates alike (`Dedup`,
  `list2dict`): both keep the last of the file. In user mode Spark only compares
  users that share a bucket, so only lines that both have can be compared, as
  unordered pairs (section 4 has what that leaves to be desired).
* **Predictions.** A line is written only for a positive similarity or residue, by
  `sims_to_model.py` (above `EPS`) and by `cf_train.py` with a filter of its own (`PredictInv`), and
  `item_predict` looks up a line or takes 0. If any of the weights is positive, so
  is the first of the best `N` (`BestTerms`, from the order of fractions).

The provers have no induction over data of their own: the library states it of
an operator, which none of them can instantiate. `ProofLemmas` states it of a set
instead, the values for which a claim holds, and derives it from the least element
of the complement (`LeastNumber`, `NumberInduction`, `SetInduction`). A fold of the
community modules is a recursive function chosen by its equation; where a proof
needs one, it gives a function in closed form, shows that it satisfies the
equation, and that any two that do agree (`AgreeOnSets`, `AgreeOnNumbers`).

The inductive invariants were checked by TLC on the instance of the run before they
were proved, but for the conjuncts `Given`, which no step touches, `Valid(dir)`
of `Judged`, which costs a validation in every state, and `TruePlan`, which is about all
records there could be. Assumptions are the `ASSUME`s of the modules and no others; TLC
evaluates them in every run. Most only bound a number. `OrderAssumption` says that
every pair has a position in the order of the batch (`plan_pairs` sorts all of
them), `RowsAssumption` that rows ascend, `LaunchAssumption` and `WidthAssumption`
that a group's width is a power of two that divides the warp's, as `valid_group`
demands, `InputsAssumption` that a rating is a whole number of stars and that the
rows of a synthetic fixture are finite and numbered from 0, `OldAssumption` that
the directory of an export is empty or holds a whole older one. `FixtureAssumption`
says of the buckets of the lane fixtures what those of `make_lane_bands.py` satisfy:
their lengths, give or take the window, are of the stated number of rounds, those of the two
sides do not meet, and no two have the same rounds. `ExperimentsAssumption` says
that what `--chunk` sweeps are numbers and that what follows in a word `delayN` is a string, and
`WordsAssumption` that the words the scripts know begin neither with a number nor
with `delay`, and what `"1"` and `"2"` are the numbers of.

**Only model-checked.** Liveness (`Termination`, `RunEnds`, `JobEnds`,
`KernelEnds`, `SessionEnds`): the prover has neither fairness nor `ENABLED`.
Every safety invariant of the passing runs is proved.

## 6. What is not modelled, and why

* **Rounding.** Similarities are exact (`Similarity`) but for one thing: where the
  centred products of a pair cancel, `cf_train.py` may be left with a residue above
  0 and far below `EPS`, which it writes (`sim > 0`) and everything behind the exporter
  drops (`sim > EPS`). Two runs of Spark disagreed on 97
  of about 557,000 pairs for that reason (`docs/pearson_contract.md:82-85`,
  `spark_pipeline/README.md:95-110`).
  `Residue` stands for one, and which pairs that cancel have one is chosen. Other
  differences within the golden tolerances do not occur. That a pair's similarity is not a number
  is a value of its own where a backend reads arrays that are not well formed; on a
  well-formed fixture none is.
* **Clocks and statistics.** Medians, quartiles, bootstrap intervals, deliberate
  delays and pauses. Which trial a number comes from is modelled, the number is not.
* **Pure output.** The environment block of a report, `gpu_state.cuh`,
  `occupancy.cuh`, NVML probes, figures and tables, `check_output.py` and
  `check_sanitizer.py`, the analysis tools. They read and print.
* **Serial and OpenMP.** One loop over pairs without shared writes; `Computed` in
  `Fixture` is its result. OpenMP's threads write one element each. The
  single-GPU host program is a sequence; its kernels are `WarpKernel`.
* **`plan_metrics`**, a cost estimate that nothing decides by.
* **`original_code/`** is an archive that nothing calls.
* **Options of the tools**: `--sample` of the validator (it checks less of the
  same), paths, verbosity.
* **A report torn in its one write.** `run_bench.py` replaces checkpoint and JSON
  atomically; the CSV and the reports of the other scripts are written once, at
  the end, and are there or not.
* **Inputs beyond what the program accepts.** The loader does not check that rows
  are ascending: `WarpKernel` assumes it by name, `Recommender` shows that
  exported rows are, and lets the engine end in any way on others.

## 7. Plan

Done, in this order: the slot protocol and its proofs; the pipeline that
implements it; the benchmark session; MPI; synchronous batches; the division of
the work and its proofs; the payloads and their proofs; the kernel; the command
line and its record; the architecture runner; the other measuring scripts; the
report; fixtures, training and prediction; the proofs of the benchmark session,
of the MPI backend and of the exporter; the proof that the pipeline implements
the protocol; the placement of every pair; the kernel's statistics; the freshness
and the verdict of the synchronous batches; the matrix runner and the record; whole
exports, the fixtures cut from them and the predictions; the equality of the two
models; the lane fixtures; the reports; the runs under their names.

Next:

1. `PlanMetrics`: `evaluate_order` against the rounds `WarpKernel` takes.
