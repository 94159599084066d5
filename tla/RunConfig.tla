------------------------------ MODULE RunConfig ------------------------------
(***************************************************************************)
(* One process of the NCCL backend from its command line to its record:    *)
(* what it is asked to run, what it runs, and what its record says it ran. *)
(* tally counts what was done; the devices' own steps are in SyncBatches   *)
(* and AsyncPipeline, and whether a result is right is chosen here.        *)
(***************************************************************************)
EXTENDS CommandLine, Partition, FiniteSetsExt

VARIABLES
  n_pairs,  \* pairs of the fixture
  argv, parse, phase, tally, out_slot, record, status

engine_vars == <<argv, parse, n_pairs, phase, tally, out_slot, record, status>>

cfg == parse.cfg
Collective == cfg.partition = "dim"
InSync == cfg.mode = "sync"
OutSlots == IF cfg.resident /\ cfg.validate THEN cfg.repeat ELSE 1

NoRecord == [kind |-> "none"]
NothingDone == [batches |-> 0, timed |-> 0, collectives |-> 0, bytes |-> 0, chunks |-> 0,
            slots |-> {}, validated |-> 0]

(* Before the first process is started; phase is "exit" after each. *)
EngineInit ==
  /\ argv = <<>> /\ parse = ParseStart /\ phase = "exit"
  /\ tally = NothingDone /\ out_slot = 0 /\ record = NoRecord /\ status = -1

(* A process is started with a command line; all those of a session have one fixture. *)
Exec(line) ==
  /\ argv' = line /\ parse' = ParseStart /\ phase' = "parse"
  /\ tally' = NothingDone /\ out_slot' = 0 /\ record' = NoRecord /\ status' = -1
  /\ UNCHANGED n_pairs

(* Its output is read, or it is killed: nothing of it is left. *)
EngineGone ==
  /\ argv' = <<>> /\ parse' = ParseStart /\ phase' = "exit"
  /\ tally' = NothingDone /\ out_slot' = 0 /\ record' = NoRecord /\ status' = -1
  /\ UNCHANGED n_pairs

(* An exception ends run, and main returns 2. *)
Refuse == phase' = "exit" /\ status' = 2 /\ UNCHANGED <<tally, out_slot, record>>

ParseArguments ==
  /\ phase = "parse"
  /\ parse' = Parsed(argv)
  /\ IF Accepts(argv)
     THEN phase' = "load" /\ UNCHANGED <<tally, out_slot, record, status>>
     ELSE Refuse
  /\ UNCHANGED <<argv, n_pairs>>

(* The fixture may not exist, or be outside the domain of the payload. *)
Load ==
  /\ phase = "load"
  /\ \E loads \in BOOLEAN :
       IF loads /\ n_pairs > 0
       THEN phase' = "run" /\ UNCHANGED <<tally, out_slot, record, status>>
       ELSE Refuse
  /\ UNCHANGED <<argv, parse, n_pairs>>

(* What a batch adds to the tally: one collective over all pairs, and a copy back. *)
Batch(t) ==
  [t EXCEPT !.batches = @ + 1,
            !.collectives = @ + IF Collective THEN 1 ELSE 0,
            !.bytes = @ + IF Collective THEN BytesPerPair(cfg.payload) * n_pairs ELSE 0,
            !.slots = @ \cup {out_slot}]

Warming == cfg.resident /\ tally.batches < cfg.warmup

WarmupBatch ==
  /\ phase = "run" /\ InSync /\ Warming
  /\ tally' = Batch(tally)
  /\ UNCHANGED <<argv, parse, n_pairs, phase, out_slot, record, status>>

TimedBatch ==
  /\ phase = "run" /\ InSync /\ cfg.resident /\ ~Warming /\ tally.timed < cfg.repeat
  /\ tally' = [Batch(tally) EXCEPT !.timed = @ + 1]
  /\ out_slot' = IF cfg.validate THEN (out_slot + 1) % OutSlots ELSE out_slot
  /\ UNCHANGED <<argv, parse, n_pairs, phase, record, status>>

SingleBatch ==
  /\ phase = "run" /\ InSync /\ ~cfg.resident
  /\ tally' = Batch(tally) /\ phase' = "report"
  /\ UNCHANGED <<argv, parse, n_pairs, out_slot, record, status>>

(* The timed batches' results are looked at only when the timing is over. *)
ResidentEnd ==
  /\ phase = "run" /\ InSync /\ cfg.resident /\ ~Warming /\ tally.timed = cfg.repeat
  /\ tally' = [tally EXCEPT !.validated = IF cfg.validate THEN tally.timed ELSE 0]
  /\ phase' = "report"
  /\ UNCHANGED <<argv, parse, n_pairs, out_slot, record, status>>

(* One chunk of the pipeline, its collective included; the last may be short. *)
ChunkLen(c) == Min({cfg.chunk, n_pairs - c * cfg.chunk})
NChunks == (n_pairs + cfg.chunk - 1) \div cfg.chunk

Chunk ==
  /\ phase = "run" /\ ~InSync /\ tally.chunks < NChunks
  /\ tally' = [tally EXCEPT !.chunks = @ + 1, !.collectives = @ + 1,
                            !.bytes = @ + BytesPerPair(cfg.payload) * ChunkLen(tally.chunks)]
  /\ UNCHANGED <<argv, parse, n_pairs, phase, out_slot, record, status>>

PipelineEnd ==
  /\ phase = "run" /\ ~InSync /\ tally.chunks = NChunks
  /\ tally' = [tally EXCEPT !.batches = 1, !.slots = {0}]
  /\ phase' = "report"
  /\ UNCHANGED <<argv, parse, n_pairs, out_slot, record, status>>

(* The pairs of device g: all of them, or its share. *)
PairRange(g) ==
  IF Collective THEN [begin |-> 0, end |-> n_pairs] ELSE SplitRange(n_pairs, g, cfg.gpus)

(***************************************************************************)
(* How check_result finds the results: all right, the last one beyond the  *)
(* tolerance somewhere, the last one wrong in another way (not a number, a *)
(* length, the retained set), or right with an earlier resident batch that *)
(* was not.  vr is of the last one, of which alone tol_failures counts.    *)
(***************************************************************************)
Results ==
  {"right"} \cup (IF cfg.validate THEN {"tolerance", "other"} ELSE {})
            \cup (IF tally.validated > 1 THEN {"earlier"} ELSE {})

(* The fields that only a resident run has are 0 here for the others; numbers *)
(* of failures are cut to 1.                                                  *)
RecordMade(result) ==
  [kind |-> IF cfg.resident THEN "resident" ELSE IF InSync THEN "device" ELSE "pipeline",
   mode |-> cfg.mode, gpus |-> cfg.gpus, chunk |-> cfg.chunk, group |-> cfg.group,
   pair_order |-> cfg.pair_order, hoist |-> cfg.hoist, plan_metrics |-> cfg.plan_metrics,
   finalize_stream |-> IF InSync THEN "not_applicable" ELSE cfg.finalize_stream,
   payload |-> cfg.payload, partition |-> cfg.partition,
   pair_ranges |-> [g \in 1 .. cfg.gpus |-> PairRange(g - 1)],
   allreduce_bytes |-> IF Collective THEN BytesPerPair(cfg.payload) * n_pairs ELSE 0,
   collective_ops |-> IF Collective THEN 1 ELSE 0,
   warmup_count |-> IF cfg.resident THEN cfg.warmup ELSE 0,
   repeat_count |-> IF cfg.resident THEN cfg.repeat ELSE 0,
   durations |-> tally.timed,
   output_slots |-> IF cfg.resident THEN OutSlots ELSE 0,
   iterations_validated |-> tally.validated,
   iterations_passed |-> IF cfg.resident /\ result # "right" THEN tally.validated - 1
                                                             ELSE tally.validated,
   pre_timing_delay |-> cfg.pre_timing_delay,
   validation_ran |-> cfg.validate,
   validation_passed |-> cfg.validate /\ result \in {"right", "earlier"},
   tol_failures |-> IF result = "tolerance" THEN 1 ELSE 0]

(* A wrong result makes the status 1, after the record is printed. *)
Report ==
  /\ phase = "report"
  /\ \E result \in Results :
       record' = RecordMade(result) /\ status' = IF result = "right" THEN 0 ELSE 1
  /\ phase' = "exit"
  /\ UNCHANGED <<argv, parse, n_pairs, tally, out_slot>>

EngineNext ==
  \/ ParseArguments \/ Load
  \/ WarmupBatch \/ TimedBatch \/ SingleBatch \/ ResidentEnd
  \/ Chunk \/ PipelineEnd \/ Report

-----------------------------------------------------------------------------
(***************************************************************************)
(* The record is true of the run ("Refuse rather than run and mislabel"):  *)
(* the batches it counts were run, their collectives moved the bytes it    *)
(* states, a payload other than f64 did cross a wire, and every timed      *)
(* batch that the record calls validated has an output slot of its own.    *)
(***************************************************************************)
RecordTrue ==
  record # NoRecord =>
    /\ record.allreduce_bytes * tally.batches = tally.bytes
    /\ record.mode = "sync" => record.collective_ops * tally.batches = tally.collectives
    /\ record.payload # "f64" => tally.collectives > 0
    /\ record.kind = "resident" =>
         /\ record.warmup_count + record.repeat_count = tally.batches
         /\ record.durations = record.repeat_count
         /\ record.iterations_validated > 0 =>
              Cardinality(tally.slots) = record.iterations_validated
=============================================================================
