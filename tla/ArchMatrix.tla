------------------------------ MODULE ArchMatrix ------------------------------
(***************************************************************************)
(* The four-way comparison of architecture_ab.py: run_matrix runs blocks   *)
(* of the four configurations in a random order, keeps the records that    *)
(* pass schema_problems, notes every other run as a failure, writes the    *)
(* document after each block and stops when there are too many failures.   *)
(* The engine it starts is a process of RunConfig.  The runner may be      *)
(* killed at any time.  summarise, the analysis of the document, is Rows.  *)
(***************************************************************************)
EXTENDS RunConfig, TLC

CONSTANTS
  NBlocks,   \* blocks of the matrix, --pilot or SEGMENTS * BLOCKS_PER_SEGMENT
  Segment,   \* BLOCKS_PER_SEGMENT
  NPairs,    \* pairs of the fixture
  Limits,    \* values of --failures tried
  Batches    \* values of --warmup and --repeat tried

ASSUME ArchMatrixAssumption ==
  NBlocks \in Nat /\ Segment \in Nat \ {0} /\ NPairs \in Nat \ {0} /\ Limits \subseteq Nat /\ Batches \subseteq Int

VARIABLES
  args,    \* [failures, warmup, repeat, pilot], the runner's own command line
  block,   \* blocks begun
  arms_left, \* the configurations that the current block has still to run
  now,     \* the configuration whose run was started last
  runs,    \* the current block's records by configuration
  doc,     \* the document, [blocks, failures]
  file,    \* what args.out holds
  runner   \* where the script is that starts the processes

matrix_vars == <<args, block, arms_left, now, runs, doc, file>>

CONFIGS ==
  [A |-> [gpus |-> 1, partition |-> "pair", payload |-> "f64"],
   B |-> [gpus |-> 2, partition |-> "dim", payload |-> "f64"],
   C |-> [gpus |-> 2, partition |-> "dim", payload |-> "packed"],
   D |-> [gpus |-> 2, partition |-> "pair", payload |-> "f64"]]
Arms == DOMAIN CONFIGS

COMMON == <<"mode", "sync", "group", "4", "pair_order", "source", "hoist", "off",
            "plan_metrics", "off", "validate", "resident">>

Command_NoPayload(n) ==  \* mutant: --payload is left at its default
  <<"gpus", ToString(CONFIGS[n].gpus), "partition", CONFIGS[n].partition>>
  \o COMMON \o <<"warmup", ToString(args.warmup), "repeat", ToString(args.repeat)>>
Command(n) ==
  <<"gpus", ToString(CONFIGS[n].gpus), "partition", CONFIGS[n].partition,
    "payload", CONFIGS[n].payload>>
  \o COMMON \o <<"warmup", ToString(args.warmup), "repeat", ToString(args.repeat)>>

-----------------------------------------------------------------------------
(* Ranges in ascending order that follow each other from 0 to the last pair. *)
Tiles(ranges) ==
  LET sorted == SortSeq(ranges, LAMBDA r, s : r.begin < s.begin \/ (r.begin = s.begin /\ r.end < s.end))
      After(i) == IF i = Len(sorted) THEN NPairs ELSE sorted[i + 1].begin
  IN  sorted # <<>> /\ sorted[1].begin = 0 /\ \A i \in DOMAIN sorted : sorted[i].end = After(i)

SchemaOK(rec) ==
  /\ rec.warmup_count = args.warmup /\ rec.repeat_count = args.repeat
  /\ rec.durations = args.repeat /\ rec.output_slots >= args.repeat
  /\ rec.iterations_validated = args.repeat /\ rec.tol_failures = 0
  /\ rec.iterations_passed = rec.iterations_validated /\ rec.validation_passed
  /\ IF rec.partition = "pair"
     THEN Tiles(rec.pair_ranges) /\ rec.collective_ops = 0
     ELSE /\ rec.collective_ops = 1
          /\ \A i \in DOMAIN rec.pair_ranges :
               rec.pair_ranges[i].end - rec.pair_ranges[i].begin = NPairs

-----------------------------------------------------------------------------
NoDoc == [blocks |-> <<>>, failures |-> {}]

MatrixInit ==
  /\ args \in [failures : Limits, warmup : Batches, repeat : Batches, pilot : BOOLEAN]
  /\ block = 0 /\ arms_left = {} /\ now = "A" /\ runs = <<>>
  /\ doc = NoDoc /\ file = NoDoc /\ runner = "next"

BeginBlock ==
  /\ runner = "next" /\ block < NBlocks
  /\ block' = block + 1 /\ arms_left' = Arms /\ runs' = <<>> /\ runner' = "arms"
  /\ UNCHANGED <<args, now, doc, file, engine_vars>>

(* block_plan shuffles the configurations of every block. *)
StartArm(n) ==
  /\ runner = "arms" /\ n \in arms_left
  /\ Exec(Command(n))
  /\ now' = n /\ arms_left' = arms_left \ {n} /\ runner' = "waiting"
  /\ UNCHANGED <<args, block, runs, doc, file>>

(* A run that raises, or whose record is rejected, is a failure of the block. *)
Noted_RaisedOnly(good) == FALSE  \* mutant: a rejected record is only logged
Noted(good) == ~good

Fails(n) == doc' = [doc EXCEPT !.failures = @ \cup {<<block, n>>}]

(* run_once raises for a status other than 0, and when the time is up. *)
Raises ==
  /\ runner = "waiting" /\ (phase # "exit" \/ status # 0)
  /\ Fails(now) /\ runner' = "arms" /\ EngineGone
  /\ UNCHANGED <<args, block, arms_left, now, runs, file>>

(* usable is FALSE of a record that lacks a field or holds a duration of 0. *)
Returns ==
  /\ runner = "waiting" /\ phase = "exit" /\ status = 0
  /\ \E usable \in BOOLEAN :
       LET good == usable /\ SchemaOK(record)
       IN  /\ runs' = IF good THEN [n \in DOMAIN runs \cup {now} |-> IF n = now THEN record ELSE runs[n]]
                             ELSE runs
           /\ IF Noted(good) THEN Fails(now) ELSE doc' = doc
  /\ runner' = "arms" /\ EngineGone
  /\ UNCHANGED <<args, block, arms_left, now, file>>

(* The block is appended, and the document written: an atomic replacement. *)
AppendBlock ==
  /\ runner = "arms" /\ arms_left = {}
  /\ doc' = [doc EXCEPT !.blocks = Append(@,
         [block |-> block, segment |-> IF args.pilot THEN 0 ELSE (block - 1) \div Segment,
          runs |-> runs, complete |-> Cardinality(DOMAIN runs) = Cardinality(Arms)])]
  /\ runner' = "write"
  /\ UNCHANGED <<args, block, arms_left, now, runs, file, engine_vars>>

TooMany == args.failures # 0 /\ Cardinality(doc.failures) >= args.failures

WriteBlock ==
  /\ runner = "write" /\ file' = doc
  /\ runner' = IF TooMany THEN "final" ELSE "next"
  /\ UNCHANGED <<args, block, arms_left, now, runs, doc, engine_vars>>

EndOfPlan ==
  /\ runner = "next" /\ block = NBlocks
  /\ runner' = "final"
  /\ UNCHANGED <<matrix_vars, engine_vars>>

WriteFinal ==
  /\ runner = "final" /\ file' = doc /\ runner' = "done"
  /\ UNCHANGED <<args, block, arms_left, now, runs, doc, engine_vars>>

MatrixNext ==
  \/ BeginBlock \/ (\E n \in Arms : StartArm(n)) \/ Raises \/ Returns
  \/ AppendBlock \/ WriteBlock \/ EndOfPlan \/ WriteFinal

-----------------------------------------------------------------------------
(* What summarise compares: the complete blocks; per segment, the blocks  *)
(* that bootstrap_ci draws from for the ratio of x and y.                  *)
CompleteBlocks == {b \in ToSet(file.blocks) : b.complete}
Segments == {b.segment : b \in CompleteBlocks}
Pool(x, y, segment) ==
  {b.block : b \in {c \in CompleteBlocks : {x, y} \subseteq DOMAIN c.runs /\ c.segment = segment}}

(***************************************************************************)
(* In the file, also after a kill: all blocks but the one at work, each    *)
(* with every configuration accounted for, by a record or by a failure,    *)
(* never both; "dropping it silently is how a matrix ends up unbalanced".  *)
(* And all comparisons are over the same blocks, those without a failure.  *)
(***************************************************************************)
NothingDropped ==
  /\ Len(file.blocks) >= block - 1
  /\ \A i \in DOMAIN file.blocks :
       LET b == file.blocks[i]
       IN  b.block = i /\ \A n \in Arms : (n \in DOMAIN b.runs) # (<<i, n>> \in file.failures)
  /\ \A x, y \in Arms :
       UNION {Pool(x, y, s) : s \in Segments} =
         {i \in DOMAIN file.blocks : \A n \in Arms : <<i, n>> \notin file.failures}
=============================================================================
