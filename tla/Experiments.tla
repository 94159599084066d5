----------------------------- MODULE Experiments -----------------------------
(***************************************************************************)
(* The scripts of engine/bench that measure: each starts processes of the  *)
(* engine one after another, in an order it draws, and writes one report.  *)
(* "matrix" is architecture_ab.py (ArchMatrix), "screen" and "paired" are  *)
(* warp_packing.py, "sweep" is gpu_sweeps.py, "p2p" p2p_ab.py and "repro"  *)
(* repro_session.py; "person" is somebody at a terminal.  A process of the *)
(* NCCL backend is one of RunConfig, one of pearson_engine an outcome.     *)
(* A trial is named by its place in the plan; result_file is what the      *)
(* report holds, of which a time is the trial it comes from.               *)
(***************************************************************************)
EXTENDS ArchMatrix

CONSTANTS
  CommandLines, PairCounts,  \* what a person types, and the fixtures' sizes
  ArmSpecs,           \* the specs given to --arms, --baseline and --candidate
  ArmCount,           \* how many of them --arms names
  Warmups, Repeats, NBlocksPaired,   \* 3, 10 to 30 and 30 in the scripts
  Chunks,             \* the values of --chunk that gpu_sweeps.py sweeps
  Delays,             \* what follows in each word that starts with "delay", or "0"
  MaxWrong            \* bound: processes of a session whose result is wrong

ASSUME ExperimentsAssumption ==
  /\ PairCounts \subseteq Nat /\ {Warmups, Repeats, NBlocksPaired, ArmCount, MaxWrong} \subseteq Nat
  /\ Delays \in [DOMAIN Delays -> STRING] /\ Chunks \in Seq(DOMAIN Atoi) /\ IsFiniteSet(ArmSpecs)

VARIABLES
  script,
  plan,     \* the trials, [arm, line, warm], in the order drawn
  order,    \* what the report says of that order
  ran,      \* the records of the trials so far
  result_file

session_vars == <<script, plan, order, ran, result_file>>
measure_vars == <<engine_vars, matrix_vars, runner, session_vars>>

-----------------------------------------------------------------------------
(* Arms.  A spec is the sequence of its words, and its own label. *)
ArmWords == {"hoist", "nohoist", "metrics", "nometrics"} \cup DOMAIN Delays
ArmGpus == [nccl |-> "2", nccl1 |-> "1", nccl2 |-> "2"]

(* These words start neither with a number nor with "delay". *)
PlainWords ==
  DOMAIN ArmGpus \cup {"hoist", "nohoist", "metrics", "nometrics"}
  \cup {"sync", "async", "f64", "i32", "packed", "source", "bylen", "comm", "separate",
        "chunk", "finalize_stream", "p2pon", "p2poff", "cuda", ""}

ASSUME WordsAssumption ==
  /\ ArmSpecs \subseteq Seq(STRING)
  /\ PlainWords \cap DOMAIN Atoi = {} /\ DOMAIN Delays \cap (DOMAIN Atoi \cup PlainWords) = {}
  /\ {"1", "2", ToString(1), ToString(2)} \subseteq DOMAIN Atoi
  /\ Number("0") = 0 /\ Atoi["1"] = 1 /\ Atoi["2"] = 2 /\ \A i \in {1, 2} : Atoi[ToString(i)] = i

Other == <<"legacy">>      \* the legacy build, or a backend without a lane mapping
Rejected == <<"rejected">>

(* Words are taken off the end, so that the first one of a kind decides. *)
First(words, S, otherwise) ==
  LET found == {i \in DOMAIN words : words[i] \in S}
  IN  IF found = {} THEN otherwise ELSE words[Min(found)]

ModeOf_Default(parts) == "sync"  \* mutant: the fifth word is accepted and left alone
ModeOf(parts) == IF Len(parts) = 5 THEN parts[5] ELSE "sync"

OnOff(words, on, off) == IF First(words, {on, off}, "") = on THEN "on" ELSE "off"
DelayOf(words) == LET d == First(words, DOMAIN Delays, "") IN IF d = "" THEN "0" ELSE Delays[d]

(* The lane mapping, which both binaries are given in the same words. *)
Mapping(group, pair_order, words) ==
  <<"validate", "group", group, "pair_order", pair_order,
    "hoist", OnOff(words, "hoist", "nohoist"),
    "plan_metrics", OnOff(words, "metrics", "nometrics"),
    "pre_timing_delay", DelayOf(words)>>

NcclCommand(parts, words) ==
  <<"gpus", ArmGpus[parts[1]], "mode", ModeOf(parts), "payload", parts[4]>>
  \o Mapping(parts[2], parts[3], words)

CudaCommand(parts, words) == <<"backend", "cuda">> \o Mapping(parts[2], parts[3], words)
OnCuda(line) == line # <<>> /\ line[1] = "backend"

(* Whatever else a spec of the legacy build says is not given to it. *)
parse_arm(spec) ==
  LET n     == Max({0} \cup {i \in DOMAIN spec : spec[i] \notin ArmWords})
      parts == SubSeq(spec, 1, n)
      words == SubSeq(spec, n + 1, Len(spec))
  IN  CASE n = 0 -> Rejected
        [] n > 0 /\ parts[1] = "legacy" -> Other
        [] parts[1] = "cuda" /\ n = 3 -> CudaCommand(parts, words)
        [] parts[1] \in DOMAIN ArmGpus /\ n \in {4, 5} -> NcclCommand(parts, words)
        [] OTHER -> Rejected

-----------------------------------------------------------------------------
(* Plans. *)
PlanEntry(arm, line, warm) == [arm |-> arm, line |-> line, warm |-> warm]
Times(k, t) == [i \in 1 .. k |-> t]

(* k warm-ups of each arm in turn. *)
WarmUp(arms) ==
  FlattenSeq([i \in DOMAIN arms |-> Times(Warmups, PlanEntry(arms[i].arm, arms[i].line, TRUE))])

Measured(arm) == PlanEntry(arm.arm, arm.line, FALSE)

(* screen: rounds of all arms, each shuffled. *)
ScreenPlan(arms, rounds) ==
  WarmUp(arms)
  \o FlattenSeq([r \in DOMAIN rounds |-> [k \in DOMAIN arms |-> Measured(arms[rounds[r][k]])]])

(* paired and repro_session: blocks of two, one half of them in each order. *)
Crossovers ==
  {o \in [1 .. NBlocksPaired -> {"bc", "cb"}] :
     Cardinality({k \in DOMAIN o : o[k] = "bc"}) = NBlocksPaired \div 2}

Crossed(b, c, o) ==
  WarmUp(<<b, c>>)
  \o FlattenSeq([k \in DOMAIN o |-> LET x == Measured(b) y == Measured(c)
                                    IN  IF o[k] = "bc" THEN <<x, y>> ELSE <<y, x>>])

(* timed and run: every configuration by itself, warm-ups first. *)
Timed(arm) == WarmUp(<<arm>>) \o Times(Repeats, Measured(arm))

SweepLine(mode, payload) == <<"gpus", "2", "mode", mode, "payload", payload, "validate">>
Configured(mode, payload, extra) ==
  [arm |-> <<mode, payload>> \o extra, line |-> SweepLine(mode, payload) \o extra]
Labelled(arm, word) == [arm EXCEPT !.arm = Append(@, word)]
Binary(name) == [arm |-> <<name>>, line |-> Other]

SweptPayloads == <<"f64", "packed">>
SweepPlan ==
  LET A(pay) == Timed(Configured("sync", pay, <<>>))
                \o FlattenSeq([i \in DOMAIN Chunks |-> Timed(Configured("async", pay, <<"chunk", Chunks[i]>>))])
      B(pay) == Timed(Configured("async", pay, <<"finalize_stream", "comm">>))
                \o Timed(Configured("async", pay, <<"finalize_stream", "separate">>))
      C      == Timed(Binary("serial")) \o Timed(Binary("cuda_1gpu"))
                \o Timed(Configured("sync", "packed", <<>>))
  IN  A("f64") \o A("packed") \o B("f64") \o B("packed") \o C

(* NCCL_P2P_DISABLE is set for one half; the engine's record does not show it. *)
P2pPlan ==
  LET Half(p2p) ==
        FlattenSeq([i \in 1 .. 2 |-> Timed(Labelled(Configured("sync", SweptPayloads[i], <<>>), p2p))])
        \o FlattenSeq([i \in 1 .. 2 |-> Timed(Labelled(Configured("async", SweptPayloads[i], <<>>), p2p))])
  IN  Half("p2pon") \o Half("p2poff")

ReproPlan(o) ==
  Crossed(Configured("sync", "f64", <<>>), Configured("sync", "packed", <<>>), o)
  \o Times(Repeats, Measured(Configured("async", "packed", <<>>)))

-----------------------------------------------------------------------------
NoReport == [kind |-> "none"]
Scripted == script # "person"

(* The runner of the matrix is not at work in the other scripts. *)
NoMatrix ==
  /\ args = [failures |-> 0, warmup |-> 0, repeat |-> 0, pilot |-> FALSE]
  /\ block = 0 /\ arms_left = {} /\ now = "A" /\ runs = <<>>
  /\ doc = NoDoc /\ file = NoDoc /\ runner = "launch"

Matrix == script = "matrix" /\ plan = <<>> /\ order = <<>> /\ MatrixInit

Person ==
  /\ script = "person" /\ order = <<>>
  /\ \E line \in CommandLines : plan = <<PlanEntry(<<>>, line, FALSE)>>

(* A spec that parse_arm refuses ends screen and paired before the first trial. *)
Parsing(specs) == [i \in DOMAIN specs |-> [arm |-> specs[i], line |-> parse_arm(specs[i])]]
Parsable == {s \in ArmSpecs : parse_arm(s) # Rejected}

Screen ==
  /\ script = "screen"
  /\ \E S \in {T \in SUBSET Parsable : Cardinality(T) = ArmCount} :
     \E rounds \in [1 .. Repeats -> SetToSeqs(1 .. ArmCount)] :
       /\ order = rounds
       /\ plan = ScreenPlan(Parsing(SetToSeq(S)), rounds)

Paired ==
  /\ script = "paired"
  /\ order \in Crossovers
  /\ \E b, c \in Parsable :
       b # c /\ plan = LET arms == Parsing(<<b, c>>) IN Crossed(arms[1], arms[2], order)

Repro == script = "repro" /\ order \in Crossovers /\ plan = ReproPlan(order)

Fixed ==
  /\ order = <<>>
  /\ \/ script = "sweep" /\ plan = SweepPlan
     \/ script = "p2p" /\ plan = P2pPlan

MeasureInit ==
  /\ EngineInit /\ ran = <<>> /\ result_file = NoReport
  /\ \/ Matrix
     \/ NoMatrix /\ (Person \/ Screen \/ Paired \/ Repro \/ Fixed)
  /\ n_pairs \in IF script = "person" THEN PairCounts ELSE {NPairs}

-----------------------------------------------------------------------------
MatrixStep == script = "matrix" /\ MatrixNext /\ UNCHANGED session_vars

LaunchTrial ==
  /\ runner = "launch" /\ Len(ran) < Len(plan)
  /\ LET t == plan[Len(ran) + 1]
     IN  IF t.line = Other \/ OnCuda(t.line)
         THEN runner' = "other" /\ UNCHANGED engine_vars
         ELSE runner' = "process" /\ Exec(t.line)
  /\ UNCHANGED <<matrix_vars, session_vars>>

(* The process has found a result of its own wrong, its last one or another. *)
Wrong(rec) ==
  /\ rec # NoRecord /\ rec.validation_ran
  /\ \/ ~rec.validation_passed
     \/ rec.kind = "resident" /\ rec.iterations_passed # rec.iterations_validated
WrongSoFar == Cardinality({i \in DOMAIN ran : Wrong(ran[i])})

(* A step of the engine's process; at most MaxWrong results are wrong. *)
EngineStep ==
  /\ runner \in {"process", "waiting"}
  /\ EngineNext
  /\ status' = 1 => WrongSoFar < MaxWrong
  /\ UNCHANGED <<matrix_vars, runner, session_vars>>

(***************************************************************************)
(* What a script does with a process that has ended: run_once of           *)
(* warp_packing and once of repro_session raise for a status other than 0  *)
(* and for tol_failures, once of gpu_sweeps for the status alone; run of   *)
(* p2p_ab wants a record, and looks at nothing else.                       *)
(***************************************************************************)
Keeps_AnyStatus(st, rec) == rec # NoRecord  \* mutant: the status is not looked at
Keeps(st, rec) ==
  /\ rec # NoRecord
  /\ script # "p2p" => st = 0
  /\ script \in {"screen", "paired", "repro"} => rec.tol_failures = 0

TakeRecord(st, rec) ==
  /\ IF Scripted => Keeps(st, rec)
     THEN ran' = Append(ran, rec) /\ runner' = "launch"
     ELSE ran' = ran /\ runner' = "aborted"
  /\ UNCHANGED <<matrix_vars, script, plan, order, result_file>>

Ends == runner = "process" /\ phase = "exit" /\ TakeRecord(status, record) /\ EngineGone

(* pearson_engine validates one result: the record of its cuda backend says *)
(* the mapping that it ran, its other records say none.                     *)
OtherRecord(result) ==
  [kind |-> "other", validation_ran |-> TRUE, validation_passed |-> result = "right",
   tol_failures |-> IF result = "tolerance" THEN 1 ELSE 0]

CudaRecord(c, result) ==
  [kind |-> "cuda", group |-> c.group, pair_order |-> c.pair_order, hoist |-> c.hoist,
   plan_metrics |-> c.plan_metrics, pre_timing_delay |-> c.pre_timing_delay,
   validation_ran |-> c.validate, validation_passed |-> c.validate /\ result = "right",
   tol_failures |-> IF result = "tolerance" THEN 1 ELSE 0]

CudaConfig(line) == Parsed(SubSeq(line, 3, Len(line)))
CudaAccepts(line) == Complete(CudaConfig(line)) /\ ~BadMapping(CudaConfig(line).cfg)

RecordOf(line, result) ==
  IF OnCuda(line) THEN CudaRecord(CudaConfig(line).cfg, result) ELSE OtherRecord(result)

OtherEnds ==
  /\ runner = "other" /\ UNCHANGED engine_vars
  /\ \/ TakeRecord(2, NoRecord)
     \/ LET line == plan[Len(ran) + 1].line
        IN  \E result \in {"right", "tolerance", "other"} :
              /\ OnCuda(line) => CudaAccepts(line)
              /\ result # "right" => WrongSoFar < MaxWrong
              /\ TakeRecord(IF result = "right" THEN 0 ELSE 1, RecordOf(line, result))

Labels == {plan[i].arm : i \in DOMAIN plan}
KeptTrials(arm) == {i \in DOMAIN plan : plan[i].arm = arm /\ ~plan[i].warm}

(* A block's two trials, under the names of the arms, whichever ran first. *)
Row_ByPosition(first, i) == [baseline |-> i, candidate |-> i + 1]  \* mutant: unpacked in the order run
Row(first, i) ==
  IF first = "bc" THEN [baseline |-> i, candidate |-> i + 1]
                  ELSE [baseline |-> i + 1, candidate |-> i]
BlockRows == [k \in DOMAIN order |-> Row(order[k], 2 * Warmups + 2 * k - 1)]

Failures(arm) == Cardinality({i \in DOMAIN plan : plan[i].arm = arm /\ ran[i].tol_failures > 0})

WriteReport ==
  /\ runner = "launch" /\ Len(ran) = Len(plan) /\ Scripted
  /\ result_file' = [kind |-> script, order |-> order,
                filed |-> [arm \in Labels |-> KeptTrials(arm)],
                rows |-> IF script \in {"paired", "repro"} THEN BlockRows ELSE <<>>,
                tol_failures |-> [arm \in Labels |-> Failures(arm)]]
  /\ runner' = "done"
  /\ UNCHANGED <<matrix_vars, engine_vars, script, plan, order, ran>>

KillScript ==
  /\ Scripted /\ runner \notin {"done", "aborted", "killed"}
  /\ runner' = "killed"
  /\ UNCHANGED <<matrix_vars, engine_vars, session_vars>>

MeasureNext == MatrixStep \/ LaunchTrial \/ EngineStep \/ Ends \/ OtherEnds \/ WriteReport \/ KillScript

MeasureSpec == MeasureInit /\ [][MeasureNext]_measure_vars

-----------------------------------------------------------------------------
(***************************************************************************)
(* A record is of what it is filed under.  Of the matrix: so many devices, *)
(* divided so, with this payload, every pair somewhere; schema_problems    *)
(* does not compare the record with what was asked for.  Of the others:    *)
(* the results were validated, and the record shows every word of the arm: *)
(* of two suffixes of a kind the one that is further to the left, and of a *)
(* delay the number its word ends with.  parse_arm promises more than that *)
(* ("Rejects anything it cannot run exactly"): it takes any words after    *)
(* "legacy", which the legacy build is not given.                          *)
(***************************************************************************)
Leads(arm, w, S) == \E i \in DOMAIN arm : arm[i] = w /\ \A j \in 1 .. i - 1 : arm[j] \notin S

ShowsMapping(arm, rec) ==
  LET W == ToSet(arm)
  IN  /\ W \cap {"source", "bylen"} \subseteq {rec.pair_order}
      /\ (rec.hoist = "on") = Leads(arm, "hoist", {"nohoist"})
      /\ (rec.plan_metrics = "on") = Leads(arm, "metrics", {"nometrics"})
      /\ \A d \in DOMAIN Delays : Leads(arm, d, DOMAIN Delays) => rec.pre_timing_delay = Number(Delays[d])
      /\ W \cap DOMAIN Delays = {} => rec.pre_timing_delay = 0

ShowsNumbers(arm, numbers) == \A w \in ToSet(arm) \cap DOMAIN Atoi : Atoi[w] \in numbers

ShowsRun(arm, rec) ==
  LET W == ToSet(arm)
  IN  /\ rec.mode = IF "async" \in W THEN "async" ELSE "sync"
      /\ W \cap {"f64", "i32", "packed"} \subseteq {rec.payload}
      /\ W \cap {"comm", "separate"} \subseteq {rec.finalize_stream}
      /\ rec.gpus = IF "nccl1" \in W THEN 1 ELSE 2

Shows(arm, rec) ==
  /\ rec.validation_ran
  /\ CASE rec.kind = "other" -> arm[1] \in {"legacy", "serial", "cuda_1gpu"}
       [] rec.kind = "cuda" -> ShowsMapping(arm, rec) /\ ShowsNumbers(arm, {rec.group})
       [] OTHER -> /\ ShowsMapping(arm, rec) /\ ShowsRun(arm, rec)
                   /\ ShowsNumbers(arm, {rec.group, rec.chunk})

RunsAsNamed ==
  /\ \A n \in DOMAIN runs :
       /\ Len(runs[n].pair_ranges) = CONFIGS[n].gpus
       /\ runs[n].partition = CONFIGS[n].partition /\ runs[n].payload = CONFIGS[n].payload
       /\ UNION {Members(runs[n].pair_ranges[i]) : i \in 1 .. CONFIGS[n].gpus} = 0 .. NPairs - 1
  /\ Scripted => \A i \in DOMAIN ran : Shows(plan[i].arm, ran[i])

(***************************************************************************)
(* A report that exists is of a whole session: every trial that is not a   *)
(* warm-up is a number of its own arm, of a process that printed a record; *)
(* no validation of it has failed, or, in p2p_ab, none that exceeds the    *)
(* tolerance is left uncounted; both columns of a block are of their arms  *)
(* in the order the block says, and as many blocks begin with one arm as   *)
(* with the other, or one more.  p2p_ab promises more than that ("every    *)
(* trial validated against golden"): a result that is wrong in another way *)
(* has no tol_failures, and the status that says so is not looked at.      *)
(***************************************************************************)
ReportTrue ==
  result_file # NoReport =>
    /\ \A arm \in Labels :
         /\ result_file.filed[arm] \subseteq DOMAIN ran
         /\ Cardinality({i \in result_file.filed[arm] : ran[i].tol_failures > 0})
              <= result_file.tol_failures[arm]
         /\ script # "p2p" => \A i \in result_file.filed[arm] : ~Wrong(ran[i])
    /\ \A r, s \in ToSet(result_file.rows) :
         /\ plan[r.baseline].arm = plan[s.baseline].arm /\ plan[r.candidate].arm = plan[s.candidate].arm
         /\ plan[r.baseline].arm # plan[r.candidate].arm
    /\ \A k \in DOMAIN result_file.rows :
         (result_file.order[k] = "bc") = (result_file.rows[k].baseline < result_file.rows[k].candidate)
    /\ result_file.rows # <<>> =>
         Cardinality({k \in DOMAIN result_file.rows : result_file.order[k] = "cb"})
           - Cardinality({k \in DOMAIN result_file.rows : result_file.order[k] = "bc"}) \in {0, 1}
=============================================================================
