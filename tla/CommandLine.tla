----------------------------- MODULE CommandLine -----------------------------
(***************************************************************************)
(* The command line of the NCCL backend (nccl_main.cu, run): how the       *)
(* arguments become a configuration and which configurations are refused.  *)
(* A flag is named by the field of the configuration it sets.  Any         *)
(* argument can be the value of a flag, another flag too; what std::atoi   *)
(* makes of it is the number it starts with, or 0.                         *)
(***************************************************************************)
EXTENDS Integers, Sequences, SequencesExt

CONSTANTS
  Atoi,       \* the number each argument that starts with one stands for
  Visible,    \* number of devices cudaGetDeviceCount sees
  Profiling   \* the build has ENGINE_PROFILING

ASSUME CommandLineAssumption ==
  /\ \A s \in DOMAIN Atoi : Atoi[s] \in Int
  /\ Visible \in Nat /\ Profiling \in BOOLEAN

Switches == {"resident", "validate"}
NumberFlags == {"gpus", "chunk", "group", "warmup", "repeat"}
WordFlags == {"mode", "payload", "finalize_stream", "pair_order", "hoist", "partition", "out"}
DelayFlags == {"pre_timing_delay", "resident_delay_in_band", "resident_delay_out_of_band"}
OnOffFlags == {"plan_metrics"}

Number(s) == IF s \in DOMAIN Atoi THEN Atoi[s] ELSE 0

DefaultChunk == 262144   \* pairs

Defaults ==
  [gpus |-> 2, mode |-> "sync", chunk |-> DefaultChunk, payload |-> "f64",
   finalize_stream |-> "comm", group |-> 4, pair_order |-> "source", hoist |-> "off",
   plan_metrics |-> "off", partition |-> "dim", warmup |-> 0, repeat |-> 1, out |-> "",
   pre_timing_delay |-> 0, resident_delay_in_band |-> 0, resident_delay_out_of_band |-> 0,
   resident |-> FALSE, validate |-> FALSE]

(***************************************************************************)
(* The state of the loop over argv: the configuration so far, and the flag *)
(* that waits for its value, if any.                                       *)
(***************************************************************************)
NoFlag == "none"
ParseStart == [cfg |-> Defaults, flag |-> NoFlag, error |-> FALSE]

ParseFailed(p) == [p EXCEPT !.error = TRUE]

Value(p, arg) ==
  LET Set(v) == [p EXCEPT !.cfg[p.flag] = v, !.flag = NoFlag]
  IN  CASE p.flag \in NumberFlags \cup DelayFlags -> Set(Number(arg))
        [] p.flag \in OnOffFlags -> IF arg \in {"on", "off"} THEN Set(arg) ELSE ParseFailed(p)
        [] OTHER -> Set(arg)

Flag(p, arg) ==
  CASE arg \in Switches -> [p EXCEPT !.cfg[arg] = TRUE]
    [] arg \in NumberFlags \cup WordFlags \cup OnOffFlags \cup (IF Profiling THEN DelayFlags ELSE {}) ->
         [p EXCEPT !.flag = arg]
    [] OTHER -> ParseFailed(p)                                  \* unknown argument

Argument(p, arg) ==
  IF p.error THEN p ELSE IF p.flag = NoFlag THEN Flag(p, arg) ELSE Value(p, arg)

(* need_value fails for a flag that the line ends with. *)
Complete(p) == ~p.error /\ p.flag = NoFlag

Parsed(argv) == FoldLeft(Argument, ParseStart, argv)

(***************************************************************************)
(* What is refused once all arguments are read.                            *)
(***************************************************************************)
BadWord(c) ==
  \/ c.mode \notin {"sync", "async"} \/ c.partition \notin {"dim", "pair"}
  \/ c.payload \notin {"f64", "i32", "packed"}
  \/ c.finalize_stream \notin {"comm", "separate"}

BadNumber(c) == c.chunk \notin Nat \ {0} \/ c.gpus \notin 1 .. Visible

LongestDelay == 60000   \* milliseconds

(* The lane mapping, which pearson_engine reads and refuses alike. *)
BadMapping(c) ==
  \/ c.pair_order \notin {"source", "bylen"} \/ c.hoist \notin {"on", "off"}
  \/ c.group \notin {1, 2, 4, 8, 16, 32}
  \/ c.pre_timing_delay \notin 0 .. LongestDelay

BadPair_AnyPayload(c) ==  \* mutant: a payload without a wire is accepted
  c.partition = "pair" /\ (c.mode # "sync" \/ c.pair_order # "source")
BadPair(c) ==
  c.partition = "pair" /\ (c.mode # "sync" \/ c.payload # "f64" \/ c.pair_order # "source")

BadResident(c) ==
  IF c.resident THEN c.mode # "sync" \/ c.warmup \notin Nat \/ c.repeat \notin Nat \ {0}
                ELSE c.warmup # 0 \/ c.repeat # 1

BadFinalize(c) == c.mode = "sync" /\ c.finalize_stream # "comm"

Refused(c) ==
  \/ BadWord(c) \/ BadNumber(c) \/ BadMapping(c)
  \/ BadPair(c) \/ BadResident(c) \/ BadFinalize(c)

Accepts(argv) == Complete(Parsed(argv)) /\ ~Refused(Parsed(argv).cfg)

(***************************************************************************)
(* The bytes one pair's statistics take in a collective.                   *)
(***************************************************************************)
BytesPerPair(payload) == CASE payload = "packed" -> 2 * 8
                           [] payload = "i32" -> 6 * 4
                           [] OTHER -> 6 * 8
=============================================================================
