----------------------------- MODULE BenchReport -----------------------------
(***************************************************************************)
(* What engine/bench/run_bench.py makes of a session: main summarises the  *)
(* configurations one after the other, writes a JSON document and a CSV    *)
(* table, and headline_table.py later turns a document into the table the  *)
(* README quotes.  The harness may be killed here, too; the checkpoint is  *)
(* still there, and a resumed session reports again.                       *)
(*                                                                         *)
(* A process prints one or two lines of JSON and any of them may be lost.  *)
(* A line, and the record merged of the lines that arrived, is the set of  *)
(* its fields; a field with few values is in the set with its value.  What *)
(* a process printed is chosen when it is first looked at.                 *)
(***************************************************************************)
EXTENDS BenchSession

CONSTANTS Backend,  \* Backend[c]: the backend the command of c runs
          Headline  \* the configurations in ROWS of headline_table.py

ASSUME BackendAssumption ==
  Backend \in [Configs -> {"serial", "openmp", "mpi", "cuda", "sync", "async"}]
ASSUME HeadlineAssumption == Headline \subseteq Configs

VARIABLES stage,  \* how far main is after the session
          rows,   \* the summaries so far, by configuration
          json,   \* the newest document
          table   \* what headline_table.py made of the document it read

report == <<stage, rows, json, table>>
all    == <<vars, report>>

-----------------------------------------------------------------------------
Verdict  == {"n_pairs", "tol_failures", "max_abs_diff"}
HostLine == Verdict \cup {"basis=device_total", "t_load_s", "t_setup_s", "t_d2h_s",
                          "t_allreduce_s", "t_finalize_s", "device_total_s",
                          "cold_data_path_s"}
GpuPlan  == {"t_plan_s", "group", "pair_order", "hoist"}
CudaDetail == GpuPlan \cup
  {"basis=device_total", "t_setup_s", "t_h2d_s", "t_d2h_s", "t_allreduce_s",
   "t_finalize_s", "t_kernel_stats_s", "t_kernel_finalize_s", "device_total_s"}
CudaSummary == Verdict \cup {"t_load_s", "t_compute_s", "cold_data_path_s"}
NcclLine == HostLine \cup GpuPlan \cup {"t_kernel_s", "t_pipeline_s", "t_comm_init_s"}

(* The lines the backend of c prints. *)
Lines(c) ==
  CASE Backend[c] \in {"serial", "openmp"} -> {HostLine \cup {"t_compute_s"}}
    [] Backend[c] = "mpi"   -> {HostLine \cup {"t_local_s", "comm_fraction"}}
    [] Backend[c] = "cuda"  -> {CudaDetail, CudaSummary}
    [] Backend[c] = "sync"  -> {NcclLine}
    [] Backend[c] = "async" ->
         {(NcclLine \ {"basis=device_total"}) \cup {"basis=pipeline_total", "mode=async"}}

RequiredTiming == {"device_total_s", "t_pipeline_s", "t_compute_s"}

(* run_once keeps the record. *)
Accepted_Any(rec) == TRUE  \* mutant: a process that prints nothing is a trial
Accepted(rec) == Verdict \subseteq rec /\ rec \cap RequiredTiming # {}

Kept(c) == {rec \in {UNION ls : ls \in SUBSET Lines(c)} : Accepted(rec)}

(* The fields whose sum is the comparable time of a trial. *)
time_of(rec) ==
  IF {"device_total_s", "basis=device_total"} \subseteq rec THEN {"device_total_s"}
  ELSE IF "mode=async" \in rec       THEN {"t_pipeline_s"}
  ELSE IF "t_kernel_stats_s" \in rec THEN {"t_kernel_stats_s", "t_kernel_finalize_s"}
  ELSE IF "t_compute_s" \in rec      THEN {"t_compute_s"}
  ELSE IF "t_kernel_s" \in rec       THEN {"t_kernel_s", "t_allreduce_s"}
  ELSE {"t_local_s", "t_allreduce_s", "t_finalize_s"}

(* What timing_identity may say: two clocks decide where it is defined. *)
timing_identity(c, rec) ==
  IF {"cold_data_path_s", "t_load_s"} \subseteq rec /\ Backend[c] # "mpi"
  THEN BOOLEAN ELSE {TRUE}

-----------------------------------------------------------------------------
Nothing == [c \in {} |-> {}]
ReportInit ==
  /\ Init
  /\ stage = "session" /\ rows = Nothing /\ json = NoFile /\ table = "none"

Session == Next /\ UNCHANGED report

Failed == [error |-> TRUE]
NoRow_NoTrials(c) == trials[c] = <<>>  \* mutant: a failed one with trials has a row
NoRow(c) == c \in errors \/ trials[c] = <<>>

(***************************************************************************)
(* One pass of the loop of main.  A field that time_of reads and a trial   *)
(* lacks is a KeyError, and nothing is written.  Of a row, the number of   *)
(* trials and the verdict on their timing are kept, no statistics.         *)
(***************************************************************************)
Summarise ==
  /\ pc = "done" /\ stage = "session" /\ DOMAIN rows # Configs
  /\ LET c == Min(Configs \ DOMAIN rows)
         Add(row) == rows' = [d \in DOMAIN rows \cup {c} |->
                                IF d = c THEN row ELSE rows[d]]
     IN \/ NoRow(c) /\ Add(Failed) /\ UNCHANGED stage
        \/ /\ ~NoRow(c)
           /\ \E recs \in [DOMAIN trials[c] -> Kept(c)] :
                IF \A i \in DOMAIN recs : time_of(recs[i]) \subseteq recs[i]
                THEN /\ \E ok \in UNION {timing_identity(c, recs[i]) : i \in DOMAIN recs} :
                          Add([error |-> FALSE, n_trials |-> Len(recs),
                               timing_identity_ok |-> ok])
                     /\ UNCHANGED stage
                ELSE stage' = "crashed" /\ UNCHANGED rows
  /\ UNCHANGED <<vars, json, table>>

(* atomic_write_json: the document is there with the rename, or not at all. *)
WriteJson ==
  /\ pc = "done" /\ stage = "session" /\ DOMAIN rows = Configs
  /\ json' = [state |-> "whole", repeats |-> params.repeats, results |-> rows]
  /\ stage' = "csv"
  /\ UNCHANGED <<vars, rows, table>>

(* The table is opened, written and closed; main returns. *)
WriteCsv ==
  /\ stage = "csv" /\ stage' = "written"
  /\ UNCHANGED <<vars, rows, json, table>>

KillMain ==
  /\ pc = "done" /\ stage \in {"session", "csv"}
  /\ Die
  /\ stage' = "session" /\ rows' = Nothing
  /\ UNCHANGED <<json, table>>

(* headline_table.py, by whoever and whenever a document is there. *)
Emits(doc) ==
  /\ \A c \in Headline : ~doc.results[c].error
  /\ \A c \in Configs  : doc.results[c].error \/ doc.results[c].timing_identity_ok

HeadlineTable ==
  /\ json # NoFile /\ table = "none"
  /\ table' = IF Emits(json) THEN "emitted" ELSE "refused"
  /\ UNCHANGED <<vars, stage, rows, json>>

Main == (Harness /\ UNCHANGED report) \/ Summarise \/ WriteJson \/ WriteCsv

ReportNext == \/ Session
              \/ Summarise \/ WriteJson \/ WriteCsv
              \/ KillMain \/ HeadlineTable

ReportSpec == ReportInit /\ [][ReportNext]_all

(***************************************************************************)
(* The harness keeps running while it is not killed, and its timeout does  *)
(* expire.  No trial is assumed to end by itself.                          *)
(***************************************************************************)
FairSpec == ReportSpec /\ WF_all(Main)

-----------------------------------------------------------------------------
(***************************************************************************)
(* A record that run_once kept can be summarised: no session gets to its   *)
(* last round and then loses what it measured for want of a field (the     *)
(* comments at run_bench.py:379-384 and 691-692).                          *)
(***************************************************************************)
MeasurementReported == stage # "crashed"

(***************************************************************************)
(* A headline that was emitted stands on complete rows: every backend in   *)
(* it has a trial of each round of the session in the document, however    *)
(* often that was killed and resumed, and no timing check failed           *)
(* (headline_table.py:81-88).                                              *)
(***************************************************************************)
WholeRow(row, doc) == row.n_trials = doc.repeats /\ row.timing_identity_ok
HeadlineWhole ==
  [][table' = "emitted" /\ table = "none" =>
       \A c \in Headline : WholeRow(json.results[c], json)]_all

(***************************************************************************)
(* A session that is not killed ends with its report written, even if      *)
(* every trial hangs.                                                      *)
(***************************************************************************)
SessionEnds ==
  pc \notin {"start", "refused"} ~> pc = "start" \/ stage = "written"
=============================================================================
