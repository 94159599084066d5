---------------------------- MODULE ScriptProofs ----------------------------
(***************************************************************************)
(* Proofs about the Python scripts, which live by the files they leave     *)
(* when they are killed.                                                   *)
(*                                                                         *)
(* The benchmark session and its report, for any number of configurations, *)
(* rounds, warm-ups and kills: the checkpoint is always a whole one, a     *)
(* finished session is balanced, its processes do not overlap, the         *)
(* replayed generator is exact as far as it can be, what was measured is   *)
(* reported, and a headline has no hole.                                   *)
(*                                                                         *)
(* The exporter and what reads its directory, for any reviews, subsets and *)
(* older exports: a directory that validates is one whole export, wherever *)
(* the exporter was killed; a whole export validates, passes and becomes a *)
(* model; what is cut out of it keeps its promises; and predictions lie    *)
(* within the stars they are made of.                                      *)
(***************************************************************************)
EXTENDS BenchReport, Recommender, ProofLemmas

-----------------------------------------------------------------------------
(* The inductive invariant of the benchmark session. *)
Stages == {"start", "refused", "warmup", "between", "round", "open", "write",
           "replace", "done"}
Started == pc \notin {"start", "refused"}
Running == pc \in {"warmup", "round"}

TrialType == [params : Params, round : Nat]

Typed ==
  /\ pc \in Stages /\ params \in Params /\ round \in Nat /\ kills \in Nat
  /\ live \subseteq Configs /\ errors \subseteq Configs /\ todo \subseteq live
  /\ current \in todo \cup {None}
  /\ trials \in [Configs -> Seq(TrialType)]

Control ==
  /\ Started => live = Configs \ errors
  /\ ~Running => todo = {}
  /\ Started => round <= params.repeats
  /\ pc = "round" => round < params.repeats
  /\ pc = "done" => round = params.repeats
  /\ pc = "warmup" => round = 0 /\ dropped = {} /\ rng = <<>> /\ ~resumed
  /\ ~Started => current = None /\ errors = {}

(* Rounds in which c has run; in a round, those that are not left to do have. *)
Rounds(c) == IF pc = "round" /\ c \notin todo THEN round + 1 ELSE round
Balanced == Started => \A c \in live : OnePerRound(trials[c], Rounds(c), params)

(* What the generator has drawn as long as no configuration was dropped. *)
Drawn ==
  Started /\ pc # "warmup" /\ dropped = {} =>
    rng = Replayed(IF pc = "round" THEN round + 1 ELSE round, Cardinality(live))

WholeFile(f) ==
  /\ f.state = "whole" /\ f.params \in Params
  /\ f.rounds_done \in Nat /\ f.rounds_done <= f.params.repeats
  /\ f.errors \subseteq Configs /\ f.trials \in [Configs -> Seq(TrialType)]
  /\ \A c \in Configs \ f.errors : OnePerRound(f.trials[c], f.rounds_done, f.params)
  /\ f.dropped = {} => f.rng = Replayed(f.rounds_done, Cardinality(Configs \ f.errors))

(* Between two rounds of a resumed session the checkpoint says where it is. *)
OnDisk ==
  /\ ckpt = NoFile \/ WholeFile(ckpt)
  /\ pc = "replace" => tmp = Snapshot
  /\ pc = "between" /\ resumed =>
       ckpt # NoFile /\ ckpt.errors = errors /\ ckpt.dropped = dropped

Roles == {"leader", "child", "stray"}
Processes ==
  \A x \in alive :
    /\ x \in Nat \X Configs \X Roles /\ x[1] <= kills
    /\ x[1] = kills =>
         \/ x[2] = current /\ (x[3] = "leader" \/ (x[3] = "child" /\ current \in Forks))
         \/ x[3] = "stray" /\ x[2] \in errors

IInv == Typed /\ Control /\ Balanced /\ Drawn /\ OnDisk /\ Processes

(* Of the report: a row without an error has a trial of each round. *)
WholeRows(f, repeats) ==
  \A c \in DOMAIN f : f[c].error \in BOOLEAN /\ (~f[c].error => f[c].n_trials = repeats)

ReportInv ==
  /\ stage \in {"session", "csv", "written"}
  /\ pc # "done" => stage = "session" /\ rows = Nothing
  /\ DOMAIN rows \subseteq Configs /\ WholeRows(rows, params.repeats)
  /\ json # NoFile => DOMAIN json.results = Configs /\ WholeRows(json.results, json.repeats)

AllInv == IInv /\ ReportInv

-----------------------------------------------------------------------------
(* Sequences of trials and of draws. *)
LEMMA NoRounds == ASSUME NEW p PROVE OnePerRound(<<>>, 0, p)
BY DEF OnePerRound

LEMMA OneMoreRound ==
  ASSUME NEW p \in Params, NEW n \in Nat, NEW ts \in Seq(TrialType), OnePerRound(ts, n, p)
  PROVE  /\ OnePerRound(Append(ts, Trial(p, n + 1)), n + 1, p)
         /\ Append(ts, Trial(p, n + 1)) \in Seq(TrialType)
<1>1. ts = [i \in 1 .. n |-> Trial(p, i)] /\ Len(ts) = n
  BY DEF OnePerRound
<1>2. Trial(p, n + 1) \in TrialType
  BY DEF Trial, TrialType
<1> QED
  BY <1>1, <1>2 DEF OnePerRound

LEMMA NothingReplayed == ASSUME NEW n PROVE Replayed(0, n) = <<>>
BY DEF Replayed

LEMMA OneMoreShuffle ==
  ASSUME NEW n \in Nat, NEW k \in Nat
  PROVE  Shuffled(Replayed(k, n), n) = Replayed(k + 1, n)
<1>1. CASE n > 1
  <2> DEFINE r == [i \in 1 .. k |-> n]
  <2>1. r \in Seq(Nat) /\ Len(r) = k
    OBVIOUS
  <2>2. Append(r, n) = [i \in 1 .. k + 1 |-> n]
    BY <2>1
  <2> QED
    BY <1>1, <2>2 DEF Shuffled, Replayed
<1>2. CASE ~(n > 1)
  BY <1>2 DEF Shuffled, Replayed
<1> QED
  BY <1>1, <1>2

LEMMA ConfigsFacts ==
  /\ None \notin Configs
  /\ \A S \in SUBSET Configs : Cardinality(S) \in Nat
<1>1. \A S \in SUBSET Configs : IsFiniteSet(S)
  BY ConfigsAssumption, FS_Subset
<1> QED
  BY <1>1, FS_CardinalityType, ConfigsAssumption DEF None

-----------------------------------------------------------------------------
(* The invariant at the beginning, and one lemma for every action. *)
LEMMA InitInv == Init => IInv
<1> SUFFICES ASSUME Init PROVE IInv
  OBVIOUS
<1>1. Typed
  BY DEF Init, Typed, Stages, None
<1>2. Control /\ Balanced /\ Drawn /\ OnDisk /\ Processes
  BY DEF Init, Control, Balanced, Drawn, OnDisk, Processes, Started, Running, NoFile
<1> QED
  BY <1>1, <1>2 DEF IInv

LEMMA StartInv == IInv /\ Start => IInv'
<1> SUFFICES ASSUME IInv, Start PROVE IInv'
  OBVIOUS
<1>1. Typed'
  BY DEF IInv, Typed, Start, Stages, None
<1>2. Control'
  BY ParamsAssumption DEF IInv, Typed, Start, Control, Started, Running
<1>3. Balanced'
  BY NoRounds DEF IInv, Start, Balanced, Rounds, Started
<1>4. Drawn'
  BY DEF Start, Drawn
<1>5. OnDisk'
  BY DEF Start, OnDisk, disk
<1>6. Processes'
  BY DEF IInv, Control, Started, Processes, Start
<1> QED
  BY <1>1, <1>2, <1>3, <1>4, <1>5, <1>6 DEF IInv

LEMMA ResumeInv == IInv /\ Resume => IInv'
<1> SUFFICES ASSUME IInv, Resume PROVE IInv'
  OBVIOUS
<1>1. WholeFile(ckpt) /\ ckpt.params = params' /\ ckpt # NoFile
  BY DEF IInv, OnDisk, Resume, Compatible, NoFile
<1>2. Typed'
  BY <1>1 DEF IInv, Typed, Resume, Stages, None, WholeFile
<1>3. Control'
  BY <1>1 DEF Control, Resume, Started, Running, WholeFile
<1>4. Balanced'
  BY <1>1 DEF Balanced, Resume, Rounds, WholeFile
<1>5. Drawn'
  BY <1>1 DEF Drawn, Resume, WholeFile
<1>6. OnDisk'
  BY <1>1 DEF OnDisk, Resume, disk
<1>7. Processes'
  BY DEF IInv, Control, Started, Processes, Resume
<1> QED
  BY <1>2, <1>3, <1>4, <1>5, <1>6, <1>7 DEF IInv

LEMMA ResumeRefusedInv == IInv /\ ResumeRefused => IInv'
<1> SUFFICES ASSUME IInv, ResumeRefused PROVE IInv'
  OBVIOUS
<1>1. Typed' /\ Control'
  BY DEF IInv, Typed, Control, Stages, Started, Running, ResumeRefused, memory
<1>2. Balanced' /\ Drawn' /\ OnDisk' /\ Processes'
  BY DEF IInv, Balanced, Drawn, OnDisk, Processes, Started, ResumeRefused, memory, disk
<1> QED
  BY <1>1, <1>2 DEF IInv

LEMMA LaunchInv == IInv /\ Launch => IInv'
<1> SUFFICES ASSUME IInv, Launch PROVE IInv'
  OBVIOUS
<1>1. PICK c \in todo : /\ MayRun(c) /\ current' = c
                        /\ alive' = alive \cup Group(c)
  BY DEF Launch
<1>2. c \in Configs /\ pc \in {"warmup", "round"} /\ current = None
  BY <1>1 DEF Launch, MayRun, IInv, Typed
<1>3. Typed'
  BY <1>1 DEF IInv, Typed, Launch, session, disk
<1>4. Control' /\ Balanced' /\ Drawn'
  BY <1>2 DEF IInv, Control, Balanced, Drawn, Rounds, Started, Running, Launch, session
<1>5. OnDisk'
  BY <1>2 DEF IInv, OnDisk, Launch, disk
<1>6. Processes'
  <2>1. c # None /\ c \in live /\ live = Configs \ errors /\ kills \in Nat /\ kills' = kills
        /\ errors' = errors
    BY <1>1, <1>2, ConfigsFacts DEF IInv, Typed, Control, Started, Launch
  <2>2. ASSUME NEW x \in Group(c)
        PROVE  /\ x \in Nat \X Configs \X Roles /\ x[1] = kills /\ x[2] = c
               /\ x[3] = "leader" \/ (x[3] = "child" /\ c \in Forks)
    BY <2>1, <1>2 DEF Group, Roles
  <2>3. ASSUME NEW x \in alive
        PROVE  /\ x \in Nat \X Configs \X Roles /\ x[1] <= kills
               /\ x[1] = kills => x[3] = "stray" /\ x[2] \in errors
    BY <1>2, ConfigsFacts DEF IInv, Processes
  <2> QED
    BY <1>1, <2>1, <2>2, <2>3 DEF Processes
<1> QED
  BY <1>3, <1>4, <1>5, <1>6 DEF IInv

(***************************************************************************)
(* What Record, Fail and Timeout have in common: the running trial ends,   *)
(* with every process of it, in a warm-up or in a round.                   *)
(***************************************************************************)
LEMMA TrialFacts ==
  ASSUME IInv, current # None
  PROVE  /\ current \in todo /\ current \in live /\ current \in Configs
         /\ pc \in {"warmup", "round"}
         /\ OnePerRound(trials[current], round, params)
         /\ \A x \in alive \ Group(current) :
              /\ x \in Nat \X Configs \X Roles /\ x[1] <= kills
              /\ x[1] = kills => x[3] = "stray" /\ x[2] \in errors
<1>1. current \in todo /\ current \in live /\ current \in Configs /\ pc \in {"warmup", "round"}
  BY DEF IInv, Typed, Control, Running
<1>2. OnePerRound(trials[current], round, params)
  BY <1>1 DEF IInv, Balanced, Rounds, Started
<1>3. ASSUME NEW x \in alive \ Group(current)
      PROVE  /\ x \in Nat \X Configs \X Roles /\ x[1] <= kills
             /\ x[1] = kills => x[3] = "stray" /\ x[2] \in errors
  <2>1. x \in Nat \X Configs \X Roles /\ x = <<x[1], x[2], x[3]>>
    BY DEF IInv, Processes
  <2> QED
    BY <2>1, <1>3 DEF IInv, Processes, Group
<1> QED
  BY <1>1, <1>2, <1>3

LEMMA RecordInv == IInv /\ Record => IInv'
<1> SUFFICES ASSUME IInv, Record PROVE IInv'
  OBVIOUS
<1>1. current # None
  BY DEF Record
<1> USE <1>1, TrialFacts
<1>2. CASE pc = "warmup"
  <2>1. todo' \subseteq todo /\ trials' = trials
    BY <1>2 DEF Record, TrialOver
  <2>2. Typed'
    BY <1>2, <2>1 DEF IInv, Typed, Record, session
  <2>3. Control' /\ Balanced' /\ Drawn'
    BY <1>2, <2>1 DEF IInv, Control, Balanced, Drawn, Rounds, Started, Running, Record, session
  <2> QED
    BY <1>2, <2>2, <2>3 DEF IInv, OnDisk, Processes, Record, disk
<1>3. CASE pc = "round"
  <2>1. /\ todo' = todo \ {current}
        /\ trials' = [trials EXCEPT ![current] = Append(@, Trial(params, round + 1))]
    BY <1>3 DEF Record, TrialOver
  <2>2. /\ OnePerRound(trials'[current], round + 1, params)
        /\ trials'[current] \in Seq(TrialType)
    BY <2>1, OneMoreRound DEF IInv, Typed
  <2>3. Typed'
    BY <1>3, <2>1, <2>2 DEF IInv, Typed, Record, session
  <2>4. Control' /\ Drawn'
    BY <1>3 DEF IInv, Control, Drawn, Started, Running, Record, session
  <2>5. Balanced'
    BY <1>3, <2>1, <2>2 DEF IInv, Typed, Balanced, Rounds, Started, Record, session
  <2> QED
    BY <1>3, <2>3, <2>4, <2>5 DEF IInv, OnDisk, Processes, Record, disk
<1> QED
  BY <1>2, <1>3

(* Fail and Timeout differ in what ends the processes. *)
LEMMA DisableInv ==
  ASSUME IInv, current # None, Disable,
         alive' \subseteq (alive \ Group(current)) \cup {Stray(current)}
  PROVE  IInv'
<1> USE TrialFacts
<1>1. Typed'
  BY ConfigsFacts DEF IInv, Typed, Disable, session
<1>2. Control'
  BY DEF IInv, Control, Started, Running, Disable, session
<1>3. Balanced'
  BY DEF IInv, Balanced, Rounds, Started, Disable, session
<1>4. Drawn'
  BY DEF IInv, Drawn, Started, Disable, session
<1>5. OnDisk'
  BY DEF IInv, OnDisk, Disable, disk
<1>6. Processes'
  <2>1. kills \in Nat /\ kills' = kills /\ errors' = errors \cup {current} /\ current \in Configs
    BY DEF IInv, Typed, Disable
  <2>2. /\ Stray(current) \in Nat \X Configs \X Roles /\ Stray(current)[1] = kills
        /\ Stray(current)[2] = current /\ Stray(current)[3] = "stray"
    BY <2>1 DEF Stray, Roles
  <2> QED
    BY <2>1, <2>2 DEF Processes
<1> QED
  BY <1>1, <1>2, <1>3, <1>4, <1>5, <1>6 DEF IInv

LEMMA FailInv == IInv /\ Fail => IInv'
<1> SUFFICES ASSUME IInv, Fail PROVE IInv'
  OBVIOUS
<1>1. alive' \subseteq (alive \ Group(current)) \cup {Stray(current)}
  BY DEF Fail
<1> QED
  BY <1>1, DisableInv DEF Fail

LEMMA TimeoutInv == IInv /\ Timeout => IInv'
<1> SUFFICES ASSUME IInv, Timeout PROVE IInv'
  OBVIOUS
<1>1. alive' \subseteq (alive \ Group(current)) \cup {Stray(current)}
  BY DEF Timeout, Killed
<1> QED
  BY <1>1, DisableInv DEF Timeout

LEMMA WarmedUpInv == IInv /\ WarmedUp => IInv'
<1> SUFFICES ASSUME IInv, WarmedUp PROVE IInv'
  OBVIOUS
<1>1. pc = "warmup" /\ todo = {} /\ pc' = "between" /\ round = 0 /\ ~resumed
  BY DEF WarmedUp, IInv, Control
<1>2. UNCHANGED <<session, memory, alive, disk, kills>>
  BY DEF WarmedUp
<1>3. Typed' /\ Control' /\ Balanced'
  BY <1>1, <1>2 DEF IInv, Typed, Stages, Control, Balanced, Rounds, Started, Running, session, memory
<1>4. Drawn'
  BY <1>1, <1>2, NothingReplayed DEF IInv, Control, Drawn, memory
<1>5. OnDisk' /\ Processes'
  BY <1>1, <1>2 DEF IInv, OnDisk, Processes, session, memory, disk
<1> QED
  BY <1>3, <1>4, <1>5 DEF IInv

LEMMA BeginRoundInv == IInv /\ BeginRound => IInv'
<1> SUFFICES ASSUME IInv, BeginRound PROVE IInv'
  OBVIOUS
<1>1. /\ pc = "between" /\ pc' = "round" /\ round < params.repeats /\ todo' = live
      /\ rng' = Shuffled(rng, Cardinality(live))
      /\ UNCHANGED <<session, live, errors, dropped, trials, round, current, alive, disk, kills>>
  BY DEF BeginRound
<1>2. current = None
  BY <1>1 DEF IInv, Typed, Control, Running
<1>3. Typed' /\ Control'
  BY <1>1, <1>2 DEF IInv, Typed, Stages, Control, Started, Running, session
<1>4. Balanced'
  BY <1>1 DEF IInv, Balanced, Rounds, Started, session
<1>5. Drawn'
  <2>1. Cardinality(live) \in Nat /\ round \in Nat
    BY ConfigsFacts DEF IInv, Typed
  <2>2. dropped = {} => rng = Replayed(round, Cardinality(live))
    BY <1>1 DEF IInv, Drawn, Started
  <2> QED
    BY <1>1, <2>1, <2>2, OneMoreShuffle DEF Drawn
<1>6. OnDisk' /\ Processes'
  BY <1>1 DEF IInv, OnDisk, Processes, disk
<1> QED
  BY <1>3, <1>4, <1>5, <1>6 DEF IInv

LEMMA EndRoundInv == IInv /\ EndRound => IInv'
<1> SUFFICES ASSUME IInv, EndRound PROVE IInv'
  OBVIOUS
<1>1. /\ pc = "round" /\ todo = {} /\ round' = round + 1 /\ pc' = "open"
      /\ UNCHANGED <<session, live, errors, dropped, trials, todo, current, rng, alive, disk, kills>>
  BY DEF EndRound
<1>2. round + 1 <= params.repeats
  BY <1>1, ParamsAssumption DEF IInv, Typed, Control
<1>3. Typed' /\ Control'
  BY <1>1, <1>2 DEF IInv, Typed, Stages, Control, Started, Running, session
<1>4. Balanced' /\ Drawn'
  BY <1>1 DEF IInv, Balanced, Drawn, Rounds, Started, session
<1>5. OnDisk' /\ Processes'
  BY <1>1 DEF IInv, OnDisk, Processes, disk
<1> QED
  BY <1>3, <1>4, <1>5 DEF IInv

(* The three steps of atomic_write_json touch files only. *)
LEMMA WritingInv ==
  ASSUME IInv, pc \in {"open", "write", "replace"}, pc' \in {"write", "replace", "between"},
         UNCHANGED <<session, memory, alive, kills>>, OnDisk'
  PROVE  IInv'
<1>1. Typed' /\ Control'
  BY DEF IInv, Typed, Stages, Control, Started, Running, session, memory
<1>2. Balanced' /\ Drawn' /\ Processes'
  BY DEF IInv, Balanced, Drawn, Processes, Rounds, Started, session, memory
<1> QED
  BY <1>1, <1>2 DEF IInv

LEMMA SnapshotWhole == IInv /\ pc = "replace" => WholeFile(Snapshot)
<1> SUFFICES ASSUME IInv, pc = "replace" PROVE WholeFile(Snapshot)
  OBVIOUS
<1>1. live = Configs \ errors /\ round <= params.repeats
  BY DEF IInv, Control, Started
<1>2. \A c \in Configs \ errors : OnePerRound(trials[c], round, params)
  BY <1>1 DEF IInv, Balanced, Rounds, Started
<1>3. dropped = {} => rng = Replayed(round, Cardinality(Configs \ errors))
  BY <1>1 DEF IInv, Drawn, Started
<1> QED
  BY <1>1, <1>2, <1>3 DEF IInv, Typed, WholeFile, Snapshot

LEMMA OpenTmpInv == IInv /\ OpenTmp => IInv'
<1> SUFFICES ASSUME IInv, OpenTmp PROVE IInv'
  OBVIOUS
<1>1. OnDisk'
  BY DEF IInv, OnDisk, OpenTmp
<1> QED
  BY <1>1, WritingInv DEF OpenTmp

LEMMA WriteTmpInv == IInv /\ WriteTmp => IInv'
<1> SUFFICES ASSUME IInv, WriteTmp PROVE IInv'
  OBVIOUS
<1>1. Snapshot' = Snapshot
  BY DEF WriteTmp, Snapshot, session, memory
<1>2. OnDisk'
  BY <1>1 DEF IInv, OnDisk, WriteTmp
<1> QED
  BY <1>2, WritingInv DEF WriteTmp

LEMMA ReplaceInv == IInv /\ Replace => IInv'
<1> SUFFICES ASSUME IInv, Replace PROVE IInv'
  OBVIOUS
<1>1. ckpt' = Snapshot /\ WholeFile(Snapshot)
  BY SnapshotWhole DEF IInv, OnDisk, Replace
<1>2. ckpt'.errors = errors' /\ ckpt'.dropped = dropped' /\ ckpt' # NoFile
  BY <1>1 DEF Snapshot, Replace, memory, NoFile
<1>3. OnDisk'
  BY <1>1, <1>2 DEF OnDisk, Replace
<1> QED
  BY <1>3, WritingInv DEF Replace

LEMMA FinishInv == IInv /\ Finish => IInv'
<1> SUFFICES ASSUME IInv, Finish PROVE IInv'
  OBVIOUS
<1>1. /\ pc = "between" /\ pc' = "done" /\ round >= params.repeats
      /\ UNCHANGED <<session, memory, alive, disk, kills>>
  BY DEF Finish
<1>2. Typed' /\ Control'
  BY <1>1, ParamsAssumption DEF IInv, Typed, Stages, Control, Started, Running, session, memory
<1>3. Balanced' /\ Drawn'
  BY <1>1 DEF IInv, Balanced, Drawn, Rounds, Started, session, memory
<1>4. OnDisk' /\ Processes'
  BY <1>1 DEF IInv, OnDisk, Processes, session, memory, disk
<1> QED
  BY <1>2, <1>3, <1>4 DEF IInv

(* A kill at any moment, of the session or of main after it. *)
LEMMA DieInv == IInv /\ Die => IInv'
<1> SUFFICES ASSUME IInv, Die PROVE IInv'
  OBVIOUS
<1>1. Typed'
  BY DEF IInv, Typed, Die, Stages, session
<1>2. Control' /\ Balanced' /\ Drawn' /\ OnDisk'
  BY DEF IInv, Control, Balanced, Drawn, OnDisk, Started, Running, Die, session, disk
<1>3. Processes'
  BY DEF IInv, Typed, Processes, Die
<1> QED
  BY <1>1, <1>2, <1>3 DEF IInv

LEMMA OrphanEndsInv == IInv /\ OrphanEnds => IInv'
<1> SUFFICES ASSUME IInv, OrphanEnds PROVE IInv'
  OBVIOUS
<1>1. UNCHANGED <<pc, session, memory, disk, kills>> /\ alive' \subseteq alive
  BY DEF OrphanEnds
<1>2. Typed' /\ Control' /\ Balanced' /\ Drawn'
  BY <1>1 DEF IInv, Typed, Control, Balanced, Drawn, Rounds, Started, Running, session, memory
<1>3. OnDisk' /\ Processes'
  BY <1>1 DEF IInv, OnDisk, Processes, Snapshot, session, memory, disk
<1> QED
  BY <1>2, <1>3 DEF IInv

LEMMA StutterInv == IInv /\ UNCHANGED vars => IInv'
BY DEF IInv, Typed, Control, Balanced, Drawn, OnDisk, Processes, Rounds, Started, Running,
       Snapshot, vars, session, memory, disk

LEMMA NextInv == IInv /\ (Next \/ Die) => IInv'
BY StartInv, ResumeInv, ResumeRefusedInv, LaunchInv, TimeoutInv, WarmedUpInv, BeginRoundInv,
   EndRoundInv, OpenTmpInv, WriteTmpInv, ReplaceInv, FinishInv, RecordInv, FailInv, DieInv,
   OrphanEndsInv
   DEF Next, Harness, Kill

-----------------------------------------------------------------------------
(***************************************************************************)
(* What a process printed: whatever lines of it arrived, time_of finds the *)
(* fields it adds up in every record that run_once kept.                   *)
(***************************************************************************)
LEMMA LinesOf ==
  ASSUME NEW c \in Configs, NEW rec \in Kept(c)
  PROVE  \/ Backend[c] # "cuda" /\ rec \in Lines(c)
         \/ Backend[c] = "cuda" /\ rec \in {CudaDetail, CudaSummary, CudaDetail \cup CudaSummary}
<1>1. PICK ls \in SUBSET Lines(c) : rec = UNION ls /\ Accepted(rec)
  BY DEF Kept
<1>2. rec # {}
  BY <1>1 DEF Accepted
<1>3. ls # {}
  BY <1>1, <1>2
<1>4. CASE Backend[c] = "cuda"
  <2>1. Lines(c) = {CudaDetail, CudaSummary}
    BY <1>4 DEF Lines
  <2>2. ls \in {{CudaDetail}, {CudaSummary}, {CudaDetail, CudaSummary}}
    BY <1>3, <2>1
  <2>3. UNION ls \in {CudaDetail, CudaSummary, CudaDetail \cup CudaSummary}
    BY <2>2
  <2> QED
    BY <1>1, <1>4, <2>3
<1>5. CASE Backend[c] # "cuda"
  <2>1. Backend[c] \in {"serial", "openmp", "mpi", "sync", "async"}
    BY <1>5, BackendAssumption
  <2>2. PICK l : Lines(c) = {l}
    BY <2>1 DEF Lines
  <2>3. ls = {l}
    BY <1>3, <2>2
  <2> QED
    BY <1>1, <1>5, <2>2, <2>3
<1> QED
  BY <1>4, <1>5

LEMMA TimeFound ==
  ASSUME NEW c \in Configs, NEW rec \in Kept(c)
  PROVE  time_of(rec) \subseteq rec
<1>1. CASE Backend[c] \in {"serial", "openmp", "mpi", "sync"}
  <2>1. HostLine \subseteq rec
    BY <1>1, LinesOf DEF Lines, NcclLine
  <2>2. {"device_total_s", "basis=device_total"} \subseteq rec
    BY <2>1 DEF HostLine
  <2> QED
    BY <2>2 DEF time_of
<1>2. CASE Backend[c] = "async"
  <2>1. rec = (NcclLine \ {"basis=device_total"}) \cup {"basis=pipeline_total", "mode=async"}
    BY <1>2, LinesOf DEF Lines
  <2>2. "mode=async" \in rec /\ "t_pipeline_s" \in rec /\ "basis=device_total" \notin rec
    BY <2>1 DEF NcclLine
  <2> QED
    BY <2>2 DEF time_of
<1>3. CASE Backend[c] = "cuda"
  <2>1. CASE CudaDetail \subseteq rec
    <3>1. {"device_total_s", "basis=device_total"} \subseteq rec
      BY <2>1 DEF CudaDetail
    <3> QED
      BY <3>1 DEF time_of
  <2>2. CASE rec = CudaSummary
    <3>1. /\ "device_total_s" \notin rec /\ "mode=async" \notin rec
          /\ "t_kernel_stats_s" \notin rec /\ "t_compute_s" \in rec
      BY <2>2 DEF CudaSummary, Verdict
    <3> QED
      BY <3>1 DEF time_of
  <2> QED
    BY <1>3, <2>1, <2>2, LinesOf
<1> QED
  BY <1>1, <1>2, <1>3, BackendAssumption

-----------------------------------------------------------------------------
(* The next configuration to be summarised is one that has no row yet. *)
LEMMA SummariseInv == AllInv /\ Summarise => AllInv'
<1> SUFFICES ASSUME AllInv, Summarise PROVE AllInv'
  OBVIOUS
<1> DEFINE c == Min(Configs \ DOMAIN rows)
           Add(row) == rows' = [d \in DOMAIN rows \cup {c} |-> IF d = c THEN row ELSE rows[d]]
<1>1. /\ pc = "done" /\ stage = "session" /\ DOMAIN rows # Configs
      /\ UNCHANGED <<vars, json, table>>
  BY DEF Summarise
<1>2. c \in Configs
  BY <1>1, MinMember, ConfigsAssumption DEF AllInv, ReportInv
<1>3. IInv'
  BY <1>1, StutterInv DEF AllInv
<1>4. ASSUME NEW row, Add(row), row.error \in BOOLEAN, ~row.error => row.n_trials = params.repeats,
             stage' = stage
      PROVE  AllInv'
  <2>1. DOMAIN rows' \subseteq Configs /\ WholeRows(rows', params.repeats)
    BY <1>2, <1>4 DEF AllInv, ReportInv, WholeRows
  <2>2. params' = params /\ pc' = pc /\ json' = json
    BY <1>1 DEF vars, session
  <2> QED
    BY <1>1, <1>3, <1>4, <2>1, <2>2 DEF AllInv, ReportInv
<1>5. CASE NoRow(c) /\ Add(Failed) /\ UNCHANGED stage
  <2>1. Failed.error = TRUE
    BY DEF Failed
  <2> HIDE DEF Add, c
  <2> QED
    BY <1>4, <1>5, <2>1
<1>6. CASE /\ ~NoRow(c)
           /\ \E recs \in [DOMAIN trials[c] -> Kept(c)] :
                IF \A i \in DOMAIN recs : time_of(recs[i]) \subseteq recs[i]
                THEN /\ \E ok \in UNION {timing_identity(c, recs[i]) : i \in DOMAIN recs} :
                          Add([error |-> FALSE, n_trials |-> Len(recs),
                               timing_identity_ok |-> ok])
                     /\ UNCHANGED stage
                ELSE stage' = "crashed" /\ UNCHANGED rows
  <2>1. PICK recs \in [DOMAIN trials[c] -> Kept(c)] :
                IF \A i \in DOMAIN recs : time_of(recs[i]) \subseteq recs[i]
                THEN /\ \E ok \in UNION {timing_identity(c, recs[i]) : i \in DOMAIN recs} :
                          Add([error |-> FALSE, n_trials |-> Len(recs),
                               timing_identity_ok |-> ok])
                     /\ UNCHANGED stage
                ELSE stage' = "crashed" /\ UNCHANGED rows
    BY <1>6
  <2>2. \A i \in DOMAIN recs : time_of(recs[i]) \subseteq recs[i]
    BY <1>2, TimeFound
  <2>3. PICK ok : /\ Add([error |-> FALSE, n_trials |-> Len(recs), timing_identity_ok |-> ok])
                  /\ UNCHANGED stage
    BY <2>1, <2>2
  <2>4. Len(recs) = params.repeats
    <3>1. c \in live /\ round = params.repeats /\ params.repeats \in Nat
      BY <1>1, <1>2, <1>6, ParamsAssumption DEF NoRow, AllInv, IInv, Typed, Control, Started
    <3>2. trials[c] = [i \in 1 .. params.repeats |-> Trial(params, i)]
      BY <1>1, <3>1 DEF AllInv, IInv, Balanced, Rounds, Started, OnePerRound
    <3> QED
      BY <3>1, <3>2
  <2> HIDE DEF Add, c
  <2> QED
    BY <1>4, <2>3, <2>4
<1> QED
  BY <1>5, <1>6 DEF Summarise

LEMMA SessionInv == AllInv /\ Session => AllInv'
<1> SUFFICES ASSUME AllInv, Session PROVE AllInv'
  OBVIOUS
<1>1. Next /\ UNCHANGED report /\ IInv'
  BY NextInv DEF AllInv, Session
<1>2. CASE pc # "done"
  <2>1. WholeRows(Nothing, params'.repeats) /\ DOMAIN Nothing = {}
    BY DEF WholeRows, Nothing
  <2> QED
    BY <1>1, <1>2, <2>1 DEF AllInv, ReportInv, report
<1>3. CASE pc = "done"
  <2>1. todo = {} /\ current = None
    BY <1>3 DEF AllInv, IInv, Typed, Control, Running
  <2>2. pc' = pc /\ params' = params
    BY <1>1, <1>3, <2>1
       DEF Next, Start, Resume, ResumeRefused, Harness, Launch, Timeout, WarmedUp, BeginRound,
           EndRound, OpenTmp, WriteTmp, Replace, Finish, Record, Fail, Kill, OrphanEnds, session
  <2> QED
    BY <1>1, <2>2 DEF AllInv, ReportInv, report
<1> QED
  BY <1>2, <1>3

LEMMA MainInv == AllInv /\ (WriteJson \/ WriteCsv \/ KillMain \/ HeadlineTable) => AllInv'
<1> SUFFICES ASSUME AllInv, WriteJson \/ WriteCsv \/ KillMain \/ HeadlineTable PROVE AllInv'
  OBVIOUS
<1>1. CASE WriteJson
  <2>1. IInv' /\ params' = params /\ pc' = "done"
    BY <1>1, StutterInv DEF AllInv, WriteJson, vars, session
  <2> QED
    BY <1>1, <2>1 DEF AllInv, ReportInv, WriteJson
<1>2. CASE WriteCsv
  <2>1. IInv' /\ params' = params /\ pc' = pc
    BY <1>2, StutterInv DEF AllInv, WriteCsv, vars, session
  <2> QED
    BY <1>2, <2>1 DEF AllInv, ReportInv, WriteCsv
<1>3. CASE KillMain
  <2>1. IInv' /\ pc' = "start"
    BY <1>3, DieInv DEF AllInv, KillMain, Die
  <2>2. WholeRows(Nothing, params'.repeats) /\ DOMAIN Nothing = {}
    BY DEF WholeRows, Nothing
  <2> QED
    BY <1>3, <2>1, <2>2 DEF AllInv, ReportInv, KillMain
<1>4. CASE HeadlineTable
  <2>1. IInv' /\ params' = params /\ pc' = pc
    BY <1>4, StutterInv DEF AllInv, HeadlineTable, vars, session
  <2> QED
    BY <1>4, <2>1 DEF AllInv, ReportInv, HeadlineTable
<1> QED
  BY <1>1, <1>2, <1>3, <1>4

(* The invariant of the session and of its report. *)
THEOREM BenchInvariance == ReportSpec => []AllInv
<1>1. ReportInit => AllInv
  <2> SUFFICES ASSUME ReportInit PROVE AllInv
    OBVIOUS
  <2>1. IInv
    BY InitInv DEF ReportInit
  <2>2. ReportInv
    BY DEF ReportInit, Init, ReportInv, Nothing, WholeRows
  <2> QED
    BY <2>1, <2>2 DEF AllInv
<1>2. AllInv /\ [ReportNext]_all => AllInv'
  <2>1. AllInv /\ UNCHANGED all => AllInv'
    BY StutterInv DEF AllInv, ReportInv, all, report, vars, session
  <2> QED
    BY <2>1, SessionInv, SummariseInv, MainInv DEF ReportNext
<1> QED
  BY <1>1, <1>2, PTL DEF ReportSpec

-----------------------------------------------------------------------------
(* Whenever the harness is killed, the checkpoint is whole and balanced. *)
THEOREM Checkpointing == ReportSpec => []CheckpointConsistent
<1>1. AllInv => CheckpointConsistent
  BY DEF AllInv, IInv, OnDisk, WholeFile, CheckpointConsistent
<1> QED
  BY <1>1, BenchInvariance, PTL

(* However often it was killed and resumed, a session that is done has one  *)
(* trial of every round of each configuration that did not fail.           *)
THEOREM Balance == ReportSpec => []BalancedReport
<1>1. AllInv => BalancedReport
  BY DEF AllInv, IInv, Typed, Control, Balanced, Rounds, Started, BalancedReport
<1> QED
  BY <1>1, BenchInvariance, PTL

(* A session has processes of one trial only, but for what mpirun left behind   *)
(* where it crashed; those belong to configurations that are out of it.        *)
THEOREM Alone == ReportSpec => []OneTrialPerSession
<1>1. AllInv => OneTrialPerSession
  <2> SUFFICES ASSUME AllInv, NEW x \in alive, x[1] = kills, x[2] # current
               PROVE  x = Stray(x[2]) /\ x[2] \in errors \ live
    BY DEF OneTrialPerSession
  <2>1. /\ x \in Nat \X Configs \X Roles /\ x = <<x[1], x[2], x[3]>>
        /\ x[3] = "stray" /\ x[2] \in errors
    BY DEF AllInv, IInv, Processes
  <2>2. x[2] \notin live
    BY <2>1 DEF AllInv, IInv, Control
  <2> QED
    BY <2>1, <2>2 DEF Stray
<1> QED
  BY <1>1, BenchInvariance, PTL

(* The replay puts the generator where it was unless a configuration was    *)
(* dropped in a round.                                                     *)
THEOREM Replaying == ReportSpec => []ReplayExact
<1>1. AllInv => ReplayExact
  <2> SUFFICES ASSUME AllInv, AtResume, dropped = {} PROVE rng = ckpt.rng
    BY DEF ReplayExact
  <2>1. WholeFile(ckpt) /\ ckpt.errors = errors /\ ckpt.dropped = {} /\ round = ckpt.rounds_done
    BY DEF AllInv, IInv, OnDisk, AtResume
  <2>2. live = Configs \ errors /\ rng = Replayed(round, Cardinality(live))
    BY DEF AllInv, IInv, Control, Drawn, Started, AtResume
  <2> QED
    BY <2>1, <2>2 DEF WholeFile
<1> QED
  BY <1>1, BenchInvariance, PTL

(* No session loses what it measured for want of a field. *)
THEOREM Reporting == ReportSpec => []MeasurementReported
<1>1. AllInv => MeasurementReported
  BY DEF AllInv, ReportInv, MeasurementReported
<1> QED
  BY <1>1, BenchInvariance, PTL

(* A headline that is emitted stands on complete rows. *)
THEOREM Headlines == ReportSpec => HeadlineWhole
<1>1. AllInv /\ [ReportNext]_all =>
        [table' = "emitted" /\ table = "none" =>
           \A c \in Headline : WholeRow(json.results[c], json)]_all
  <2> SUFFICES ASSUME AllInv, ReportNext, table' = "emitted", table = "none", NEW c \in Headline
               PROVE  WholeRow(json.results[c], json)
    OBVIOUS
  <2>1. HeadlineTable
    BY DEF ReportNext, Session, report, Summarise, WriteJson, WriteCsv, KillMain
  <2>2. json # NoFile /\ Emits(json)
    BY <2>1 DEF HeadlineTable
  <2>3. c \in Configs /\ ~json.results[c].error /\ json.results[c].timing_identity_ok
    BY <2>2, HeadlineAssumption DEF Emits
  <2> QED
    BY <2>2, <2>3 DEF AllInv, ReportInv, WholeRows, WholeRow
<1> QED
  BY <1>1, BenchInvariance, PTL DEF ReportSpec, HeadlineWhole

-----------------------------------------------------------------------------
(* A similarity: the signed square of a numerator, in lowest terms. *)
Sims == [p : Int, q : Nat \ {0}]

LEMMA SignedTyped ==
  ASSUME NEW num \in Int, NEW den \in Nat \ {0}
  PROVE  Signed(num, den) \in Sims
<1> DEFINE sq == num * num
           D  == {d \in 1 .. den : den % d = 0 /\ sq % d = 0}
           g  == Max(D)
<1>1. sq \in Int
  OBVIOUS
<1> HIDE DEF sq
<1>2. 1 \in D
  <2>1. den % 1 = 0 /\ sq % 1 = 0
    BY <1>1, ModUnique
  <2> QED
    BY <2>1
<1>3. g \in D
  <2>1. D \subseteq Int /\ D # {} /\ den \in Int /\ \A d \in D : d <= den
    BY <1>2
  <2> HIDE DEF D
  <2>2. Max(D) \in D
    BY <2>1, MaxMember
  <2> QED
    BY <2>2
<1> HIDE DEF g
<1>4. g \in Nat \ {0} /\ g <= den
  BY <1>3
<1>5. den \div g \in Nat \ {0}
  <2>1. g * 1 <= den /\ 1 \in Nat
    BY <1>4
  <2>2. 1 <= den \div g
    BY <1>4, <2>1, DivGalois
  <2> QED
    BY <1>4, <2>2, DivBounds
<1>6. (IF num < 0 THEN -sq ELSE sq) \div g \in Int
  <2>1. (IF num < 0 THEN -sq ELSE sq) \in Int
    BY <1>1
  <2> QED
    BY <1>4, <2>1, ModBounds
<1> QED
  BY <1>5, <1>6 DEF Signed, Sims, sq, g

LEMMA StatsTyped ==
  ASSUME NEW n \in Int, NEW sx \in Int, NEW sy \in Int, NEW sxx \in Int, NEW syy \in Int, NEW sxy \in Int
  PROVE  pearson_from_stats(n, sx, sy, sxx, syy, sxy) \in Sims
<1>1. PICK num, vx, vy : /\ num = n * sxy - sx * sy /\ vx = n * sxx - sx * sx /\ vy = n * syy - sy * sy
                         /\ num \in Int /\ vx \in Int /\ vy \in Int
  OBVIOUS
<1>2. Zero \in Sims
  BY DEF Zero, Sims
<1>3. CASE num = 0 \/ vx <= 0 \/ vy <= 0
  BY <1>1, <1>2, <1>3 DEF pearson_from_stats
<1>4. CASE ~ (num = 0 \/ vx <= 0 \/ vy <= 0)
  <2>1. vx * vy \in Nat \ {0}
    <3>1. vx \in Nat \ {0} /\ vy \in Nat \ {0}
      BY <1>1, <1>4
    <3> QED
      BY <3>1
  <2>2. pearson_from_stats(n, sx, sy, sxx, syy, sxy) = Signed(num, vx * vy)
    BY <1>1, <1>4 DEF pearson_from_stats
  <2> QED
    BY <1>1, <2>1, <2>2, SignedTyped
<1> QED
  BY <1>3, <1>4

LEMMA TotalTyped ==
  ASSUME NEW D, IsFiniteSet(D), NEW T, 0 \in T, \A a, b \in T : a + b \in T,
         NEW v, \A d \in D : v[d] \in T
  PROVE  Total(v, D) \in T
<1> DEFINE Rec(f) == [q \in SUBSET D |-> IF q = {} THEN 0 ELSE v[CHOOSE x \in q : TRUE]
                                          + f[q \ {CHOOSE x \in q : TRUE}]]
<1>1. Total(v, D) = (CHOOSE f : f = Rec(f))[D]
  BY DEF Total, FoldFunctionOnSet, MapThenFoldSet
<1>2. \A f : Rec(f) = [q \in SUBSET D |-> Adds(v, q, f)]
  BY DEF Adds, AnyOf
<1> HIDE DEF Rec
<1>3. PICK h : SumsOf(v, D, h, T)
  BY SumsExist
<1>4. h = Rec(h)
  BY <1>2, <1>3 DEF SumsOf, Summing
<1>5. PICK f : f = (CHOOSE g : g = Rec(g))
  OBVIOUS
<1>6. f = Rec(f)
  BY <1>4, <1>5
<1>7. Summing(v, D, f)
  BY <1>2, <1>6 DEF Summing
<1>8. \A u \in SUBSET D : f[u] = h[u]
  BY <1>3, <1>7, SumsUnique DEF SumsOf
<1>9. f[D] \in T
  BY <1>3, <1>8 DEF SumsOf
<1> QED
  BY <1>1, <1>5, <1>9

LEMMA DotTyped ==
  ASSUME NEW v, NEW w, NEW D, IsFiniteSet(D), \A d \in D : v[d] \in Int /\ w[d] \in Int
  PROVE  Dot(v, w, D) \in Int
<1> DEFINE vw == [d \in D |-> v[d] * w[d]]
<1>1. \A d \in D : vw[d] \in Int
  <2> SUFFICES ASSUME NEW d \in D PROVE v[d] * w[d] \in Int
    OBVIOUS
  <2>1. v[d] \in Int /\ w[d] \in Int
    OBVIOUS
  <2> QED
    BY <2>1
<1> HIDE DEF vw
<1>2. Total(vw, D) \in Int
  <2>1. 0 \in Int /\ \A a, b \in Int : a + b \in Int
    OBVIOUS
  <2> QED
    BY <1>1, <2>1, TotalTyped
<1> QED
  BY <1>2 DEF Dot, vw

LEMMA OverlapFacts ==
  ASSUME NEW r, NEW s, IsVector(r), IsVector(s)
  PROVE  /\ IsFiniteSet(Overlap(r, s)) /\ Cardinality(Overlap(r, s)) \in Nat
         /\ \A d \in Overlap(r, s) : r[d] \in Int /\ s[d] \in Int
<1>1. IsFiniteSet(Overlap(r, s))
  BY FS_Subset DEF Overlap, IsVector
<1> QED
  BY <1>1, FS_CardinalityType DEF Overlap, IsVector

LEMMA PairSimTyped ==
  ASSUME NEW r, NEW s, IsVector(r), IsVector(s)
  PROVE  pair_sim(r, s) \in Sims
<1> DEFINE D == Overlap(r, s)
<1>1. IsFiniteSet(D) /\ Cardinality(D) \in Nat /\ \A d \in D : r[d] \in Int /\ s[d] \in Int
  BY OverlapFacts
<1> HIDE DEF D
<1>2. Total(r, D) \in Int /\ Total(s, D) \in Int
  <2>1. 0 \in Int /\ \A a, b \in Int : a + b \in Int
    OBVIOUS
  <2> QED
    BY <1>1, <2>1, TotalTyped
<1>3. Dot(r, r, D) \in Int /\ Dot(s, s, D) \in Int /\ Dot(r, s, D) \in Int
  BY <1>1, DotTyped
<1>4. pearson_from_stats(Cardinality(D), Total(r, D), Total(s, D), Dot(r, r, D), Dot(s, s, D), Dot(r, s, D)) \in Sims
  BY <1>1, <1>2, <1>3, StatsTyped
<1> QED
  BY <1>4 DEF pair_sim, D

(* The form of the training: a sum of squares is not negative. *)
LEMMA SquaresTyped ==
  ASSUME NEW v, NEW D, IsFiniteSet(D), \A d \in D : v[d] \in Int
  PROVE  Dot(v, v, D) \in Nat
<1> DEFINE vv == [d \in D |-> v[d] * v[d]]
<1>1. \A d \in D : vv[d] \in Nat
  <2> SUFFICES ASSUME NEW d \in D PROVE v[d] * v[d] \in Nat
    OBVIOUS
  <2>1. PICK x \in Int : x = v[d]
    OBVIOUS
  <2>2. x * x \in Nat
    BY SMT
  <2> QED
    BY <2>1, <2>2
<1> HIDE DEF vv
<1>2. Total(vv, D) \in Nat
  <2>1. 0 \in Nat /\ \A a, b \in Nat : a + b \in Nat
    OBVIOUS
  <2> QED
    BY <1>1, <2>1, TotalTyped
<1> QED
  BY <1>2 DEF Dot, vv

LEMMA PearsonTyped ==
  ASSUME NEW r, NEW s, IsVector(r), IsVector(s)
  PROVE  pearson_similarity(r, s) \in Sims
<1> DEFINE D == Overlap(r, s)
           n == Cardinality(D)
           dev(v) == [d \in D |-> n * v[d] - Total(v, D)]
<1>1. IsFiniteSet(D) /\ n \in Nat /\ \A d \in D : r[d] \in Int /\ s[d] \in Int
  BY OverlapFacts
<1> HIDE DEF D, n
<1>2. Total(r, D) \in Int /\ Total(s, D) \in Int
  <2>1. 0 \in Int /\ \A a, b \in Int : a + b \in Int
    OBVIOUS
  <2> QED
    BY <1>1, <2>1, TotalTyped
<1>3. \A d \in D : dev(r)[d] \in Int /\ dev(s)[d] \in Int
  <2> SUFFICES ASSUME NEW d \in D
               PROVE  n * r[d] - Total(r, D) \in Int /\ n * s[d] - Total(s, D) \in Int
    OBVIOUS
  <2>1. r[d] \in Int /\ s[d] \in Int
    BY <1>1
  <2> QED
    BY <1>1, <1>2, <2>1
<1>4. PICK tmp_1, tmp_2 : tmp_1 = dev(r) /\ tmp_2 = dev(s)
  OBVIOUS
<1>5. \A d \in D : tmp_1[d] \in Int /\ tmp_2[d] \in Int
  BY <1>3, <1>4
<1>6. PICK num, a, b : num = Dot(tmp_1, tmp_2, D) /\ a = Dot(tmp_1, tmp_1, D) /\ b = Dot(tmp_2, tmp_2, D)
  OBVIOUS
<1>7. num \in Int /\ a \in Nat /\ b \in Nat
  BY <1>1, <1>5, <1>6, DotTyped, SquaresTyped
<1>8. pearson_similarity(r, s) = IF num = 0 \/ a * b = 0 THEN Zero ELSE Signed(num, a * b)
  BY <1>4, <1>6 DEF pearson_similarity, D, n
<1>9. a * b \in Nat
  BY <1>7
<1>10. Zero \in Sims
  BY DEF Zero, Sims
<1> QED
  BY <1>7, <1>8, <1>9, <1>10, SignedTyped

(* The two orders of the fixtures: numbers, and pairs of them. *)
AscendingRel(S) == {p \in S \X S : p[1] < p[2]}
BelowRel(S)     == {p \in S \X S : Below(p[1], p[2])}

LEMMA AscendingLists ==
  ASSUME NEW S, IsFiniteSet(S), S \subseteq Int
  PROVE  LET s == Ascending(S)
             n == Cardinality(S)
         IN  /\ n \in Nat /\ s \in [1 .. n -> S]
             /\ \A x \in S : \E k \in 1 .. n : s[k] = x
             /\ \A k, l \in 1 .. n : k < l <=> s[k] < s[l]
<1> DEFINE R == AscendingRel(S)
<1>1. \A x, y \in S : <<x, y>> \in R <=> x < y
  BY DEF AscendingRel
<1>2. StrictOrder(S, R)
  <2>1. \A x, y, z \in S : x < y /\ y < z => x < z
    OBVIOUS
  <2>2. \A x, y \in S : x = y \/ x < y \/ y < x
    OBVIOUS
  <2>3. \A x \in S : ~ (x < x)
    OBVIOUS
  <2> HIDE DEF R
  <2> QED
    BY <1>1, <2>1, <2>2, <2>3 DEF StrictOrder
<1> HIDE DEF R
<1>3. Ascending(S) = Listing(S, R)
  <2>1. \A x \in S : Preceding(S, R, x) = {y \in S : y < x}
    BY <1>1 DEF Preceding
  <2> DEFINE A(k) == CHOOSE x \in S : Cardinality({y \in S : y < x}) = k - 1
             B(k) == CHOOSE x \in S : Cardinality(Preceding(S, R, x)) = k - 1
  <2>2. \A k : A(k) = B(k)
    BY <2>1
  <2>3. Ascending(S) = [k \in 1 .. Cardinality(S) |-> A(k)]
    BY DEF Ascending, Ordered
  <2>4. Listing(S, R) = [k \in 1 .. Cardinality(S) |-> B(k)]
    BY DEF Listing
  <2> HIDE DEF A, B
  <2> QED
    BY <2>2, <2>3, <2>4
<1>4. LET s == Listing(S, R)
          n == Cardinality(S)
      IN  /\ n \in Nat /\ s \in [1 .. n -> S]
          /\ \A k \in 1 .. n : Cardinality(Preceding(S, R, s[k])) = k - 1
          /\ \A x \in S : \E k \in 1 .. n : s[k] = x
          /\ \A k, l \in 1 .. n : k < l <=> <<s[k], s[l]>> \in R
  BY <1>2, ListingOrders
<1>5. PICK s, n : s = Listing(S, R) /\ n = Cardinality(S)
  OBVIOUS
<1>6. /\ n \in Nat /\ s \in [1 .. n -> S]
      /\ \A x \in S : \E k \in 1 .. n : s[k] = x
      /\ \A k, l \in 1 .. n : k < l <=> <<s[k], s[l]>> \in R
  BY <1>4, <1>5
<1>7. \A k, l \in 1 .. n : k < l <=> s[k] < s[l]
  BY <1>1, <1>6
<1> QED
  BY <1>3, <1>5, <1>6, <1>7

LEMMA BelowLists ==
  ASSUME NEW S, IsFiniteSet(S), S \subseteq Nat \X Nat
  PROVE  /\ LET s == Ordered(S, Below)
                n == Cardinality(S)
            IN  /\ n \in Nat /\ s \in [1 .. n -> S]
                /\ \A x \in S : \E k \in 1 .. n : s[k] = x
                /\ \A k, l \in 1 .. n : k < l <=> Below(s[k], s[l])
         /\ \A T \in SUBSET S :
              (\A x \in S, t \in T : Below(x, t) => x \in T) =>
                /\ Cardinality(T) \in 0 .. Cardinality(S)
                /\ \A k \in 1 .. Cardinality(S) : Ordered(S, Below)[k] \in T <=> k <= Cardinality(T)
<1> DEFINE R == BelowRel(S)
<1>1. \A x, y \in S : <<x, y>> \in R <=> Below(x, y)
  BY DEF BelowRel
<1>2. StrictOrder(S, R)
  <2> HIDE DEF R
  <2>1. ASSUME NEW x \in S, NEW y \in S, NEW z \in S, Below(x, y), Below(y, z) PROVE Below(x, z)
    <3>1. x[1] \in Nat /\ x[2] \in Nat /\ y[1] \in Nat /\ y[2] \in Nat /\ z[1] \in Nat /\ z[2] \in Nat
      OBVIOUS
    <3> QED
      BY <2>1, <3>1 DEF Below
  <2>2. ASSUME NEW x \in S, NEW y \in S, x # y PROVE Below(x, y) \/ Below(y, x)
    <3>1. x[1] \in Nat /\ x[2] \in Nat /\ y[1] \in Nat /\ y[2] \in Nat
      OBVIOUS
    <3>2. x[1] # y[1] \/ x[2] # y[2]
      <4>1. x = <<x[1], x[2]>> /\ y = <<y[1], y[2]>>
        OBVIOUS
      <4> QED
        BY <2>2, <4>1
    <3> QED
      BY <3>1, <3>2 DEF Below
  <2>3. ASSUME NEW x \in S PROVE ~ Below(x, x)
    <3>1. x[1] \in Nat /\ x[2] \in Nat
      OBVIOUS
    <3> QED
      BY <3>1 DEF Below
  <2> QED
    BY <1>1, <2>1, <2>2, <2>3 DEF StrictOrder
<1> HIDE DEF R
<1>3. Ordered(S, Below) = Listing(S, R)
  <2>1. \A x \in S : Preceding(S, R, x) = {y \in S : Below(y, x)}
    BY <1>1 DEF Preceding
  <2> DEFINE A(k) == CHOOSE x \in S : Cardinality({y \in S : Below(y, x)}) = k - 1
             B(k) == CHOOSE x \in S : Cardinality(Preceding(S, R, x)) = k - 1
  <2>2. \A k : A(k) = B(k)
    BY <2>1
  <2>3. Ordered(S, Below) = [k \in 1 .. Cardinality(S) |-> A(k)]
    BY DEF Ordered
  <2>4. Listing(S, R) = [k \in 1 .. Cardinality(S) |-> B(k)]
    BY DEF Listing
  <2> HIDE DEF A, B
  <2> QED
    BY <2>2, <2>3, <2>4
<1>4. LET s == Listing(S, R)
          n == Cardinality(S)
      IN  /\ n \in Nat /\ s \in [1 .. n -> S]
          /\ \A k \in 1 .. n : Cardinality(Preceding(S, R, s[k])) = k - 1
          /\ \A x \in S : \E k \in 1 .. n : s[k] = x
          /\ \A k, l \in 1 .. n : k < l <=> <<s[k], s[l]>> \in R
  BY <1>2, ListingOrders
<1>5. PICK s, n : s = Listing(S, R) /\ n = Cardinality(S)
  OBVIOUS
<1>6. /\ n \in Nat /\ s \in [1 .. n -> S]
      /\ \A x \in S : \E k \in 1 .. n : s[k] = x
      /\ \A k, l \in 1 .. n : k < l <=> <<s[k], s[l]>> \in R
  BY <1>4, <1>5
<1>7. \A k, l \in 1 .. n : k < l <=> Below(s[k], s[l])
  BY <1>1, <1>6
<1>8. ASSUME NEW T \in SUBSET S, \A x \in S, t \in T : Below(x, t) => x \in T
      PROVE  /\ Cardinality(T) \in 0 .. n
             /\ \A k \in 1 .. n : s[k] \in T <=> k <= Cardinality(T)
  <2>1. \A x \in S, t \in T : <<x, t>> \in R => x \in T
    BY <1>1, <1>8
  <2> QED
    BY <1>2, <1>5, <2>1, ListingBegins
<1> QED
  BY <1>3, <1>5, <1>6, <1>7, <1>8

LEMMA FiniteCells ==
  ASSUME NEW matrix, IsMatrix(matrix)
  PROVE  IsFiniteSet(Cells(matrix)) /\ Cells(matrix) \subseteq Nat \X Nat
         /\ \A c : c \in Cells(matrix) <=> c = <<c[1], c[2]>> /\ c[1] \in DOMAIN matrix /\ c[2] \in DOMAIN matrix[c[1]]
<1> DEFINE D == DOMAIN matrix
           f == [i \in D |-> {i} \X DOMAIN matrix[i]]
           T == {f[i] : i \in D}
<1>1. IsFiniteSet(D) /\ D \subseteq Nat /\ \A i \in D : IsVector(matrix[i])
  <2>1. Cardinality(D) \in Nat
    BY FS_CardinalityType DEF IsMatrix
  <2>2. D = 0 .. Cardinality(D) - 1
    BY DEF IsMatrix
  <2>3. 0 .. Cardinality(D) - 1 \subseteq Nat
    BY <2>1
  <2> QED
    BY <2>2, <2>3 DEF IsMatrix
<1> HIDE DEF D
<1>2. f \in Surjection(D, T)
  BY DEF Surjection
<1>3. IsFiniteSet(T)
  <2> HIDE DEF T, f
  <2> QED
    BY <1>1, <1>2, FS_Surjection
<1>4. \A t \in T : IsFiniteSet(t)
  <2> SUFFICES ASSUME NEW i \in D PROVE IsFiniteSet({i} \X DOMAIN matrix[i])
    OBVIOUS
  <2>1. IsFiniteSet({i}) /\ IsFiniteSet(DOMAIN matrix[i])
    BY <1>1, FS_Singleton DEF IsVector
  <2> QED
    BY <2>1, FS_Product
<1>5. Cells(matrix) = UNION T
  BY DEF Cells, D
<1>6. IsFiniteSet(UNION T)
  <2> HIDE DEF T
  <2> QED
    BY <1>3, <1>4, FS_UNION
<1>7. \A c : c \in Cells(matrix) <=> c = <<c[1], c[2]>> /\ c[1] \in D /\ c[2] \in DOMAIN matrix[c[1]]
  BY DEF Cells, D
<1>8. Cells(matrix) \subseteq Nat \X Nat
  <2> SUFFICES ASSUME NEW c \in Cells(matrix) PROVE c \in Nat \X Nat
    OBVIOUS
  <2>1. c = <<c[1], c[2]>> /\ c[1] \in D /\ c[2] \in DOMAIN matrix[c[1]]
    BY <1>7
  <2>2. c[1] \in Nat /\ c[2] \in Nat
    BY <1>1, <2>1 DEF IsVector
  <2> QED
    BY <2>1, <2>2
<1> QED
  BY <1>5, <1>6, <1>7, <1>8 DEF D

(* The arrays of d are those of the rows. *)
Holds(d, matrix) ==
  LET a == Arrays(matrix, <<>>, <<>>, <<>>, <<>>)
  IN  d["offsets"] = a.offsets /\ d["dims"] = a.dims /\ d["vals"] = a.vals

(* cells are all cells of the rows, in order; array by array they are what d *)
(* holds, and those of row i are where its offsets say.                      *)
CellListing(cells, d, matrix, n, m) ==
  /\ cells \in [1 .. m -> Cells(matrix)]
  /\ \A c \in Cells(matrix) : \E k \in 1 .. m : cells[k] = c
  /\ \A k, l \in 1 .. m : k < l <=> Below(cells[k], cells[l])
  /\ \A k \in 1 .. m : /\ d["dims"][k] = cells[k][2]
                       /\ d["vals"][k] = matrix[cells[k][1]][cells[k][2]]
                       /\ \A i \in 0 .. n - 1 : k \in Slice(d, i) <=> cells[k][1] = i

(* What the arrays hold: the cells one after the other, those of row i from *)
(* offset i on.                                                            *)
LEMMA HeldCells ==
  ASSUME NEW matrix, IsMatrix(matrix), NEW d, Holds(d, matrix),
         NEW n, n = Cardinality(DOMAIN matrix), NEW m, m = Cardinality(Cells(matrix))
  PROVE  /\ n \in Nat /\ m \in Nat
         /\ d["offsets"] \in [1 .. n + 1 -> 0 .. m]
         /\ d["offsets"][1] = 0 /\ d["offsets"][n + 1] = m
         /\ \A i \in 1 .. n : d["offsets"][i] <= d["offsets"][i + 1]
         /\ d["dims"] \in [1 .. m -> Nat] /\ d["vals"] \in [1 .. m -> Int]
         /\ \E cells : CellListing(cells, d, matrix, n, m)
<1> DEFINE S == Cells(matrix)
           cells == Ordered(S, Below)
           off(i) == {c \in S : c[1] < i - 1}
<1>1. /\ d["offsets"] = [i \in 1 .. n + 1 |-> Cardinality(off(i))]
      /\ d["dims"] = [k \in DOMAIN cells |-> cells[k][2]]
      /\ d["vals"] = [k \in DOMAIN cells |-> matrix[cells[k][1]][cells[k][2]]]
  BY DEF Holds, Arrays
<1>2. n \in Nat /\ DOMAIN matrix = 0 .. n - 1 /\ \A i \in DOMAIN matrix : IsVector(matrix[i])
  BY FS_CardinalityType DEF IsMatrix
<1>3. /\ IsFiniteSet(S) /\ S \subseteq Nat \X Nat
      /\ \A c : c \in S <=> c = <<c[1], c[2]>> /\ c[1] \in 0 .. n - 1 /\ c[2] \in DOMAIN matrix[c[1]]
  BY <1>2, FiniteCells
<1>0. m = Cardinality(S)
  OBVIOUS
<1> HIDE DEF S
<1>4. /\ m \in Nat /\ cells \in [1 .. m -> S]
      /\ \A x \in S : \E k \in 1 .. m : cells[k] = x
      /\ \A k, l \in 1 .. m : k < l <=> Below(cells[k], cells[l])
  <2>1. LET k1 == Cardinality(S)
        IN  /\ k1 \in Nat /\ cells \in [1 .. k1 -> S]
            /\ \A x \in S : \E k \in 1 .. k1 : cells[k] = x
            /\ \A k, l \in 1 .. k1 : k < l <=> Below(cells[k], cells[l])
    BY <1>3, BelowLists
  <2> HIDE DEF cells
  <2> QED
    BY <1>0, <2>1
<1>5. \A T \in SUBSET S : (\A x \in S, t \in T : Below(x, t) => x \in T) =>
         /\ Cardinality(T) \in 0 .. m
         /\ \A k \in 1 .. m : cells[k] \in T <=> k <= Cardinality(T)
  BY <1>0, <1>3, BelowLists
<1> HIDE DEF cells
<1>6. \A c \in S : c[1] \in 0 .. n - 1 /\ c[1] \in Nat /\ c[2] \in Nat
  BY <1>2, <1>3
<1>7. ASSUME NEW i \in 1 .. n + 1
      PROVE  /\ Cardinality(off(i)) \in 0 .. m
             /\ \A k \in 1 .. m : cells[k][1] < i - 1 <=> k <= Cardinality(off(i))
  <2>1. off(i) \in SUBSET S
    OBVIOUS
  <2>2. ASSUME NEW x \in S, NEW t \in off(i), Below(x, t) PROVE x \in off(i)
    <3>1. x[1] <= t[1] /\ t[1] < i - 1 /\ x[1] \in Nat /\ t[1] \in Nat /\ i \in Int
      BY <1>2, <1>6, <2>2 DEF Below
    <3> QED
      BY <3>1
  <2>3. \A k \in 1 .. m : cells[k][1] < i - 1 <=> cells[k] \in off(i)
    BY <1>4
  <2> HIDE DEF off
  <2> QED
    BY <1>5, <2>1, <2>2, <2>3
<1> HIDE DEF off
<1>8. d["offsets"] \in [1 .. n + 1 -> 0 .. m] /\ \A i \in 1 .. n + 1 : d["offsets"][i] = Cardinality(off(i))
  BY <1>1, <1>7
<1>9. d["offsets"][1] = 0
  <2>1. 1 \in 1 .. n + 1
    BY <1>2
  <2>2. off(1) = {}
    BY <1>6 DEF off
  <2> QED
    BY <1>8, <2>1, <2>2, FS_EmptySet
<1>10. d["offsets"][n + 1] = m
  <2>1. n + 1 \in 1 .. n + 1
    BY <1>2
  <2>2. off(n + 1) = S
    BY <1>2, <1>6 DEF off
  <2> QED
    BY <1>0, <1>8, <2>1, <2>2
<1>11. \A i \in 1 .. n : d["offsets"][i] <= d["offsets"][i + 1]
  <2> SUFFICES ASSUME NEW i \in 1 .. n PROVE Cardinality(off(i)) <= Cardinality(off(i + 1))
    <3>1. \A i \in 1 .. n : i \in 1 .. n + 1 /\ i + 1 \in 1 .. n + 1
      BY <1>2
    <3> QED
      BY <1>8, <3>1
  <2>1. off(i) \subseteq off(i + 1)
    BY <1>2, <1>6 DEF off
  <2>2. IsFiniteSet(off(i + 1))
    BY <1>3, FS_Subset DEF off
  <2> QED
    BY <2>1, <2>2, FS_Subset
<1>12. \A k \in 1 .. m : d["dims"][k] = cells[k][2] /\ d["vals"][k] = matrix[cells[k][1]][cells[k][2]]
  BY <1>1, <1>4
<1>13. d["dims"] \in [1 .. m -> Nat] /\ d["vals"] \in [1 .. m -> Int]
  <2>1. \A c \in S : c[2] \in Nat /\ matrix[c[1]][c[2]] \in Int
    BY <1>2, <1>3, <1>6 DEF IsVector
  <2> QED
    BY <1>1, <1>4, <2>1
<1>14. ASSUME NEW k \in 1 .. m, NEW i \in 0 .. n - 1 PROVE k \in Slice(d, i) <=> cells[k][1] = i
  <2>1. i + 1 \in 1 .. n + 1 /\ i + 2 \in 1 .. n + 1
    BY <1>2
  <2>2. Slice(d, i) = Cardinality(off(i + 1)) + 1 .. Cardinality(off(i + 2))
    BY <1>8, <2>1 DEF Slice
  <2>3. /\ cells[k][1] < (i + 1) - 1 <=> k <= Cardinality(off(i + 1))
        /\ cells[k][1] < (i + 2) - 1 <=> k <= Cardinality(off(i + 2))
        /\ Cardinality(off(i + 1)) \in Nat /\ Cardinality(off(i + 2)) \in Nat
    BY <1>7, <2>1
  <2>4. cells[k][1] \in Nat
    BY <1>4, <1>6
  <2> QED
    BY <2>2, <2>3, <2>4
<1>15. /\ n \in Nat /\ m \in Nat
       /\ d["offsets"] \in [1 .. n + 1 -> 0 .. m]
       /\ d["offsets"][1] = 0 /\ d["offsets"][n + 1] = m
       /\ \A i \in 1 .. n : d["offsets"][i] <= d["offsets"][i + 1]
       /\ d["dims"] \in [1 .. m -> Nat] /\ d["vals"] \in [1 .. m -> Int]
  BY <1>2, <1>4, <1>8, <1>9, <1>10, <1>11, <1>13
<1>16. /\ cells \in [1 .. m -> S]
       /\ \A c \in S : \E k \in 1 .. m : cells[k] = c
       /\ \A k, l \in 1 .. m : k < l <=> Below(cells[k], cells[l])
       /\ \A k \in 1 .. m : /\ d["dims"][k] = cells[k][2]
                            /\ d["vals"][k] = matrix[cells[k][1]][cells[k][2]]
                            /\ \A i \in 0 .. n - 1 : k \in Slice(d, i) <=> cells[k][1] = i
  BY <1>4, <1>12, <1>14
<1>17. CellListing(cells, d, matrix, n, m)
  BY <1>16 DEF CellListing, S
<1> HIDE DEF cells
<1> QED
  BY <1>15, <1>17

(* Reading a row back gives the row. *)
LEMMA RowsReadBack ==
  ASSUME NEW matrix, IsMatrix(matrix), NEW d, Holds(d, matrix), NEW i \in DOMAIN matrix
  PROVE  AscendingRow(d, i) /\ RowAt(d, i) = matrix[i]
<1>1. PICK n, m : n = Cardinality(DOMAIN matrix) /\ m = Cardinality(Cells(matrix))
  OBVIOUS
<1>2. n \in Nat /\ m \in Nat /\ d["offsets"] \in [1 .. n + 1 -> 0 .. m]
  BY <1>1, HeldCells
<1>3. PICK cells : CellListing(cells, d, matrix, n, m)
  BY <1>1, HeldCells
<1>3a. /\ cells \in [1 .. m -> Cells(matrix)]
       /\ \A c \in Cells(matrix) : \E k \in 1 .. m : cells[k] = c
       /\ \A k, l \in 1 .. m : k < l <=> Below(cells[k], cells[l])
       /\ \A k \in 1 .. m : /\ d["dims"][k] = cells[k][2]
                            /\ d["vals"][k] = matrix[cells[k][1]][cells[k][2]]
       /\ \A k \in 1 .. m : \A j \in 0 .. n - 1 : k \in Slice(d, j) <=> cells[k][1] = j
  BY <1>3 DEF CellListing
<1>4. DOMAIN matrix = 0 .. n - 1 /\ i \in 0 .. n - 1 /\ IsVector(matrix[i])
  BY <1>1 DEF IsMatrix
<1>5. Slice(d, i) \subseteq 1 .. m
  <2>1. i + 1 \in 1 .. n + 1 /\ i + 2 \in 1 .. n + 1
    BY <1>2, <1>4
  <2>2. d["offsets"][i + 1] \in 0 .. m /\ d["offsets"][i + 2] \in 0 .. m
    BY <1>2, <2>1
  <2> QED
    BY <1>2, <2>2 DEF Slice
<1>6. \A k \in Slice(d, i) : /\ k \in 1 .. m /\ cells[k][1] = i /\ d["dims"][k] = cells[k][2]
                             /\ cells[k][2] \in DOMAIN matrix[i] /\ d["vals"][k] = matrix[i][cells[k][2]]
  BY <1>3a, <1>4, <1>5, FiniteCells
<1>7. \A x \in DOMAIN matrix[i] : \E k \in Slice(d, i) : d["dims"][k] = x
  <2> SUFFICES ASSUME NEW x \in DOMAIN matrix[i] PROVE \E k \in Slice(d, i) : d["dims"][k] = x
    OBVIOUS
  <2>1. <<i, x>> \in Cells(matrix)
    BY FiniteCells
  <2>2. PICK k \in 1 .. m : cells[k] = <<i, x>>
    BY <1>3a, <2>1
  <2> QED
    BY <1>3a, <1>4, <2>2
<1>8. AscendingRow(d, i)
  <2> SUFFICES ASSUME NEW k \in Slice(d, i), NEW l \in Slice(d, i), k < l
               PROVE  d["dims"][k] < d["dims"][l]
    BY DEF AscendingRow
  <2>1. Below(cells[k], cells[l]) /\ cells[k][1] = i /\ cells[l][1] = i
    BY <1>3a, <1>6
  <2> QED
    BY <1>4, <1>6, <2>1 DEF Below
<1>9. {d["dims"][k] : k \in Slice(d, i)} = DOMAIN matrix[i]
  <2>1. ASSUME NEW k \in Slice(d, i) PROVE d["dims"][k] \in DOMAIN matrix[i]
    BY <1>6
  <2>2. ASSUME NEW x \in DOMAIN matrix[i] PROVE x \in {d["dims"][k] : k \in Slice(d, i)}
    BY <1>7
  <2> QED
    BY <2>1, <2>2
<1>10. ASSUME NEW x \in DOMAIN matrix[i]
       PROVE  d["vals"][CHOOSE k \in Slice(d, i) : d["dims"][k] = x] = matrix[i][x]
  <2>1. PICK k \in Slice(d, i) : /\ k = (CHOOSE j \in Slice(d, i) : d["dims"][j] = x)
                                 /\ d["dims"][k] = x
    BY <1>7
  <2> QED
    BY <1>6, <2>1
<1>11. matrix[i] = [x \in DOMAIN matrix[i] |-> matrix[i][x]]
  BY <1>4 DEF IsVector
<1> QED
  BY <1>8, <1>9, <1>10, <1>11 DEF RowAt

(* Pairs of rows with enough in common, in order, and their similarities. *)
PairsFit(pairs, golden, matrix) ==
  LET n == Cardinality(DOMAIN matrix)
  IN  \E m \in Nat :
        /\ pairs \in [1 .. m -> (0 .. n - 1) \X (0 .. n - 1)]
        /\ golden = [k \in 1 .. m |-> pair_sim(matrix[pairs[k][1]], matrix[pairs[k][2]])]
        /\ \A k \in 1 .. m :
             /\ pairs[k][1] < pairs[k][2]
             /\ Cardinality(Overlap(matrix[pairs[k][1]], matrix[pairs[k][2]])) >= MIN_OVERLAP
        /\ \A k, l \in 1 .. m : k < l => Below(pairs[k], pairs[l])

PairsOf(d, matrix) == PairsFit(d["pairs"], d["golden"], matrix)

Body(d, matrix) == IsMatrix(matrix) /\ Holds(d, matrix) /\ PairsOf(d, matrix) /\ DataFiles \subseteq DOMAIN d

LEMMA LengthOf == ASSUME NEW m \in Nat, NEW X, NEW s \in [1 .. m -> X] PROVE Len(s) = m /\ s \in Seq(X)
OBVIOUS

(* Such arrays load, and what a backend computes is what the exporter did. *)
LEMMA BodyComputes ==
  ASSUME NEW matrix, NEW d, Body(d, matrix)
  PROVE  /\ Loads(d) /\ WellFormed(d)
         /\ Computed(d) = d["golden"] /\ check_result(Computed(d), d["golden"])
         /\ Len(d["offsets"]) = Cardinality(DOMAIN matrix) + 1
         /\ \A k \in DOMAIN d["pairs"] :
              PairAt(d, k) = <<matrix[d["pairs"][k][1]], matrix[d["pairs"][k][2]]>>
         /\ DOMAIN d["golden"] = DOMAIN d["pairs"] /\ \A k \in DOMAIN d["golden"] : d["golden"][k] \in Sims
<1>1. PICK n, c : n = Cardinality(DOMAIN matrix) /\ c = Cardinality(Cells(matrix))
  OBVIOUS
<1>2. /\ n \in Nat /\ c \in Nat /\ d["offsets"] \in [1 .. n + 1 -> 0 .. c]
      /\ d["offsets"][1] = 0 /\ d["offsets"][n + 1] = c
      /\ \A i \in 1 .. n : d["offsets"][i] <= d["offsets"][i + 1]
      /\ d["dims"] \in [1 .. c -> Nat] /\ d["vals"] \in [1 .. c -> Int]
  BY <1>1, HeldCells DEF Body
<1>3. /\ Len(d["offsets"]) = n + 1 /\ Len(d["dims"]) = c /\ Len(d["vals"]) = c
      /\ d["offsets"] # <<>> /\ Last(d["offsets"]) = c
  <2>1. n + 1 \in Nat
    BY <1>2
  <2>2. Len(d["offsets"]) = n + 1 /\ Len(d["dims"]) = c /\ Len(d["vals"]) = c
    BY <1>2, <2>1, LengthOf
  <2> QED
    BY <1>2, <2>2 DEF Last
<1>4. DOMAIN matrix = 0 .. n - 1 /\ \A i \in 0 .. n - 1 : IsVector(matrix[i])
  BY <1>1 DEF Body, IsMatrix
<1>5. PICK m \in Nat :
        /\ d["pairs"] \in [1 .. m -> (0 .. n - 1) \X (0 .. n - 1)]
        /\ d["golden"] = [k \in 1 .. m |-> pair_sim(matrix[d["pairs"][k][1]], matrix[d["pairs"][k][2]])]
  BY <1>1 DEF Body, PairsOf, PairsFit
<1>6. \A k \in 1 .. m : d["pairs"][k][1] \in 0 .. n - 1 /\ d["pairs"][k][2] \in 0 .. n - 1
  BY <1>5
<1>7. Len(d["pairs"]) = m /\ Len(d["golden"]) = m
  BY <1>5, LengthOf
<1>8. Loads(d)
  BY <1>2, <1>3, <1>7 DEF Loads, Body, DataFiles
<1>9. \A i \in 0 .. n - 1 : AscendingRow(d, i) /\ RowAt(d, i) = matrix[i]
  BY <1>4, RowsReadBack DEF Body
<1>10. WellFormed(d)
  <2>1. Len(d["offsets"]) - 1 = n
    BY <1>2, <1>3
  <2>2. \A k \in DOMAIN d["pairs"] : \A e \in {1, 2} : d["pairs"][k][e] \in 0 .. n - 1
    BY <1>5, <1>6
  <2> QED
    BY <1>2, <1>9, <2>1, <2>2 DEF WellFormed
<1>11. \A k \in 1 .. m : PairAt(d, k) = <<matrix[d["pairs"][k][1]], matrix[d["pairs"][k][2]]>>
  BY <1>6, <1>9 DEF PairAt
<1>12. DOMAIN d["pairs"] = 1 .. m
  BY <1>5
<1>13. Computed(d) = d["golden"]
  <2>1. \A k \in 1 .. m : PairAt(d, k)[1] = matrix[d["pairs"][k][1]] /\ PairAt(d, k)[2] = matrix[d["pairs"][k][2]]
    BY <1>11
  <2>2. Computed(d) = [k \in 1 .. m |-> pair_sim(PairAt(d, k)[1], PairAt(d, k)[2])]
    BY <1>10, <1>12 DEF Computed
  <2> QED
    BY <1>5, <2>1, <2>2
<1>14. \A k \in 1 .. m : d["golden"][k] \in Sims
  BY <1>4, <1>5, <1>6, PairSimTyped
<1>15. \A s \in Sims : s # NotANumber
  BY DEF Sims, NotANumber
<1>16. check_result(d["golden"], d["golden"])
  BY <1>5, <1>14, <1>15 DEF check_result
<1>17. DOMAIN d["golden"] = DOMAIN d["pairs"] /\ \A k \in DOMAIN d["golden"] : d["golden"][k] \in Sims
  BY <1>5, <1>12, <1>14
<1> QED
  BY <1>1, <1>3, <1>8, <1>10, <1>11, <1>12, <1>13, <1>16, <1>17

(* What is told apart of a fixture: its arrays are those of the rows, its  *)
(* document describes them.                                                *)
SortedInts(s, n) == n \in Nat /\ s \in [1 .. n -> Int] /\ Sorted(s)

DocumentOf(d, matrix) ==
  LET n == Cardinality(DOMAIN matrix)
  IN  /\ d["meta"].n_entities = n /\ SortedInts(d["entities"], n)
      /\ SortedInts(d["dimids"], d["meta"].n_dims)
      /\ d["meta"].nnz = Len(d["vals"]) /\ d["meta"].n_pairs = Len(d["golden"])
      /\ d["meta"].n_emitted = Cardinality({k \in DOMAIN d["golden"] : Retained(d["golden"][k])})

Sound(d, matrix) == Body(d, matrix) /\ DOMAIN d = Files /\ HashesMatch(d) /\ DocumentOf(d, matrix)

(* There are names of both kinds: what a list of none is written as is     *)
(* read as one.                                                            *)
HasNames(d) == d["entities"] # <<>> /\ d["dimids"] # <<>>

LEMMA SoundIsValid ==
  ASSUME NEW matrix, NEW d, Sound(d, matrix)
  PROVE  (HasNames(d) => Valid(d)) /\ Named(d, Computed(d))
<1>1. PICK n, c : n = Cardinality(DOMAIN matrix) /\ c = Cardinality(Cells(matrix))
  OBVIOUS
<1>2. /\ n \in Nat /\ c \in Nat /\ d["offsets"] \in [1 .. n + 1 -> 0 .. c]
      /\ d["offsets"][1] = 0 /\ d["offsets"][n + 1] = c
      /\ \A i \in 1 .. n : d["offsets"][i] <= d["offsets"][i + 1]
      /\ d["dims"] \in [1 .. c -> Nat] /\ d["vals"] \in [1 .. c -> Int]
  BY <1>1, HeldCells DEF Sound, Body
<1>3. /\ Len(d["offsets"]) = n + 1 /\ Len(d["dims"]) = c /\ Len(d["vals"]) = c
      /\ Last(d["offsets"]) = c
  <2>1. n + 1 \in Nat
    BY <1>2
  <2>2. Len(d["offsets"]) = n + 1 /\ Len(d["dims"]) = c /\ Len(d["vals"]) = c
    BY <1>2, <2>1, LengthOf
  <2> QED
    BY <1>2, <2>2 DEF Last
<1>4. DOMAIN matrix = 0 .. n - 1
  BY <1>1 DEF Sound, Body, IsMatrix
<1>5. PICK m \in Nat :
        /\ d["pairs"] \in [1 .. m -> (0 .. n - 1) \X (0 .. n - 1)]
        /\ d["golden"] = [k \in 1 .. m |-> pair_sim(matrix[d["pairs"][k][1]], matrix[d["pairs"][k][2]])]
        /\ \A k \in 1 .. m :
             /\ d["pairs"][k][1] < d["pairs"][k][2]
             /\ Cardinality(Overlap(matrix[d["pairs"][k][1]], matrix[d["pairs"][k][2]])) >= MIN_OVERLAP
        /\ \A k, l \in 1 .. m : k < l => Below(d["pairs"][k], d["pairs"][l])
  BY <1>1 DEF Sound, Body, PairsOf, PairsFit
<1>6. DOMAIN d["pairs"] = 1 .. m /\ DOMAIN d["golden"] = 1 .. m
  BY <1>5
<1>7. Len(d["pairs"]) = m /\ Len(d["golden"]) = m
  BY <1>5, <1>6, LengthOf
<1>8. \A i \in 0 .. n - 1 : AscendingRow(d, i)
  BY <1>4, RowsReadBack DEF Sound, Body
<1>9. /\ Computed(d) = d["golden"]
      /\ \A k \in 1 .. m : PairAt(d, k) = <<matrix[d["pairs"][k][1]], matrix[d["pairs"][k][2]]>>
  BY <1>6, BodyComputes DEF Sound
<1>10. /\ d["meta"].n_entities = n /\ SortedInts(d["entities"], n)
       /\ SortedInts(d["dimids"], d["meta"].n_dims)
       /\ d["meta"].nnz = c /\ d["meta"].n_pairs = m
       /\ d["meta"].n_emitted = Cardinality({k \in DOMAIN d["golden"] : Retained(d["golden"][k])})
  BY <1>1, <1>3, <1>7 DEF Sound, DocumentOf
<1>11. /\ Len(d["entities"]) = n /\ Sorted(d["entities"])
       /\ Len(d["dimids"]) = d["meta"].n_dims /\ Sorted(d["dimids"])
  BY <1>10, LengthOf DEF SortedInts
<1>12. ASSUME HasNames(d) PROVE Structure(d)
  <2>1. Names(d["entities"]) = n /\ Names(d["dimids"]) = d["meta"].n_dims
    BY <1>11, <1>12 DEF HasNames, Names
  <2> QED
    BY <1>2, <1>3, <1>5, <1>6, <1>7, <1>8, <1>10, <1>11, <2>1 DEF Structure
<1>13. \A k \in 1 .. m : d["pairs"][k][1] \in 0 .. n - 1 /\ d["pairs"][k][2] \in 0 .. n - 1
  BY <1>5
<1>14. Recomputed(d)
  <2> SUFFICES ASSUME NEW k \in 1 .. m
               PROVE  /\ d["pairs"][k][2] < n
                      /\ Cardinality(Overlap(PairAt(d, k)[1], PairAt(d, k)[2])) >= MIN_OVERLAP
                      /\ pair_sim(PairAt(d, k)[1], PairAt(d, k)[2]) = d["golden"][k]
    BY <1>6, <1>10 DEF Recomputed
  <2>1. PairAt(d, k)[1] = matrix[d["pairs"][k][1]] /\ PairAt(d, k)[2] = matrix[d["pairs"][k][2]]
    BY <1>9
  <2>2. d["pairs"][k][2] < n
    BY <1>2, <1>13
  <2>3. d["golden"][k] = pair_sim(matrix[d["pairs"][k][1]], matrix[d["pairs"][k][2]])
    BY <1>5
  <2>4. Cardinality(Overlap(matrix[d["pairs"][k][1]], matrix[d["pairs"][k][2]])) >= MIN_OVERLAP
    BY <1>5
  <2> QED
    BY <2>1, <2>2, <2>3, <2>4
<1>15. HasNames(d) => Valid(d)
  BY <1>12, <1>14 DEF Valid, Sound
<1>16. Named(d, Computed(d))
  <2>1. {"meta", "entities"} \subseteq DOMAIN d
    BY DEF Sound, Files, DataFiles
  <2>2. \A k \in 1 .. m, e \in {1, 2} : d["pairs"][k][e] < n
    BY <1>2, <1>13
  <2> QED
    BY <1>6, <1>9, <1>11, <2>1, <2>2 DEF Named
<1> QED
  BY <1>15, <1>16

(* A sound fixture that validates has them. *)
LEMMA ValidHasNames ==
  ASSUME NEW matrix, NEW d, Sound(d, matrix), Valid(d)
  PROVE  HasNames(d)
<1>1. /\ SortedInts(d["entities"], d["meta"].n_entities)
      /\ SortedInts(d["dimids"], d["meta"].n_dims)
  BY DEF Sound, DocumentOf
<1>2. /\ Len(d["entities"]) = d["meta"].n_entities
      /\ Len(d["dimids"]) = d["meta"].n_dims
  BY <1>1, LengthOf DEF SortedInts
<1>3. /\ Names(d["entities"]) = d["meta"].n_entities
      /\ Names(d["dimids"]) = d["meta"].n_dims
  BY DEF Valid, Structure
<1>4. Len(<<>>) = 0
  OBVIOUS
<1> QED
  BY <1>2, <1>3, <1>4 DEF HasNames, Names

(* Some of the pairs of a sound fixture, in their order. *)
KeepsOf(d, keep) ==
  \E j \in Nat : /\ keep \in [1 .. j -> DOMAIN d["pairs"]]
                 /\ \A k, l \in 1 .. j : k < l => keep[k] < keep[l]

CutFrom(x, d, keep) ==
  /\ DOMAIN x = Files
  /\ \A f \in DataFiles \ {"pairs", "golden"} : x[f] = d[f]
  /\ x["pairs"] = [k \in DOMAIN keep |-> d["pairs"][keep[k]]]
  /\ x["golden"] = [k \in DOMAIN keep |-> d["golden"][keep[k]]]

LEMMA DerivedFiles ==
  ASSUME NEW d, NEW keep, NEW mode, NEW e, NEW hashed,
         NEW x, x = Derived(d, keep, mode, e, hashed)
  PROVE  /\ CutFrom(x, d, keep)
         /\ x["meta"].mode = mode /\ x["meta"].n_entities = d["meta"].n_entities
         /\ x["meta"].n_dims = d["meta"].n_dims /\ x["meta"].nnz = d["meta"].nnz
         /\ x["meta"].n_pairs = Len(keep) /\ x["meta"].n_emitted = e
         /\ hashed = DataFiles => HashesMatch(x)
<1> DEFINE data == [f \in DataFiles |-> IF f \in {"pairs", "golden"}
                                        THEN [k \in DOMAIN keep |-> d[f][keep[k]]] ELSE d[f]]
           meta == [mode |-> mode, n_entities |-> d["meta"].n_entities,
                    n_dims |-> d["meta"].n_dims, nnz |-> d["meta"].nnz,
                    n_pairs |-> Len(keep), n_emitted |-> e,
                    files |-> [f \in hashed |-> data[f]]]
<1>1. x = [f \in Files |-> IF f = "meta" THEN meta ELSE data[f]]
  BY DEF Derived
<1>2. "meta" \in Files /\ "meta" \notin DataFiles /\ DataFiles \subseteq Files
      /\ "pairs" \in DataFiles /\ "golden" \in DataFiles
  BY DEF Files, DataFiles
<1>3. \A f \in DataFiles \ {"pairs", "golden"} : data[f] = d[f]
  OBVIOUS
<1>4. data["pairs"] = [k \in DOMAIN keep |-> d["pairs"][keep[k]]]
      /\ data["golden"] = [k \in DOMAIN keep |-> d["golden"][keep[k]]]
  BY <1>2
<1>5. DOMAIN data = DataFiles
  OBVIOUS
<1>6. /\ meta.mode = mode /\ meta.n_entities = d["meta"].n_entities
      /\ meta.n_dims = d["meta"].n_dims /\ meta.nnz = d["meta"].nnz
      /\ meta.n_pairs = Len(keep) /\ meta.n_emitted = e
      /\ meta.files = [f \in hashed |-> data[f]]
  OBVIOUS
<1> HIDE DEF data, meta
<1>7. /\ x["meta"] = meta /\ \A f \in DataFiles : x[f] = data[f]
  BY <1>1, <1>2
<1>8. DOMAIN x = Files
  BY <1>1
<1>9. hashed = DataFiles => HashesMatch(x)
  BY <1>5, <1>6, <1>7 DEF HashesMatch
<1>10. /\ x["pairs"] = [k \in DOMAIN keep |-> d["pairs"][keep[k]]]
       /\ x["golden"] = [k \in DOMAIN keep |-> d["golden"][keep[k]]]
  BY <1>2, <1>4, <1>7
<1>11. \A f \in DataFiles \ {"pairs", "golden"} : x[f] = d[f]
  BY <1>3, <1>7
<1>12. /\ x["meta"].mode = mode /\ x["meta"].n_entities = d["meta"].n_entities
       /\ x["meta"].n_dims = d["meta"].n_dims /\ x["meta"].nnz = d["meta"].nnz
       /\ x["meta"].n_pairs = Len(keep) /\ x["meta"].n_emitted = e
  BY <1>6, <1>7
<1> QED
  BY <1>8, <1>9, <1>10, <1>11, <1>12 DEF CutFrom

(* Fewer pairs of the same rows are computed as they were. *)
LEMMA DerivedBody ==
  ASSUME NEW matrix, NEW d, Body(d, matrix), NEW keep, KeepsOf(d, keep), NEW x, CutFrom(x, d, keep)
  PROVE  Body(x, matrix) /\ Len(x["golden"]) = Len(keep)
<1>1. PICK n : n = Cardinality(DOMAIN matrix)
  OBVIOUS
<1>2. PICK m \in Nat :
        /\ d["pairs"] \in [1 .. m -> (0 .. n - 1) \X (0 .. n - 1)]
        /\ d["golden"] = [k \in 1 .. m |-> pair_sim(matrix[d["pairs"][k][1]], matrix[d["pairs"][k][2]])]
        /\ \A k \in 1 .. m :
             /\ d["pairs"][k][1] < d["pairs"][k][2]
             /\ Cardinality(Overlap(matrix[d["pairs"][k][1]], matrix[d["pairs"][k][2]])) >= MIN_OVERLAP
        /\ \A k, l \in 1 .. m : k < l => Below(d["pairs"][k], d["pairs"][l])
  BY <1>1 DEF Body, PairsOf, PairsFit
<1>3. PICK j \in Nat : /\ keep \in [1 .. j -> 1 .. m]
                       /\ \A k, l \in 1 .. j : k < l => keep[k] < keep[l]
  BY <1>2 DEF KeepsOf
<1>4. PICK P, G, Q, H : /\ P = d["pairs"] /\ G = d["golden"] /\ Q = x["pairs"] /\ H = x["golden"]
  OBVIOUS
<1>5. Q = [k \in 1 .. j |-> P[keep[k]]] /\ H = [k \in 1 .. j |-> G[keep[k]]]
  BY <1>3, <1>4 DEF CutFrom
<1>6. \A k \in 1 .. j : keep[k] \in 1 .. m
  BY <1>3
<1>7. Q \in [1 .. j -> (0 .. n - 1) \X (0 .. n - 1)]
  BY <1>2, <1>4, <1>5, <1>6
<1>8. H = [k \in 1 .. j |-> pair_sim(matrix[Q[k][1]], matrix[Q[k][2]])]
  <2> SUFFICES ASSUME NEW k \in 1 .. j PROVE G[keep[k]] = pair_sim(matrix[Q[k][1]], matrix[Q[k][2]])
    BY <1>5
  <2>1. Q[k] = P[keep[k]]
    BY <1>5
  <2>2. keep[k] \in 1 .. m
    BY <1>6
  <2>3. G[keep[k]] = pair_sim(matrix[P[keep[k]][1]], matrix[P[keep[k]][2]])
    BY <1>2, <1>4, <2>2
  <2> QED
    BY <2>1, <2>3
<1>9. \A k \in 1 .. j : Q[k][1] < Q[k][2] /\ Cardinality(Overlap(matrix[Q[k][1]], matrix[Q[k][2]])) >= MIN_OVERLAP
  BY <1>2, <1>4, <1>5, <1>6
<1>10. \A k, l \in 1 .. j : k < l => Below(Q[k], Q[l])
  <2> SUFFICES ASSUME NEW k \in 1 .. j, NEW l \in 1 .. j, k < l PROVE Below(Q[k], Q[l])
    OBVIOUS
  <2>1. Q[k] = P[keep[k]] /\ Q[l] = P[keep[l]] /\ keep[k] < keep[l]
    BY <1>3, <1>5
  <2>2. Below(P[keep[k]], P[keep[l]])
    BY <1>2, <1>4, <1>6, <2>1
  <2> QED
    BY <2>1, <2>2
<1>11. PairsOf(x, matrix)
  <2>1. \E i \in Nat :
          /\ Q \in [1 .. i -> (0 .. n - 1) \X (0 .. n - 1)]
          /\ H = [k \in 1 .. i |-> pair_sim(matrix[Q[k][1]], matrix[Q[k][2]])]
          /\ \A k \in 1 .. i :
               /\ Q[k][1] < Q[k][2]
               /\ Cardinality(Overlap(matrix[Q[k][1]], matrix[Q[k][2]])) >= MIN_OVERLAP
          /\ \A k, l \in 1 .. i : k < l => Below(Q[k], Q[l])
    <3> WITNESS j \in Nat
    <3> QED
      BY <1>7, <1>8, <1>9, <1>10
  <2> QED
    BY <1>1, <1>4, <2>1 DEF PairsOf, PairsFit
<1>12. Holds(x, matrix)
  <2>1. x["offsets"] = d["offsets"] /\ x["dims"] = d["dims"] /\ x["vals"] = d["vals"]
    BY DEF DataFiles, CutFrom
  <2> QED
    BY <2>1 DEF Body, Holds
<1>13. Len(H) = j /\ Len(keep) = j
  <2>1. DOMAIN H = 1 .. j
    BY <1>5
  <2> QED
    BY <1>3, <1>8, <2>1, LengthOf
<1> QED
  BY <1>4, <1>11, <1>12, <1>13 DEF Body, CutFrom, Files

(* A band that is not empty is sound. *)
LEMMA BandSound ==
  ASSUME NEW matrix, NEW d, Sound(d, matrix), NEW band,
         "meta" \in DOMAIN OverlapBand(d, band)
  PROVE  Sound(OverlapBand(d, band), matrix) /\ (HasNames(d) => HasNames(OverlapBand(d, band)))
<1> DEFINE S == {k \in DOMAIN d["pairs"] : OverlapAt(d, k) \in band}
<1>1. PICK keep : keep = Ascending(S)
  OBVIOUS
<1>2. KeepsOf(d, keep)
  <2>1. PICK m \in Nat : DOMAIN d["pairs"] = 1 .. m
    BY DEF Sound, Body, PairsOf, PairsFit
  <2>2. IsFiniteSet(1 .. m)
    <3>1. 1 \in Int /\ m \in Int
      BY <2>1
    <3> QED
      BY ONLY <3>1, FS_Interval
  <2>3. S \subseteq 1 .. m
    BY <2>1
  <2>4. IsFiniteSet(S) /\ S \subseteq Int
    BY <2>2, <2>3, FS_Subset
  <2> HIDE DEF S
  <2>5. PICK j : j = Cardinality(S)
    OBVIOUS
  <2>6. /\ j \in Nat /\ keep \in [1 .. j -> S]
        /\ \A k, l \in 1 .. j : k < l <=> keep[k] < keep[l]
    BY <1>1, <2>4, <2>5, AscendingLists
  <2>7. keep \in [1 .. j -> DOMAIN d["pairs"]]
    BY <2>1, <2>3, <2>6
  <2> QED
    BY <2>6, <2>7 DEF KeepsOf
<1>3. PICK e : e = EmittedOf(d, keep)
  OBVIOUS
<1>4. PICK x : x = Derived(d, keep, "overlap-band", e, DataFiles)
  OBVIOUS
<1>5. OverlapBand(d, band) = IF keep = <<>> THEN Without(x, "meta") ELSE x
  BY <1>1, <1>3, <1>4 DEF OverlapBand, InBand, Band
<1>6. "meta" \notin DOMAIN Without(x, "meta")
  BY DEF Without, Restrict
<1>7. OverlapBand(d, band) = x
  BY <1>5, <1>6
<1>8. /\ CutFrom(x, d, keep)
      /\ x["meta"].n_entities = d["meta"].n_entities
      /\ x["meta"].n_dims = d["meta"].n_dims /\ x["meta"].nnz = d["meta"].nnz
      /\ x["meta"].n_pairs = Len(keep) /\ x["meta"].n_emitted = e
      /\ HashesMatch(x)
  BY <1>4, DerivedFiles
<1>9. DOMAIN x = Files
  BY <1>8 DEF CutFrom
<1>10. Body(x, matrix) /\ Len(x["golden"]) = Len(keep)
  <2>1. Body(d, matrix)
    BY DEF Sound
  <2> QED
    BY <1>2, <1>8, <2>1, DerivedBody
<1>11. e = Cardinality({k \in DOMAIN x["golden"] : Retained(x["golden"][k])})
  <2>1. PICK G, H : G = d["golden"] /\ H = x["golden"]
    OBVIOUS
  <2>2. H = [k \in DOMAIN keep |-> G[keep[k]]]
    BY <1>8, <2>1 DEF CutFrom
  <2>3. {k \in DOMAIN keep : Retained(G[keep[k]])} = {k \in DOMAIN H : Retained(H[k])}
    BY <2>2
  <2>4. e = Cardinality({k \in DOMAIN keep : Retained(G[keep[k]])})
    BY <1>3, <2>1 DEF EmittedOf
  <2> QED
    BY <2>1, <2>3, <2>4
<1>12. x["entities"] = d["entities"] /\ x["dimids"] = d["dimids"] /\ x["vals"] = d["vals"]
  BY <1>8 DEF DataFiles, CutFrom
<1>13. DocumentOf(x, matrix)
  <2>1. PICK n : n = Cardinality(DOMAIN matrix)
    OBVIOUS
  <2>2. /\ d["meta"].n_entities = n /\ SortedInts(d["entities"], n)
        /\ SortedInts(d["dimids"], d["meta"].n_dims) /\ d["meta"].nnz = Len(d["vals"])
    BY <2>1 DEF Sound, DocumentOf
  <2>3. /\ x["meta"].n_entities = n /\ SortedInts(x["entities"], n)
        /\ SortedInts(x["dimids"], x["meta"].n_dims) /\ x["meta"].nnz = Len(x["vals"])
        /\ x["meta"].n_pairs = Len(x["golden"])
        /\ x["meta"].n_emitted = Cardinality({k \in DOMAIN x["golden"] : Retained(x["golden"][k])})
    BY <1>8, <1>10, <1>11, <1>12, <2>2
  <2> QED
    BY <2>1, <2>3 DEF DocumentOf
<1> QED
  BY <1>7, <1>8, <1>9, <1>10, <1>12, <1>13 DEF Sound, HasNames

(* Pairs of rows that overlap enough, listed in order.                     *)
LEMMA OrderedPairsFit ==
  ASSUME NEW matrix, IsMatrix(matrix), NEW C, C \subseteq (DOMAIN matrix) \X (DOMAIN matrix),
         \A p \in C : p[1] < p[2] /\ Cardinality(Overlap(matrix[p[1]], matrix[p[2]])) >= MIN_OVERLAP,
         NEW pairs, pairs = Ordered(C, Below),
         NEW golden, golden = [k \in DOMAIN pairs |-> pair_sim(matrix[pairs[k][1]], matrix[pairs[k][2]])]
  PROVE  PairsFit(pairs, golden, matrix)
<1>1. PICK n : n = Cardinality(DOMAIN matrix)
  OBVIOUS
<1>2. n \in Nat /\ DOMAIN matrix = 0 .. n - 1 /\ IsFiniteSet(DOMAIN matrix)
  BY <1>1, FS_CardinalityType DEF IsMatrix
<1>3. IsFiniteSet(C) /\ C \subseteq Nat \X Nat
  <2>1. IsFiniteSet((DOMAIN matrix) \X (DOMAIN matrix))
    BY <1>2, FS_Product
  <2>2. IsFiniteSet(C)
    BY <2>1, FS_Subset
  <2>3. DOMAIN matrix \subseteq Nat
    BY <1>2
  <2> QED
    BY <2>2, <2>3
<1>4. PICK m : m = Cardinality(C)
  OBVIOUS
<1>5. /\ m \in Nat /\ pairs \in [1 .. m -> C]
      /\ \A k, l \in 1 .. m : k < l <=> Below(pairs[k], pairs[l])
  <2>1. LET s == Ordered(C, Below)
            k1 == Cardinality(C)
        IN  /\ k1 \in Nat /\ s \in [1 .. k1 -> C]
            /\ \A k, l \in 1 .. k1 : k < l <=> Below(s[k], s[l])
    BY <1>3, BelowLists
  <2> QED
    BY <1>4, <2>1
<1>6. pairs \in [1 .. m -> (0 .. n - 1) \X (0 .. n - 1)]
  BY <1>2, <1>5
<1>7. golden = [k \in 1 .. m |-> pair_sim(matrix[pairs[k][1]], matrix[pairs[k][2]])]
  BY <1>5
<1>8. \A k \in 1 .. m : /\ pairs[k][1] < pairs[k][2]
                        /\ Cardinality(Overlap(matrix[pairs[k][1]], matrix[pairs[k][2]])) >= MIN_OVERLAP
  <2> SUFFICES ASSUME NEW k \in 1 .. m
               PROVE  /\ pairs[k][1] < pairs[k][2]
                      /\ Cardinality(Overlap(matrix[pairs[k][1]], matrix[pairs[k][2]])) >= MIN_OVERLAP
    OBVIOUS
  <2>1. PICK p \in C : p = pairs[k]
    BY <1>5
  <2> QED
    BY <2>1
<1> QED
  <2>1. \E i \in Nat :
          /\ pairs \in [1 .. i -> (0 .. n - 1) \X (0 .. n - 1)]
          /\ golden = [k \in 1 .. i |-> pair_sim(matrix[pairs[k][1]], matrix[pairs[k][2]])]
          /\ \A k \in 1 .. i :
               /\ pairs[k][1] < pairs[k][2]
               /\ Cardinality(Overlap(matrix[pairs[k][1]], matrix[pairs[k][2]])) >= MIN_OVERLAP
          /\ \A k, l \in 1 .. i : k < l => Below(pairs[k], pairs[l])
    <3>1. m \in Nat
      BY <1>5
    <3> WITNESS m \in Nat
    <3> QED
      BY <1>5, <1>6, <1>7, <1>8
  <2> QED
    BY <1>1, <2>1 DEF PairsFit

EveryFile(x) == x = [f \in Files |-> x[f]]

(* What is written for them is sound. *)
LEMMA WrittenSound ==
  ASSUME NEW mode, NEW matrix, IsMatrix(matrix), NEW pairs, NEW golden, PairsFit(pairs, golden, matrix),
         NEW entities, SortedInts(entities, Cardinality(DOMAIN matrix)),
         NEW dimids, SortedInts(dimids, Len(dimids)),
         NEW x, x = Written(mode, matrix, pairs, golden, entities, dimids)
  PROVE  Sound(x, matrix) /\ EveryFile(x) /\ x["meta"].mode = mode
         /\ x["golden"] = golden /\ x["entities"] = entities /\ x["pairs"] = pairs
<1> DEFINE data == Arrays(matrix, pairs, golden, entities, dimids)
           meta == [mode |-> mode, n_entities |-> Cardinality(DOMAIN matrix), n_dims |-> Len(dimids),
                    nnz |-> Len(data.vals), n_pairs |-> Len(data.golden),
                    n_emitted |-> Cardinality({k \in DOMAIN data.golden : Retained(data.golden[k])}),
                    files |-> data]
<1>1. x = [f \in Files |-> IF f = "meta" THEN meta ELSE data[f]]
  BY DEF Written, Described
<1>2. /\ "meta" \in Files /\ "meta" \notin DataFiles /\ DataFiles \subseteq Files
      /\ {"offsets", "dims", "vals", "pairs", "golden", "entities", "dimids"} = DataFiles
  BY DEF Files, DataFiles
<1>3. /\ data.pairs = pairs /\ data.golden = golden /\ data.entities = entities /\ data.dimids = dimids
      /\ data["pairs"] = pairs /\ data["golden"] = golden /\ data["entities"] = entities
      /\ data["dimids"] = dimids /\ data["vals"] = data.vals
      /\ DOMAIN data = DataFiles
  BY <1>2 DEF Arrays
<1>4. LET a == Arrays(matrix, <<>>, <<>>, <<>>, <<>>)
      IN  data["offsets"] = a.offsets /\ data["dims"] = a.dims /\ data["vals"] = a.vals
  BY DEF Arrays
<1>5. /\ meta.mode = mode /\ meta.n_entities = Cardinality(DOMAIN matrix) /\ meta.n_dims = Len(dimids)
      /\ meta.nnz = Len(data["vals"]) /\ meta.n_pairs = Len(golden)
      /\ meta.n_emitted = Cardinality({k \in DOMAIN golden : Retained(golden[k])})
      /\ meta.files = data
  BY <1>3
<1> HIDE DEF data, meta
<1>6. x["meta"] = meta /\ DOMAIN x = Files /\ \A f \in DataFiles : x[f] = data[f]
  BY <1>1, <1>2
<1>7. /\ x["pairs"] = pairs /\ x["golden"] = golden /\ x["entities"] = entities /\ x["dimids"] = dimids
      /\ x["offsets"] = data["offsets"] /\ x["dims"] = data["dims"] /\ x["vals"] = data["vals"]
  BY <1>2, <1>3, <1>6
<1>8. Body(x, matrix)
  BY <1>2, <1>4, <1>6, <1>7 DEF Body, Holds, PairsOf
<1>9. HashesMatch(x)
  BY <1>3, <1>5, <1>6 DEF HashesMatch
<1>10. DocumentOf(x, matrix)
  BY <1>5, <1>6, <1>7 DEF DocumentOf
<1>11. EveryFile(x)
  BY <1>1 DEF EveryFile
<1> QED
  BY <1>5, <1>6, <1>7, <1>8, <1>9, <1>10, <1>11 DEF Sound

LEMMA FiniteImage ==
  ASSUME NEW S, IsFiniteSet(S), NEW f
  PROVE  IsFiniteSet({f[x] : x \in S})
<1> DEFINE g == [x \in S |-> f[x]]
           T == {f[x] : x \in S}
<1>1. g \in Surjection(S, T)
  BY DEF Surjection
<1> HIDE DEF g, T
<1>2. IsFiniteSet(T)
  BY <1>1, FS_Surjection
<1> QED
  BY <1>2 DEF T

Review == [user : Nat, business : Nat, stars : Int]
Modes  == {"item", "user"}

LEMMA AscendingSorted ==
  ASSUME NEW S, IsFiniteSet(S), S \subseteq Int
  PROVE  SortedInts(Ascending(S), Cardinality(S)) /\ Len(Ascending(S)) = Cardinality(S)
<1>1. PICK s, n : s = Ascending(S) /\ n = Cardinality(S)
  OBVIOUS
<1>2. /\ n \in Nat /\ s \in [1 .. n -> S]
      /\ \A k, l \in 1 .. n : k < l <=> s[k] < s[l]
  BY <1>1, AscendingLists
<1>3. s \in [1 .. n -> Int] /\ DOMAIN s = 1 .. n /\ \A k \in 1 .. n : s[k] \in Int
  BY <1>2
<1>4. Sorted(s)
  <2> SUFFICES ASSUME NEW i \in 1 .. n, NEW j \in 1 .. n, i < j PROVE s[i] <= s[j]
    BY <1>3 DEF Sorted
  <2>1. s[i] < s[j] /\ s[i] \in Int /\ s[j] \in Int
    BY <1>2, <1>3
  <2> QED
    BY <2>1
<1>5. Len(s) = n
  BY <1>2, LengthOf
<1> QED
  BY <1>1, <1>2, <1>3, <1>4, <1>5 DEF SortedInts

(* The reviews of a file are few and name entities and dimensions by       *)
(* numbers.                                                                *)
LEMMA NamesFinite ==
  ASSUME NEW R \in Seq(Review), NEW mode \in Modes
  PROVE  /\ DOMAIN R = 1 .. Len(R) /\ Len(R) \in Nat /\ IsFiniteSet(DOMAIN R)
         /\ \A i \in DOMAIN R : R[i] \in Review /\ Entity(R[i], mode) \in Nat /\ Dim(R[i], mode) \in Nat
         /\ IsFiniteSet(Entities(R, mode)) /\ Entities(R, mode) \subseteq Nat
         /\ IsFiniteSet(Dims(R, mode)) /\ Dims(R, mode) \subseteq Nat
<1>1. DOMAIN R = 1 .. Len(R) /\ Len(R) \in Nat
  OBVIOUS
<1>2. IsFiniteSet(DOMAIN R)
  BY <1>1, FS_Interval
<1>3. \A i \in DOMAIN R : R[i] \in Review
  BY <1>1
<1>4. \A i \in DOMAIN R : Entity(R[i], mode) \in Nat /\ Dim(R[i], mode) \in Nat
  BY <1>3 DEF Review, Entity, Dim
<1> DEFINE e == [i \in DOMAIN R |-> Entity(R[i], mode)]
           d == [i \in DOMAIN R |-> Dim(R[i], mode)]
<1>5. IsFiniteSet({e[i] : i \in DOMAIN R}) /\ IsFiniteSet({d[i] : i \in DOMAIN R})
  <2> HIDE DEF e, d
  <2> QED
    BY <1>2, FiniteImage
<1>6. Entities(R, mode) = {e[i] : i \in DOMAIN R} /\ Dims(R, mode) = {d[i] : i \in DOMAIN R}
  BY DEF Entities, Dims
<1>7. Entities(R, mode) \subseteq Nat /\ Dims(R, mode) \subseteq Nat
  BY <1>4 DEF Entities, Dims
<1> QED
  BY <1>1, <1>2, <1>3, <1>4, <1>5, <1>6, <1>7

LEMMA PickedTyped ==
  ASSUME NEW X, NEW R \in Seq(X), NEW I \in SUBSET DOMAIN R
  PROVE  /\ Picked(R, I) \in Seq(X)
         /\ \A k \in DOMAIN Picked(R, I) : \E i \in I : Picked(R, I)[k] = R[i]
<1>1. DOMAIN R = 1 .. Len(R) /\ Len(R) \in Nat
  OBVIOUS
<1>2. IsFiniteSet(I) /\ I \subseteq Int
  <2>1. IsFiniteSet(DOMAIN R) /\ DOMAIN R \subseteq Int
    BY <1>1, FS_Interval
  <2> QED
    BY <2>1, FS_Subset
<1>3. PICK s, n : s = Ascending(I) /\ n = Cardinality(I)
  OBVIOUS
<1>4. n \in Nat /\ s \in [1 .. n -> I]
  BY <1>2, <1>3, AscendingLists
<1>5. Picked(R, I) = [k \in 1 .. n |-> R[s[k]]]
  BY <1>3, <1>4 DEF Picked
<1>6. \A k \in 1 .. n : s[k] \in I /\ R[s[k]] \in X
  BY <1>1, <1>4
<1>7. [k \in 1 .. n |-> R[s[k]]] \in [1 .. n -> X]
  BY <1>6
<1> QED
  BY <1>4, <1>5, <1>6, <1>7, LengthOf

LEMMA RatingsVector ==
  ASSUME NEW R \in Seq(Review), NEW mode \in Modes, NEW e
  PROVE  IsVector(Ratings(R, mode, e)) /\ DOMAIN Ratings(R, mode, e) \subseteq Dims(R, mode)
<1> DEFINE I == Basket(R, mode, e)
           D == {Dim(R[i], mode) : i \in I}
           J(d) == {i \in I : Dim(R[i], mode) = d}
<1>1. /\ DOMAIN R = 1 .. Len(R) /\ Len(R) \in Nat
      /\ \A i \in DOMAIN R : R[i] \in Review
      /\ IsFiniteSet(Dims(R, mode)) /\ Dims(R, mode) \subseteq Nat
  BY NamesFinite
<1>2. Ratings(R, mode, e) = [d \in D |-> R[Max(J(d))].stars]
  BY DEF Ratings, list2dict
<1>3. D \subseteq Dims(R, mode)
  BY DEF Basket, Dims
<1>4. IsFiniteSet(D)
  BY <1>1, <1>3, FS_Subset
<1>5. \A d \in D : R[Max(J(d))].stars \in Int
  <2> SUFFICES ASSUME NEW d \in D PROVE R[Max(J(d))].stars \in Int
    OBVIOUS
  <2>1. J(d) # {}
    OBVIOUS
  <2>2. J(d) \subseteq DOMAIN R
    BY DEF Basket
  <2> HIDE DEF J
  <2>3. J(d) \subseteq Int /\ \A x \in J(d) : x <= Len(R)
    BY <1>1, <2>2
  <2>4. Max(J(d)) \in J(d)
    BY <1>1, <2>1, <2>3, MaxMember
  <2>5. R[Max(J(d))] \in Review
    BY <1>1, <2>2, <2>4
  <2> QED
    BY <2>5 DEF Review
<1> HIDE DEF J, D
<1>6. DOMAIN Ratings(R, mode, e) = D
  BY <1>2
<1>7. \A d \in D : d \in Nat /\ Ratings(R, mode, e)[d] \in Int
  BY <1>1, <1>2, <1>3, <1>5
<1>8. Ratings(R, mode, e) = [d \in D |-> Ratings(R, mode, e)[d]]
  BY <1>2
<1> QED
  BY <1>3, <1>4, <1>6, <1>7, <1>8 DEF IsVector

LEMMA RowsMatrix ==
  ASSUME NEW R \in Seq(Review), NEW mode \in Modes
  PROVE  /\ IsMatrix(RowsOf(R, mode))
         /\ Cardinality(DOMAIN RowsOf(R, mode)) = Cardinality(Entities(R, mode))
<1>1. PICK E, M : E = Entities(R, mode) /\ M = Dims(R, mode)
  OBVIOUS
<1>2. IsFiniteSet(E) /\ E \subseteq Int /\ IsFiniteSet(M) /\ M \subseteq Int
  BY <1>1, NamesFinite
<1>3. PICK entities, dims, n, m : /\ entities = Ascending(E) /\ dims = Ascending(M)
                                  /\ n = Cardinality(E) /\ m = Cardinality(M)
  OBVIOUS
<1>4. n \in Nat /\ m \in Nat /\ Len(entities) = n /\ Len(dims) = m
  BY <1>2, <1>3, AscendingSorted, FS_CardinalityType
<1> DEFINE rat(i) == Ratings(R, mode, entities[i + 1])
           there(i) == {e \in 0 .. m - 1 : dims[e + 1] \in DOMAIN rat(i)}
           row(i) == [d \in there(i) |-> rat(i)[dims[d + 1]]]
<1>5. RowsOf(R, mode) = [i \in 0 .. n - 1 |-> row(i)]
  BY <1>1, <1>3, <1>4 DEF RowsOf
<1>6. \A i : IsVector(row(i))
  <2> SUFFICES ASSUME NEW i PROVE IsVector(row(i))
    OBVIOUS
  <2>1. IsVector(rat(i))
    BY RatingsVector
  <2>2. there(i) \subseteq 0 .. m - 1
    OBVIOUS
  <2>3. \A d \in there(i) : dims[d + 1] \in DOMAIN rat(i)
    OBVIOUS
  <2> HIDE DEF rat
  <2>4. DOMAIN row(i) = there(i) /\ \A d \in there(i) : row(i)[d] = rat(i)[dims[d + 1]]
    OBVIOUS
  <2>5. row(i) = [d \in DOMAIN row(i) |-> row(i)[d]]
    OBVIOUS
  <2> HIDE DEF there, row
  <2>6. IsFiniteSet(0 .. m - 1)
    BY <1>4, FS_Interval
  <2>7. IsFiniteSet(there(i))
    BY <2>2, <2>6, FS_Subset
  <2>8. \A d \in there(i) : d \in Nat /\ row(i)[d] \in Int
    <3> SUFFICES ASSUME NEW d \in there(i) PROVE d \in Nat /\ row(i)[d] \in Int
      OBVIOUS
    <3>1. d \in 0 .. m - 1
      BY <2>2
    <3>2. PICK v, e : v = rat(i) /\ e = dims[d + 1]
      OBVIOUS
    <3>3. IsVector(v) /\ e \in DOMAIN v /\ row(i)[d] = v[e]
      BY <2>1, <2>3, <2>4, <3>2
    <3>4. row(i)[d] \in Int
      BY <3>3 DEF IsVector
    <3> QED
      BY <1>4, <3>1, <3>4
  <2> QED
    BY <2>4, <2>5, <2>7, <2>8 DEF IsVector
<1> HIDE DEF row
<1>7. DOMAIN RowsOf(R, mode) = 0 .. n - 1
  BY <1>5
<1>8. IsFiniteSet(0 .. n - 1) /\ Cardinality(0 .. n - 1) = n
  BY <1>4, FS_Interval
<1>9. RowsOf(R, mode) = [i \in DOMAIN RowsOf(R, mode) |-> RowsOf(R, mode)[i]]
  BY <1>5
<1>10. \A i \in 0 .. n - 1 : IsVector(RowsOf(R, mode)[i])
  BY <1>5, <1>6
<1> QED
  BY <1>1, <1>3, <1>7, <1>8, <1>9, <1>10 DEF IsMatrix

LEMMA SubsetTyped ==
  ASSUME NEW R \in Seq(Review), NEW mode, NEW subset
  PROVE  Subset(Dedup(R), mode, subset) \in Seq(Review)
<1>1. Dedup(R) \in Seq(Review)
  <2> DEFINE I == {i \in DOMAIN R : \A j \in DOMAIN R :
                     (R[i].user = R[j].user /\ R[i].business = R[j].business) => i = j \/ Newer(i, j)}
  <2>1. Dedup(R) = Picked(R, I)
    BY DEF Dedup
  <2>2. I \in SUBSET DOMAIN R
    OBVIOUS
  <2> HIDE DEF I
  <2> QED
    BY <2>1, <2>2, PickedTyped
<1>2. PICK T \in Seq(Review) : T = Dedup(R)
  BY <1>1
<1>3. CASE subset = <<>>
  BY <1>2, <1>3 DEF Subset
<1>4. CASE subset # <<>>
  <2> DEFINE full == Ascending(Entities(T, mode))
             keep == {full[i] : i \in {j \in DOMAIN full : (j - 1) % subset[1] = subset[2]}}
             I == {i \in DOMAIN T : Entity(T[i], mode) \in keep}
  <2>1. Subset(T, mode, subset) = Picked(T, I)
    BY <1>4 DEF Subset
  <2>2. I \in SUBSET DOMAIN T
    OBVIOUS
  <2> HIDE DEF I
  <2> QED
    BY <1>2, <2>1, <2>2, PickedTyped
<1> QED
  BY <1>3, <1>4

LEMMA ExportSound ==
  ASSUME NEW R \in Seq(Review), NEW mode \in Modes, NEW subset,
         NEW x, x = Export(R, mode, subset)
  PROVE  \E matrix : Sound(x, matrix) /\ EveryFile(x)
<1>1. PICK T \in Seq(Review) : T = Subset(Dedup(R), mode, subset)
  BY SubsetTyped
<1>2. PICK matrix : matrix = RowsOf(T, mode)
  OBVIOUS
<1>3. IsMatrix(matrix) /\ Cardinality(DOMAIN matrix) = Cardinality(Entities(T, mode))
  BY <1>2, RowsMatrix
<1>4. PICK C : C = Candidates(matrix, mode, Cardinality(Dims(T, mode)))
  OBVIOUS
<1>5. C \subseteq (DOMAIN matrix) \X (DOMAIN matrix)
  BY <1>4 DEF Candidates
<1>6. \A p \in C : p[1] < p[2] /\ Cardinality(Overlap(matrix[p[1]], matrix[p[2]])) >= MIN_OVERLAP
  BY <1>4 DEF Candidates
<1>7. PICK pairs : pairs = Ordered(C, Below)
  OBVIOUS
<1>8. PICK golden : golden = [k \in DOMAIN pairs |-> pair_sim(matrix[pairs[k][1]], matrix[pairs[k][2]])]
  OBVIOUS
<1>9. PairsFit(pairs, golden, matrix)
  BY <1>3, <1>5, <1>6, <1>7, <1>8, OrderedPairsFit
<1>10. PICK entities, dimids : entities = Ascending(Entities(T, mode)) /\ dimids = Ascending(Dims(T, mode))
  OBVIOUS
<1>11. SortedInts(entities, Cardinality(DOMAIN matrix)) /\ SortedInts(dimids, Len(dimids))
  <2>1. /\ IsFiniteSet(Entities(T, mode)) /\ Entities(T, mode) \subseteq Int
        /\ IsFiniteSet(Dims(T, mode)) /\ Dims(T, mode) \subseteq Int
    BY <1>1, NamesFinite
  <2>2. SortedInts(entities, Cardinality(Entities(T, mode)))
    BY <1>10, <2>1, AscendingSorted
  <2>3. SortedInts(dimids, Cardinality(Dims(T, mode))) /\ Len(dimids) = Cardinality(Dims(T, mode))
    BY <1>10, <2>1, AscendingSorted
  <2> QED
    BY <1>3, <2>2, <2>3
<1>12. x = Written(mode, matrix, pairs, golden, entities, dimids)
  BY <1>1, <1>2, <1>4, <1>7, <1>8, <1>10 DEF Export
<1>13. Sound(x, matrix) /\ EveryFile(x)
  BY <1>3, <1>9, <1>11, <1>12, WrittenSound
<1> QED
  BY <1>13

LEMMA SyntheticSound ==
  ASSUME NEW matrix, IsMatrix(matrix), NEW x, x = Synthetic(matrix)
  PROVE  Sound(x, matrix) /\ EveryFile(x)
<1>1. PICK C : C = {p \in (DOMAIN matrix) \X (DOMAIN matrix) :
                      p[1] < p[2] /\ Cardinality(Overlap(matrix[p[1]], matrix[p[2]])) >= MIN_OVERLAP}
  OBVIOUS
<1>2. PICK pairs : pairs = Ordered(C, Below)
  OBVIOUS
<1>3. PICK golden : golden = [k \in DOMAIN pairs |-> pair_sim(matrix[pairs[k][1]], matrix[pairs[k][2]])]
  OBVIOUS
<1>4. C \subseteq (DOMAIN matrix) \X (DOMAIN matrix)
  BY <1>1
<1>5. \A p \in C : p[1] < p[2] /\ Cardinality(Overlap(matrix[p[1]], matrix[p[2]])) >= MIN_OVERLAP
  BY <1>1
<1>6. PairsFit(pairs, golden, matrix)
  BY <1>2, <1>3, <1>4, <1>5, OrderedPairsFit
<1>7. PICK n : n = Cardinality(DOMAIN matrix)
  OBVIOUS
<1>8. n \in Nat /\ IsFiniteSet(DOMAIN matrix)
  BY <1>7, FS_CardinalityType DEF IsMatrix
<1>9. PICK entities : entities = [i \in 1 .. n |-> i]
  OBVIOUS
<1>10. SortedInts(entities, n)
  BY <1>8, <1>9 DEF SortedInts, Sorted
<1> DEFINE names == [i \in DOMAIN matrix |-> DOMAIN matrix[i]]
           D == UNION {names[i] : i \in DOMAIN matrix}
<1>11. D = UNION {DOMAIN matrix[i] : i \in DOMAIN matrix}
  OBVIOUS
<1>12. IsFiniteSet(D) /\ D \subseteq Int
  <2>1. \A i \in DOMAIN matrix : IsFiniteSet(names[i]) /\ names[i] \subseteq Nat
    BY DEF IsMatrix, IsVector
  <2> HIDE DEF names
  <2>2. IsFiniteSet({names[i] : i \in DOMAIN matrix})
    BY <1>8, FiniteImage
  <2>3. \A S \in {names[i] : i \in DOMAIN matrix} : IsFiniteSet(S)
    BY <2>1
  <2>4. IsFiniteSet(D)
    BY <2>2, <2>3, FS_UNION
  <2> QED
    BY <2>1, <2>4
<1> HIDE DEF D
<1>13. PICK dimids : dimids = Ascending(D)
  OBVIOUS
<1>14. SortedInts(dimids, Len(dimids))
  <2>1. SortedInts(dimids, Cardinality(D)) /\ Len(dimids) = Cardinality(D)
    BY <1>12, <1>13, AscendingSorted
  <2> QED
    BY <2>1
<1>15. x = Written("synthetic", matrix, pairs, golden, entities, dimids)
  BY <1>1, <1>2, <1>3, <1>7, <1>9, <1>11, <1>13 DEF Synthetic
<1> QED
  BY <1>6, <1>7, <1>10, <1>14, <1>15, WrittenSound

(* What an export writes when nothing interrupts it is sound. *)
LEMMA TargetSound ==
  ASSUME NEW in \in Inputs
  PROVE  /\ \E matrix : Sound(Target(in), matrix)
         /\ EveryFile(Target(in))
<1>1. PICK x : x = Target(in)
  OBVIOUS
<1>2. CASE in.mode = "synthetic"
  <2>1. IsMatrix(in.rows)
    BY <1>2, InputsAssumption
  <2>2. x = Synthetic(in.rows)
    BY <1>1, <1>2 DEF Target
  <2>3. Sound(x, in.rows) /\ EveryFile(x)
    BY <2>1, <2>2, SyntheticSound
  <2> QED
    BY <1>1, <2>3
<1>3. CASE in.mode # "synthetic"
  <2>1. in.mode \in Modes /\ in.reviews \in Seq(Review)
    BY <1>3, InputsAssumption DEF Modes, Review
  <2>2. x = Export(in.reviews, in.mode, in.subset)
    BY <1>1, <1>3 DEF Target
  <2>3. \E matrix : Sound(x, matrix) /\ EveryFile(x)
    BY <2>1, <2>2, ExportSound
  <2> QED
    BY <1>1, <2>3
<1> QED
  BY <1>2, <1>3

LEMMA SignOfMultiple ==
  ASSUME NEW a \in Int, NEW x \in Nat \ {0}
  PROVE  /\ a = 0 => a * x = 0
         /\ a > 0 => a * x > 0
         /\ a < 0 => a * x < 0
OBVIOUS

LEMMA AboveOrder ==
  ASSUME NEW r \in Sims, NEW s \in Sims, NEW t \in Sims
  PROVE  /\ Above(r, s) => ~Above(s, r)
         /\ ~Above(s, r) /\ ~Above(t, s) => ~Above(t, r) /\ (Above(r, s) \/ Above(s, t) => Above(r, t))
<1>1. PICK a, b, c \in Int : a = r.p /\ b = s.p /\ c = t.p
  BY DEF Sims
<1>2. PICK x, y, z \in Nat \ {0} : x = r.q /\ y = s.q /\ z = t.q
  BY DEF Sims
<1>3. PICK ay, bx, bz, cy, az, cx \in Int :
        ay = a * y /\ bx = b * x /\ bz = b * z /\ cy = c * y /\ az = a * z /\ cx = c * x
  OBVIOUS
<1>4. /\ (Above(r, s) <=> ay > bx \/ (a = 0 /\ b = 0 /\ x > y))
      /\ (Above(s, r) <=> bx > ay \/ (b = 0 /\ a = 0 /\ y > x))
      /\ (Above(s, t) <=> bz > cy \/ (b = 0 /\ c = 0 /\ y > z))
      /\ (Above(t, s) <=> cy > bz \/ (c = 0 /\ b = 0 /\ z > y))
      /\ (Above(r, t) <=> az > cx \/ (a = 0 /\ c = 0 /\ x > z))
      /\ (Above(t, r) <=> cx > az \/ (c = 0 /\ a = 0 /\ z > x))
  BY <1>1, <1>2, <1>3 DEF Above
<1>5. ASSUME ay >= bx, bz >= cy
      PROVE  az >= cx /\ (ay > bx \/ bz > cy => az > cx)
  BY <1>3, <1>5, FractionOrder
<1>6. /\ (a = 0 => ay = 0 /\ az = 0) /\ (a > 0 => ay > 0 /\ az > 0) /\ (a < 0 => ay < 0 /\ az < 0)
      /\ (b = 0 => bx = 0 /\ bz = 0) /\ (b > 0 => bx > 0 /\ bz > 0) /\ (b < 0 => bx < 0 /\ bz < 0)
      /\ (c = 0 => cx = 0 /\ cy = 0) /\ (c > 0 => cx > 0 /\ cy > 0) /\ (c < 0 => cx < 0 /\ cy < 0)
  BY <1>3, SignOfMultiple
<1> QED
  BY <1>3, <1>4, <1>5, <1>6

(* The first terms of the stable sort are terms. *)
LEMMA BestTerms ==
  ASSUME NEW n \in Nat, NEW terms, DOMAIN terms = 1 .. n, Len(terms) = n,
         \A i \in 1 .. n : terms[i].weight \in Sims
  PROVE  \A k \in DOMAIN Best(terms) : \E i \in 1 .. n : Best(terms)[k] = terms[i]
<1> DEFINE before(i, j) == Above(terms[i].weight, terms[j].weight)
                           \/ (~Above(terms[j].weight, terms[i].weight) /\ i < j)
           S == 1 .. n
           R == {p \in S \X S : before(p[1], p[2])}
<1>1. \A x, y \in S : <<x, y>> \in R <=> before(x, y)
  OBVIOUS
<1>2. StrictOrder(S, R)
  <2>1. ASSUME NEW x \in S, NEW y \in S, NEW z \in S, before(x, y), before(y, z) PROVE before(x, z)
    <3>1. PICK r, s, t \in Sims : r = terms[x].weight /\ s = terms[y].weight /\ t = terms[z].weight
      OBVIOUS
    <3>2. /\ Above(r, s) \/ (~Above(s, r) /\ x < y)
          /\ Above(s, t) \/ (~Above(t, s) /\ y < z)
      BY <2>1, <3>1
    <3>3. /\ (Above(r, s) => ~Above(s, r)) /\ (Above(s, t) => ~Above(t, s))
          /\ ~Above(s, r) /\ ~Above(t, s) => ~Above(t, r) /\ (Above(r, s) \/ Above(s, t) => Above(r, t))
      BY AboveOrder
    <3>4. x < y /\ y < z => x < z
      OBVIOUS
    <3>5. Above(r, t) \/ (~Above(t, r) /\ x < z)
      BY <3>2, <3>3, <3>4
    <3> QED
      BY <3>1, <3>5
  <2>2. ASSUME NEW x \in S, NEW y \in S PROVE x = y \/ before(x, y) \/ before(y, x)
    <3>1. x = y \/ x < y \/ y < x
      OBVIOUS
    <3> QED
      BY <3>1
  <2>3. ASSUME NEW x \in S PROVE ~before(x, x)
    <3>1. Above(terms[x].weight, terms[x].weight) => ~Above(terms[x].weight, terms[x].weight)
      BY AboveOrder
    <3> QED
      BY <3>1
  <2> HIDE DEF R, before, S
  <2>4. \A x, y, z \in S : <<x, y>> \in R /\ <<y, z>> \in R => <<x, z>> \in R
    BY <1>1, <2>1
  <2> QED
    BY <1>1, <2>2, <2>3, <2>4 DEF StrictOrder
<1>3. IsFiniteSet(S) /\ Cardinality(S) = n
  BY FS_Interval
<1> DEFINE A(k) == CHOOSE x \in DOMAIN terms : Cardinality({y \in DOMAIN terms : before(y, x)}) = k - 1
           B(k) == CHOOSE x \in S : Cardinality(Preceding(S, R, x)) = k - 1
<1>4. \A k : A(k) = B(k)
  <2>1. \A x \in S : Preceding(S, R, x) = {y \in S : before(y, x)}
    <3> HIDE DEF before
    <3> QED
      BY DEF Preceding
  <2> HIDE DEF R, before
  <2> QED
    BY <2>1
<1>5. Best(terms) = [k \in 1 .. Min({N, Len(terms)}) |-> terms[[l \in 1 .. Cardinality(DOMAIN terms) |-> A(l)][k]]]
  BY DEF Best, Ordered, Heavier
<1> HIDE DEF A
<1>6. \A k \in 1 .. n : B(k) \in S
  <2>1. LET s == Listing(S, R)
            m == Cardinality(S)
        IN  /\ m \in Nat /\ s \in [1 .. m -> S]
            /\ \A k \in 1 .. m : Cardinality(Preceding(S, R, s[k])) = k - 1
            /\ \A x \in S : \E k \in 1 .. m : s[k] = x
            /\ \A k, l \in 1 .. m : k < l <=> <<s[k], s[l]>> \in R
    <3> HIDE DEF S, R
    <3> QED
      BY <1>2, <1>3, ListingOrders
  <2>2. Listing(S, R) = [k \in 1 .. n |-> B(k)]
    BY <1>3 DEF Listing
  <2> HIDE DEF B, S, R
  <2> QED
    BY <1>3, <2>1, <2>2
<1> HIDE DEF B, R
<1>7. Min({N, Len(terms)}) \in Int /\ Min({N, Len(terms)}) <= n
  BY MinOfTwo, TrainingAssumption
<1>8. \A k \in 1 .. n : [l \in 1 .. Cardinality(DOMAIN terms) |-> A(l)][k] = B(k)
  BY <1>3, <1>4
<1>9. PICK m \in Int : m <= n /\ m = Min({N, Len(terms)})
  BY <1>7
<1>10. PICK g : g = [l \in 1 .. Cardinality(DOMAIN terms) |-> A(l)]
  OBVIOUS
<1>11. Best(terms) = [k \in 1 .. m |-> terms[g[k]]]
  BY <1>5, <1>9, <1>10
<1>12. \A k \in 1 .. n : g[k] \in 1 .. n
  BY <1>6, <1>8, <1>10
<1>13. \A k \in 1 .. m : Best(terms)[k] = terms[g[k]] /\ g[k] \in 1 .. n
  BY <1>9, <1>11, <1>12
<1>14. DOMAIN Best(terms) = 1 .. m
  BY <1>11
<1> QED
  BY <1>13, <1>14

(* The lines of a model have positive similarities, or residues. *)
PositiveLines(saved) == \A line \in saved : line.sim \in Sims /\ Positive(line.sim)

LEMMA TrainedLines ==
  ASSUME NEW R \in Seq(Review), NEW off
  PROVE  PositiveLines(ItemModel(R, off))
<1> SUFFICES ASSUME NEW line \in ItemModel(R, off) PROVE line.sim \in Sims /\ Positive(line.sim)
  BY DEF PositiveLines
<1>1. Positive(line.sim)
  BY DEF ItemModel, KeptLine
<1>2. PICK e, f : line = Line(R, "item", e, f, off)
  BY DEF ItemModel
<1>3. line.sim \in {Residue, pearson_similarity(Ratings(R, "item", e), Ratings(R, "item", f))}
  BY <1>2 DEF Line
<1>4. IsVector(Ratings(R, "item", e)) /\ IsVector(Ratings(R, "item", f))
  BY RatingsVector DEF Modes
<1>5. Residue \in Sims
  BY DEF Residue, Sims
<1> QED
  BY <1>1, <1>3, <1>4, <1>5, PearsonTyped

LEMMA ComputedLines ==
  ASSUME NEW matrix, NEW d, Body(d, matrix)
  PROVE  PositiveLines(ToModel(d, Computed(d)))
<1>1. /\ Computed(d) = d["golden"]
      /\ \A k \in DOMAIN d["golden"] : d["golden"][k] \in Sims
  BY BodyComputes
<1> SUFFICES ASSUME NEW line \in ToModel(d, d["golden"]) PROVE line.sim \in Sims /\ Positive(line.sim)
  BY <1>1 DEF PositiveLines
<1>2. PICK k \in DOMAIN d["golden"] : line.sim = d["golden"][k] /\ Retained(d["golden"][k])
  BY DEF ToModel
<1> QED
  BY <1>1, <1>2 DEF Retained, Positive

LEMMA WeightTyped ==
  ASSUME NEW saved, PositiveLines(saved), NEW e, NEW f
  PROVE  Weight(saved, e, f) \in Sims /\ (Weight(saved, e, f) = Zero \/ Positive(Weight(saved, e, f)))
<1> DEFINE key   == <<Min({e, f}), Max({e, f})>>
           found == {line \in saved : line.a = key[1] /\ line.b = key[2]}
<1>1. Weight(saved, e, f) = IF found = {} THEN Zero ELSE (CHOOSE line \in found : TRUE).sim
  BY DEF Weight
<1>2. found \subseteq saved
  OBVIOUS
<1> HIDE DEF found
<1>3. Zero \in Sims
  BY DEF Zero, Sims
<1>4. CASE found = {}
  BY <1>1, <1>3, <1>4
<1>5. CASE found # {}
  <2>1. PICK line \in found : line = (CHOOSE l \in found : TRUE)
    BY <1>5
  <2>2. Weight(saved, e, f) = line.sim /\ line \in saved
    BY <1>1, <1>2, <1>5, <2>1
  <2> QED
    BY <2>2 DEF PositiveLines
<1> QED
  BY <1>4, <1>5

(* A prediction is an average, or some of its weights are positive and     *)
(* none is negative.                                                       *)
InRange(x) ==
  x.avg \/ /\ \A i \in DOMAIN x.terms : x.terms[i].weight.p >= 0
           /\ \E i \in DOMAIN x.terms : Positive(x.terms[i].weight)

LEMMA ItemPredictInRange ==
  ASSUME NEW R \in Seq(Review), NEW saved, PositiveLines(saved), NEW u, NEW b
  PROVE  InRange(item_predict(R, saved, u, b))
<1>1. PICK mine : mine = Picked(R, Basket(R, "user", u))
  OBVIOUS
<1>2. mine \in Seq(Review)
  BY <1>1, PickedTyped DEF Basket
<1>3. PICK n \in Nat : DOMAIN mine = 1 .. n /\ n = Len(mine)
  BY <1>2
<1>4. PICK full : full = [i \in DOMAIN mine |-> [stars |-> mine[i].stars, weight |-> Weight(saved, mine[i].business, b)]]
  OBVIOUS
<1>5. \A i \in 1 .. n : full[i].weight = Weight(saved, mine[i].business, b)
  BY <1>3, <1>4
<1>6. \A i \in 1 .. n : /\ full[i].weight \in Sims
                        /\ full[i].weight = Zero \/ Positive(full[i].weight)
  BY <1>5, WeightTyped
<1>7. DOMAIN full = 1 .. n /\ Len(full) = n
  <2>1. full \in [1 .. n -> {full[i] : i \in 1 .. n}]
    BY <1>3, <1>4
  <2> QED
    BY <2>1, LengthOf
<1>8. PICK terms : terms = Best(full)
  OBVIOUS
<1>9. \A k \in DOMAIN terms : \E i \in 1 .. n : terms[k] = full[i]
  BY <1>6, <1>7, <1>8, BestTerms
<1>10. \A k \in DOMAIN terms : terms[k].weight = Zero \/ Positive(terms[k].weight)
  BY <1>6, <1>9
<1>11. \A k \in DOMAIN terms : terms[k].weight \in Sims
  BY <1>6, <1>9
<1>12. item_predict(R, saved, u, b) =
         IF \A i \in DOMAIN terms : terms[i].weight = Zero THEN Average ELSE [avg |-> FALSE, terms |-> terms]
  BY <1>1, <1>4, <1>8 DEF item_predict
<1>13. CASE \A i \in DOMAIN terms : terms[i].weight = Zero
  BY <1>12, <1>13 DEF Average, InRange
<1>14. CASE ~ \A i \in DOMAIN terms : terms[i].weight = Zero
  <2>1. PICK i \in DOMAIN terms : Positive(terms[i].weight)
    BY <1>10, <1>14
  <2>2. \A k \in DOMAIN terms : terms[k].weight.p >= 0
    BY <1>10, <1>11 DEF Zero, Residue, Positive, Sims
  <2>3. PICK x : x = [avg |-> FALSE, terms |-> terms]
    OBVIOUS
  <2>4. x.terms = terms
    BY <2>3
  <2>5. InRange(x)
    BY <2>1, <2>2, <2>4 DEF InRange
  <2> QED
    BY <1>12, <1>14, <2>3, <2>5
<1> QED
  BY <1>13, <1>14

LEMMA ScoredInRange ==
  ASSUME NEW R \in Seq(Review), NEW saved, PositiveLines(saved), NEW t \in Test
  PROVE  InRange(Scored(ItemPredictions(R, saved, Test), Test)[t])
<1>1. PICK predictions : predictions = ItemPredictions(R, saved, Test)
  OBVIOUS
<1>2. Scored(predictions, Test)[t] = IF t \in DOMAIN predictions THEN predictions[t] ELSE Average
  BY DEF Scored
<1>3. CASE t \in DOMAIN predictions
  <2>1. predictions[t] = item_predict(R, saved, t[1], t[2])
    BY <1>1, <1>3 DEF ItemPredictions
  <2> QED
    BY <1>1, <1>2, <1>3, <2>1, ItemPredictInRange
<1>4. CASE t \notin DOMAIN predictions
  <2>1. InRange(Average)
    BY DEF Average, InRange
  <2> QED
    BY <1>1, <1>2, <1>4, <2>1
<1> QED
  BY <1>3, <1>4

-----------------------------------------------------------------------------
(* The inductive invariant of the data path.  The hashes of a document are *)
(* those of its own export.                                                *)
IsDir(d)  == d = [f \in DOMAIN d |-> d[f]] /\ DOMAIN d \subseteq Files
Hashed(d) == "meta" \in DOMAIN d => DOMAIN d = Files /\ \A f \in DataFiles : d[f] = d["meta"].files[f]

Given == input \in Inputs /\ target = Target(input)

(* The document is never made of parts. *)
OneDocument ==
  /\ IsDir(dir)
  /\ "meta" \in DOMAIN dir =>
       \/ "meta" \in DOMAIN target /\ dir["meta"] = target["meta"]
       \/ "meta" \in DOMAIN input.old /\ dir["meta"] = input.old["meta"]

(* A verdict is about the directory as it is from then on. *)
Judged == verdict = "ok" => step # "export" /\ step # "validate" /\ Valid(dir)

(* The files up to the one being written are the new export's. *)
SoFar ==
  /\ written \in 0 .. Len(WriteOrder)
  /\ \A i \in 1 .. written : WriteOrder[i] \in DOMAIN dir /\ dir[WriteOrder[i]] = target[WriteOrder[i]]

DirInv == Given /\ OneDocument /\ SoFar /\ Judged

-----------------------------------------------------------------------------
LEMMA FilesFacts == "meta" \in Files /\ Files = DataFiles \cup {"meta"} /\ "meta" \notin DataFiles
BY DEF Files, DataFiles

(* Whatever is exported, its document has the hashes of its arrays. *)
LEMMA TargetHashed ==
  ASSUME NEW in \in Inputs
  PROVE  IsDir(Target(in)) /\ Hashed(Target(in)) /\ DOMAIN Target(in) = Files
<1>1. PICK x : x = Target(in)
  OBVIOUS
<1>2. x = [f \in Files |-> x[f]] /\ HashesMatch(x)
  BY <1>1, TargetSound DEF EveryFile, Sound
<1>3. DOMAIN x = Files
  BY <1>2
<1> QED
  BY <1>1, <1>2, <1>3 DEF IsDir, Hashed, HashesMatch

(* So has the older one. *)
LEMMA OldHashed ==
  ASSUME NEW in \in Inputs
  PROVE  IsDir(in.old) /\ Hashed(in.old)
<1>1. PICK d : d = in.old
  OBVIOUS
<1>2. CASE d = NoDir
  <2>1. DOMAIN d = {}
    BY <1>2 DEF NoDir
  <2>2. d = [f \in DOMAIN d |-> d[f]]
    BY <1>2, <2>1 DEF NoDir
  <2> QED
    BY <1>1, <2>1, <2>2 DEF IsDir, Hashed
<1>3. CASE d # NoDir
  <2>1. d = [f \in Files |-> d[f]] /\ \A f \in DataFiles : d[f] = d["meta"].files[f]
    BY <1>1, <1>3, OldAssumption
  <2>2. DOMAIN d = Files
    BY <2>1
  <2> QED
    BY <1>1, <2>1, <2>2 DEF IsDir, Hashed
<1> QED
  BY <1>2, <1>3

(* The comparison of the hashes leaves no room for anything else. *)
LEMMA Determined ==
  ASSUME NEW d, NEW e, IsDir(d), IsDir(e), Hashed(e), HashesMatch(d), DOMAIN d = Files,
         "meta" \in DOMAIN e, d["meta"] = e["meta"]
  PROVE  d = e
<1>1. DOMAIN e = Files /\ \A f \in DataFiles : d[f] = e[f]
  BY DEF Hashed, HashesMatch
<1>2. \A f \in Files : d[f] = e[f]
  BY <1>1, FilesFacts
<1> QED
  BY <1>1, <1>2 DEF IsDir

(* A file is written over, or taken away: the others stay. *)
OthersStay(d, f, e) == \A g \in DOMAIN d : g # f => e[g] = d[g]
Replaced(d, f, c, e) == DOMAIN e = DOMAIN d \cup {f} /\ e[f] = c /\ OthersStay(d, f, e)
Removed(d, f, e) == DOMAIN e = DOMAIN d \ {f} /\ OthersStay(d, f, e)

LEMMA PutDir ==
  ASSUME NEW d, IsDir(d), NEW f \in Files, NEW c
  PROVE  IsDir(Put(d, f, c)) /\ Replaced(d, f, c, Put(d, f, c))
<1>1. PICK e : e = Put(d, f, c)
  OBVIOUS
<1>2. e = [g \in DOMAIN d \cup {f} |-> IF g = f THEN c ELSE d[g]]
  BY <1>1 DEF Put
<1>3. DOMAIN e = DOMAIN d \cup {f} /\ e = [g \in DOMAIN e |-> e[g]]
  BY <1>2
<1> QED
  BY <1>1, <1>2, <1>3 DEF IsDir, Replaced, OthersStay

LEMMA WithoutDir ==
  ASSUME NEW d, IsDir(d), NEW f
  PROVE  IsDir(Without(d, f)) /\ Removed(d, f, Without(d, f))
<1>1. PICK e : e = Without(d, f)
  OBVIOUS
<1>2. e = [g \in DOMAIN d \ {f} |-> d[g]]
  BY <1>1 DEF Without, Restrict
<1>3. DOMAIN e = DOMAIN d \ {f} /\ e = [g \in DOMAIN e |-> e[g]]
  BY <1>2
<1> QED
  BY <1>1, <1>2, <1>3 DEF IsDir, Removed, OthersStay

-----------------------------------------------------------------------------
LEMMA WriteOrderFacts ==
  /\ Len(WriteOrder) = 8 /\ WriteOrder[8] = "meta"
  /\ \A i \in 1 .. 8 : WriteOrder[i] \in Files
  /\ \A i, j \in 1 .. 8 : WriteOrder[i] = WriteOrder[j] => i = j
  /\ \A f \in Files : \E i \in 1 .. 8 : WriteOrder[i] = f
<1>1. Len(WriteOrder) = 8 /\ WriteOrder[8] = "meta"
  BY DEF WriteOrder
<1>2. \A i \in 1 .. 8 : WriteOrder[i] \in Files
  BY DEF WriteOrder, Files, DataFiles
<1>3. \A i, j \in 1 .. 8 : WriteOrder[i] = WriteOrder[j] => i = j
  BY DEF WriteOrder
<1>4. ASSUME NEW f \in Files PROVE \E i \in 1 .. 8 : WriteOrder[i] = f
  <2>1. /\ WriteOrder[1] = "offsets" /\ WriteOrder[2] = "dims" /\ WriteOrder[3] = "vals" /\ WriteOrder[4] = "pairs"
        /\ WriteOrder[5] = "golden" /\ WriteOrder[6] = "entities" /\ WriteOrder[7] = "dimids"
    BY DEF WriteOrder
  <2> QED
    BY <1>1, <2>1 DEF Files, DataFiles
<1> QED
  BY <1>1, <1>2, <1>3, <1>4

LEMMA GivenFacts ==
  Given => /\ IsDir(target) /\ Hashed(target) /\ DOMAIN target = Files
           /\ IsDir(input.old) /\ Hashed(input.old)
BY TargetHashed, OldHashed DEF Given

LEMMA DirInit == DataInit => DirInv
<1> SUFFICES ASSUME DataInit PROVE DirInv
  OBVIOUS
<1>1. Given
  BY DEF DataInit, Given
<1>2. OneDocument
  BY <1>1, GivenFacts DEF DataInit, OneDocument
<1>3. SoFar
  BY WriteOrderFacts DEF DataInit, SoFar
<1> QED
  BY <1>1, <1>2, <1>3 DEF DataInit, DirInv, Judged

(* The exporter: one file changes, and nothing has been judged yet. *)
LEMMA ExportStep ==
  ASSUME DirInv, WriteFile \/ KillExporter
  PROVE  DirInv'
<1>1. UNCHANGED <<input, target, verdict>> /\ step = "export"
  BY DEF WriteFile, KillExporter, Later
<1>2. Given' /\ IsDir(target) /\ DOMAIN target = Files
  BY <1>1, GivenFacts DEF DirInv, Given
<1>3. Judged'
  BY <1>1 DEF DirInv, Judged
<1>4. PICK n \in Nat : n = written /\ n \in 0 .. 7
  <2>1. written < 8 /\ written \in 0 .. 8
    BY WriteOrderFacts DEF DirInv, SoFar, WriteFile, KillExporter
  <2> QED
    BY <2>1
<1>5. PICK f \in Files : f = WriteOrder[n + 1]
  <2>1. n + 1 \in 1 .. 8
    BY <1>4
  <2> QED
    BY <2>1, WriteOrderFacts
<1>6. PICK old, new, c, t : old = dir /\ new = dir' /\ c = target[f] /\ t = Front(target[f])
  OBVIOUS
<1>7. \/ KillExporter /\ new = old
      \/ WriteFile /\ new = Put(old, f, c)
      \/ KillExporter /\ new = IF f = "meta" THEN Without(old, f) ELSE Put(old, f, t)
  <2>1. CASE WriteFile
    BY <1>4, <1>5, <1>6, <2>1 DEF WriteFile
  <2>2. CASE KillExporter
    BY <1>4, <1>5, <1>6, <2>2 DEF KillExporter
  <2> QED
    BY <2>1, <2>2
<1>8. /\ IsDir(old)
      /\ \A i \in 1 .. n : WriteOrder[i] \in DOMAIN old /\ old[WriteOrder[i]] = target[WriteOrder[i]]
  BY <1>4, <1>6 DEF DirInv, OneDocument, SoFar
<1>9. \A i \in 1 .. n : WriteOrder[i] # f
  BY <1>4, <1>5, WriteOrderFacts
<1>10. /\ IsDir(new)
       /\ \A g \in DOMAIN old : g # f => g \in DOMAIN new /\ new[g] = old[g]
       /\ WriteFile => f \in DOMAIN new /\ new[f] = c
       /\ "meta" \in DOMAIN new => new["meta"] = target["meta"] \/ ("meta" \in DOMAIN old /\ new["meta"] = old["meta"])
  <2>0. WriteFile => ~KillExporter
    BY DEF WriteFile, KillExporter
  <2>1. CASE KillExporter /\ new = old
    BY <1>8, <2>0, <2>1
  <2>2. CASE WriteFile /\ new = Put(old, f, c)
    <3>1. IsDir(new) /\ Replaced(old, f, c, new)
      BY <1>8, <2>2, PutDir
    <3> QED
      BY <1>6, <3>1 DEF Replaced, OthersStay
  <2>3. CASE KillExporter /\ f = "meta" /\ new = Without(old, f)
    <3>1. IsDir(new) /\ Removed(old, f, new)
      BY <1>8, <2>3, WithoutDir
    <3> QED
      BY <2>0, <2>3, <3>1 DEF Removed, OthersStay
  <2>4. CASE KillExporter /\ f # "meta" /\ new = Put(old, f, t)
    <3>1. IsDir(new) /\ Replaced(old, f, t, new)
      BY <1>8, <2>4, PutDir
    <3> QED
      BY <2>0, <2>4, <3>1 DEF Replaced, OthersStay
  <2> QED
    BY <1>7, <2>1, <2>2, <2>3, <2>4
<1>11. OneDocument'
  BY <1>1, <1>2, <1>6, <1>10, FilesFacts DEF DirInv, OneDocument
<1>12. SoFar'
  <2>1. \A i \in 1 .. n : WriteOrder[i] \in DOMAIN new /\ new[WriteOrder[i]] = target[WriteOrder[i]]
    BY <1>8, <1>9, <1>10
  <2>2. CASE WriteFile
    <3>1. written' = n + 1 /\ target' = target
      BY <1>1, <1>4, <2>2 DEF WriteFile
    <3>2. f \in DOMAIN new /\ new[f] = target[f]
      BY <1>6, <1>10, <2>2
    <3>3. \A i \in 1 .. n + 1 : WriteOrder[i] \in DOMAIN new /\ new[WriteOrder[i]] = target[WriteOrder[i]]
      BY <1>4, <1>5, <2>1, <3>2
    <3>4. n + 1 \in 0 .. Len(WriteOrder)
      BY <1>4, WriteOrderFacts
    <3> QED
      BY <1>6, <3>1, <3>3, <3>4 DEF SoFar
  <2>3. CASE KillExporter
    <3>1. written' = n /\ target' = target /\ n \in 0 .. Len(WriteOrder)
      BY <1>1, <1>4, <2>3, WriteOrderFacts DEF KillExporter
    <3> QED
      BY <1>6, <2>1, <3>1 DEF SoFar
  <2> QED
    BY <2>2, <2>3
<1> QED
  BY <1>2, <1>3, <1>11, <1>12 DEF DirInv

LEMMA ValidateStep ==
  ASSUME DirInv, Validate
  PROVE  DirInv'
<1>1. UNCHANGED <<input, target, dir, written>> /\ step' = "engine" /\ verdict' = Answer(Valid(dir))
  BY DEF Validate
<1>2. verdict' = "ok" => Valid(dir)
  BY <1>1 DEF Answer
<1>3. Valid(dir)' <=> Valid(dir)
  BY <1>1
<1> QED
  BY <1>1, <1>2, <1>3 DEF DirInv, Given, OneDocument, SoFar, Judged

(* Every other step leaves the directory and the verdict alone, and goes   *)
(* on.                                                                     *)
LEMMA OtherStep ==
  ASSUME DirInv, UNCHANGED <<input, target, dir, written, verdict>>,
         step' \in {"export", "validate"} => step \in {"export", "validate"}
  PROVE  DirInv'
<1>1. Valid(dir)' <=> Valid(dir)
  OBVIOUS
<1> QED
  BY <1>1 DEF DirInv, Given, OneDocument, SoFar, Judged

LEMMA DirNext == DirInv /\ [DataNext]_dataVars => DirInv'
<1> SUFFICES ASSUME DirInv, [DataNext]_dataVars PROVE DirInv'
  OBVIOUS
<1>1. CASE WriteFile \/ KillExporter
  BY <1>1, ExportStep
<1>2. CASE Validate
  BY <1>2, ValidateStep
<1>3. CASE RefuseRows \/ Exported
  BY <1>3, OtherStep DEF RefuseRows, Exported, Later
<1>4. CASE RunEngine \/ EngineMisreads \/ GpuRefuses \/ LoadFails
  BY <1>4, OtherStep DEF RunEngine, EngineMisreads, GpuRefuses, LoadFails, Later
<1>5. CASE sims_to_model \/ ModelFails
  BY <1>5, OtherStep DEF sims_to_model, ModelFails, Later
<1>6. CASE CutBand \/ CutLanes \/ CutPrefix
  BY <1>6, OtherStep DEF CutBand, CutLanes, CutPrefix
<1>7. CASE TrainItem \/ TrainUser
  <2>1. UNCHANGED <<input, target, dir, written, verdict>> /\ step' \in {"crosscheck", "predict"}
    BY <1>7 DEF TrainItem, TrainUser
  <2> QED
    BY <2>1, OtherStep
<1>8. CASE CrossCheck \/ Predict
  BY <1>8, OtherStep DEF CrossCheck, Predict
<1>9. CASE UNCHANGED dataVars
  BY <1>9, OtherStep DEF dataVars
<1> QED
  BY <1>1, <1>2, <1>3, <1>4, <1>5, <1>6, <1>7, <1>8, <1>9 DEF DataNext

(* The document of the directory is at all times that of one export, and   *)
(* what was judged stays as it was (export_fixture.py, the order of its    *)
(* writes).                                                                *)
THEOREM ExportInvariance == DataSpec => []DirInv
<1> QED
  BY DirInit, DirNext, PTL DEF DataSpec

(* A directory that validates is one whole export, the new or the old one, *)
(* at whichever file the exporter was killed (validate_fixture.py).        *)
THEOREM Wholeness == DataSpec => []ValidMeansWhole
<1>1. DirInv => ValidMeansWhole
  <2> SUFFICES ASSUME DirInv, verdict = "ok" PROVE dir = target \/ dir = input.old
    BY DEF ValidMeansWhole
  <2>1. Valid(dir) /\ IsDir(dir)
    BY DEF DirInv, Judged, OneDocument
  <2>2. DOMAIN dir = Files /\ "meta" \in DOMAIN dir /\ HashesMatch(dir)
    BY <2>1, FilesFacts DEF Valid
  <2>3. /\ IsDir(target) /\ Hashed(target) /\ IsDir(input.old) /\ Hashed(input.old)
    BY GivenFacts DEF DirInv
  <2>4. CASE "meta" \in DOMAIN target /\ dir["meta"] = target["meta"]
    BY <2>1, <2>2, <2>3, <2>4, Determined
  <2>5. CASE "meta" \in DOMAIN input.old /\ dir["meta"] = input.old["meta"]
    BY <2>1, <2>2, <2>3, <2>5, Determined
  <2> QED
    BY <2>2, <2>4, <2>5 DEF DirInv, OneDocument
<1> QED
  BY <1>1, ExportInvariance, PTL

-----------------------------------------------------------------------------
(* Behind an export that was not interrupted everything goes as it was     *)
(* exported; only from there the scripts go on.                            *)
Unread == {"export", "validate", "engine"}
Going  == {"derive", "crosscheck", "predict"}

WholeInv ==
  /\ step \in {"export", "validate"} => verdict = "none"
  /\ step \in Unread => passed = "none" /\ sims = <<>>
  /\ Whole => passed # "fails" /\ (verdict = "fails" => ~HasNames(dir))
  /\ Whole /\ step \notin Unread => sims = Computed(dir) /\ (passed = "ok" \/ dir["pairs"] = <<>>)
  /\ step \in Going => Whole /\ verdict = "ok"

LEMMA WholeDir == DirInv /\ Whole => dir = target /\ \E matrix : Sound(dir, matrix)
<1> SUFFICES ASSUME DirInv, Whole PROVE dir = target /\ \E matrix : Sound(dir, matrix)
  OBVIOUS
<1>1. IsDir(target) /\ DOMAIN target = Files /\ IsDir(dir)
  BY GivenFacts DEF DirInv, OneDocument
<1>2. \A f \in Files : f \in DOMAIN dir /\ dir[f] = target[f]
  <2>1. \A i \in 1 .. 8 : WriteOrder[i] \in DOMAIN dir /\ dir[WriteOrder[i]] = target[WriteOrder[i]]
    BY WriteOrderFacts DEF DirInv, SoFar, Whole
  <2> QED
    BY <2>1, WriteOrderFacts
<1>3. dir = target
  BY <1>1, <1>2 DEF IsDir
<1> QED
  BY <1>3, TargetSound DEF DirInv, Given

(* Of a whole export nothing is misread. *)
LEMMA WholeFacts ==
  ASSUME DirInv, Whole
  PROVE  /\ HasNames(dir) => Valid(dir)
         /\ Loads(dir) /\ WellFormed(dir) /\ Named(dir, Computed(dir))
         /\ Computed(dir) = dir["golden"] /\ check_result(Computed(dir), dir["golden"])
         /\ PositiveLines(ToModel(dir, Computed(dir)))
         /\ Computed(dir) = <<>> <=> dir["pairs"] = <<>>
<1>1. PICK matrix : Sound(dir, matrix)
  BY WholeDir
<1>2. (HasNames(dir) => Valid(dir)) /\ Named(dir, Computed(dir))
  BY <1>1, SoundIsValid
<1>3. Body(dir, matrix)
  BY <1>1 DEF Sound
<1>4. PICK d : d = dir
  OBVIOUS
<1>5. /\ Loads(d) /\ WellFormed(d)
      /\ Computed(d) = d["golden"] /\ check_result(Computed(d), d["golden"])
  BY <1>3, <1>4, BodyComputes
<1>6. PositiveLines(ToModel(d, Computed(d)))
  BY <1>3, <1>4, ComputedLines
<1>7. d["golden"] = <<>> <=> d["pairs"] = <<>>
  <2>0. PICK n : n = Cardinality(DOMAIN matrix)
    OBVIOUS
  <2>1. PICK m \in Nat :
          /\ d["pairs"] \in [1 .. m -> (0 .. n - 1) \X (0 .. n - 1)]
          /\ d["golden"] = [k \in 1 .. m |-> pair_sim(matrix[d["pairs"][k][1]], matrix[d["pairs"][k][2]])]
    BY <1>3, <1>4, <2>0 DEF Body, PairsOf, PairsFit
  <2>2. PICK P, G : P = d["pairs"] /\ G = d["golden"]
    OBVIOUS
  <2>3. DOMAIN P = 1 .. m /\ DOMAIN G = 1 .. m
    BY <2>1, <2>2
  <2>4. P = [k \in 1 .. m |-> P[k]] /\ G = [k \in 1 .. m |-> G[k]]
    BY <2>1, <2>2
  <2>5. CASE m = 0
    <3>1. 1 .. m = {}
      BY <2>5
    <3>2. P = <<>> /\ G = <<>>
      BY <2>4, <3>1
    <3> QED
      BY <2>2, <3>2
  <2>6. CASE m # 0
    <3>1. 1 \in DOMAIN P /\ 1 \in DOMAIN G
      BY <2>1, <2>3, <2>6
    <3>2. P # <<>> /\ G # <<>>
      BY <3>1
    <3> QED
      BY <2>2, <3>2
  <2> QED
    BY <2>5, <2>6
<1> QED
  BY <1>2, <1>4, <1>5, <1>6, <1>7

LEMMA WholeInit == DataInit => WholeInv
<1> SUFFICES ASSUME DataInit PROVE WholeInv
  OBVIOUS
<1> QED
  BY WriteOrderFacts DEF DataInit, WholeInv, Unread, Going, Whole

(* Nothing of it changes, and the scripts go no further than they may. *)
LEMMA GoesOn ==
  ASSUME WholeInv, UNCHANGED <<dir, written, verdict, sims, passed>>,
         step' \in Unread => step \in Unread,
         step' \in {"export", "validate"} => step \in {"export", "validate"},
         step' \notin Unread /\ Whole => step \notin Unread \/ (sims = Computed(dir) /\ dir["pairs"] = <<>>),
         step' \in Going => Whole /\ verdict = "ok"
  PROVE  WholeInv'
<1>1. Computed(dir)' = Computed(dir)
  OBVIOUS
<1>2. (Whole' <=> Whole) /\ (HasNames(dir)' <=> HasNames(dir))
  BY DEF Whole, HasNames
<1> QED
  BY <1>1, <1>2 DEF WholeInv

LEMMA WholeNext == WholeInv /\ DirInv /\ [DataNext]_dataVars => WholeInv'
<1> SUFFICES ASSUME WholeInv, DirInv, [DataNext]_dataVars PROVE WholeInv'
  OBVIOUS
<1> USE DEF Unread, Going
<1>1. CASE WriteFile \/ KillExporter
  <2>1. /\ UNCHANGED <<verdict, sims, passed>> /\ step' \in {"export", "validate"}
        /\ step = "export"
    BY <1>1 DEF WriteFile, KillExporter, Later
  <2>2. verdict = "none" /\ passed = "none" /\ sims = <<>>
    BY <2>1 DEF WholeInv
  <2> QED
    BY <2>1, <2>2 DEF WholeInv
<1>2. CASE Exported
  <2>1. UNCHANGED <<dir, written, verdict, sims, passed>> /\ step = "export" /\ step' = "validate"
    BY <1>2 DEF Exported, Later
  <2> QED
    BY <2>1, GoesOn
<1>3. CASE RefuseRows
  <2>1. UNCHANGED <<dir, written, verdict, sims, passed>> /\ step = "export" /\ step' = "end"
        /\ target["golden"] = <<>>
    BY <1>3 DEF RefuseRows, NothingToWrite, Later
  <2>2. sims = <<>>
    BY <2>1 DEF WholeInv
  <2>3. Whole => Computed(dir) = <<>> /\ dir["pairs"] = <<>>
    BY <2>1, WholeDir, WholeFacts
  <2> QED
    BY <2>1, <2>2, <2>3, GoesOn
<1>4. CASE Validate
  <2>1. UNCHANGED <<dir, written, sims, passed>> /\ step = "validate" /\ step' = "engine"
        /\ verdict' = Answer(Valid(dir))
    BY <1>4 DEF Validate
  <2>2. Whole /\ HasNames(dir) => verdict' = "ok"
    BY <2>1, WholeFacts DEF Answer
  <2>3. (Whole' <=> Whole) /\ (HasNames(dir)' <=> HasNames(dir))
    BY <2>1 DEF Whole, HasNames
  <2> QED
    BY <2>1, <2>2, <2>3 DEF WholeInv
<1>5. CASE RunEngine
  <2>1. UNCHANGED <<dir, written, verdict>> /\ step = "engine" /\ step' = "model"
        /\ sims' = Computed(dir) /\ passed' = Answer(check_result(sims', dir["golden"]))
    BY <1>5 DEF RunEngine
  <2>2. PICK c : c = Computed(dir)
    OBVIOUS
  <2>3. passed' = Answer(check_result(c, dir["golden"]))
    BY <2>1, <2>2
  <2>4. Whole => passed' = "ok"
    BY <2>2, <2>3, WholeFacts DEF Answer
  <2>5. (Whole' <=> Whole) /\ Computed(dir)' = Computed(dir) /\ (HasNames(dir)' <=> HasNames(dir))
    BY <2>1 DEF Whole, HasNames
  <2> QED
    BY <2>1, <2>4, <2>5 DEF WholeInv
<1>6. CASE EngineMisreads
  <2>1. UNCHANGED <<dir, written, verdict, sims>> /\ step = "engine" /\ step' = "end" /\ ~WellFormed(dir)
    BY <1>6 DEF EngineMisreads
  <2>2. ~Whole /\ ~Whole'
    BY <2>1, WholeFacts DEF Whole
  <2> QED
    BY <2>1, <2>2 DEF WholeInv
<1>7. CASE LoadFails
  <2>1. UNCHANGED <<dir, written, verdict, sims, passed>> /\ step = "engine" /\ step' = "end" /\ ~Loads(dir)
    BY <1>7 DEF LoadFails, Later
  <2>2. ~Whole
    BY <2>1, WholeFacts
  <2> QED
    BY <2>1, <2>2, GoesOn
<1>12. CASE GpuRefuses
  <2>1. UNCHANGED <<dir, written, verdict, sims, passed>> /\ step = "engine" /\ step' = "end"
        /\ dir["pairs"] = <<>>
    BY <1>12 DEF GpuRefuses, Later
  <2>2. sims = <<>>
    BY <2>1 DEF WholeInv
  <2>3. Whole => Computed(dir) = <<>>
    BY <2>1, WholeFacts
  <2> QED
    BY <2>1, <2>2, <2>3, GoesOn
<1>8. CASE sims_to_model \/ ModelFails
  <2>1. /\ UNCHANGED <<dir, written, verdict, sims, passed>> /\ step = "model"
        /\ step' = "end" \/ (step' = "derive" /\ Whole /\ verdict = "ok")
    BY <1>8 DEF sims_to_model, ModelFails, Later, Whole
  <2> QED
    BY <2>1, GoesOn
<1>9. CASE CutBand \/ CutLanes \/ CutPrefix \/ Predict
  <2>1. /\ UNCHANGED <<dir, written, verdict, sims, passed>> /\ step \in Going /\ step' = "end"
    BY <1>9 DEF CutBand, CutLanes, CutPrefix, Predict
  <2> QED
    BY <2>1, GoesOn
<1>10. CASE TrainItem \/ TrainUser \/ CrossCheck
  <2>1. UNCHANGED <<dir, written, verdict, sims, passed>> /\ step \in Going /\ step' \in Going
    BY <1>10 DEF TrainItem, TrainUser, CrossCheck
  <2>2. Whole /\ verdict = "ok"
    BY <2>1 DEF WholeInv
  <2> QED
    BY <2>1, <2>2, GoesOn
<1>11. CASE UNCHANGED dataVars
  <2>1. UNCHANGED <<dir, written, verdict, sims, passed, step>>
    BY <1>11 DEF dataVars
  <2> QED
    BY <2>1, GoesOn DEF WholeInv
<1> QED
  BY <1>1, <1>2, <1>3, <1>4, <1>5, <1>6, <1>7, <1>8, <1>9, <1>10, <1>11, <1>12 DEF DataNext

(* On the way from a whole export to the model nothing fails but where     *)
(* there is nothing to name or nothing to compute: the loader accepts it,  *)
(* the engine's similarities are the golden ones, the result check passes, *)
(* sims_to_model.py finds a name for every index, and only what was        *)
(* validated goes on.                                                      *)
THEOREM WholeInvariance == DataSpec => []WholeInv
<1> QED
  BY WholeInit, WholeNext, ExportInvariance, PTL DEF DataSpec

(* An export that was not interrupted fails validation only for want of a  *)
(* name, no backend that runs on it fails its result check, and where it   *)
(* has a pair the engine has passed by the end (export_fixture.py,         *)
(* fixture.hpp, result_check.hpp).                                         *)
THEOREM ExportPasses == DataSpec => []WholeExportPasses
<1>1. WholeInv => WholeExportPasses
  BY DEF WholeInv, WholeExportPasses, Unread, HasNames
<1> QED
  BY <1>1, WholeInvariance, PTL

-----------------------------------------------------------------------------
(* The fixtures that are cut.                                              *)
(* Each cut is named for the tool that made it. *)
LEMMA BandNamed ==
  ASSUME NEW d, NEW keep, NEW mode, NEW e, NEW x, x = Band(d, keep, mode, e), "meta" \in DOMAIN x
  PROVE  x["meta"].mode = mode
<1>1. PICK full : full = Derived(d, keep, mode, e, DataFiles)
  OBVIOUS
<1>2. x = IF keep = <<>> THEN Without(full, "meta") ELSE full
  BY <1>1 DEF Band
<1>3. "meta" \notin DOMAIN Without(full, "meta")
  BY DEF Without, Restrict
<1>4. x = full
  BY <1>2, <1>3
<1> QED
  BY <1>1, <1>4, DerivedFiles

LEMMA BandsNext == BandsValid /\ WholeInv /\ DirInv /\ [DataNext]_dataVars => BandsValid'
<1> SUFFICES ASSUME BandsValid, WholeInv, DirInv, [DataNext]_dataVars PROVE BandsValid'
  OBVIOUS
<1>1. ASSUME UNCHANGED cut PROVE BandsValid'
  BY <1>1 DEF BandsValid
<1>2. CASE CutBand
  <2>1. PICK band \in Bands : cut' = OverlapBand(dir, band)
    BY <1>2 DEF CutBand
  <2>2. PICK matrix : Sound(dir, matrix)
    BY <1>2, WholeDir DEF CutBand, WholeInv, Going
  <2>3. HasNames(dir)
    <3>1. Valid(dir)
      BY <1>2 DEF CutBand, WholeInv, Going, DirInv, Judged
    <3> QED
      BY <2>2, <3>1, ValidHasNames
  <2>4. PICK d, x : d = dir /\ x = OverlapBand(d, band)
    OBVIOUS
  <2>5. "meta" \in DOMAIN x => Valid(x) /\ check_result(Computed(x), x["golden"])
    <3> SUFFICES ASSUME "meta" \in DOMAIN x PROVE Valid(x) /\ check_result(Computed(x), x["golden"])
      OBVIOUS
    <3>1. Sound(x, matrix) /\ HasNames(x)
      BY <2>2, <2>3, <2>4, BandSound
    <3> QED
      BY <3>1, SoundIsValid, BodyComputes DEF Sound
  <2>6. cut' = x
    BY <2>1, <2>4
  <2> QED
    BY <2>5, <2>6 DEF BandsValid
<1>3. CASE CutLanes
  <2>1. PICK side : cut' = LaneBand(dir, side)
    BY <1>3 DEF CutLanes
  <2>2. PICK x : x = LaneBand(dir, side)
    OBVIOUS
  <2>3. "meta" \in DOMAIN x => x["meta"].mode = "lane-utilisation band"
    BY <2>2, BandNamed DEF LaneBand
  <2>4. cut' = x
    BY <2>1, <2>2
  <2> QED
    BY <2>3, <2>4 DEF BandsValid
<1>4. CASE CutPrefix
  <2>1. PICK n \in Sizes : cut' = Prefix(dir, n) \/ cut' = NoDir
    BY <1>4 DEF CutPrefix
  <2>2. CASE cut' = NoDir
    <3>1. "meta" \notin DOMAIN NoDir
      BY DEF NoDir
    <3> QED
      BY <2>2, <3>1 DEF BandsValid
  <2>3. CASE cut' = Prefix(dir, n)
    <3>1. PICK x : x = Prefix(dir, n)
      OBVIOUS
    <3>2. x["meta"].mode = "pair-count boundary prefix"
      <4>1. PICK d, keep, mode, e, h : /\ d = dir /\ keep = [k \in 1 .. n |-> k]
                                       /\ mode = "pair-count boundary prefix"
                                       /\ e = d["meta"].n_emitted /\ h = {}
        OBVIOUS
      <4>2. x = Derived(d, keep, mode, e, h)
        BY <3>1, <4>1 DEF Prefix
      <4>3. x["meta"].mode = mode
        BY <4>2, DerivedFiles
      <4> QED
        BY <4>1, <4>3
    <3>3. cut' = x
      BY <2>3, <3>1
    <3> QED
      BY <3>2, <3>3 DEF BandsValid
  <2> QED
    BY <2>1, <2>2, <2>3
<1>5. CASE WriteFile \/ RefuseRows \/ Exported \/ KillExporter
  BY <1>1, <1>5 DEF WriteFile, RefuseRows, Exported, KillExporter, Later
<1>6. CASE Validate \/ RunEngine \/ EngineMisreads \/ GpuRefuses \/ LoadFails
  BY <1>1, <1>6 DEF Validate, RunEngine, EngineMisreads, GpuRefuses, LoadFails, Later
<1>7. CASE sims_to_model \/ ModelFails
  BY <1>1, <1>7 DEF sims_to_model, ModelFails, Later
<1>8. CASE TrainItem \/ TrainUser \/ CrossCheck \/ Predict
  BY <1>1, <1>8 DEF TrainItem, TrainUser, CrossCheck, Predict
<1>9. CASE UNCHANGED dataVars
  BY <1>1, <1>9 DEF dataVars
<1> QED
  BY <1>2, <1>3, <1>4, <1>5, <1>6, <1>7, <1>8, <1>9 DEF DataNext

(* A band of overlaps cut out of a valid fixture is itself valid, and a    *)
(* backend passes on it (make_overlap_fixtures.py, write_band).            *)
THEOREM BandsPass == DataSpec => []BandsValid
<1>1. DataInit => BandsValid
  <2>1. "meta" \notin DOMAIN NoDir
    BY DEF NoDir
  <2> QED
    BY <2>1 DEF DataInit, BandsValid
<1> QED
  BY <1>1, BandsNext, ExportInvariance, WholeInvariance, PTL DEF DataSpec

-----------------------------------------------------------------------------
(* Either model has positive similarities when it is used. *)
PredictInv ==
  /\ step \in Going => PositiveLines(model)
  /\ step \in {"crosscheck", "predict"} /\ Mode = "item" => PositiveLines(trained)
  /\ PredictionsInRange

(* What is used stays, and is used no earlier than it was. *)
LEMMA StillUsed ==
  ASSUME PredictInv, UNCHANGED <<input, model, trained, scored>>,
         step' \in Going => step \in Going,
         step' \in {"crosscheck", "predict"} => step \in {"crosscheck", "predict"} \/ Mode # "item"
  PROVE  PredictInv'
<1>1. PositiveLines(model)' <=> PositiveLines(model)
  OBVIOUS
<1>2. PositiveLines(trained)' <=> PositiveLines(trained)
  OBVIOUS
<1> QED
  BY <1>1, <1>2 DEF PredictInv, PredictionsInRange, Mode

LEMMA ReviewsTyped == DirInv /\ Mode = "item" => Reviews \in Seq(Review)
<1> SUFFICES ASSUME DirInv, Mode = "item" PROVE Reviews \in Seq(Review)
  OBVIOUS
<1>1. PICK in \in Inputs : in = input
  BY DEF DirInv, Given
<1>2. in.mode = "item"
  BY <1>1 DEF Mode
<1>3. in.reviews \in Seq(Review)
  BY <1>2, InputsAssumption DEF Review
<1> QED
  BY <1>1, <1>3 DEF Reviews

LEMMA PredictNext == PredictInv /\ WholeInv /\ DirInv /\ [DataNext]_dataVars => PredictInv'
<1> SUFFICES ASSUME PredictInv, WholeInv, DirInv, [DataNext]_dataVars PROVE PredictInv'
  OBVIOUS
<1> USE DEF Going
<1>1. CASE WriteFile \/ RefuseRows \/ Exported \/ KillExporter
  BY <1>1, StillUsed DEF WriteFile, RefuseRows, Exported, KillExporter, Later
<1>2. CASE Validate \/ RunEngine \/ EngineMisreads \/ GpuRefuses \/ LoadFails
  BY <1>2, StillUsed DEF Validate, RunEngine, EngineMisreads, GpuRefuses, LoadFails, Later
<1>3. CASE sims_to_model
  <2>1. /\ UNCHANGED <<input, dir, written, trained, scored>> /\ step = "model" /\ model' = ToModel(dir, sims)
        /\ step' = "end" \/ (step' = "derive" /\ Whole)
    BY <1>3 DEF sims_to_model, Whole
  <2>2. Whole => PositiveLines(ToModel(dir, sims))
    <3> SUFFICES ASSUME Whole PROVE PositiveLines(ToModel(dir, sims))
      OBVIOUS
    <3>1. sims = Computed(dir)
      BY <2>1 DEF WholeInv, Unread
    <3> QED
      BY <3>1, WholeFacts
  <2>3. PICK m : m = ToModel(dir, sims)
    OBVIOUS
  <2>4. model' = m /\ (Whole => PositiveLines(m))
    BY <2>1, <2>2, <2>3
  <2>5. step' \in Going => PositiveLines(model)'
    BY <2>1, <2>4
  <2> QED
    BY <2>1, <2>5 DEF PredictInv, PredictionsInRange, Mode
<1>4. CASE ModelFails
  BY <1>4, StillUsed DEF ModelFails, Later
<1>5. CASE CutBand \/ CutLanes \/ CutPrefix
  BY <1>5, StillUsed DEF CutBand, CutLanes, CutPrefix
<1>6. CASE TrainItem
  <2>1. /\ UNCHANGED <<input, model, scored>> /\ step = "derive" /\ step' = "crosscheck" /\ Mode = "item"
        /\ \E off : trained' = ItemModel(Reviews, off)
    BY <1>6 DEF TrainItem
  <2>2. PICK R : R = Reviews
    OBVIOUS
  <2>3. PICK off, m : m = ItemModel(R, off) /\ trained' = m
    BY <2>1, <2>2
  <2>4. trained' = m /\ PositiveLines(m)
    BY <2>1, <2>2, <2>3, ReviewsTyped, TrainedLines
  <2>5. PositiveLines(trained)'
    BY <2>4
  <2>6. PositiveLines(model)'
    BY <2>1 DEF PredictInv
  <2> QED
    BY <2>1, <2>5, <2>6 DEF PredictInv, PredictionsInRange, Mode
<1>7. CASE TrainUser
  <2>1. /\ UNCHANGED <<input, model, scored>> /\ step = "derive" /\ step' = "predict" /\ Mode = "user"
    BY <1>7 DEF TrainUser
  <2>2. PositiveLines(model)'
    BY <2>1 DEF PredictInv
  <2> QED
    BY <2>1, <2>2 DEF PredictInv, PredictionsInRange, Mode
<1>8. CASE CrossCheck
  BY <1>8, StillUsed DEF CrossCheck
<1>9. CASE Predict
  <2>1. /\ UNCHANGED <<input, model, trained>> /\ step = "predict" /\ step' = "end"
    BY <1>9 DEF Predict
  <2>2. PICK m \in {model, trained} :
          scored' = Scored(IF Mode = "item" THEN ItemPredictions(Reviews, m, Test)
                                            ELSE UserPredictions(Reviews, m, Test), Test)
    BY <1>9 DEF Predict
  <2>3. ASSUME Mode = "item" PROVE \A t \in Test : InRange(scored'[t])
    <3>1. PositiveLines(m)
      BY <2>1, <2>2, <2>3 DEF PredictInv
    <3>2. PICK R \in Seq(Review) : R = Reviews
      BY <2>3, ReviewsTyped
    <3>3. scored' = Scored(ItemPredictions(R, m, Test), Test)
      BY <2>2, <2>3, <3>2
    <3> QED
      BY <3>1, <3>3, ScoredInRange
  <2>4. PICK s : s = scored'
    OBVIOUS
  <2>5. Mode = "item" => \A t \in Test : InRange(s[t])
    BY <2>3, <2>4
  <2>6. PredictionsInRange'
    BY <2>1, <2>4, <2>5 DEF PredictionsInRange, InRange, Mode
  <2> QED
    BY <2>1, <2>6 DEF PredictInv
<1>10. CASE UNCHANGED dataVars
  BY <1>10, StillUsed DEF dataVars
<1> QED
  BY <1>1, <1>2, <1>3, <1>4, <1>5, <1>6, <1>7, <1>8, <1>9, <1>10 DEF DataNext

(* Every line of a model in use has a positive similarity or a residue,     *)
(* whether it came from the engine (sims_to_model.py) or from cf_train.py.  *)
THEOREM PredictInvariance == DataSpec => []PredictInv
<1>1. DataInit => PredictInv
  BY DEF DataInit, PredictInv, PredictionsInRange, Going
<1> QED
  BY <1>1, PredictNext, ExportInvariance, WholeInvariance, PTL DEF DataSpec

(* An item-based prediction is an average, or weighs stars by weights none  *)
(* of which is negative and one of which is positive, so it lies within     *)
(* those stars (cf_predict.py, item_predict).                               *)
THEOREM Predictions == DataSpec => []PredictionsInRange
<1>1. PredictInv => PredictionsInRange
  BY DEF PredictInv
<1> QED
  BY <1>1, PredictInvariance, PTL

-----------------------------------------------------------------------------
(* A total is what summing up gives, in whatever ranks. *)
LEMMA TotalSums ==
  ASSUME NEW D, IsFiniteSet(D), NEW v, NEW h, SumsOf(v, D, h, Int), NEW u \in SUBSET D
  PROVE  Total(v, u) = h[u]
<1> DEFINE Rec(f) == [q \in SUBSET u |-> IF q = {} THEN 0 ELSE v[CHOOSE x \in q : TRUE]
                                          + f[q \ {CHOOSE x \in q : TRUE}]]
           part == [w \in SUBSET u |-> h[w]]
<1>1. Total(v, u) = (CHOOSE f : f = Rec(f))[u]
  BY DEF Total, FoldFunctionOnSet, MapThenFoldSet
<1>2. \A f : Rec(f) = [q \in SUBSET u |-> Adds(v, q, f)]
  BY DEF Adds, AnyOf
<1> HIDE DEF Rec
<1>3. SumsOf(v, u, part, Int)
  BY SumsRestrict
<1>4. part[u] = h[u]
  OBVIOUS
<1> HIDE DEF part
<1>5. part = Rec(part)
  BY <1>2, <1>3 DEF SumsOf, Summing
<1>6. PICK f : f = (CHOOSE g : g = Rec(g))
  OBVIOUS
<1>7. f = Rec(f)
  BY <1>5, <1>6
<1>8. Summing(v, u, f)
  BY <1>2, <1>7 DEF Summing
<1>9. IsFiniteSet(u)
  BY FS_Subset
<1>10. \A w \in SUBSET u : f[w] = part[w]
  BY <1>3, <1>8, <1>9, SumsUnique DEF SumsOf
<1> QED
  BY <1>1, <1>4, <1>6, <1>10

LEMMA TotalAny ==
  ASSUME NEW D, IsFiniteSet(D), NEW v, \A d \in D : v[d] \in Int
  PROVE  /\ Total(v, {}) = 0
         /\ D # {} => /\ AnyOf(D) \in D
                      /\ Total(v, D) = v[AnyOf(D)] + Total(v, D \ {AnyOf(D)})
<1>1. PICK h : SumsOf(v, D, h, Int)
  <2>1. 0 \in Int /\ \A a, b \in Int : a + b \in Int
    OBVIOUS
  <2> QED
    BY <2>1, SumsExist
<1>2. \A u \in SUBSET D : Total(v, u) = h[u] /\ h[u] = Adds(v, u, h)
  BY <1>1, TotalSums DEF SumsOf, Summing
<1>3. Total(v, {}) = 0
  BY <1>2 DEF Adds
<1>4. CASE D # {}
  BY <1>2, <1>4, LessAny DEF Adds
<1> QED
  BY <1>3, <1>4

LEMMA TotalWhole ==
  ASSUME NEW D, IsFiniteSet(D), NEW v, \A d \in D : v[d] \in Int
  PROVE  Total(v, D) \in Int
<1>1. 0 \in Int /\ \A a, b \in Int : a + b \in Int
  OBVIOUS
<1> QED
  BY <1>1, TotalTyped

(* Any element can be taken out first. *)
LEMMA TotalTake ==
  ASSUME NEW D, IsFiniteSet(D), NEW v, \A d \in D : v[d] \in Int, NEW x \in D
  PROVE  Total(v, D) = v[x] + Total(v, D \ {x})
<1> DEFINE C == {q \in SUBSET D : \A y \in q : Total(v, q) = v[y] + Total(v, q \ {y})}
<1>1. ASSUME NEW q \in SUBSET D, \A u \in SUBSET q : u # q => u \in C
      PROVE  q \in C
  <2> SUFFICES ASSUME NEW y \in q PROVE Total(v, q) = v[y] + Total(v, q \ {y})
    OBVIOUS
  <2>1. IsFiniteSet(q) /\ \A d \in q : v[d] \in Int
    BY FS_Subset
  <2>2. PICK a : a = AnyOf(q)
    OBVIOUS
  <2>3. a \in q /\ Total(v, q) = v[a] + Total(v, q \ {a})
    BY <2>1, <2>2, TotalAny
  <2>4. CASE a = y
    BY <2>3, <2>4
  <2>5. CASE a # y
    <3>1. q \ {a} \in C /\ q \ {y} \in C
      <4>1. q \ {a} \in SUBSET q /\ q \ {a} # q /\ q \ {y} \in SUBSET q /\ q \ {y} # q
        BY <2>3
      <4> HIDE DEF C
      <4> QED
        BY <1>1, <4>1
    <3>2. y \in q \ {a} /\ a \in q \ {y}
      BY <2>3, <2>5
    <3>3. PICK rest : rest = (q \ {a}) \ {y}
      OBVIOUS
    <3>4. rest = (q \ {y}) \ {a}
      BY <3>3
    <3>5. Total(v, q \ {a}) = v[y] + Total(v, rest)
      BY <3>1, <3>2, <3>3
    <3>6. Total(v, q \ {y}) = v[a] + Total(v, rest)
      BY <3>1, <3>2, <3>4
    <3>7. Total(v, rest) \in Int
      <4>1. IsFiniteSet(rest) /\ \A d \in rest : v[d] \in Int
        BY <2>1, <3>3, FS_Subset
      <4> QED
        BY <4>1, TotalWhole
    <3>8. v[a] \in Int /\ v[y] \in Int
      BY <2>1, <2>3
    <3> QED
      BY <2>3, <3>5, <3>6, <3>7, <3>8
  <2> QED
    BY <2>4, <2>5
<1> HIDE DEF C
<1>2. \A q \in SUBSET D : q \in C
  BY <1>1, SetInduction
<1> QED
  BY <1>2 DEF C

(* A total of combinations is the combination of the totals. *)
IsCombination(z, c, v, e, w) == z = c * v + e * w

LEMMA TotalLinear ==
  ASSUME NEW D, IsFiniteSet(D), NEW v, NEW w, NEW z, NEW c \in Int, NEW e \in Int,
         \A d \in D : v[d] \in Int /\ w[d] \in Int,
         \A d \in D : IsCombination(z[d], c, v[d], e, w[d])
  PROVE  IsCombination(Total(z, D), c, Total(v, D), e, Total(w, D))
<1> DEFINE C == {q \in SUBSET D : Total(z, q) = c * Total(v, q) + e * Total(w, q)}
<1> USE DEF IsCombination
<1>1. \A d \in D : z[d] \in Int
  <2> SUFFICES ASSUME NEW d \in D PROVE z[d] \in Int
    OBVIOUS
  <2>1. PICK x \in Int, y \in Int : x = v[d] /\ y = w[d]
    OBVIOUS
  <2>2. c * x + e * y \in Int
    OBVIOUS
  <2> QED
    BY <2>1, <2>2
<1>2. ASSUME NEW q \in SUBSET D, \A u \in SUBSET q : u # q => u \in C
      PROVE  q \in C
  <2>1. IsFiniteSet(q) /\ \A d \in q : v[d] \in Int /\ w[d] \in Int /\ z[d] \in Int
    BY <1>1, FS_Subset
  <2>2. CASE q = {}
    <3>1. Total(v, q) = 0 /\ Total(w, q) = 0 /\ Total(z, q) = 0
      BY <2>1, <2>2, TotalAny
    <3> QED
      BY <3>1
  <2>3. CASE q # {}
    <3>1. PICK x : x \in q
      BY <2>3
    <3>2. PICK u : u = q \ {x}
      OBVIOUS
    <3>3. u \in SUBSET q /\ u # q /\ IsFiniteSet(u) /\ \A d \in u : v[d] \in Int /\ w[d] \in Int
      BY <2>1, <3>1, <3>2, FS_Subset
    <3>4. u \in C
      <4> HIDE DEF C
      <4> QED
        BY <1>2, <3>3
    <3>5. PICK tv, tw, tz : tv = Total(v, u) /\ tw = Total(w, u) /\ tz = Total(z, u)
      OBVIOUS
    <3>6. tv \in Int /\ tw \in Int
      BY <3>3, <3>5, TotalWhole
    <3>7. tz = c * tv + e * tw
      BY <3>4, <3>5
    <3>8. Total(v, q) = v[x] + tv /\ Total(w, q) = w[x] + tw /\ Total(z, q) = z[x] + tz
      BY <2>1, <3>1, <3>2, <3>5, TotalTake
    <3>9. PICK a \in Int, b \in Int : a = v[x] /\ b = w[x]
      BY <3>1
    <3>10. z[x] = c * a + e * b
      BY <3>1, <3>9
    <3>11. c * (a + tv) = c * a + c * tv /\ e * (b + tw) = e * b + e * tw
      BY <3>6, Distribute
    <3>12. c * a \in Int /\ c * tv \in Int /\ e * b \in Int /\ e * tw \in Int
      BY <3>6
    <3>13. (c * a + e * b) + (c * tv + e * tw) = (c * a + c * tv) + (e * b + e * tw)
      BY <3>12
    <3>14. Total(z, q) = c * Total(v, q) + e * Total(w, q)
      BY <3>7, <3>8, <3>9, <3>10, <3>11, <3>13
    <3> QED
      BY <3>14
  <2> QED
    BY <2>2, <2>3
<1> HIDE DEF C
<1>3. \A q \in SUBSET D : q \in C
  BY <1>2, SetInduction
<1> QED
  BY <1>3 DEF C

(* n equal numbers. *)
LEMMA TotalConstant ==
  ASSUME NEW D, IsFiniteSet(D), NEW v, NEW c \in Int, \A d \in D : v[d] = c
  PROVE  Total(v, D) = Cardinality(D) * c
<1> DEFINE C == {q \in SUBSET D : Total(v, q) = Cardinality(q) * c}
<1>1. ASSUME NEW q \in SUBSET D, \A u \in SUBSET q : u # q => u \in C
      PROVE  q \in C
  <2>1. IsFiniteSet(q) /\ \A d \in q : v[d] \in Int
    BY FS_Subset
  <2>2. CASE q = {}
    BY <2>1, <2>2, TotalAny, FS_EmptySet
  <2>3. CASE q # {}
    <3>1. PICK x : x \in q
      BY <2>3
    <3>2. PICK u : u = q \ {x}
      OBVIOUS
    <3>3. u \in SUBSET q /\ u # q
      BY <3>1, <3>2
    <3>4. u \in C
      <4> HIDE DEF C
      <4> QED
        BY <1>1, <3>3
    <3>5. PICK n : n = Cardinality(u)
      OBVIOUS
    <3>6. n \in Nat /\ Cardinality(q) = n + 1
      <4>1. q = u \cup {x} /\ x \notin u /\ IsFiniteSet(u)
        BY <2>1, <3>1, <3>2, FS_Subset
      <4> QED
        BY <3>5, <4>1, FS_AddElement, FS_CardinalityType
    <3>7. Total(v, q) = c + n * c
      BY <2>1, <3>1, <3>2, <3>4, <3>5, TotalTake
    <3>8. c + n * c = (n + 1) * c
      BY <3>6, SMT
    <3> QED
      BY <3>6, <3>7, <3>8
  <2> QED
    BY <2>2, <2>3
<1> HIDE DEF C
<1>2. \A q \in SUBSET D : q \in C
  BY <1>1, SetInduction
<1> QED
  BY <1>2 DEF C

(* The same numbers under other names. *)
LEMMA TotalRenamed ==
  ASSUME NEW D, IsFiniteSet(D), NEW E, NEW b, NEW v, NEW w,
         \A d \in D : b[d] \in E, \A y \in E : \E d \in D : b[d] = y,
         \A d, e \in D : b[d] = b[e] => d = e,
         \A d \in D : v[d] = w[b[d]], \A y \in E : w[y] \in Int
  PROVE  IsFiniteSet(E) /\ Cardinality(E) = Cardinality(D) /\ Total(v, D) = Total(w, E)
<1> DEFINE Image(q) == {b[d] : d \in q}
           C == {q \in SUBSET D : /\ IsFiniteSet(Image(q)) /\ Cardinality(Image(q)) = Cardinality(q)
                                  /\ Total(v, q) = Total(w, Image(q))}
<1>1. \A d \in D : v[d] \in Int
  OBVIOUS
<1>2. ASSUME NEW q \in SUBSET D, \A u \in SUBSET q : u # q => u \in C
      PROVE  q \in C
  <2>1. IsFiniteSet(q) /\ \A d \in q : v[d] \in Int
    BY <1>1, FS_Subset
  <2>2. CASE q = {}
    <3>1. Image(q) = {}
      BY <2>2
    <3>2. Total(v, {}) = 0 /\ Total(w, {}) = 0 /\ IsFiniteSet({}) /\ Cardinality({}) = 0
      <4>1. IsFiniteSet({}) /\ Cardinality({}) = 0 /\ \A d \in {} : w[d] \in Int
        BY FS_EmptySet
      <4> QED
        BY <2>1, <4>1, TotalAny
    <3> QED
      BY <2>2, <3>1, <3>2
  <2>3. CASE q # {}
    <3>1. PICK x : x \in q
      BY <2>3
    <3>2. PICK u : u = q \ {x}
      OBVIOUS
    <3>3. u \in SUBSET q /\ u # q
      BY <3>1, <3>2
    <3>4. u \in C
      <4> HIDE DEF C
      <4> QED
        BY <1>2, <3>3
    <3>5. PICK iu, iq : iu = Image(u) /\ iq = Image(q)
      OBVIOUS
    <3>6. iu = iq \ {b[x]} /\ b[x] \in iq /\ iq \subseteq E
      BY <3>1, <3>2, <3>5
    <3>7. IsFiniteSet(iu) /\ Cardinality(iu) = Cardinality(u) /\ Total(v, u) = Total(w, iu)
      BY <3>4, <3>5
    <3>8. iq = iu \cup {b[x]} /\ b[x] \notin iu
      BY <3>6
    <3>9. IsFiniteSet(iq) /\ Cardinality(iq) = Cardinality(iu) + 1
      BY <3>7, <3>8, FS_AddElement
    <3>10. Cardinality(q) = Cardinality(u) + 1
      <4>1. q = u \cup {x} /\ x \notin u /\ IsFiniteSet(u)
        BY <2>1, <3>1, <3>2, FS_Subset
      <4> QED
        BY <4>1, FS_AddElement
    <3>11. Total(w, iq) = w[b[x]] + Total(w, iu)
      BY <3>6, <3>9, TotalTake
    <3>12. Total(v, q) = v[x] + Total(v, u)
      BY <2>1, <3>1, <3>2, TotalTake
    <3>13. Total(v, q) = Total(w, iq)
      BY <3>1, <3>7, <3>11, <3>12
    <3> QED
      BY <3>5, <3>7, <3>9, <3>10, <3>13
  <2> QED
    BY <2>2, <2>3
<1>3. D \in C
  <2> HIDE DEF C
  <2> QED
    BY <1>2, SetInduction
<1>4. Image(D) = E
  OBVIOUS
<1> QED
  BY <1>3, <1>4

LEMMA SignedScaled ==
  ASSUME NEW num \in Int, num # 0, NEW den \in Nat \ {0}, NEW n \in Nat \ {0},
         NEW num2 \in Int, num2 = n * num, NEW den2 \in Nat \ {0}, den2 = (n * n) * den
  PROVE  Signed(num2, den2) = Signed(num, den)
<1>1. PICK sq \in Nat \ {0}, k \in Nat \ {0} : sq = num * num /\ k = n * n
  BY SMT
<1>2. PICK sq2 : sq2 = num2 * num2
  OBVIOUS
<1>3. sq2 = k * sq
  BY <1>1, <1>2, SMT
<1>4. PICK g, g2 : g = Max(CommonDivisors(den, sq)) /\ g2 = Max(CommonDivisors(den2, sq2))
  OBVIOUS
<1>5. g2 = k * g
  BY <1>1, <1>3, <1>4, DivisorScaled
<1>6. g \in CommonDivisors(den, sq)
  BY <1>1, <1>4, GreatestDivisor
<1>7. g \in Nat \ {0} /\ den % g = 0 /\ sq % g = 0
  BY <1>6 DEF CommonDivisors
<1>8. PICK s \in Int, t \in Int : den = g * s /\ sq = g * t
  BY <1>1, <1>7, MultipleOf
<1>9. g2 \in Nat \ {0}
  BY <1>1, <1>5, <1>7, SMT
<1>10. den2 = g2 * s /\ sq2 = g2 * t
  BY <1>1, <1>3, <1>5, <1>7, <1>8, SMT
<1>11. -sq = g * (-t) /\ -sq2 = g2 * (-t) /\ -t \in Int /\ -sq \in Int /\ -sq2 \in Int /\ sq2 \in Int
  BY <1>1, <1>7, <1>8, <1>9, <1>10, SMT
<1>12. ASSUME NEW a \in Int, NEW d \in Nat \ {0}, NEW q \in Int, a = d * q PROVE a \div d = q
  <2>1. 0 \in 0 .. d - 1 /\ a = d * q + 0
    BY <1>12
  <2> QED
    BY <2>1, ModUnique
<1>13. den \div g = s /\ den2 \div g2 = s
  BY <1>7, <1>8, <1>9, <1>10, <1>12
<1>14. sq \div g = t /\ sq2 \div g2 = t
  BY <1>1, <1>7, <1>8, <1>9, <1>10, <1>11, <1>12
<1>15. (-sq) \div g = -t /\ (-sq2) \div g2 = -t
  BY <1>7, <1>9, <1>11, <1>12
<1>16. num < 0 <=> num2 < 0
  BY SMT
<1>17. Signed(num, den) = [p |-> (IF num < 0 THEN -sq ELSE sq) \div g, q |-> den \div g]
  BY <1>1, <1>4 DEF Signed, CommonDivisors
<1>18. Signed(num2, den2) = [p |-> (IF num2 < 0 THEN -sq2 ELSE sq2) \div g2, q |-> den2 \div g2]
  BY <1>2, <1>4 DEF Signed, CommonDivisors
<1>19. (IF num2 < 0 THEN -sq2 ELSE sq2) \div g2 = (IF num < 0 THEN -sq ELSE sq) \div g
  BY <1>14, <1>15, <1>16
<1> QED
  BY <1>13, <1>17, <1>18, <1>19

(* Centred ratings, multiplied by their number n, are n times the ratings' *)
(* own statistics.                                                         *)
LEMMA DotCentred ==
  ASSUME NEW D, IsFiniteSet(D), NEW r, NEW s, \A d \in D : r[d] \in Int /\ s[d] \in Int,
         NEW n, n = Cardinality(D), NEW sr, sr = Total(r, D), NEW ss, ss = Total(s, D),
         NEW x, NEW y, \A d \in D : x[d] = n * r[d] - sr /\ y[d] = n * s[d] - ss
  PROVE  Dot(x, y, D) = n * (n * Dot(r, s, D) - sr * ss)
<1>1. n \in Nat
  BY FS_CardinalityType
<1>2. sr \in Int /\ ss \in Int
  BY TotalWhole
<1>3. PICK dot, xy, one : /\ dot = [d \in D |-> r[d] * s[d]] /\ xy = [d \in D |-> x[d] * y[d]]
                          /\ one = [d \in D |-> 1]
  OBVIOUS
<1>4. PICK left, right : /\ left = [d \in D |-> (n * n) * dot[d] + (- (n * ss)) * r[d]]
                         /\ right = [d \in D |-> (- (n * sr)) * s[d] + (sr * ss) * one[d]]
  OBVIOUS
<1>5. ASSUME NEW d \in D
      PROVE  /\ dot[d] \in Int /\ one[d] \in Int /\ left[d] \in Int /\ right[d] \in Int
             /\ xy[d] = 1 * left[d] + 1 * right[d]
  <2>1. PICK a \in Int, b \in Int : a = r[d] /\ b = s[d]
    OBVIOUS
  <2>2. dot[d] = a * b /\ one[d] = 1 /\ xy[d] = (n * a - sr) * (n * b - ss)
    BY <1>3, <2>1
  <2>3. /\ left[d] = (n * n) * (a * b) + (- (n * ss)) * a
        /\ right[d] = (- (n * sr)) * b + (sr * ss) * 1
    BY <1>4, <2>1, <2>2
  <2>4. (n * a - sr) * (n * b - ss) =
          ((n * n) * (a * b) + (- (n * ss)) * a) + ((- (n * sr)) * b + (sr * ss) * 1)
    BY <1>1, <1>2, SMT
  <2>5. /\ (n * n) * (a * b) + (- (n * ss)) * a \in Int
        /\ (- (n * sr)) * b + (sr * ss) * 1 \in Int /\ a * b \in Int
    BY <1>1, <1>2
  <2> QED
    BY <2>2, <2>3, <2>4, <2>5
<1>6. PICK td, tl, tr, tx : /\ td = Total(dot, D) /\ tl = Total(left, D) /\ tr = Total(right, D)
                            /\ tx = Total(xy, D)
  OBVIOUS
<1>7. td \in Int /\ tl \in Int /\ tr \in Int /\ tx \in Int
  <2>1. \A d \in D : xy[d] \in Int
    BY <1>5
  <2> QED
    BY <1>5, <1>6, <2>1, TotalWhole
<1>8. tx = 1 * tl + 1 * tr
  <2>1. 1 \in Int /\ \A d \in D : left[d] \in Int /\ right[d] \in Int
    BY <1>5
  <2>2. \A d \in D : xy[d] = 1 * left[d] + 1 * right[d]
    BY <1>5
  <2>3. PICK c \in Int : c = 1
    OBVIOUS
  <2>4. \A d \in D : IsCombination(xy[d], c, left[d], c, right[d])
    BY <2>2, <2>3 DEF IsCombination
  <2>5. IsCombination(Total(xy, D), c, Total(left, D), c, Total(right, D))
    BY <2>1, <2>4, TotalLinear
  <2> QED
    BY <1>6, <2>3, <2>5 DEF IsCombination
<1>9. tl = (n * n) * td + (- (n * ss)) * sr
  <2>1. PICK c \in Int, e \in Int : c = n * n /\ e = - (n * ss)
    BY <1>1, <1>2
  <2>2. \A d \in D : IsCombination(left[d], c, dot[d], e, r[d])
    BY <1>4, <2>1 DEF IsCombination
  <2>3. IsCombination(Total(left, D), c, Total(dot, D), e, Total(r, D))
    BY <1>5, <2>2, TotalLinear
  <2> QED
    BY <1>6, <2>1, <2>3 DEF IsCombination
<1>10. tr = (- (n * sr)) * ss + (sr * ss) * n
  <2>1. PICK c \in Int, e \in Int : c = - (n * sr) /\ e = sr * ss
    BY <1>1, <1>2
  <2>2. \A d \in D : IsCombination(right[d], c, s[d], e, one[d])
    BY <1>4, <2>1 DEF IsCombination
  <2>3. IsCombination(Total(right, D), c, Total(s, D), e, Total(one, D))
    BY <1>5, <2>2, TotalLinear
  <2>4. Total(one, D) = n * 1
    <3>1. PICK u \in Int : u = 1
      OBVIOUS
    <3>2. \A d \in D : one[d] = u
      BY <1>3, <3>1
    <3>3. Total(one, D) = Cardinality(D) * u
      BY <3>2, TotalConstant
    <3> QED
      BY <3>1, <3>3
  <2>5. n * 1 = n
    BY <1>1
  <2> QED
    BY <1>6, <2>1, <2>3, <2>4, <2>5 DEF IsCombination
<1>11. tx = n * (n * td - sr * ss)
  BY <1>1, <1>2, <1>7, <1>8, <1>9, <1>10, SMT
<1> QED
  BY <1>3, <1>6, <1>11 DEF Dot

(* Of the same vectors the two forms make the same similarity. *)
LEMMA TwoForms ==
  ASSUME NEW r, NEW s, IsVector(r), IsVector(s)
  PROVE  pearson_similarity(r, s) = pair_sim(r, s)
<1> DEFINE D == Overlap(r, s)
           n == Cardinality(D)
           dev(v) == [d \in D |-> n * v[d] - Total(v, D)]
<1>1. IsFiniteSet(D) /\ n \in Nat /\ \A d \in D : r[d] \in Int /\ s[d] \in Int
  BY OverlapFacts
<1>2. PICK x, y : x = dev(r) /\ y = dev(s)
  OBVIOUS
<1>3. PICK sx, sy, sxx, syy, sxy :
        /\ sx = Total(r, D) /\ sy = Total(s, D)
        /\ sxx = Dot(r, r, D) /\ syy = Dot(s, s, D) /\ sxy = Dot(r, s, D)
  OBVIOUS
<1>4. PICK num, a, b : num = Dot(x, y, D) /\ a = Dot(x, x, D) /\ b = Dot(y, y, D)
  OBVIOUS
<1>5. pearson_similarity(r, s) = IF num = 0 \/ a * b = 0 THEN Zero ELSE Signed(num, a * b)
  BY <1>2, <1>4 DEF pearson_similarity
<1>6. pair_sim(r, s) = pearson_from_stats(n, sx, sy, sxx, syy, sxy)
  BY <1>3 DEF pair_sim
<1>7. \A d \in D : x[d] = n * r[d] - sx /\ y[d] = n * s[d] - sy
  BY <1>2, <1>3
<1> HIDE DEF D, dev
<1>8. PICK m : m = n
  OBVIOUS
<1>9. m \in Nat /\ m = Cardinality(D)
  BY <1>1, <1>8
<1>10. sx \in Int /\ sy \in Int
  BY <1>1, <1>3, TotalWhole
<1>11. sxx \in Int /\ syy \in Int /\ sxy \in Int
  BY <1>1, <1>3, DotTyped
<1>12. PICK u \in Int, vx \in Int, vy \in Int :
         u = m * sxy - sx * sy /\ vx = m * sxx - sx * sx /\ vy = m * syy - sy * sy
  BY <1>9, <1>10, <1>11
<1>13. num = m * u /\ a = m * vx /\ b = m * vy
  <2>1. \A d \in D : x[d] = m * r[d] - sx /\ y[d] = m * s[d] - sy
    BY <1>7, <1>8
  <2>2. Dot(x, y, D) = m * (m * Dot(r, s, D) - sx * sy)
    BY <1>1, <1>3, <1>9, <2>1, DotCentred
  <2>3. Dot(x, x, D) = m * (m * Dot(r, r, D) - sx * sx)
    BY <1>1, <1>3, <1>9, <2>1, DotCentred
  <2>4. Dot(y, y, D) = m * (m * Dot(s, s, D) - sy * sy)
    BY <1>1, <1>3, <1>9, <2>1, DotCentred
  <2> QED
    BY <1>3, <1>4, <1>12, <2>2, <2>3, <2>4
<1>14. a \in Nat /\ b \in Nat
  <2>1. \A d \in D : x[d] \in Int /\ y[d] \in Int
    <3> SUFFICES ASSUME NEW d \in D PROVE x[d] \in Int /\ y[d] \in Int
      OBVIOUS
    <3>1. PICK e \in Int, f \in Int : e = r[d] /\ f = s[d]
      BY <1>1
    <3>2. m * e - sx \in Int /\ m * f - sy \in Int
      BY <1>9, <1>10
    <3> QED
      BY <1>7, <1>8, <3>1, <3>2
  <2> QED
    BY <1>1, <1>4, <2>1, SquaresTyped
<1>15. pair_sim(r, s) = IF u = 0 \/ vx <= 0 \/ vy <= 0 THEN Zero ELSE Signed(u, vx * vy)
  BY <1>6, <1>8, <1>12 DEF pearson_from_stats
<1>16. CASE m = 0
  <2>1. num = 0
    BY <1>13, <1>16
  <2>2. D = {}
    BY <1>1, <1>9, <1>16, FS_EmptySet
  <2>3. sx = 0 /\ sy = 0
    BY <1>1, <1>3, <2>2, TotalAny
  <2>4. u = 0
    BY <1>11, <1>12, <1>16, <2>3
  <2> QED
    BY <1>5, <1>15, <2>1, <2>4
<1>17. CASE m # 0
  <2>1. m \in Nat \ {0}
    BY <1>9, <1>17
  <2>2. num = 0 <=> u = 0
    BY <1>13, <2>1, SMT
  <2>3. vx >= 0 /\ vy >= 0 /\ (a = 0 <=> vx = 0) /\ (b = 0 <=> vy = 0)
    BY <1>13, <1>14, <2>1, SMT
  <2>4. a * b = 0 <=> a = 0 \/ b = 0
    BY <1>14, SMT
  <2>5. CASE u = 0 \/ vx = 0 \/ vy = 0
    BY <1>5, <1>15, <2>2, <2>3, <2>4, <2>5
  <2>6. CASE ~ (u = 0 \/ vx = 0 \/ vy = 0)
    <3>1. PICK den \in Nat \ {0}, den2 \in Nat \ {0} : den = vx * vy /\ den2 = a * b
      <4>1. vx \in Nat \ {0} /\ vy \in Nat \ {0} /\ a \in Nat \ {0} /\ b \in Nat \ {0}
        BY <1>14, <2>3, <2>6
      <4> QED
        BY <4>1, SMT
    <3>2. den2 = (m * m) * den
      BY <1>13, <2>1, <3>1, SMT
    <3>3. num \in Int
      BY <1>13, <2>1
    <3>4. Signed(num, den2) = Signed(u, den)
      BY <1>13, <2>1, <2>6, <3>2, <3>3, SignedScaled
    <3> QED
      BY <1>5, <1>15, <2>2, <2>3, <2>4, <2>6, <3>1, <3>4
  <2> QED
    BY <2>5, <2>6
<1> QED
  BY <1>16, <1>17

(* It does not matter which of the two comes first, *)
LEMMA PairSimSymmetric ==
  ASSUME NEW r, NEW s, IsVector(r), IsVector(s)
  PROVE  pair_sim(r, s) = pair_sim(s, r)
<1> DEFINE D == Overlap(r, s)
<1>1. Overlap(s, r) = D
  BY DEF Overlap
<1>2. IsFiniteSet(D) /\ Cardinality(D) \in Nat /\ \A d \in D : r[d] \in Int /\ s[d] \in Int
  BY OverlapFacts
<1>3. Dot(s, r, D) = Dot(r, s, D)
  <2>1. \A d \in D : r[d] * s[d] = s[d] * r[d]
    <3> SUFFICES ASSUME NEW d \in D PROVE r[d] * s[d] = s[d] * r[d]
      OBVIOUS
    <3>1. PICK e \in Int, f \in Int : e = r[d] /\ f = s[d]
      BY <1>2
    <3>2. e * f = f * e
      OBVIOUS
    <3> QED
      BY <3>1, <3>2
  <2>2. [d \in D |-> s[d] * r[d]] = [d \in D |-> r[d] * s[d]]
    BY <2>1
  <2> QED
    BY <2>2 DEF Dot
<1> HIDE DEF D
<1>4. PICK n, sx, sy, sxx, syy, sxy :
        /\ n = Cardinality(D) /\ sx = Total(r, D) /\ sy = Total(s, D)
        /\ sxx = Dot(r, r, D) /\ syy = Dot(s, s, D) /\ sxy = Dot(r, s, D)
  OBVIOUS
<1>5. n \in Int /\ sx \in Int /\ sy \in Int /\ sxx \in Int /\ syy \in Int /\ sxy \in Int
  BY <1>2, <1>4, TotalWhole, DotTyped
<1>6. pair_sim(r, s) = pearson_from_stats(n, sx, sy, sxx, syy, sxy)
  BY <1>4 DEF pair_sim, D
<1>7. pair_sim(s, r) = pearson_from_stats(n, sy, sx, syy, sxx, sxy)
  BY <1>1, <1>3, <1>4 DEF pair_sim, D
<1>8. PICK u \in Int, vx \in Int, vy \in Int :
         u = n * sxy - sx * sy /\ vx = n * sxx - sx * sx /\ vy = n * syy - sy * sy
  BY <1>5
<1>9. u = n * sxy - sy * sx /\ vx * vy = vy * vx
  BY <1>5, <1>8
<1>10. pair_sim(r, s) = IF u = 0 \/ vx <= 0 \/ vy <= 0 THEN Zero ELSE Signed(u, vx * vy)
  BY <1>6, <1>8 DEF pearson_from_stats
<1>11. pair_sim(s, r) = IF u = 0 \/ vy <= 0 \/ vx <= 0 THEN Zero ELSE Signed(u, vy * vx)
  BY <1>7, <1>8, <1>9 DEF pearson_from_stats
<1> QED
  BY <1>9, <1>10, <1>11

(* nor how the dimensions are called. *)
Renames(b, r, s, t, v) ==
  /\ \A d \in Overlap(r, s) : b[d] \in Overlap(t, v) /\ r[d] = t[b[d]] /\ s[d] = v[b[d]]
  /\ \A y \in Overlap(t, v) : \E d \in Overlap(r, s) : b[d] = y
  /\ \A d, e \in Overlap(r, s) : b[d] = b[e] => d = e

LEMMA PairSimRenamed ==
  ASSUME NEW r, NEW s, NEW t, NEW v, NEW b, IsVector(r), IsVector(s), IsVector(t), IsVector(v),
         Renames(b, r, s, t, v)
  PROVE  pair_sim(r, s) = pair_sim(t, v) /\ Cardinality(Overlap(r, s)) = Cardinality(Overlap(t, v))
<1>1. PICK D, E : D = Overlap(r, s) /\ E = Overlap(t, v)
  OBVIOUS
<1>2. IsFiniteSet(D) /\ \A y \in E : t[y] \in Int /\ v[y] \in Int
  BY <1>1, OverlapFacts
<1>3. ASSUME NEW x, NEW w, \A d \in D : x[d] = w[b[d]], \A y \in E : w[y] \in Int
      PROVE  Cardinality(E) = Cardinality(D) /\ Total(x, D) = Total(w, E)
  BY <1>1, <1>2, <1>3, TotalRenamed DEF Renames
<1>4. ASSUME NEW x, NEW w, NEW p, NEW q, \A d \in D : x[d] = p[b[d]] /\ w[d] = q[b[d]],
             \A y \in E : p[y] \in Int /\ q[y] \in Int
      PROVE  Dot(x, w, D) = Dot(p, q, E)
  <2>1. PICK xw, pq : xw = [d \in D |-> x[d] * w[d]] /\ pq = [y \in E |-> p[y] * q[y]]
    OBVIOUS
  <2>2. \A y \in E : pq[y] \in Int
    <3> SUFFICES ASSUME NEW y \in E PROVE pq[y] \in Int
      OBVIOUS
    <3>1. PICK e \in Int, f \in Int : e = p[y] /\ f = q[y]
      BY <1>4
    <3>2. e * f \in Int
      OBVIOUS
    <3> QED
      BY <2>1, <3>1, <3>2
  <2>3. \A d \in D : xw[d] = pq[b[d]]
    BY <1>1, <1>4, <2>1 DEF Renames
  <2>4. Total(xw, D) = Total(pq, E)
    BY <1>3, <2>2, <2>3
  <2> QED
    BY <2>1, <2>4 DEF Dot
<1>5. \A d \in D : r[d] = t[b[d]] /\ s[d] = v[b[d]]
  BY <1>1 DEF Renames
<1>6. Cardinality(E) = Cardinality(D) /\ Total(r, D) = Total(t, E) /\ Total(s, D) = Total(v, E)
  BY <1>2, <1>3, <1>5
<1>7. Dot(r, r, D) = Dot(t, t, E) /\ Dot(s, s, D) = Dot(v, v, E) /\ Dot(r, s, D) = Dot(t, v, E)
  BY <1>2, <1>4, <1>5
<1> QED
  BY <1>1, <1>6, <1>7 DEF pair_sim

(* The last review of its entity and dimension. *)
Latest(R, mode, i) ==
  \A j \in DOMAIN R : Entity(R[j], mode) = Entity(R[i], mode) /\ Dim(R[j], mode) = Dim(R[i], mode) => j <= i

(* It is the one that counts. *)
OfLatest(R, mode, e, r) ==
  /\ DOMAIN r = {Dim(R[i], mode) : i \in Basket(R, mode, e)}
  /\ \A d \in DOMAIN r :
       \E i \in DOMAIN R : /\ Entity(R[i], mode) = e /\ Dim(R[i], mode) = d /\ Latest(R, mode, i)
                           /\ r[d] = R[i].stars

LEMMA RatingsLatest ==
  ASSUME NEW R \in Seq(Review), NEW mode \in Modes, NEW e
  PROVE  OfLatest(R, mode, e, Ratings(R, mode, e))
<1> DEFINE I == Basket(R, mode, e)
           D == {Dim(R[i], mode) : i \in I}
           J(d) == {i \in I : Dim(R[i], mode) = d}
<1>1. DOMAIN R = 1 .. Len(R) /\ Len(R) \in Nat
  BY NamesFinite
<1>2. Ratings(R, mode, e) = [d \in D |-> R[Max(J(d))].stars]
  BY DEF Ratings, list2dict
<1>3. DOMAIN Ratings(R, mode, e) = D
  BY <1>2
<1>4. ASSUME NEW d \in D
      PROVE  \E i \in DOMAIN R : /\ Entity(R[i], mode) = e /\ Dim(R[i], mode) = d /\ Latest(R, mode, i)
                                 /\ Ratings(R, mode, e)[d] = R[i].stars
  <2>1. J(d) # {} /\ J(d) \subseteq DOMAIN R
    BY DEF Basket
  <2>2. PICK S : S = J(d)
    OBVIOUS
  <2>3. S \subseteq Int /\ \A x \in S : x <= Len(R)
    BY <1>1, <2>1, <2>2
  <2>4. PICK i : i = Max(S)
    OBVIOUS
  <2>5. i \in S /\ \A y \in S : i >= y
    BY <1>1, <2>1, <2>2, <2>3, <2>4, MaxMember
  <2>6. i \in DOMAIN R /\ Entity(R[i], mode) = e /\ Dim(R[i], mode) = d
    BY <2>2, <2>5 DEF Basket
  <2>7. ASSUME NEW j \in DOMAIN R, Entity(R[j], mode) = e, Dim(R[j], mode) = d PROVE j <= i
    <3>1. j \in S
      BY <2>2, <2>7 DEF Basket
    <3> QED
      BY <2>3, <2>5, <3>1
  <2>8. Latest(R, mode, i)
    BY <2>6, <2>7 DEF Latest
  <2>9. Ratings(R, mode, e)[d] = R[i].stars
    BY <1>2, <2>2, <2>4
  <2> QED
    BY <2>6, <2>8, <2>9
<1>5. PICK r : r = Ratings(R, mode, e)
  OBVIOUS
<1>6. OfLatest(R, mode, e, r)
  BY <1>3, <1>4, <1>5 DEF OfLatest
<1> QED
  BY <1>5, <1>6

(* What is picked is there, and nothing else. *)
LEMMA PickedHas ==
  ASSUME NEW X, NEW R \in Seq(X), NEW I \in SUBSET DOMAIN R, NEW T, T = Picked(R, I)
  PROVE  \E f : /\ \A k \in DOMAIN T : f[k] \in I /\ T[k] = R[f[k]]
                /\ \A i \in I : \E k \in DOMAIN T : f[k] = i
                /\ \A k, l \in DOMAIN T : k < l <=> f[k] < f[l]
<1>1. DOMAIN R = 1 .. Len(R) /\ Len(R) \in Nat
  OBVIOUS
<1>2. IsFiniteSet(I) /\ I \subseteq Int
  <2>1. IsFiniteSet(DOMAIN R) /\ DOMAIN R \subseteq Int
    BY <1>1, FS_Interval
  <2> QED
    BY <2>1, FS_Subset
<1>3. PICK s, n : s = Ascending(I) /\ n = Cardinality(I)
  OBVIOUS
<1>4. /\ n \in Nat /\ s \in [1 .. n -> I]
      /\ \A x \in I : \E k \in 1 .. n : s[k] = x
      /\ \A k, l \in 1 .. n : k < l <=> s[k] < s[l]
  BY <1>2, <1>3, AscendingLists
<1>5. T = [k \in 1 .. n |-> R[s[k]]]
  BY <1>3, <1>4 DEF Picked
<1>6. DOMAIN T = 1 .. n /\ \A k \in 1 .. n : s[k] \in I /\ T[k] = R[s[k]]
  BY <1>4, <1>5
<1> QED
  BY <1>4, <1>6

(* The exporter keeps exactly the reviews that count. *)
LEMMA DedupKeeps ==
  ASSUME NEW R \in Seq(Review), NEW mode \in Modes, NEW T, T = Dedup(R)
  PROVE  /\ T \in Seq(Review)
         /\ \A k \in DOMAIN T : \E i \in DOMAIN R : T[k] = R[i] /\ Latest(R, mode, i)
         /\ \A i \in DOMAIN R : Latest(R, mode, i) => \E k \in DOMAIN T : T[k] = R[i]
<1> DEFINE I == {i \in DOMAIN R : \A j \in DOMAIN R :
                   (R[i].user = R[j].user /\ R[i].business = R[j].business) => i = j \/ Newer(i, j)}
<1>1. T = Picked(R, I)
  BY DEF Dedup
<1>2. \A i \in DOMAIN R : i \in I <=> Latest(R, mode, i)
  <2> SUFFICES ASSUME NEW i \in DOMAIN R PROVE i \in I <=> Latest(R, mode, i)
    OBVIOUS
  <2>1. ASSUME NEW j \in DOMAIN R
        PROVE  /\ (i = j \/ Newer(i, j)) <=> j <= i
               /\ (R[i].user = R[j].user /\ R[i].business = R[j].business)
                   <=> (Entity(R[j], mode) = Entity(R[i], mode) /\ Dim(R[j], mode) = Dim(R[i], mode))
    <3>1. i \in Int /\ j \in Int
      BY NamesFinite
    <3>2. CASE mode = "item"
      BY <3>1, <3>2 DEF Newer, Entity, Dim
    <3>3. CASE mode = "user"
      BY <3>1, <3>3 DEF Newer, Entity, Dim
    <3> QED
      BY <3>2, <3>3 DEF Modes
  <2> QED
    BY <2>1 DEF Latest
<1>3. I \in SUBSET DOMAIN R
  OBVIOUS
<1> HIDE DEF I
<1>4. T \in Seq(Review)
  BY <1>1, <1>3, PickedTyped
<1>5. PICK f : /\ \A k \in DOMAIN T : f[k] \in I /\ T[k] = R[f[k]]
               /\ \A i \in I : \E k \in DOMAIN T : f[k] = i
  BY <1>1, <1>3, PickedHas
<1> QED
  BY <1>2, <1>3, <1>4, <1>5

(* Every review has one that counts in its place. *)
LEMMA LatestOf ==
  ASSUME NEW R \in Seq(Review), NEW mode \in Modes, NEW i \in DOMAIN R
  PROVE  \E l \in DOMAIN R : /\ Entity(R[l], mode) = Entity(R[i], mode) /\ Dim(R[l], mode) = Dim(R[i], mode)
                             /\ Latest(R, mode, l)
<1>1. PICK e, d : e = Entity(R[i], mode) /\ d = Dim(R[i], mode)
  OBVIOUS
<1>2. d \in {Dim(R[j], mode) : j \in Basket(R, mode, e)}
  BY <1>1 DEF Basket
<1>3. OfLatest(R, mode, e, Ratings(R, mode, e))
  BY RatingsLatest
<1> QED
  BY <1>1, <1>2, <1>3 DEF OfLatest

(* So nothing the models are made of is lost with the other reviews        *)
(* (docs/pearson_contract.md section 4).                                   *)
LEMMA DedupSame ==
  ASSUME NEW R \in Seq(Review), NEW mode \in Modes, NEW T, T = Dedup(R)
  PROVE  /\ T \in Seq(Review)
         /\ Entities(T, mode) = Entities(R, mode) /\ Dims(T, mode) = Dims(R, mode)
         /\ \A e : Ratings(T, mode, e) = Ratings(R, mode, e)
<1>1. /\ T \in Seq(Review)
      /\ \A k \in DOMAIN T : \E i \in DOMAIN R : T[k] = R[i] /\ Latest(R, mode, i)
      /\ \A i \in DOMAIN R : Latest(R, mode, i) => \E k \in DOMAIN T : T[k] = R[i]
  BY DedupKeeps
<1>2. \A i \in DOMAIN R : \E k \in DOMAIN T : /\ Entity(T[k], mode) = Entity(R[i], mode)
                                              /\ Dim(T[k], mode) = Dim(R[i], mode)
  <2> SUFFICES ASSUME NEW i \in DOMAIN R
               PROVE  \E k \in DOMAIN T : /\ Entity(T[k], mode) = Entity(R[i], mode)
                                          /\ Dim(T[k], mode) = Dim(R[i], mode)
    OBVIOUS
  <2>1. PICK l \in DOMAIN R : /\ Entity(R[l], mode) = Entity(R[i], mode) /\ Dim(R[l], mode) = Dim(R[i], mode)
                              /\ Latest(R, mode, l)
    BY LatestOf
  <2>2. PICK k \in DOMAIN T : T[k] = R[l]
    BY <1>1, <2>1
  <2> QED
    BY <2>1, <2>2
<1>3. Entities(T, mode) = Entities(R, mode) /\ Dims(T, mode) = Dims(R, mode)
  BY <1>1, <1>2 DEF Entities, Dims
<1>4. ASSUME NEW e PROVE Ratings(T, mode, e) = Ratings(R, mode, e)
  <2>1. PICK t, r : t = Ratings(T, mode, e) /\ r = Ratings(R, mode, e)
    OBVIOUS
  <2>2. t = [d \in DOMAIN t |-> t[d]] /\ r = [d \in DOMAIN r |-> r[d]]
    BY <1>1, <2>1, RatingsVector DEF IsVector
  <2>3. OfLatest(R, mode, e, r)
    BY <2>1, RatingsLatest
  <2>4. OfLatest(T, mode, e, t)
    BY <1>1, <2>1, RatingsLatest
  <2>5. DOMAIN t = {Dim(T[i], mode) : i \in Basket(T, mode, e)}
    BY <2>4 DEF OfLatest
  <2>6. DOMAIN r = {Dim(R[i], mode) : i \in Basket(R, mode, e)}
    BY <2>3 DEF OfLatest
  <2>7. DOMAIN t \subseteq DOMAIN r
    <3> SUFFICES ASSUME NEW d \in DOMAIN t PROVE d \in DOMAIN r
      OBVIOUS
    <3>1. PICK k \in DOMAIN T : Entity(T[k], mode) = e /\ Dim(T[k], mode) = d
      BY <2>5 DEF Basket
    <3>2. PICK i \in DOMAIN R : T[k] = R[i]
      BY <1>1
    <3> QED
      BY <2>6, <3>1, <3>2 DEF Basket
  <2>8. DOMAIN r \subseteq DOMAIN t
    <3> SUFFICES ASSUME NEW d \in DOMAIN r PROVE d \in DOMAIN t
      OBVIOUS
    <3>1. PICK i \in DOMAIN R : Entity(R[i], mode) = e /\ Dim(R[i], mode) = d
      BY <2>6 DEF Basket
    <3>2. PICK k \in DOMAIN T : Entity(T[k], mode) = e /\ Dim(T[k], mode) = d
      BY <1>2, <3>1
    <3> QED
      BY <2>5, <3>2 DEF Basket
  <2>9. ASSUME NEW d \in DOMAIN r PROVE t[d] = r[d]
    <3>1. PICK i \in DOMAIN R : /\ Entity(R[i], mode) = e /\ Dim(R[i], mode) = d /\ Latest(R, mode, i)
                                /\ r[d] = R[i].stars
      BY <2>3 DEF OfLatest
    <3>2. PICK k \in DOMAIN T : /\ Entity(T[k], mode) = e /\ Dim(T[k], mode) = d /\ t[d] = T[k].stars
      BY <2>8, <2>4 DEF OfLatest
    <3>3. PICK j \in DOMAIN R : T[k] = R[j] /\ Latest(R, mode, j)
      BY <1>1
    <3>4. i <= j /\ j <= i
      BY <3>1, <3>2, <3>3 DEF Latest
    <3>5. i \in Int /\ j \in Int
      BY NamesFinite
    <3>6. i = j
      BY <3>4, <3>5
    <3> QED
      BY <3>1, <3>2, <3>3, <3>6
  <2>10. DOMAIN t = DOMAIN r
    BY <2>7, <2>8
  <2>11. t = r
    BY <2>2, <2>9, <2>10
  <2> QED
    BY <2>1, <2>11
<1> QED
  BY <1>1, <1>3, <1>4

(* Two matrix of the matrix have the similarity of the ratings they hold. *)
LEMMA RowsAgree ==
  ASSUME NEW T \in Seq(Review), NEW mode \in Modes, NEW matrix, matrix = RowsOf(T, mode),
         NEW names, names = Ascending(Entities(T, mode)),
         NEW i \in DOMAIN matrix, NEW j \in DOMAIN matrix,
         NEW r, r = Ratings(T, mode, names[i + 1]), NEW s, s = Ratings(T, mode, names[j + 1])
  PROVE  /\ pair_sim(matrix[i], matrix[j]) = pearson_similarity(r, s)
         /\ Cardinality(Overlap(matrix[i], matrix[j])) = Cardinality(Overlap(r, s))
<1>1. PICK M, dims, m : M = Dims(T, mode) /\ dims = Ascending(M) /\ m = Cardinality(M)
  OBVIOUS
<1>2. IsFiniteSet(M) /\ M \subseteq Int
  BY <1>1, NamesFinite
<1>3. /\ m \in Nat /\ dims \in [1 .. m -> M]
      /\ \A x \in M : \E k \in 1 .. m : dims[k] = x
      /\ \A k, l \in 1 .. m : k < l <=> dims[k] < dims[l]
  BY <1>1, <1>2, AscendingLists
<1>4. Len(dims) = m
  BY <1>1, <1>2, AscendingSorted
<1> DEFINE rat(x) == Ratings(T, mode, names[x + 1])
           row(x) == [d \in {e \in 0 .. m - 1 : dims[e + 1] \in DOMAIN rat(x)} |-> rat(x)[dims[d + 1]]]
<1>5. matrix = [x \in 0 .. Len(names) - 1 |-> row(x)]
  BY <1>1, <1>4 DEF RowsOf
<1>6. matrix[i] = row(i) /\ matrix[j] = row(j)
  BY <1>5
<1>7. rat(i) = r /\ rat(j) = s
  OBVIOUS
<1>8. PICK t, v : t = matrix[i] /\ v = matrix[j]
  OBVIOUS
<1>9. /\ t = [d \in {e \in 0 .. m - 1 : dims[e + 1] \in DOMAIN r} |-> r[dims[d + 1]]]
      /\ v = [d \in {e \in 0 .. m - 1 : dims[e + 1] \in DOMAIN s} |-> s[dims[d + 1]]]
  BY <1>6, <1>7, <1>8
<1> HIDE DEF rat, row
<1>10. IsVector(r) /\ IsVector(s) /\ DOMAIN r \subseteq M
  BY <1>1, RatingsVector
<1>11. IsVector(t) /\ IsVector(v)
  BY <1>8, RowsMatrix DEF IsMatrix
<1>12. PICK b : b = [d \in 0 .. m - 1 |-> dims[d + 1]]
  OBVIOUS
<1>13. /\ DOMAIN t = {e \in 0 .. m - 1 : dims[e + 1] \in DOMAIN r}
       /\ DOMAIN v = {e \in 0 .. m - 1 : dims[e + 1] \in DOMAIN s}
  BY <1>9
<1>14. \A d \in Overlap(t, v) : b[d] \in Overlap(r, s) /\ t[d] = r[b[d]] /\ v[d] = s[b[d]]
  BY <1>9, <1>12, <1>13 DEF Overlap
<1>15. \A y \in Overlap(r, s) : \E d \in Overlap(t, v) : b[d] = y
  <2> SUFFICES ASSUME NEW y \in Overlap(r, s) PROVE \E d \in Overlap(t, v) : b[d] = y
    OBVIOUS
  <2>1. y \in DOMAIN r /\ y \in DOMAIN s /\ y \in M
    BY <1>10 DEF Overlap
  <2>2. PICK k \in 1 .. m : dims[k] = y
    BY <1>3, <2>1
  <2>3. PICK d \in 0 .. m - 1 : d + 1 = k
    BY <1>3
  <2>4. d \in DOMAIN t /\ d \in DOMAIN v /\ b[d] = y
    BY <1>12, <1>13, <2>1, <2>2, <2>3
  <2> QED
    BY <2>4 DEF Overlap
<1>16. \A d, e \in Overlap(t, v) : b[d] = b[e] => d = e
  <2> SUFFICES ASSUME NEW d \in Overlap(t, v), NEW e \in Overlap(t, v), b[d] = b[e] PROVE d = e
    OBVIOUS
  <2>1. d \in 0 .. m - 1 /\ e \in 0 .. m - 1
    BY <1>13 DEF Overlap
  <2>2. dims[d + 1] = dims[e + 1]
    BY <1>12, <2>1
  <2>3. PICK k \in 1 .. m, l \in 1 .. m : k = d + 1 /\ l = e + 1
    BY <1>3, <2>1
  <2>4. dims[k] = dims[l] /\ dims[k] \in Int
    BY <1>2, <1>3, <2>2, <2>3
  <2>5. ~ (dims[k] < dims[l]) /\ ~ (dims[l] < dims[k])
    BY <2>4
  <2>6. ~ (k < l) /\ ~ (l < k)
    BY <1>3, <2>5
  <2> QED
    BY <1>3, <2>1, <2>3, <2>6
<1>17. Renames(b, t, v, r, s)
  BY <1>14, <1>15, <1>16 DEF Renames
<1>18. /\ pair_sim(t, v) = pair_sim(r, s)
       /\ Cardinality(Overlap(t, v)) = Cardinality(Overlap(r, s))
  BY <1>10, <1>11, <1>17, PairSimRenamed
<1> QED
  BY <1>8, <1>10, <1>18, TwoForms

(* The parts of an export of all reviews. *)
LEMMA ExportListed ==
  ASSUME NEW R \in Seq(Review), NEW mode \in Modes, NEW x, x = Export(R, mode, <<>>),
         NEW T, T = Dedup(R), NEW matrix, matrix = RowsOf(T, mode),
         NEW C, C = Candidates(matrix, mode, Cardinality(Dims(T, mode)))
  PROVE  /\ x["entities"] = Ascending(Entities(T, mode)) /\ x["pairs"] = Ordered(C, Below)
         /\ DOMAIN x["golden"] = DOMAIN x["pairs"]
         /\ \A k \in DOMAIN x["pairs"] :
              x["golden"][k] = pair_sim(matrix[x["pairs"][k][1]], matrix[x["pairs"][k][2]])
<1>1. T \in Seq(Review)
  BY DedupSame
<1>2. IsMatrix(matrix) /\ Cardinality(DOMAIN matrix) = Cardinality(Entities(T, mode))
  BY <1>1, RowsMatrix
<1>3. C \subseteq (DOMAIN matrix) \X (DOMAIN matrix)
  BY DEF Candidates
<1>4. \A p \in C : p[1] < p[2] /\ Cardinality(Overlap(matrix[p[1]], matrix[p[2]])) >= MIN_OVERLAP
  BY DEF Candidates
<1>5. PICK pairs : pairs = Ordered(C, Below)
  OBVIOUS
<1>6. PICK golden : golden = [k \in DOMAIN pairs |-> pair_sim(matrix[pairs[k][1]], matrix[pairs[k][2]])]
  OBVIOUS
<1>7. PairsFit(pairs, golden, matrix)
  BY <1>2, <1>3, <1>4, <1>5, <1>6, OrderedPairsFit
<1>8. PICK entities, dimids : entities = Ascending(Entities(T, mode)) /\ dimids = Ascending(Dims(T, mode))
  OBVIOUS
<1>9. SortedInts(entities, Cardinality(DOMAIN matrix)) /\ SortedInts(dimids, Len(dimids))
  <2>1. /\ IsFiniteSet(Entities(T, mode)) /\ Entities(T, mode) \subseteq Int
        /\ IsFiniteSet(Dims(T, mode)) /\ Dims(T, mode) \subseteq Int
    BY <1>1, NamesFinite
  <2>2. SortedInts(entities, Cardinality(Entities(T, mode)))
    BY <1>8, <2>1, AscendingSorted
  <2>3. SortedInts(dimids, Cardinality(Dims(T, mode))) /\ Len(dimids) = Cardinality(Dims(T, mode))
    BY <1>8, <2>1, AscendingSorted
  <2> QED
    BY <1>2, <2>2, <2>3
<1>10. x = Written(mode, matrix, pairs, golden, entities, dimids)
  <2>1. T = Subset(Dedup(R), mode, <<>>)
    BY DEF Subset
  <2> QED
    BY <1>5, <1>6, <1>8, <2>1 DEF Export
<1>11. x["golden"] = golden /\ x["entities"] = entities /\ x["pairs"] = pairs
  BY <1>2, <1>7, <1>9, <1>10, WrittenSound
<1> QED
  BY <1>5, <1>6, <1>8, <1>11

PairList(S, s) ==
  /\ Cardinality(S) \in Nat /\ s \in [1 .. Cardinality(S) -> S]
  /\ \A p \in S : \E k \in 1 .. Cardinality(S) : s[k] = p

LEMMA PairsListed ==
  ASSUME NEW S, IsFiniteSet(S), S \subseteq Nat \X Nat
  PROVE  PairList(S, Ordered(S, Below))
<1> DEFINE list == Ordered(S, Below)
<1>1. LET k1 == Cardinality(S)
      IN  /\ k1 \in Nat /\ list \in [1 .. k1 -> S]
          /\ \A x \in S : \E k \in 1 .. k1 : list[k] = x
          /\ \A k, l \in 1 .. k1 : k < l <=> Below(list[k], list[l])
  BY BelowLists
<1> HIDE DEF list
<1>2. PairList(S, list)
  BY <1>1 DEF PairList
<1> QED
  BY <1>2 DEF list

(* A line of the model of such an export is a candidate pair with a        *)
(* positive similarity.                                                    *)
EngineLine(matrix, names, p) ==
  [a |-> names[p[1] + 1], b |-> names[p[2] + 1], sim |-> pair_sim(matrix[p[1]], matrix[p[2]])]

MadeOf(lines, C, matrix, names) ==
  \A line : line \in lines <=>
    \E p \in C : Retained(pair_sim(matrix[p[1]], matrix[p[2]])) /\ line = EngineLine(matrix, names, p)

LEMMA EngineLines ==
  ASSUME NEW R \in Seq(Review), NEW mode \in Modes, NEW x, x = Export(R, mode, <<>>),
         NEW T, T = Dedup(R), NEW matrix, matrix = RowsOf(T, mode),
         NEW C, C = Candidates(matrix, mode, Cardinality(Dims(T, mode))),
         NEW names, names = Ascending(Entities(T, mode))
  PROVE  MadeOf(ToModel(x, x["golden"]), C, matrix, names)
<1> SUFFICES ASSUME NEW line
             PROVE  line \in ToModel(x, x["golden"]) <=>
                      \E p \in C : /\ Retained(pair_sim(matrix[p[1]], matrix[p[2]]))
                                   /\ line = EngineLine(matrix, names, p)
  BY DEF MadeOf
<1>1. PICK P, G : P = x["pairs"] /\ G = x["golden"]
  OBVIOUS
<1>2. /\ x["entities"] = names /\ P = Ordered(C, Below) /\ DOMAIN G = DOMAIN P
      /\ \A k \in DOMAIN P : G[k] = pair_sim(matrix[P[k][1]], matrix[P[k][2]])
  BY <1>1, ExportListed
<1>3. IsFiniteSet(C) /\ C \subseteq Nat \X Nat
  <2>1. IsMatrix(matrix)
    BY DedupSame, RowsMatrix
  <2>2. IsFiniteSet(DOMAIN matrix) /\ DOMAIN matrix \subseteq Nat
    <3>1. Cardinality(DOMAIN matrix) \in Nat /\ DOMAIN matrix = 0 .. Cardinality(DOMAIN matrix) - 1
      BY <2>1, FS_CardinalityType DEF IsMatrix
    <3> QED
      BY <2>1, <3>1 DEF IsMatrix
  <2>3. C \subseteq (DOMAIN matrix) \X (DOMAIN matrix)
    BY DEF Candidates
  <2>4. IsFiniteSet((DOMAIN matrix) \X (DOMAIN matrix))
    BY <2>2, FS_Product
  <2>5. IsFiniteSet(C)
    BY <2>3, <2>4, FS_Subset
  <2> QED
    BY <2>2, <2>3, <2>5
<1>4. PICK m : m = Cardinality(C)
  OBVIOUS
<1>5. m \in Nat /\ P \in [1 .. m -> C] /\ \A p \in C : \E k \in 1 .. m : P[k] = p
  <2>1. PairList(C, Ordered(C, Below))
    BY <1>3, PairsListed
  <2> QED
    BY <1>2, <1>4, <2>1 DEF PairList
<1>6. DOMAIN P = 1 .. m
  BY <1>5
<1>7. ToModel(x, G) = {[a |-> names[P[k][1] + 1], b |-> names[P[k][2] + 1], sim |-> G[k]] :
                         k \in {l \in DOMAIN G : Retained(G[l])}}
  BY <1>1, <1>2 DEF ToModel
<1>8. ASSUME NEW k \in 1 .. m
      PROVE  [a |-> names[P[k][1] + 1], b |-> names[P[k][2] + 1], sim |-> G[k]] = EngineLine(matrix, names, P[k])
  BY <1>2, <1>6, <1>8 DEF EngineLine
<1>9. ASSUME line \in ToModel(x, G)
      PROVE  \E p \in C : Retained(pair_sim(matrix[p[1]], matrix[p[2]])) /\ line = EngineLine(matrix, names, p)
  <2>1. PICK k \in 1 .. m : /\ Retained(G[k])
                            /\ line = [a |-> names[P[k][1] + 1], b |-> names[P[k][2] + 1], sim |-> G[k]]
    BY <1>2, <1>6, <1>7, <1>9
  <2>2. line = EngineLine(matrix, names, P[k]) /\ P[k] \in C
    BY <1>5, <1>8, <2>1
  <2>3. Retained(pair_sim(matrix[P[k][1]], matrix[P[k][2]]))
    BY <1>2, <1>6, <2>1
  <2> QED
    BY <2>2, <2>3
<1>10. ASSUME NEW p \in C, Retained(pair_sim(matrix[p[1]], matrix[p[2]])), line = EngineLine(matrix, names, p)
       PROVE  line \in ToModel(x, G)
  <2>1. PICK k \in 1 .. m : P[k] = p
    BY <1>5
  <2>2. Retained(G[k]) /\ k \in DOMAIN G
    BY <1>2, <1>6, <1>10, <2>1
  <2>3. line = [a |-> names[P[k][1] + 1], b |-> names[P[k][2] + 1], sim |-> G[k]]
    BY <1>8, <1>10, <2>1
  <2> QED
    BY <1>7, <2>2, <2>3
<1> QED
  BY <1>1, <1>9, <1>10

(* A line states the similarity of the ratings of its two entities, *)
TrueModel(R, mode, lines) ==
  \A line \in lines :
    /\ Retained(line.sim)
    /\ line.sim = pearson_similarity(Ratings(R, mode, line.a), Ratings(R, mode, line.b))

(* or a residue where it cancels. *)
SparkLine(R, mode, off, line) ==
  line.sim = IF {line.a, line.b} \in off THEN Residue
             ELSE pearson_similarity(Ratings(R, mode, line.a), Ratings(R, mode, line.b))

NearlyTrue(R, mode, off, lines) ==
  off \subseteq Cancelling(R, mode) /\ \A line \in lines : SparkLine(R, mode, off, line)

(* In which order the two entities are named makes no difference. *)
LEMMA SimsOfPair ==
  ASSUME NEW R \in Seq(Review), NEW mode \in Modes, NEW e, NEW f, NEW g, NEW h,
         (e = g /\ f = h) \/ (e = h /\ f = g)
  PROVE  pearson_similarity(Ratings(R, mode, e), Ratings(R, mode, f))
           = pearson_similarity(Ratings(R, mode, g), Ratings(R, mode, h))
<1>1. PICK r, s : r = Ratings(R, mode, e) /\ s = Ratings(R, mode, f)
  OBVIOUS
<1>2. IsVector(r) /\ IsVector(s)
  BY <1>1, RatingsVector
<1>3. pearson_similarity(r, s) = pair_sim(r, s) /\ pearson_similarity(s, r) = pair_sim(s, r)
  BY <1>2, TwoForms
<1>4. pair_sim(r, s) = pair_sim(s, r)
  BY <1>2, PairSimSymmetric
<1>5. CASE e = g /\ f = h
  BY <1>5
<1>6. CASE e = h /\ f = g
  BY <1>1, <1>3, <1>4, <1>6
<1> QED
  BY <1>5, <1>6

(* A similarity that is retained is not one of those that cancel. *)
LEMMA RetainedNotOff ==
  ASSUME NEW R \in Seq(Review), NEW mode \in Modes, NEW off, off \subseteq Cancelling(R, mode),
         NEW e, NEW f, Retained(pearson_similarity(Ratings(R, mode, e), Ratings(R, mode, f)))
  PROVE  {e, f} \notin off
<1> SUFFICES ASSUME {e, f} \in off PROVE FALSE
  OBVIOUS
<1>1. {e, f} \in Cancelling(R, mode)
  OBVIOUS
<1>2. PICK g, h : {e, f} = {g, h} /\ Cancels(Ratings(R, mode, g), Ratings(R, mode, h))
  <2>1. PICK p : /\ {e, f} = {p[1], p[2]}
                 /\ Cancels(Ratings(R, mode, p[1]), Ratings(R, mode, p[2]))
    BY <1>1 DEF Cancelling
  <2>2. PICK g, h : g = p[1] /\ h = p[2]
    OBVIOUS
  <2> QED
    BY <2>1, <2>2
<1>3. pearson_similarity(Ratings(R, mode, g), Ratings(R, mode, h)) = Zero
  BY <1>2 DEF Cancels
<1>4. (e = g /\ f = h) \/ (e = h /\ f = g)
  BY <1>2
<1>5. pearson_similarity(Ratings(R, mode, e), Ratings(R, mode, f))
        = pearson_similarity(Ratings(R, mode, g), Ratings(R, mode, h))
  BY <1>4, SimsOfPair
<1> QED
  BY <1>3, <1>5 DEF Retained, Zero

LEMMA TrueAgree ==
  ASSUME NEW R \in Seq(Review), NEW mode \in Modes, NEW off,
         NEW ours, TrueModel(R, mode, ours), NEW spark, NearlyTrue(R, mode, off, spark),
         NEW line \in ours, NEW theirs \in spark,
         (line.a = theirs.a /\ line.b = theirs.b) \/ (line.a = theirs.b /\ line.b = theirs.a)
  PROVE  line.sim = theirs.sim
<1>1. PICK a, b, c, d : a = line.a /\ b = line.b /\ c = theirs.a /\ d = theirs.b
  OBVIOUS
<1>2. Retained(line.sim) /\ line.sim = pearson_similarity(Ratings(R, mode, a), Ratings(R, mode, b))
  BY <1>1 DEF TrueModel
<1>3. off \subseteq Cancelling(R, mode)
  BY DEF NearlyTrue
<1>4. {a, b} \notin off
  BY <1>2, <1>3, RetainedNotOff
<1>5. theirs.sim = pearson_similarity(Ratings(R, mode, c), Ratings(R, mode, d))
  BY <1>1, <1>4 DEF NearlyTrue, SparkLine
<1>6. (a = c /\ b = d) \/ (a = d /\ b = c)
  BY <1>1
<1>7. pearson_similarity(Ratings(R, mode, a), Ratings(R, mode, b))
        = pearson_similarity(Ratings(R, mode, c), Ratings(R, mode, d))
  BY <1>6, SimsOfPair
<1> QED
  BY <1>2, <1>5, <1>7

(* Spark's models have such lines, *)
LEMMA SparkTrue ==
  ASSUME NEW R, NEW off
  PROVE  /\ off \subseteq Cancelling(R, "item") => NearlyTrue(R, "item", off, ItemModel(R, off))
         /\ off \subseteq Cancelling(R, "user") =>
              \A idx, ranks : NearlyTrue(R, "user", off, UserModel(R, idx, ranks, off))
<1>1. \A mode, e, f : SparkLine(R, mode, off, Line(R, mode, e, f, off))
  <2> SUFFICES ASSUME NEW mode, NEW e, NEW f PROVE SparkLine(R, mode, off, Line(R, mode, e, f, off))
    OBVIOUS
  <2>1. PICK s : s = IF {e, f} \in off THEN Residue
                     ELSE pearson_similarity(Ratings(R, mode, e), Ratings(R, mode, f))
    OBVIOUS
  <2>2. Line(R, mode, e, f, off) = [a |-> e, b |-> f, sim |-> s]
    BY <2>1 DEF Line
  <2>3. PICK line : line = [a |-> e, b |-> f, sim |-> s]
    OBVIOUS
  <2>4. line.a = e /\ line.b = f /\ line.sim = s
    BY <2>3
  <2> QED
    BY <2>1, <2>2, <2>3, <2>4 DEF SparkLine
<1>2. \A line \in ItemModel(R, off) : \E e, f : line = Line(R, "item", e, f, off)
  BY DEF ItemModel
<1>3. \A idx, ranks : \A line \in UserModel(R, idx, ranks, off) : \E e, f : line = Line(R, "user", e, f, off)
  BY DEF UserModel
<1> QED
  BY <1>1, <1>2, <1>3 DEF NearlyTrue

(* Where the entities are in the matrix of an export. *)
LEMMA EntityNames ==
  ASSUME NEW R \in Seq(Review), NEW mode \in Modes, NEW T, T = Dedup(R),
         NEW matrix, matrix = RowsOf(T, mode), NEW names, names = Ascending(Entities(T, mode))
  PROVE  /\ T \in Seq(Review) /\ DOMAIN matrix \subseteq Nat
         /\ \A i \in DOMAIN matrix : names[i + 1] \in Entities(R, mode) /\ names[i + 1] \in Nat
         /\ \A e \in Entities(R, mode) : \E i \in DOMAIN matrix : names[i + 1] = e
         /\ \A i, j \in DOMAIN matrix : i < j <=> names[i + 1] < names[j + 1]
<1>1. T \in Seq(Review) /\ Entities(T, mode) = Entities(R, mode)
  BY DedupSame
<1>2. PICK E, n : E = Entities(R, mode) /\ n = Cardinality(E)
  OBVIOUS
<1>3. IsFiniteSet(E) /\ E \subseteq Nat
  BY <1>2, NamesFinite
<1>4. E \subseteq Int
  BY <1>3
<1>5. /\ n \in Nat /\ names \in [1 .. n -> E]
      /\ \A x \in E : \E k \in 1 .. n : names[k] = x
      /\ \A k, l \in 1 .. n : k < l <=> names[k] < names[l]
  BY <1>1, <1>2, <1>3, <1>4, AscendingLists
<1>6. DOMAIN matrix = 0 .. n - 1
  BY <1>1, <1>2, RowsMatrix DEF IsMatrix
<1>7. \A i \in 0 .. n - 1 : i + 1 \in 1 .. n
  BY <1>5
<1>8. \A k \in 1 .. n : \E i \in 0 .. n - 1 : i + 1 = k
  <2> SUFFICES ASSUME NEW k \in 1 .. n PROVE \E i \in 0 .. n - 1 : i + 1 = k
    OBVIOUS
  <2>1. k - 1 \in 0 .. n - 1 /\ (k - 1) + 1 = k
    BY <1>5
  <2> QED
    BY <2>1
<1>9. \A i \in 0 .. n - 1 : names[i + 1] \in E /\ names[i + 1] \in Nat
  BY <1>3, <1>5, <1>7
<1>10. \A e \in E : \E i \in 0 .. n - 1 : names[i + 1] = e
  BY <1>5, <1>8
<1>11. \A i, j \in 0 .. n - 1 : i < j <=> names[i + 1] < names[j + 1]
  <2> SUFFICES ASSUME NEW i \in 0 .. n - 1, NEW j \in 0 .. n - 1
               PROVE  i < j <=> names[i + 1] < names[j + 1]
    OBVIOUS
  <2>1. PICK k \in 1 .. n, l \in 1 .. n : k = i + 1 /\ l = j + 1
    BY <1>7
  <2>2. i < j <=> k < l
    BY <1>5, <2>1
  <2> QED
    BY <1>5, <2>1, <2>2
<1>12. 0 .. n - 1 \subseteq Nat
  BY <1>5
<1> QED
  BY <1>1, <1>2, <1>6, <1>9, <1>10, <1>11, <1>12

(* What the row of two indices stands for. *)
LEMMA RowsStandFor ==
  ASSUME NEW R \in Seq(Review), NEW mode \in Modes, NEW T, T = Dedup(R),
         NEW matrix, matrix = RowsOf(T, mode), NEW names, names = Ascending(Entities(T, mode)),
         NEW i \in DOMAIN matrix, NEW j \in DOMAIN matrix,
         NEW e, e = names[i + 1], NEW f, f = names[j + 1]
  PROVE  /\ pair_sim(matrix[i], matrix[j]) = pearson_similarity(Ratings(R, mode, e), Ratings(R, mode, f))
         /\ Cardinality(Overlap(matrix[i], matrix[j]))
              = Cardinality(Overlap(Ratings(R, mode, e), Ratings(R, mode, f)))
<1>1. T \in Seq(Review) /\ \A x : Ratings(T, mode, x) = Ratings(R, mode, x)
  BY DedupSame
<1>2. PICK r, s : r = Ratings(R, mode, e) /\ s = Ratings(R, mode, f)
  OBVIOUS
<1>3. r = Ratings(T, mode, names[i + 1]) /\ s = Ratings(T, mode, names[j + 1])
  BY <1>1, <1>2
<1>4. /\ pair_sim(matrix[i], matrix[j]) = pearson_similarity(r, s)
      /\ Cardinality(Overlap(matrix[i], matrix[j])) = Cardinality(Overlap(r, s))
  BY <1>1, <1>3, RowsAgree
<1> QED
  BY <1>2, <1>4

(* and so does the engine's. *)
LEMMA EngineTrue ==
  ASSUME NEW R \in Seq(Review), NEW mode \in Modes, NEW x, x = Export(R, mode, <<>>)
  PROVE  TrueModel(R, mode, ToModel(x, x["golden"]))
<1>1. PICK T : T = Dedup(R)
  OBVIOUS
<1>2. PICK matrix, names : matrix = RowsOf(T, mode) /\ names = Ascending(Entities(T, mode))
  OBVIOUS
<1>3. PICK C : C = Candidates(matrix, mode, Cardinality(Dims(T, mode)))
  OBVIOUS
<1>4. C \subseteq (DOMAIN matrix) \X (DOMAIN matrix)
  BY <1>3 DEF Candidates
<1> SUFFICES ASSUME NEW line \in ToModel(x, x["golden"])
             PROVE  /\ Retained(line.sim)
                    /\ line.sim = pearson_similarity(Ratings(R, mode, line.a), Ratings(R, mode, line.b))
  BY DEF TrueModel
<1>5. MadeOf(ToModel(x, x["golden"]), C, matrix, names)
  BY <1>1, <1>2, <1>3, EngineLines
<1>6. PICK p \in C : Retained(pair_sim(matrix[p[1]], matrix[p[2]])) /\ line = EngineLine(matrix, names, p)
  BY <1>5 DEF MadeOf
<1>7. PICK i \in DOMAIN matrix, j \in DOMAIN matrix : p = <<i, j>>
  BY <1>4
<1>8. line.a = names[i + 1] /\ line.b = names[j + 1] /\ line.sim = pair_sim(matrix[i], matrix[j])
  BY <1>6, <1>7 DEF EngineLine
<1>9. Retained(line.sim)
  BY <1>6, <1>7, <1>8
<1> QED
  BY <1>1, <1>2, <1>8, <1>9, RowsStandFor

(* An entity with that many ratings has that many reviews. *)
LEMMA EnoughReviews ==
  ASSUME NEW R \in Seq(Review), NEW mode \in Modes, NEW e \in Entities(R, mode), NEW f,
         Overlapping(R, mode, e, f)
  PROVE  e \in Eligible(R, mode)
<1>1. PICK B, r, s : B = Basket(R, mode, e) /\ r = Ratings(R, mode, e) /\ s = Ratings(R, mode, f)
  OBVIOUS
<1>2. IsFiniteSet(B)
  <2>1. IsFiniteSet(DOMAIN R)
    BY NamesFinite
  <2> QED
    BY <1>1, <2>1, FS_Subset DEF Basket
<1>3. OfLatest(R, mode, e, r)
  BY <1>1, RatingsLatest
<1>4. DOMAIN r = {Dim(R[i], mode) : i \in B}
  BY <1>1, <1>3 DEF OfLatest
<1>5. PICK g : g = [i \in B |-> Dim(R[i], mode)]
  OBVIOUS
<1>6. g \in Surjection(B, DOMAIN r)
  BY <1>4, <1>5 DEF Surjection
<1>7. IsFiniteSet(DOMAIN r) /\ Cardinality(DOMAIN r) <= Cardinality(B)
  BY <1>2, <1>6, FS_Surjection
<1>8. Cardinality(Overlap(r, s)) <= Cardinality(DOMAIN r)
  BY <1>7, FS_Subset DEF Overlap
<1>9. IsFiniteSet(Overlap(r, s))
  BY <1>7, FS_Subset DEF Overlap
<1>10. Cardinality(Overlap(r, s)) >= MIN_OVERLAP
  BY <1>1 DEF Overlapping
<1>11. PICK a \in Nat, b \in Nat, c \in Nat :
         a = Cardinality(Overlap(r, s)) /\ b = Cardinality(DOMAIN r) /\ c = Cardinality(B)
  BY <1>2, <1>7, <1>9, FS_CardinalityType
<1>12. c >= MIN_OVERLAP
  BY <1>7, <1>8, <1>10, <1>11, MinOverlapAssumption
<1> QED
  BY <1>1, <1>11, <1>12 DEF Eligible

(* In item mode the engine's model has the lines of cf_train.py that are   *)
(* no residues, no more and no less.                                       *)
RetainedOf(lines) == {line \in lines : Retained(line.sim)}

LEMMA PlainLine ==
  ASSUME NEW R, NEW mode, NEW e, NEW f, NEW off, {e, f} \notin off
  PROVE  Line(R, mode, e, f, off) = Line(R, mode, e, f, {})
BY DEF Line

LEMMA LineSims ==
  ASSUME NEW R, NEW mode, NEW e, NEW f, NEW off
  PROVE  /\ Line(R, mode, e, f, {}).sim = pearson_similarity(Ratings(R, mode, e), Ratings(R, mode, f))
         /\ {e, f} \in off => Line(R, mode, e, f, off).sim = Residue
BY DEF Line

LEMMA SameLines ==
  ASSUME NEW R \in Seq(Review), NEW x, x = Export(R, "item", <<>>),
         NEW off, off \subseteq Cancelling(R, "item")
  PROVE  ToModel(x, x["golden"]) = RetainedOf(ItemModel(R, off))
<1>1. PICK mode \in Modes : mode = "item"
  BY DEF Modes
<1>2. PICK T : T = Dedup(R)
  OBVIOUS
<1>3. PICK matrix, names : matrix = RowsOf(T, mode) /\ names = Ascending(Entities(T, mode))
  OBVIOUS
<1>4. PICK C : C = Candidates(matrix, mode, Cardinality(Dims(T, mode)))
  OBVIOUS
<1>5. /\ T \in Seq(Review) /\ DOMAIN matrix \subseteq Nat
      /\ \A i \in DOMAIN matrix : names[i + 1] \in Entities(R, mode) /\ names[i + 1] \in Nat
      /\ \A e \in Entities(R, mode) : \E i \in DOMAIN matrix : names[i + 1] = e
      /\ \A i, j \in DOMAIN matrix : i < j <=> names[i + 1] < names[j + 1]
  BY <1>2, <1>3, EntityNames
<1>6. x = Export(R, mode, <<>>)
  BY <1>1
<1>7. ASSUME NEW i \in DOMAIN matrix, NEW j \in DOMAIN matrix, NEW e, e = names[i + 1], NEW f, f = names[j + 1]
      PROVE  /\ <<i, j>> \in C <=> e < f /\ Overlapping(R, mode, e, f)
             /\ EngineLine(matrix, names, <<i, j>>) = Line(R, mode, e, f, {})
  <2>1. /\ pair_sim(matrix[i], matrix[j]) = pearson_similarity(Ratings(R, mode, e), Ratings(R, mode, f))
        /\ Cardinality(Overlap(matrix[i], matrix[j]))
             = Cardinality(Overlap(Ratings(R, mode, e), Ratings(R, mode, f)))
    BY <1>2, <1>3, <1>7, RowsStandFor
  <2>2. EngineLine(matrix, names, <<i, j>>) = Line(R, mode, e, f, {})
    BY <1>7, <2>1 DEF EngineLine, Line
  <2>3. Cardinality(Overlap(matrix[i], matrix[j])) >= MIN_OVERLAP <=> Overlapping(R, mode, e, f)
    BY <2>1 DEF Overlapping
  <2>4. PICK r, s : r = matrix[i] /\ s = matrix[j]
    OBVIOUS
  <2>5. IsVector(r) /\ IsVector(s)
    BY <1>3, <1>5, <2>4, RowsMatrix DEF IsMatrix
  <2>6. ASSUME Cardinality(Overlap(r, s)) >= MIN_OVERLAP
        PROVE  Cardinality(DOMAIN r) >= MIN_OVERLAP /\ Cardinality(DOMAIN s) >= MIN_OVERLAP
    <3>1. IsFiniteSet(DOMAIN r) /\ IsFiniteSet(DOMAIN s)
      BY <2>5 DEF IsVector
    <3>2. Overlap(r, s) \subseteq DOMAIN r /\ Overlap(r, s) \subseteq DOMAIN s
      BY DEF Overlap
    <3>3. /\ Cardinality(Overlap(r, s)) <= Cardinality(DOMAIN r)
          /\ Cardinality(Overlap(r, s)) <= Cardinality(DOMAIN s)
          /\ IsFiniteSet(Overlap(r, s))
      BY <3>1, <3>2, FS_Subset
    <3>4. PICK a \in Nat, b \in Nat, c \in Nat :
            a = Cardinality(Overlap(r, s)) /\ b = Cardinality(DOMAIN r) /\ c = Cardinality(DOMAIN s)
      BY <3>1, <3>3, FS_CardinalityType
    <3> QED
      BY <2>6, <3>3, <3>4, MinOverlapAssumption
  <2>7. <<i, j>> \in C <=> /\ Cardinality(DOMAIN matrix[i]) >= MIN_OVERLAP
                           /\ Cardinality(DOMAIN matrix[j]) >= MIN_OVERLAP
                           /\ i < j /\ Cardinality(Overlap(matrix[i], matrix[j])) >= MIN_OVERLAP
    <3>1. ~ (mode = "user")
      BY <1>1
    <3> QED
      BY <1>4, <3>1 DEF Candidates
  <2>8. i < j <=> e < f
    BY <1>5, <1>7
  <2> QED
    BY <2>2, <2>3, <2>4, <2>6, <2>7, <2>8
<1>8. C \subseteq (DOMAIN matrix) \X (DOMAIN matrix)
  BY <1>4 DEF Candidates
<1>9. \A line : line \in ToModel(x, x["golden"]) <=>
        \E p \in C : Retained(pair_sim(matrix[p[1]], matrix[p[2]])) /\ line = EngineLine(matrix, names, p)
  <2>1. MadeOf(ToModel(x, x["golden"]), C, matrix, names)
    BY <1>2, <1>3, <1>4, <1>6, EngineLines
  <2> QED
    BY <2>1 DEF MadeOf
<1>10. \A p : EngineLine(matrix, names, p).sim = pair_sim(matrix[p[1]], matrix[p[2]])
  BY DEF EngineLine
<1>11. ASSUME NEW line \in ToModel(x, x["golden"]) PROVE line \in RetainedOf(ItemModel(R, off))
  <2>1. PICK p \in C : Retained(line.sim) /\ line = EngineLine(matrix, names, p)
    BY <1>9, <1>10
  <2>2. PICK i \in DOMAIN matrix, j \in DOMAIN matrix : p = <<i, j>>
    BY <1>8
  <2>3. PICK e, f : e = names[i + 1] /\ f = names[j + 1]
    OBVIOUS
  <2>4. e < f /\ Overlapping(R, mode, e, f) /\ line = Line(R, mode, e, f, {})
    BY <1>7, <2>1, <2>2, <2>3
  <2>5. Overlapping(R, mode, f, e)
    <3>1. Overlap(Ratings(R, mode, f), Ratings(R, mode, e)) = Overlap(Ratings(R, mode, e), Ratings(R, mode, f))
      BY DEF Overlap
    <3> QED
      BY <2>4, <3>1 DEF Overlapping
  <2>6. e \in Eligible(R, mode) /\ f \in Eligible(R, mode)
    BY <1>5, <2>3, <2>4, <2>5, EnoughReviews
  <2>7. <<e, f>> \in {q \in Eligible(R, "item") \X Eligible(R, "item") :
                        q[1] < q[2] /\ Overlapping(R, "item", q[1], q[2])}
    BY <1>1, <2>4, <2>6
  <2>8. Retained(pearson_similarity(Ratings(R, mode, e), Ratings(R, mode, f)))
    BY <2>1, <2>4, LineSims
  <2>9. {e, f} \notin off
    BY <1>1, <2>8, RetainedNotOff
  <2>10. line = Line(R, "item", <<e, f>>[1], <<e, f>>[2], off)
    <3>1. Line(R, mode, e, f, off) = Line(R, mode, e, f, {})
      BY <2>9, PlainLine
    <3> QED
      BY <1>1, <2>4, <3>1
  <2>11. KeptLine(line)
    BY <2>1 DEF KeptLine, Retained, Positive
  <2>12. line \in ItemModel(R, off)
    BY <2>7, <2>10, <2>11 DEF ItemModel
  <2> QED
    BY <2>1, <2>12 DEF RetainedOf
<1>12. ASSUME NEW line \in RetainedOf(ItemModel(R, off)) PROVE line \in ToModel(x, x["golden"])
  <2>0. line \in ItemModel(R, off) /\ Retained(line.sim)
    BY <1>12 DEF RetainedOf
  <2>1. PICK e \in Eligible(R, mode), f \in Eligible(R, mode) :
          e < f /\ Overlapping(R, mode, e, f) /\ line = Line(R, mode, e, f, off)
    BY <1>1, <2>0 DEF ItemModel
  <2>2. PICK i \in DOMAIN matrix, j \in DOMAIN matrix : e = names[i + 1] /\ f = names[j + 1]
    BY <1>5 DEF Eligible
  <2>3. PICK p : p = <<i, j>>
    OBVIOUS
  <2>4. {e, f} \notin off
    BY <2>0, <2>1, LineSims DEF Retained, Residue
  <2>5. p \in C /\ line = EngineLine(matrix, names, p)
    <3>1. Line(R, mode, e, f, off) = Line(R, mode, e, f, {})
      BY <2>4, PlainLine
    <3> QED
      BY <1>7, <2>1, <2>2, <2>3, <3>1
  <2>6. Retained(pair_sim(matrix[p[1]], matrix[p[2]]))
    BY <1>10, <2>0, <2>5
  <2> QED
    BY <1>9, <2>5, <2>6
<1> QED
  BY <1>11, <1>12

(* crosscheck_archived.py finds no difference. *)
LEMMA NothingCrosses ==
  ASSUME NEW R \in Seq(Review), NEW x, x = Export(R, "item", <<>>),
         NEW off, off \subseteq Cancelling(R, "item")
  PROVE  CrossChecks(x, ItemModel(R, off))
<1> DEFINE lines == RetainedOf(ItemModel(R, off))
           Turned(line) == [line EXCEPT !.a = Min({line.a, line.b}), !.b = Max({line.a, line.b})]
<1>1. ASSUME NEW line \in lines PROVE Turned(line) = line
  <2>1. PICK e \in Entities(R, "item"), f \in Entities(R, "item") : e < f /\ line = Line(R, "item", e, f, off)
    BY DEF ItemModel, Eligible, RetainedOf
  <2>2. e \in Nat /\ f \in Nat
    BY <2>1, NamesFinite DEF Modes
  <2>3. PICK sim : line = [a |-> e, b |-> f, sim |-> sim]
    BY <2>1 DEF Line
  <2>4. Min({e, f}) = e
    BY <2>1, <2>2, MinOfTwo
  <2>5. Max({e, f}) = f
    BY <2>1, <2>2 DEF Max
  <2>6. Min({line.a, line.b}) = e /\ Max({line.a, line.b}) = f
    BY <2>3, <2>4, <2>5
  <2>7. [line EXCEPT !.a = e] = line
    BY <2>3
  <2>8. [[line EXCEPT !.a = e] EXCEPT !.b = f] = line
    BY <2>3, <2>7
  <2>9. [line EXCEPT !.a = e, !.b = f] = line
    BY <2>8
  <2> QED
    BY <2>6, <2>9
<1>2. {Turned(line) : line \in lines} = lines
  <2> HIDE DEF Turned, lines
  <2> QED
    BY <1>1
<1>3. lines = {l \in ItemModel(R, off) : Retained(l.sim)}
  BY DEF RetainedOf
<1> QED
  BY <1>2, <1>3, SameLines DEF CrossChecks

-----------------------------------------------------------------------------
(* The models of the reviews of a file: what both programs find of it. *)
ModelOf(in, saved) ==
  /\ TrueModel(in.reviews, in.mode, saved)
  /\ in.mode = "item" =>
       \A off : off \subseteq Cancelling(in.reviews, "item") => saved = RetainedOf(ItemModel(in.reviews, off))

SparkOf(in, saved) ==
  \E off : /\ NearlyTrue(in.reviews, in.mode, off, saved)
           /\ in.mode = "item" => saved = ItemModel(in.reviews, off)

ModelInv ==
  /\ step \notin {"predict", "end"} => crossed = "none"
  /\ step = "crosscheck" => Mode = "item"
  /\ step = "predict" => Mode \in Modes
  /\ input.subset = <<>> /\ Mode \in Modes =>
       /\ step \in Going => ModelOf(input, model)
       /\ step \in {"crosscheck", "predict"} => SparkOf(input, trained) /\ crossed # "fails"

LEMMA GivenReviews ==
  ASSUME NEW in \in Inputs, in.mode \in Modes
  PROVE  in.reviews \in Seq(Review)
<1>1. in.mode # "synthetic"
  BY DEF Modes
<1> QED
  BY <1>1, InputsAssumption DEF Review

(* The engine makes one of a whole export, *)
LEMMA EngineModel ==
  ASSUME NEW in \in Inputs, in.mode \in Modes, in.subset = <<>>, NEW x, x = Target(in)
  PROVE  ModelOf(in, ToModel(x, x["golden"]))
<1>1. PICK R \in Seq(Review), mode \in Modes : R = in.reviews /\ mode = in.mode
  BY GivenReviews
<1>2. x = Export(R, mode, <<>>)
  BY <1>1 DEF Target, Modes
<1>3. TrueModel(R, mode, ToModel(x, x["golden"]))
  BY <1>2, EngineTrue
<1>4. ASSUME mode = "item", NEW off, off \subseteq Cancelling(R, "item")
      PROVE  ToModel(x, x["golden"]) = RetainedOf(ItemModel(R, off))
  <2>1. x = Export(R, "item", <<>>)
    BY <1>2, <1>4
  <2> QED
    BY <1>4, <2>1, SameLines
<1> QED
  BY <1>1, <1>3, <1>4 DEF ModelOf

(* and so does Spark. *)
LEMMA SparkModel ==
  ASSUME NEW in, NEW off, off \subseteq Cancelling(in.reviews, in.mode)
  PROVE  /\ in.mode = "item" => SparkOf(in, ItemModel(in.reviews, off))
         /\ in.mode = "user" => \A idx, ranks : SparkOf(in, UserModel(in.reviews, idx, ranks, off))
BY SparkTrue DEF SparkOf

(* What is used stays, and is used no earlier than it was. *)
LEMMA StillModels ==
  ASSUME ModelInv, UNCHANGED <<input, model, trained, crossed>>,
         step' \in Going => step \in Going,
         step' \in {"crosscheck", "predict"} => step = step',
         step' \notin {"predict", "end"} => step \notin {"predict", "end"}
  PROVE  ModelInv'
<1>1. ModelOf(input, model)' <=> ModelOf(input, model)
  OBVIOUS
<1>2. SparkOf(input, trained)' <=> SparkOf(input, trained)
  OBVIOUS
<1> QED
  BY <1>1, <1>2 DEF ModelInv, Mode

LEMMA ModelNext == ModelInv /\ WholeInv /\ DirInv /\ [DataNext]_dataVars => ModelInv'
<1> SUFFICES ASSUME ModelInv, WholeInv, DirInv, [DataNext]_dataVars PROVE ModelInv'
  OBVIOUS
<1> USE DEF Going
<1>1. CASE WriteFile \/ RefuseRows \/ Exported \/ KillExporter
  BY <1>1, StillModels DEF WriteFile, RefuseRows, Exported, KillExporter, Later
<1>2. CASE Validate \/ RunEngine \/ EngineMisreads \/ GpuRefuses \/ LoadFails
  BY <1>2, StillModels DEF Validate, RunEngine, EngineMisreads, GpuRefuses, LoadFails, Later
<1>3. CASE sims_to_model
  <2>1. /\ UNCHANGED <<input, dir, written, trained, crossed>> /\ step = "model" /\ model' = ToModel(dir, sims)
        /\ step' = "end" \/ (step' = "derive" /\ Whole)
    BY <1>3 DEF sims_to_model, Whole
  <2>2. PICK in \in Inputs : in = input
    BY DEF DirInv, Given
  <2>3. PICK x, m : in = input /\ x = dir /\ m = ToModel(dir, sims)
    BY <2>2
  <2>4. ASSUME Whole, in.mode \in Modes, in.subset = <<>> PROVE ModelOf(in, m)
    <3>1. sims = Computed(dir) /\ Computed(dir) = dir["golden"]
      BY <2>1, <2>4, WholeFacts DEF WholeInv, Unread
    <3>2. x = Target(in)
      BY <2>3, <2>4, WholeDir DEF DirInv, Given
    <3>3. m = ToModel(x, x["golden"])
      BY <2>3, <3>1
    <3>4. ModelOf(in, ToModel(x, x["golden"]))
      BY <2>4, <3>2, EngineModel
    <3> QED
      BY <3>3, <3>4
  <2>5. step' \in Going /\ in.mode \in Modes /\ in.subset = <<>> => ModelOf(input, model)'
    BY <2>1, <2>3, <2>4
  <2>6. crossed' = "none"
    BY <2>1 DEF ModelInv
  <2> QED
    BY <2>1, <2>3, <2>5, <2>6 DEF ModelInv, Mode
<1>4. CASE ModelFails
  BY <1>4, StillModels DEF ModelFails, Later
<1>5. CASE CutBand \/ CutLanes \/ CutPrefix
  BY <1>5, StillModels DEF CutBand, CutLanes, CutPrefix
<1>6. CASE TrainItem \/ TrainUser
  <2>1. /\ UNCHANGED <<input, model, crossed>> /\ step = "derive" /\ step' \in {"crosscheck", "predict"}
        /\ Mode \in Modes /\ (step' = "crosscheck" => Mode = "item")
    BY <1>6 DEF TrainItem, TrainUser, Modes
  <2>2. PICK in, m : in = input /\ m = trained'
    OBVIOUS
  <2>3. ASSUME TrainItem PROVE SparkOf(in, m)
    <3>1. in.mode = "item"
      BY <2>2, <2>3 DEF TrainItem, Mode
    <3>2. PICK off : off \subseteq Cancelling(in.reviews, "item") /\ m = ItemModel(in.reviews, off)
      BY <2>2, <2>3 DEF TrainItem, Reviews
    <3> QED
      BY <3>1, <3>2, SparkModel
  <2>4. ASSUME TrainUser PROVE SparkOf(in, m)
    <3>1. in.mode = "user"
      BY <2>2, <2>4 DEF TrainUser, Mode
    <3>2. PICK off, idx, ranks : off \subseteq Cancelling(in.reviews, "user") /\ m = UserModel(in.reviews, idx, ranks, off)
      BY <2>2, <2>4 DEF TrainUser, Reviews
    <3> QED
      BY <3>1, <3>2, SparkModel
  <2>5. SparkOf(in, m)
    BY <1>6, <2>3, <2>4
  <2>6. SparkOf(input, trained)'
    BY <2>1, <2>2, <2>5
  <2>7. ModelOf(input, model)' <=> ModelOf(input, model)
    BY <2>1
  <2>8. crossed' = "none"
    BY <2>1 DEF ModelInv
  <2> QED
    BY <2>1, <2>6, <2>7, <2>8 DEF ModelInv, Mode
<1>7. CASE CrossCheck
  <2>1. /\ UNCHANGED <<input, model, trained>> /\ step = "crosscheck" /\ step' = "predict"
        /\ crossed' = Answer(CrossChecks(dir, trained))
    BY <1>7 DEF CrossCheck
  <2>2. PICK in \in Inputs : in = input
    BY DEF DirInv, Given
  <2>3. PICK x, m : in = input /\ x = dir /\ m = trained
    BY <2>2
  <2>4. ASSUME in.subset = <<>> PROVE crossed' # "fails"
    <3>1. Whole /\ in.mode = "item"
      BY <2>1, <2>3 DEF WholeInv, ModelInv, Mode
    <3>2. PICK R \in Seq(Review) : R = in.reviews
      BY <3>1, GivenReviews DEF Modes
    <3>3. x = Export(R, "item", <<>>)
      BY <2>3, <2>4, <3>1, <3>2, WholeDir DEF DirInv, Given, Target
    <3>4. SparkOf(in, m)
      BY <2>1, <2>3, <2>4, <3>1 DEF ModelInv, Mode, Modes
    <3>5. PICK off : off \subseteq Cancelling(R, "item") /\ m = ItemModel(R, off)
      BY <3>1, <3>2, <3>4 DEF SparkOf, NearlyTrue
    <3>6. CrossChecks(x, ItemModel(R, off))
      BY <3>3, <3>5, NothingCrosses
    <3> QED
      BY <2>1, <2>3, <3>5, <3>6 DEF Answer
  <2>5. SparkOf(input, trained)' <=> SparkOf(input, trained)
    BY <2>1
  <2>6. ModelOf(input, model)' <=> ModelOf(input, model)
    BY <2>1
  <2> QED
    BY <2>1, <2>3, <2>4, <2>5, <2>6 DEF ModelInv, Mode, Modes
<1>8. CASE Predict
  BY <1>8, StillModels DEF Predict
<1>9. CASE UNCHANGED dataVars
  BY <1>9, StillModels DEF dataVars
<1> QED
  BY <1>1, <1>2, <1>3, <1>4, <1>5, <1>6, <1>7, <1>8, <1>9 DEF DataNext

(* What the engine makes of the export states the similarities of the       *)
(* ratings of its entities; what Spark trains on the same reviews does so   *)
(* but for residues where they cancel; in item mode the first is the second *)
(* without its residues.                                                    *)
THEOREM ModelInvariance == DataSpec => []ModelInv
<1>1. DataInit => ModelInv
  BY DEF DataInit, ModelInv, Going
<1> QED
  BY <1>1, ModelNext, ExportInvariance, WholeInvariance, PTL DEF DataSpec

(* The engine's model and Spark's agree, duplicates and all, but for        *)
(* residues that only Spark writes: whole in item mode, where the           *)
(* cross-check passes too, and on the pairs both have in user mode          *)
(* (docs/pearson_contract.md sections 4 and 5).                             *)
THEOREM SameModels == DataSpec => []SameModel
<1>1. ModelInv /\ DirInv => SameModel
  <2> SUFFICES ASSUME ModelInv, DirInv, step \in {"crosscheck", "predict"}, input.subset = <<>>, Mode \in Modes
               PROVE  SameModel
    BY DEF ModelInv, SameModel, Modes
  <2>1. PICK R \in Seq(Review), mode \in Modes : R = Reviews /\ mode = Mode
    BY GivenReviews DEF DirInv, Given, Reviews, Mode
  <2>2. ModelOf(input, model) /\ SparkOf(input, trained) /\ crossed # "fails"
    BY DEF ModelInv, Going
  <2>3. PICK ours, spark : ours = model /\ spark = trained
    OBVIOUS
  <2>4. TrueModel(R, mode, ours)
    BY <2>1, <2>2, <2>3 DEF ModelOf, Reviews, Mode
  <2>5. PICK off : /\ NearlyTrue(R, mode, off, spark)
                   /\ mode = "item" => spark = ItemModel(R, off)
    BY <2>1, <2>2, <2>3 DEF SparkOf, Reviews, Mode
  <2>6. ASSUME NEW line \in ours, NEW theirs \in spark, {line.a, line.b} = {theirs.a, theirs.b}
        PROVE  line.sim = theirs.sim
    <3>1. (line.a = theirs.a /\ line.b = theirs.b) \/ (line.a = theirs.b /\ line.b = theirs.a)
      BY <2>6
    <3> QED
      BY <2>4, <2>5, <3>1, TrueAgree
  <2>7. ASSUME mode = "item" PROVE ours = {line \in spark : Retained(line.sim)}
    <3>1. off \subseteq Cancelling(R, "item") /\ spark = ItemModel(R, off)
      BY <2>5, <2>7 DEF NearlyTrue
    <3>2. ours = RetainedOf(ItemModel(R, off))
      BY <2>1, <2>2, <2>3, <2>7, <3>1 DEF ModelOf, Reviews, Mode
    <3> QED
      BY <3>1, <3>2 DEF RetainedOf
  <2> QED
    BY <2>1, <2>2, <2>3, <2>6, <2>7 DEF SameModel
<1> QED
  BY <1>1, ModelInvariance, ExportInvariance, PTL

-----------------------------------------------------------------------------
(* The lane fixtures.  A sum over the places of a list is a total. *)
LEMMA SumIsTotal ==
  ASSUME NEW d, NEW keep
  PROVE  /\ effective(d, keep) = Total([i \in DOMAIN keep |-> Short(d, keep[i])], DOMAIN keep)
         /\ lane_slots(d, keep) =
              Total([i \in DOMAIN keep |-> WARP * ((Short(d, keep[i]) + WARP - 1) \div WARP)], DOMAIN keep)
<1> DEFINE D == DOMAIN keep
           v == [i \in D |-> Short(d, keep[i])]
           w == [i \in D |-> WARP * ((Short(d, keep[i]) + WARP - 1) \div WARP)]
           V(f) == [q \in SUBSET D |-> IF q = {} THEN 0 ELSE v[AnyOf(q)] + f[q \ {AnyOf(q)}]]
           W(f) == [q \in SUBSET D |-> IF q = {} THEN 0 ELSE w[AnyOf(q)] + f[q \ {AnyOf(q)}]]
           E(f) == [q \in SUBSET D |-> IF q = {} THEN 0
                                       ELSE Short(d, keep[AnyOf(q)]) + f[q \ {AnyOf(q)}]]
           L(f) == [q \in SUBSET D |-> IF q = {} THEN 0
                                       ELSE WARP * ((Short(d, keep[AnyOf(q)]) + WARP - 1) \div WARP)
                                            + f[q \ {AnyOf(q)}]]
<1>1. \A q \in SUBSET D : q # {} => AnyOf(q) \in D
  BY LessAny
<1>2. \A f : V(f) = E(f)
  BY <1>1
<1>3. \A f : W(f) = L(f)
  BY <1>1
<1>4. Total(v, D) = (CHOOSE f : f = V(f))[D] /\ Total(w, D) = (CHOOSE f : f = W(f))[D]
  BY DEF Total, FoldFunctionOnSet, MapThenFoldSet, AnyOf
<1>5. effective(d, keep) = (CHOOSE f : f = E(f))[D]
  BY DEF effective, MapThenSumSet, MapThenFoldSet, AnyOf
<1>6. lane_slots(d, keep) = (CHOOSE f : f = L(f))[D]
  BY DEF lane_slots, MapThenSumSet, MapThenFoldSet, AnyOf
<1> HIDE DEF V, W, E, L
<1>7. (CHOOSE f : f = V(f)) = (CHOOSE f : f = E(f)) /\ (CHOOSE f : f = W(f)) = (CHOOSE f : f = L(f))
  BY <1>2, <1>3
<1> QED
  BY <1>4, <1>5, <1>6, <1>7

(* Larger numbers make a larger total. *)
LEMMA TotalGreater ==
  ASSUME NEW D, IsFiniteSet(D), D # {}, NEW v, NEW w,
         \A d \in D : v[d] \in Int /\ w[d] \in Int /\ w[d] < v[d]
  PROVE  Total(w, D) < Total(v, D)
<1> DEFINE z == [d \in D |-> v[d] - w[d]]
<1>1. \A d \in D : z[d] = v[d] - w[d] /\ z[d] \in Nat \ {0}
  <2> SUFFICES ASSUME NEW d \in D PROVE v[d] - w[d] \in Nat \ {0}
    OBVIOUS
  <2>1. PICK x \in Int, y \in Int : x = v[d] /\ y = w[d]
    OBVIOUS
  <2> QED
    BY <2>1
<1> HIDE DEF z
<1>2. \A d \in D : IsCombination(v[d], 1, w[d], 1, z[d])
  <2> SUFFICES ASSUME NEW d \in D PROVE v[d] = 1 * w[d] + 1 * z[d]
    BY DEF IsCombination
  <2>1. PICK x \in Int, y \in Int, t \in Int : x = v[d] /\ y = w[d] /\ t = z[d]
    BY <1>1
  <2> QED
    BY <1>1, <2>1
<1>3. IsCombination(Total(v, D), 1, Total(w, D), 1, Total(z, D))
  <2>1. PICK e \in Int : e = 1
    OBVIOUS
  <2>2. \A d \in D : w[d] \in Int /\ z[d] \in Int
    BY <1>1
  <2>3. \A d \in D : IsCombination(v[d], e, w[d], e, z[d])
    BY <1>2, <2>1
  <2>4. IsCombination(Total(v, D), e, Total(w, D), e, Total(z, D))
    BY <2>2, <2>3, TotalLinear
  <2> QED
    BY <2>1, <2>4
<1>4. PICK a : a \in D
  OBVIOUS
<1>5. Total(z, D) = z[a] + Total(z, D \ {a})
  <2>1. \A d \in D : z[d] \in Int
    BY <1>1
  <2> QED
    BY <1>4, <2>1, TotalTake
<1>6. Total(z, D \ {a}) \in Nat
  <2>1. IsFiniteSet(D \ {a}) /\ \A d \in D \ {a} : z[d] \in Nat
    BY <1>1, FS_Subset
  <2>2. 0 \in Nat /\ \A x, y \in Nat : x + y \in Nat
    OBVIOUS
  <2> QED
    BY <2>1, <2>2, TotalTyped
<1>7. PICK x \in Nat \ {0}, y \in Nat, t \in Int :
        x = z[a] /\ y = Total(z, D \ {a}) /\ t = Total(w, D)
  BY <1>1, <1>4, <1>6, TotalWhole
<1> QED
  BY <1>3, <1>5, <1>7 DEF IsCombination

(* A pair costs the rounds of its bucket, whose lengths no other has. *)
LEMMA BucketRounds ==
  ASSUME NEW b \in Buckets, NEW side \in {"full", "tail"}, NEW s \in Lengths(b, side)
  PROVE  /\ s \in Int /\ (s + WARP - 1) \div WARP = b.rounds
<1>1. PICK w \in Nat \ {0}, n \in Nat, r \in Nat, f \in Nat, t \in Nat :
        w = WARP /\ n = Window /\ r = b.rounds /\ f = b.full /\ t = b.tail
  BY FixtureAssumption
<1>2. PICK m \in Int : m = w * (r - 1)
  OBVIOUS
<1>3. m < t /\ f <= w * r /\ t + n < f - n
  BY <1>1, <1>2, FixtureAssumption
<1>4. s \in Int /\ m < s /\ s <= w * r
  BY <1>1, <1>3 DEF Lengths
<1>5. m = w * r - w
  BY <1>2, SMT
<1>6. PICK a \in Int : a = s + w - 1
  BY <1>4
<1>7. PICK p \in Int : p = w * r
  OBVIOUS
<1>8. p <= a /\ a < p + w
  BY <1>4, <1>5, <1>6, <1>7
<1>9. w * r <= a /\ a < w * r + w
  BY <1>7, <1>8
<1>10. a \div w = r
  BY <1>9, DivUnique
<1> QED
  BY <1>1, <1>4, <1>6, <1>10

(* The pairs that stand at place r of both sides of a bucket and stratum   *)
(* are taken, if r is within the shorter side.                             *)
Sides == {"full", "tail"}
Beside(side) == IF side = "full" THEN "tail" ELSE "full"
InFixture(d, m) == m \in Nat /\ DOMAIN d["pairs"] = 1 .. m

PlaceIn(d, side, b, st, r, k) ==
  /\ b \in Buckets
  /\ r \in 1 .. Take(InBucket(d, b, side, st), InBucket(d, b, Beside(side), st))
  /\ k = InBucket(d, b, side, st)[r]

LEMMA BucketHolds ==
  ASSUME NEW d, NEW m, InFixture(d, m), NEW b, NEW side, NEW st,
         NEW own, own = InBucket(d, b, side, st)
  PROVE  /\ Len(own) \in Nat /\ DOMAIN own = 1 .. Len(own)
         /\ \A r \in 1 .. Len(own) : /\ own[r] \in 1 .. m /\ Stratum(d, own[r]) = st
                                     /\ Short(d, own[r]) \in Lengths(b, side)
         /\ \A r, q \in 1 .. Len(own) : own[r] = own[q] => r = q
<1> DEFINE S == {k \in DOMAIN d["pairs"] : Short(d, k) \in Lengths(b, side) /\ Stratum(d, k) = st}
<1>1. IsFiniteSet(S) /\ S \subseteq Int /\ S \subseteq 1 .. m
  <2>1. IsFiniteSet(1 .. m)
    <3>1. 1 \in Int /\ m \in Int
      BY DEF InFixture
    <3> QED
      BY ONLY <3>1, FS_Interval
  <2>2. S \subseteq 1 .. m
    BY DEF InFixture
  <2>3. 1 .. m \subseteq Int
    BY DEF InFixture
  <2> HIDE DEF S
  <2> QED
    BY <2>1, <2>2, <2>3, FS_Subset
<1>2. own = Ascending(S)
  BY DEF InBucket
<1>3. \A k \in S : k \in 1 .. m /\ Short(d, k) \in Lengths(b, side) /\ Stratum(d, k) = st
  BY <1>1
<1> HIDE DEF S
<1>4. PICK n : n = Cardinality(S)
  OBVIOUS
<1>5. n \in Nat /\ own \in [1 .. n -> S] /\ \A k, l \in 1 .. n : k < l <=> own[k] < own[l]
  BY <1>1, <1>2, <1>4, AscendingLists
<1>6. Len(own) = n /\ DOMAIN own = 1 .. n
  BY <1>5, LengthOf
<1>7. \A r, q \in 1 .. n : own[r] = own[q] => r = q
  <2> SUFFICES ASSUME NEW r \in 1 .. n, NEW q \in 1 .. n, own[r] = own[q], r # q PROVE FALSE
    OBVIOUS
  <2>1. r < q \/ q < r
    OBVIOUS
  <2>2. own[r] < own[q] \/ own[q] < own[r]
    BY <1>5, <2>1
  <2>3. own[r] \in Int
    BY <1>1, <1>5
  <2> QED
    BY <2>2, <2>3
<1> QED
  BY <1>3, <1>5, <1>6, <1>7

(* As many are taken of either side. *)
LEMMA TakenBoth ==
  ASSUME NEW own, NEW other, Len(own) \in Nat, Len(other) \in Nat
  PROVE  /\ Take(own, other) = Take(other, own) /\ Take(own, other) \in Nat
         /\ Take(own, other) <= Len(own) /\ Take(own, other) <= Len(other)
<1>1. PICK a \in Nat, c \in Nat : a = Len(own) /\ c = Len(other)
  OBVIOUS
<1>2. Min({a, c}) = (IF a <= c THEN a ELSE c) /\ Min({c, a}) = IF c <= a THEN c ELSE a
  <2>1. a \in Int /\ c \in Int
    OBVIOUS
  <2> QED
    BY <2>1, MinOfTwo
<1> QED
  BY <1>1, <1>2 DEF Take

LEMMA PlaceFacts ==
  ASSUME NEW d, NEW m, InFixture(d, m), NEW side, NEW b, NEW st, NEW r, NEW k,
         PlaceIn(d, side, b, st, r, k)
  PROVE  /\ k \in 1 .. m /\ b \in Buckets /\ Stratum(d, k) = st /\ Short(d, k) \in Lengths(b, side)
         /\ r \in 1 .. Len(InBucket(d, b, side, st))
<1>1. PICK own, other : own = InBucket(d, b, side, st) /\ other = InBucket(d, b, Beside(side), st)
  OBVIOUS
<1>2. Len(own) \in Nat /\ Len(other) \in Nat
  BY <1>1, BucketHolds
<1>3. r \in 1 .. Take(own, other) /\ k = own[r] /\ b \in Buckets
  BY <1>1 DEF PlaceIn
<1>4. r \in 1 .. Len(own)
  BY <1>2, <1>3, TakenBoth
<1> QED
  BY <1>1, <1>3, <1>4, BucketHolds

(* A pair has one place. *)
LEMMA OnePlace ==
  ASSUME NEW d, NEW m, InFixture(d, m), NEW side \in Sides, NEW k,
         NEW b, NEW st, NEW r, PlaceIn(d, side, b, st, r, k),
         NEW c, NEW su, NEW q, PlaceIn(d, side, c, su, q, k)
  PROVE  b = c /\ st = su /\ r = q
<1>1. st = su
  BY PlaceFacts
<1>2. b \in Buckets /\ c \in Buckets /\ Short(d, k) \in Lengths(b, side) /\ Short(d, k) \in Lengths(c, side)
  BY PlaceFacts
<1>3. PICK s : s = Short(d, k)
  OBVIOUS
<1>4. b.rounds = (s + WARP - 1) \div WARP
  BY <1>2, <1>3, BucketRounds DEF Sides
<1>5. c.rounds = (s + WARP - 1) \div WARP
  BY <1>2, <1>3, BucketRounds DEF Sides
<1>6. b = c
  BY <1>2, <1>4, <1>5, FixtureAssumption
<1>7. PICK own : own = InBucket(d, b, side, st)
  OBVIOUS
<1>8. r \in 1 .. Len(own) /\ q \in 1 .. Len(own)
  BY <1>1, <1>6, <1>7, PlaceFacts
<1>9. own[r] = own[q]
  BY <1>1, <1>6, <1>7 DEF PlaceIn
<1>10. r = q
  BY <1>7, <1>8, <1>9, BucketHolds
<1> QED
  BY <1>1, <1>6, <1>10

(* What is at a place on one side faces a pair on the other. *)
LEMMA Facing ==
  ASSUME NEW d, NEW m, InFixture(d, m), NEW side \in Sides, NEW b, NEW st, NEW r, NEW k,
         PlaceIn(d, side, b, st, r, k)
  PROVE  PlaceIn(d, Beside(side), b, st, r, InBucket(d, b, Beside(side), st)[r])
<1>1. PICK own, other : own = InBucket(d, b, side, st) /\ other = InBucket(d, b, Beside(side), st)
  OBVIOUS
<1>2. Len(own) \in Nat /\ Len(other) \in Nat
  BY <1>1, BucketHolds
<1>3. Beside(Beside(side)) = side
  BY DEF Beside, Sides
<1>4. r \in 1 .. Take(other, own) /\ b \in Buckets
  BY <1>1, <1>2, TakenBoth DEF PlaceIn
<1> QED
  BY <1>1, <1>3, <1>4 DEF PlaceIn

(* The list of a side: the pairs that have a place, in their ranks. *)
LEMMA LaneKept ==
  ASSUME NEW d, NEW m, InFixture(d, m), NEW side \in Sides, NEW keep, keep = LanePairs(d, side)
  PROVE  /\ KeepsOf(d, keep) /\ Len(keep) \in Nat /\ DOMAIN keep = 1 .. Len(keep)
         /\ \A i \in 1 .. Len(keep) : \E b, st, r : PlaceIn(d, side, b, st, r, keep[i])
         /\ \A b, st, r, k : PlaceIn(d, side, b, st, r, k) => \E i \in 1 .. Len(keep) : keep[i] = k
         /\ \A i, j \in 1 .. Len(keep) : keep[i] = keep[j] => i = j
<1> DEFINE strata == {Stratum(d, k) : k \in DOMAIN d["pairs"]}
           Taken(b, st) == LET own   == InBucket(d, b, side, st)
                               other == InBucket(d, b, IF side = "full" THEN "tail" ELSE "full", st)
                           IN  {own[i] : i \in 1 .. Take(own, other)}
           S == UNION {Taken(b, st) : b \in Buckets, st \in strata}
<1>1. keep = Ascending(S)
  BY DEF LanePairs
<1>2. \A st : \A b \in Buckets : \A k : k \in Taken(b, st) <=> \E r : PlaceIn(d, side, b, st, r, k)
  BY DEF PlaceIn, Beside
<1> HIDE DEF Taken
<1>3. \A k \in S : \E b, st, r : PlaceIn(d, side, b, st, r, k)
  BY <1>2
<1>4. ASSUME NEW b, NEW st, NEW r, NEW k, PlaceIn(d, side, b, st, r, k) PROVE k \in S
  <2>1. k \in 1 .. m /\ b \in Buckets /\ Stratum(d, k) = st
    BY <1>4, PlaceFacts
  <2>2. st \in strata
    BY <2>1 DEF InFixture
  <2>3. k \in Taken(b, st)
    BY <1>2, <1>4, <2>1
  <2> HIDE DEF strata
  <2> QED
    BY <2>1, <2>2, <2>3
<1> HIDE DEF S
<1>5. S \subseteq 1 .. m
  BY <1>3, PlaceFacts
<1>6. IsFiniteSet(S) /\ S \subseteq Int
  <2>1. IsFiniteSet(1 .. m)
    <3>1. 1 \in Int /\ m \in Int
      BY DEF InFixture
    <3> QED
      BY ONLY <3>1, FS_Interval
  <2>2. 1 .. m \subseteq Int
    BY DEF InFixture
  <2> QED
    BY <1>5, <2>1, <2>2, FS_Subset
<1>7. PICK n : n = Cardinality(S)
  OBVIOUS
<1>8. /\ n \in Nat /\ keep \in [1 .. n -> S]
      /\ \A x \in S : \E k \in 1 .. n : keep[k] = x
      /\ \A k, l \in 1 .. n : k < l <=> keep[k] < keep[l]
  BY <1>1, <1>6, <1>7, AscendingLists
<1>9. Len(keep) = n /\ DOMAIN keep = 1 .. n
  BY <1>8, LengthOf
<1>10. KeepsOf(d, keep)
  <2>1. keep \in [1 .. n -> DOMAIN d["pairs"]]
    BY <1>5, <1>8 DEF InFixture
  <2> QED
    BY <1>8, <2>1 DEF KeepsOf
<1>11. \A i, j \in 1 .. n : keep[i] = keep[j] => i = j
  <2> SUFFICES ASSUME NEW i \in 1 .. n, NEW j \in 1 .. n, keep[i] = keep[j], i # j PROVE FALSE
    OBVIOUS
  <2>1. i < j \/ j < i
    OBVIOUS
  <2>2. keep[i] < keep[j] \/ keep[j] < keep[i]
    BY <1>8, <2>1
  <2>3. keep[i] \in Int
    BY <1>6, <1>8
  <2> QED
    BY <2>2, <2>3
<1>12. \A i \in 1 .. n : \E b, st, r : PlaceIn(d, side, b, st, r, keep[i])
  BY <1>3, <1>8
<1>13. \A b, st, r, k : PlaceIn(d, side, b, st, r, k) => \E i \in 1 .. n : keep[i] = k
  BY <1>4, <1>8
<1> QED
  BY <1>8, <1>9, <1>10, <1>11, <1>12, <1>13

(* The two lists match: as many pairs, which cost as many rounds, and the  *)
(* pairs of the full side have more elements.                              *)
LanesMatch(d) ==
  LET full == LanePairs(d, "full")
      tail == LanePairs(d, "tail")
  IN  /\ Len(full) = Len(tail) /\ lane_slots(d, full) = lane_slots(d, tail)
      /\ full # <<>> \/ tail # <<>> => effective(d, full) > effective(d, tail)

(* Two pairs at one place of a bucket and stratum. *)
Faces(d, k, l) ==
  \E b, st, r : PlaceIn(d, "full", b, st, r, k) /\ PlaceIn(d, "tail", b, st, r, l)

LEMMA FacingCosts ==
  ASSUME NEW d, NEW m, InFixture(d, m), NEW k, NEW l, Faces(d, k, l)
  PROVE  /\ Short(d, k) \in Int /\ Short(d, l) \in Int /\ Short(d, l) < Short(d, k)
         /\ WARP * ((Short(d, k) + WARP - 1) \div WARP) = WARP * ((Short(d, l) + WARP - 1) \div WARP)
         /\ WARP * ((Short(d, l) + WARP - 1) \div WARP) \in Int
<1>1. PICK b, st, r : PlaceIn(d, "full", b, st, r, k) /\ PlaceIn(d, "tail", b, st, r, l)
  BY DEF Faces
<1>2. PICK f, t : f = "full" /\ t = "tail"
  OBVIOUS
<1>3. b \in Buckets /\ Short(d, k) \in Lengths(b, f)
  BY <1>1, <1>2, PlaceFacts
<1>4. Short(d, l) \in Lengths(b, t)
  BY <1>1, <1>2, PlaceFacts
<1>5. PICK x, y : x = Short(d, k) /\ y = Short(d, l)
  OBVIOUS
<1>6. x \in Int /\ (x + WARP - 1) \div WARP = b.rounds
  BY <1>2, <1>3, <1>5, BucketRounds
<1>7. y \in Int /\ (y + WARP - 1) \div WARP = b.rounds
  BY <1>2, <1>3, <1>4, <1>5, BucketRounds
<1>8. y < x
  <2>1. /\ b.full \in Nat /\ b.tail \in Nat /\ Window \in Nat
        /\ b.tail + Window < b.full - Window
    BY <1>3, FixtureAssumption
  <2>2. b.full - Window <= x /\ y <= b.tail + Window
    BY <1>2, <1>3, <1>4, <1>5, <2>1 DEF Lengths
  <2> QED
    BY <1>6, <1>7, <2>1, <2>2
<1>9. WARP * b.rounds \in Int
  BY <1>3, FixtureAssumption
<1> QED
  BY <1>5, <1>6, <1>7, <1>8, <1>9

LEMMA LanesMatched ==
  ASSUME NEW d, NEW m, InFixture(d, m)
  PROVE  LanesMatch(d)
<1>1. PICK f, t : f = "full" /\ t = "tail" /\ f \in Sides /\ t \in Sides /\ Beside(f) = t /\ Beside(t) = f
  BY DEF Sides, Beside
<1>2. PICK full, tail : full = LanePairs(d, f) /\ tail = LanePairs(d, t)
  OBVIOUS
<1>3. /\ Len(full) \in Nat /\ DOMAIN full = 1 .. Len(full)
      /\ \A i \in 1 .. Len(full) : \E b, st, r : PlaceIn(d, f, b, st, r, full[i])
      /\ \A b, st, r, k : PlaceIn(d, f, b, st, r, k) => \E i \in 1 .. Len(full) : full[i] = k
      /\ \A i, j \in 1 .. Len(full) : full[i] = full[j] => i = j
  BY <1>1, <1>2, LaneKept
<1>4. /\ Len(tail) \in Nat /\ DOMAIN tail = 1 .. Len(tail)
      /\ \A i \in 1 .. Len(tail) : \E b, st, r : PlaceIn(d, t, b, st, r, tail[i])
      /\ \A b, st, r, k : PlaceIn(d, t, b, st, r, k) => \E i \in 1 .. Len(tail) : tail[i] = k
      /\ \A i, j \in 1 .. Len(tail) : tail[i] = tail[j] => i = j
  BY <1>1, <1>2, LaneKept
<1>5. PICK D, E : D = 1 .. Len(full) /\ E = 1 .. Len(tail)
  OBVIOUS
<1>6. ASSUME NEW i \in D PROVE \E j \in E : Faces(d, full[i], tail[j])
  <2>1. PICK b, st, r : PlaceIn(d, f, b, st, r, full[i])
    BY <1>3, <1>5
  <2>2. PICK l : l = InBucket(d, b, t, st)[r]
    OBVIOUS
  <2>3. PlaceIn(d, t, b, st, r, l)
    BY <1>1, <2>1, <2>2, Facing
  <2>4. PICK j \in E : tail[j] = l
    BY <1>4, <1>5, <2>3
  <2> QED
    BY <1>1, <2>1, <2>3, <2>4 DEF Faces
<1>7. ASSUME NEW j \in E PROVE \E i \in D : Faces(d, full[i], tail[j])
  <2>1. PICK b, st, r : PlaceIn(d, t, b, st, r, tail[j])
    BY <1>4, <1>5
  <2>2. PICK k : k = InBucket(d, b, f, st)[r]
    OBVIOUS
  <2>3. PlaceIn(d, f, b, st, r, k)
    BY <1>1, <2>1, <2>2, Facing
  <2>4. PICK i \in D : full[i] = k
    BY <1>3, <1>5, <2>3
  <2> QED
    BY <1>1, <2>1, <2>3, <2>4 DEF Faces
<1>8. ASSUME NEW k, NEW l, NEW x, Faces(d, k, l), Faces(d, k, x) PROVE l = x
  <2>1. PICK b, st, r : PlaceIn(d, f, b, st, r, k) /\ PlaceIn(d, t, b, st, r, l)
    BY <1>1, <1>8 DEF Faces
  <2>2. PICK c, su, q : PlaceIn(d, f, c, su, q, k) /\ PlaceIn(d, t, c, su, q, x)
    BY <1>1, <1>8 DEF Faces
  <2>3. b = c /\ st = su /\ r = q
    BY <1>1, <2>1, <2>2, OnePlace
  <2> QED
    BY <2>1, <2>2, <2>3 DEF PlaceIn
<1>9. ASSUME NEW k, NEW l, NEW x, Faces(d, k, l), Faces(d, x, l) PROVE k = x
  <2>1. PICK b, st, r : PlaceIn(d, f, b, st, r, k) /\ PlaceIn(d, t, b, st, r, l)
    BY <1>1, <1>9 DEF Faces
  <2>2. PICK c, su, q : PlaceIn(d, f, c, su, q, x) /\ PlaceIn(d, t, c, su, q, l)
    BY <1>1, <1>9 DEF Faces
  <2>3. b = c /\ st = su /\ r = q
    BY <1>1, <2>1, <2>2, OnePlace
  <2> QED
    BY <2>1, <2>2, <2>3 DEF PlaceIn
<1>10. PICK p : p = [i \in D |-> CHOOSE j \in E : Faces(d, full[i], tail[j])]
  OBVIOUS
<1>11. \A i \in D : p[i] \in E /\ Faces(d, full[i], tail[p[i]])
  BY <1>6, <1>10
<1>12. \A j \in E : \E i \in D : p[i] = j
  <2> SUFFICES ASSUME NEW j \in E PROVE \E i \in D : p[i] = j
    OBVIOUS
  <2>1. PICK i \in D : Faces(d, full[i], tail[j])
    BY <1>7
  <2>2. tail[p[i]] = tail[j] /\ p[i] \in E
    BY <1>8, <1>11, <2>1
  <2> QED
    BY <1>4, <1>5, <2>2
<1>13. \A i, j \in D : p[i] = p[j] => i = j
  <2> SUFFICES ASSUME NEW i \in D, NEW j \in D, p[i] = p[j] PROVE i = j
    OBVIOUS
  <2>1. full[i] = full[j]
    BY <1>9, <1>11
  <2> QED
    BY <1>3, <1>5, <2>1
<1>14. IsFiniteSet(D) /\ IsFiniteSet(E) /\ Cardinality(D) = Len(full) /\ Cardinality(E) = Len(tail)
  <2>1. \A n \in Nat : IsFiniteSet(1 .. n) /\ Cardinality(1 .. n) = n
    <3> SUFFICES ASSUME NEW n \in Nat PROVE IsFiniteSet(1 .. n) /\ Cardinality(1 .. n) = n
      OBVIOUS
    <3>1. 1 \in Int /\ n \in Int
      OBVIOUS
    <3>2. IsFiniteSet(1 .. n) /\ Cardinality(1 .. n) = IF 1 > n THEN 0 ELSE n - 1 + 1
      BY ONLY <3>1, FS_Interval
    <3> QED
      BY <3>2
  <2> QED
    BY <1>3, <1>4, <1>5, <2>1
<1>15. PICK v, w, u, x :
         /\ v = [i \in D |-> Short(d, full[i])]
         /\ w = [i \in E |-> Short(d, tail[i])]
         /\ u = [i \in D |-> WARP * ((Short(d, full[i]) + WARP - 1) \div WARP)]
         /\ x = [i \in E |-> WARP * ((Short(d, tail[i]) + WARP - 1) \div WARP)]
  OBVIOUS
<1>16. \A i \in D : v[i] \in Int /\ w[p[i]] \in Int /\ w[p[i]] < v[i] /\ u[i] = x[p[i]] /\ x[p[i]] \in Int
  <2> SUFFICES ASSUME NEW i \in D
               PROVE  v[i] \in Int /\ w[p[i]] \in Int /\ w[p[i]] < v[i] /\ u[i] = x[p[i]] /\ x[p[i]] \in Int
    OBVIOUS
  <2>1. PICK k, l : k = full[i] /\ l = tail[p[i]]
    OBVIOUS
  <2>2. Faces(d, k, l) /\ p[i] \in E
    BY <1>11, <2>1
  <2>3. /\ v[i] = Short(d, k) /\ w[p[i]] = Short(d, l)
        /\ u[i] = WARP * ((Short(d, k) + WARP - 1) \div WARP)
        /\ x[p[i]] = WARP * ((Short(d, l) + WARP - 1) \div WARP)
    BY <1>15, <2>1, <2>2
  <2> QED
    BY <2>2, <2>3, FacingCosts
<1>17. \A j \in E : w[j] \in Int /\ x[j] \in Int
  BY <1>12, <1>16
<1>18. Cardinality(E) = Cardinality(D) /\ Total(u, D) = Total(x, E)
  <2>1. \A i \in D : p[i] \in E
    BY <1>11
  <2>2. (\A i \in D : u[i] = x[p[i]]) /\ \A j \in E : x[j] \in Int
    BY <1>16, <1>17
  <2>3. IsFiniteSet(D) /\ (\A j \in E : \E i \in D : p[i] = j) /\ \A i, j \in D : p[i] = p[j] => i = j
    BY <1>12, <1>13, <1>14
  <2>4. IsFiniteSet(E) /\ Cardinality(E) = Cardinality(D) /\ Total(u, D) = Total(x, E)
    BY ONLY <2>1, <2>2, <2>3, TotalRenamed
  <2> QED
    BY <2>4
<1>19. PICK y : y = [i \in D |-> w[p[i]]]
  OBVIOUS
<1>20. Total(y, D) = Total(w, E)
  <2>1. \A i \in D : y[i] = w[p[i]]
    BY <1>19
  <2> QED
    BY <1>11, <1>12, <1>13, <1>14, <1>17, <2>1, TotalRenamed
<1>21. D # {} => Total(y, D) < Total(v, D)
  <2>1. \A i \in D : v[i] \in Int /\ y[i] \in Int /\ y[i] < v[i]
    BY <1>16, <1>19
  <2> QED
    BY <1>14, <2>1, TotalGreater
<1>22. /\ effective(d, full) = Total(v, D) /\ effective(d, tail) = Total(w, E)
       /\ lane_slots(d, full) = Total(u, D) /\ lane_slots(d, tail) = Total(x, E)
  <2>1. DOMAIN full = D /\ DOMAIN tail = E
    BY <1>3, <1>4, <1>5
  <2>2. /\ effective(d, full) = Total([i \in DOMAIN full |-> Short(d, full[i])], DOMAIN full)
        /\ lane_slots(d, full) =
             Total([i \in DOMAIN full |-> WARP * ((Short(d, full[i]) + WARP - 1) \div WARP)], DOMAIN full)
    BY SumIsTotal
  <2>3. /\ effective(d, tail) = Total([i \in DOMAIN tail |-> Short(d, tail[i])], DOMAIN tail)
        /\ lane_slots(d, tail) =
             Total([i \in DOMAIN tail |-> WARP * ((Short(d, tail[i]) + WARP - 1) \div WARP)], DOMAIN tail)
    BY SumIsTotal
  <2> QED
    BY <1>15, <2>1, <2>2, <2>3
<1>23. full # <<>> \/ tail # <<>> => D # {}
  <2>1. ASSUME D = {} PROVE full = <<>> /\ tail = <<>>
    <3>1. Len(full) = 0 /\ Len(tail) = 0
      BY <1>14, <1>18, <2>1, FS_EmptySet
    <3>2. KeepsOf(d, full) /\ KeepsOf(d, tail)
      BY <1>1, <1>2, LaneKept
    <3>3. \A q : KeepsOf(d, q) /\ Len(q) = 0 => q = <<>>
      BY DEF KeepsOf
    <3> QED
      BY <3>1, <3>2, <3>3
  <2> QED
    BY <2>1
<1>24. Len(full) = Len(tail)
  BY <1>14, <1>18
<1>25. full # <<>> \/ tail # <<>> => effective(d, tail) < effective(d, full)
  BY <1>20, <1>21, <1>22, <1>23
<1>26. effective(d, full) \in Int /\ effective(d, tail) \in Int
  BY <1>14, <1>16, <1>17, <1>22, TotalWhole
<1> QED
  BY <1>1, <1>2, <1>18, <1>22, <1>24, <1>25, <1>26 DEF LanesMatch

(* Of a sound fixture a lane fixture, unless it is empty, is one of two    *)
(* that match, and a backend passes on it.                                 *)
LEMMA LanesSound ==
  ASSUME NEW matrix, NEW d, Sound(d, matrix), NEW side \in Sides,
         NEW x, x = LaneBand(d, side), "meta" \in DOMAIN x
  PROVE  LanesMatch(d) /\ LanePairs(d, side) # <<>> /\ check_result(Computed(x), x["golden"])
<1>1. PICK m : InFixture(d, m)
  BY DEF Sound, Body, PairsOf, PairsFit, InFixture
<1>2. LanesMatch(d)
  BY <1>1, LanesMatched
<1>3. PICK keep : keep = LanePairs(d, side)
  OBVIOUS
<1>4. KeepsOf(d, keep)
  BY <1>1, <1>3, LaneKept
<1>5. PICK mode, e, h : mode = "lane-utilisation band" /\ e = d["meta"].n_emitted /\ h = DataFiles
  OBVIOUS
<1>6. PICK y : y = Derived(d, keep, mode, e, h)
  OBVIOUS
<1>7. x = IF keep = <<>> THEN Without(y, "meta") ELSE y
  BY <1>3, <1>5, <1>6 DEF LaneBand, Band
<1>8. "meta" \notin DOMAIN Without(y, "meta")
  BY DEF Without, Restrict
<1>9. x = y /\ keep # <<>>
  BY <1>7, <1>8
<1>10. CutFrom(x, d, keep)
  BY <1>6, <1>9, DerivedFiles
<1>11. Body(x, matrix)
  BY <1>4, <1>10, DerivedBody DEF Sound
<1>12. check_result(Computed(x), x["golden"])
  BY <1>11, BodyComputes
<1> QED
  BY <1>2, <1>3, <1>9, <1>12

(* A fixture that was cut is the last thing made, and a lane fixture is    *)
(* one of two that match.                                                  *)
LaneInv ==
  /\ "meta" \in DOMAIN cut => step = "end"
  /\ LaneBandsMatch

LEMMA LaneNext == LaneInv /\ WholeInv /\ DirInv /\ [DataNext]_dataVars => LaneInv'
<1> SUFFICES ASSUME LaneInv, WholeInv, DirInv, [DataNext]_dataVars PROVE LaneInv'
  OBVIOUS
<1>1. ASSUME UNCHANGED cut, step # "end" PROVE LaneInv'
  BY <1>1 DEF LaneInv, LaneBandsMatch
<1>2. CASE CutLanes
  <2>1. PICK side \in Sides : cut' = LaneBand(dir, side)
    BY <1>2 DEF CutLanes, Sides
  <2>2. step' = "end" /\ dir' = dir
    BY <1>2 DEF CutLanes
  <2>3. PICK matrix : Sound(dir, matrix)
    BY <1>2, WholeDir DEF CutLanes, WholeInv, Going
  <2>4. PICK d, x : d = dir /\ x = LaneBand(d, side)
    OBVIOUS
  <2>5. ASSUME "meta" \in DOMAIN x
        PROVE  LanesMatch(d) /\ LanePairs(d, side) # <<>> /\ check_result(Computed(x), x["golden"])
    BY <2>3, <2>4, <2>5, LanesSound
  <2>6. ASSUME "meta" \in DOMAIN x
        PROVE  /\ Len(LanePairs(d, "full")) = Len(LanePairs(d, "tail"))
               /\ lane_slots(d, LanePairs(d, "full")) = lane_slots(d, LanePairs(d, "tail"))
               /\ effective(d, LanePairs(d, "full")) > effective(d, LanePairs(d, "tail"))
               /\ check_result(Computed(x), x["golden"])
    BY <2>5, <2>6 DEF LanesMatch, Sides
  <2>7. cut' = x /\ dir' = d
    BY <2>1, <2>2, <2>4
  <2> QED
    BY <2>2, <2>6, <2>7 DEF LaneInv, LaneBandsMatch
<1>3. CASE CutBand
  <2>1. PICK band \in Bands : cut' = OverlapBand(dir, band)
    BY <1>3 DEF CutBand
  <2>2. step' = "end"
    BY <1>3 DEF CutBand
  <2>3. PICK x : x = OverlapBand(dir, band)
    OBVIOUS
  <2>4. "meta" \in DOMAIN x => x["meta"].mode = "overlap-band"
    BY <2>3, BandNamed DEF OverlapBand
  <2> QED
    BY <2>1, <2>2, <2>3, <2>4 DEF LaneInv, LaneBandsMatch
<1>4. CASE CutPrefix
  <2>1. PICK n \in Sizes : cut' = Prefix(dir, n) \/ cut' = NoDir
    BY <1>4 DEF CutPrefix
  <2>2. step' = "end"
    BY <1>4 DEF CutPrefix
  <2>3. "meta" \notin DOMAIN NoDir
    BY DEF NoDir
  <2>4. PICK x : x = Prefix(dir, n)
    OBVIOUS
  <2>5. x["meta"].mode = "pair-count boundary prefix"
    <3>1. PICK d, keep, mode, e, h : /\ d = dir /\ keep = [k \in 1 .. n |-> k]
                                     /\ mode = "pair-count boundary prefix"
                                     /\ e = d["meta"].n_emitted /\ h = {}
      OBVIOUS
    <3>2. x = Derived(d, keep, mode, e, h)
      BY <2>4, <3>1 DEF Prefix
    <3>3. x["meta"].mode = mode
      BY <3>2, DerivedFiles
    <3> QED
      BY <3>1, <3>3
  <2> QED
    BY <2>1, <2>2, <2>3, <2>4, <2>5 DEF LaneInv, LaneBandsMatch
<1>5. CASE WriteFile \/ RefuseRows \/ Exported \/ KillExporter
  BY <1>1, <1>5 DEF WriteFile, RefuseRows, Exported, KillExporter, Later
<1>6. CASE Validate \/ RunEngine \/ EngineMisreads \/ GpuRefuses \/ LoadFails
  BY <1>1, <1>6 DEF Validate, RunEngine, EngineMisreads, GpuRefuses, LoadFails, Later
<1>7. CASE sims_to_model \/ ModelFails
  BY <1>1, <1>7 DEF sims_to_model, ModelFails, Later
<1>8. CASE TrainItem \/ TrainUser \/ CrossCheck \/ Predict
  BY <1>1, <1>8 DEF TrainItem, TrainUser, CrossCheck, Predict
<1>9. CASE UNCHANGED dataVars
  BY <1>9 DEF dataVars, LaneInv, LaneBandsMatch
<1> QED
  BY <1>2, <1>3, <1>4, <1>5, <1>6, <1>7, <1>8, <1>9 DEF DataNext

(* The lane fixtures of every export have as many pairs each and cost a    *)
(* warp as many rounds, and those of the tail side have fewer elements,    *)
(* whatever pairs the export has: they are matched place by place          *)
(* (make_lane_bands.py).                                                   *)
THEOREM LanesMatchAlways == DataSpec => []LaneBandsMatch
<1>1. DataInit => LaneInv
  <2>1. "meta" \notin DOMAIN NoDir
    BY DEF NoDir
  <2> QED
    BY <2>1 DEF DataInit, LaneInv, LaneBandsMatch
<1>2. LaneInv => LaneBandsMatch
  BY DEF LaneInv
<1> QED
  BY <1>1, <1>2, LaneNext, ExportInvariance, WholeInvariance, PTL DEF DataSpec
=============================================================================
