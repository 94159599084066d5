---------------------------- MODULE BenchSession ----------------------------
(***************************************************************************)
(* bench_round_robin of engine/bench/run_bench.py: warm-ups, then rounds   *)
(* in which every live configuration runs one trial in a shuffled order,   *)
(* a checkpoint after every round, and a later session that resumes from   *)
(* it.  The harness may be killed between any two steps, also while it     *)
(* writes the checkpoint; memory is lost, files and processes stay.        *)
(*                                                                         *)
(* The generator of the shuffles is represented by what its state depends  *)
(* on, the lengths of the lists it has shuffled; the order within a round  *)
(* is any order.                                                           *)
(***************************************************************************)
EXTENDS Integers, Sequences, FiniteSets, FiniteSetsExt, SequencesExt

CONSTANTS Configs,    \* the configurations, numbered in declaration order
          Forks,      \* those of them that are started by mpirun
          Params,     \* the parameters a session may be started with
          MaxKills    \* bound: how often the harness is killed

ASSUME ConfigsAssumption ==
  Configs \subseteq Nat /\ IsFiniteSet(Configs) /\ Forks \subseteq Configs
ASSUME ParamsAssumption ==
  Params \subseteq [seed : Nat, repeats : Nat, warmups : Nat]
ASSUME KillsAssumption == MaxKills \in Nat

VARIABLES pc,       \* where the harness is
          params,   \* the parameters of this session
          resumed,  \* it was started with --resume
          live,     \* configurations not disabled
          errors,   \* configurations that failed
          dropped,  \* history: those of them that failed in a round
          trials,   \* trials[c]: the records kept for c
          round,    \* completed rounds
          todo,     \* configurations still to run in this round
          warm,     \* warm-ups done of the first configuration in todo
          current,  \* the configuration whose trial is running, or None
          rng,      \* lengths of the shuffles drawn from the generator
          alive,    \* processes of trials: <<session, configuration, role>>
          tmp,      \* the temporary file of atomic_write_json
          ckpt,     \* the checkpoint
          kills     \* how often the harness was killed

session == <<params, resumed>>
memory  == <<live, errors, dropped, trials, round, todo, warm, current, rng>>
disk    == <<tmp, ckpt>>
vars    == <<pc, session, memory, alive, disk, kills>>

-----------------------------------------------------------------------------
None   == -1
NoFile == [state |-> "none"]
Half   == [state |-> "half"]
Trial(p, r) == [params |-> p, round |-> r]

(* A shuffle of fewer than two elements draws nothing. *)
Shuffled(drawn, n) == IF n > 1 THEN Append(drawn, n) ELSE drawn
Replayed_None(rounds, n) == <<>>  \* mutant: a resumed session starts the generator anew
Replayed(rounds, n) == IF n > 1 THEN [i \in 1 .. rounds |-> n] ELSE <<>>

(***************************************************************************)
(* What is checkpointed once round r is done.  The fields rng and dropped  *)
(* are history, not in the file.                                           *)
(***************************************************************************)
Snapshot ==
  [state |-> "whole", params |-> params, rounds_done |-> round,
   errors |-> errors, trials |-> trials, rng |-> rng, dropped |-> dropped]

(* The checkpoint belongs to the same experiment as the session. *)
Compatible_AnyRepeats(file, p) ==  \* mutant: repeats is not compared
  file.params.seed = p.seed /\ file.params.warmups = p.warmups
Compatible(file, p) == file.params = p

Init ==
  /\ pc = "start" /\ params \in Params /\ resumed = FALSE
  /\ live = {} /\ errors = {} /\ dropped = {}
  /\ trials = [c \in Configs |-> <<>>]
  /\ round = 0 /\ todo = {} /\ warm = 0 /\ current = None /\ rng = <<>>
  /\ alive = {} /\ tmp = NoFile /\ ckpt = NoFile /\ kills = 0

-----------------------------------------------------------------------------
(* A session from the beginning, with its own checkpoint file. *)
Start ==
  /\ pc = "start" /\ ckpt = NoFile
  /\ params' \in Params /\ resumed' = FALSE
  /\ live' = Configs /\ errors' = {} /\ dropped' = {}
  /\ trials' = [c \in Configs |-> <<>>]
  /\ round' = 0 /\ warm' = 0 /\ current' = None /\ rng' = <<>>
  /\ todo' = IF params'.warmups = 0 THEN {} ELSE Configs
  /\ pc' = "warmup"
  /\ UNCHANGED <<alive, disk, kills>>

(***************************************************************************)
(* --resume: no warm-ups; the completed rounds' shuffles are replayed with *)
(* the configurations that are live now.                                   *)
(***************************************************************************)
Resume ==
  /\ pc = "start" /\ ckpt.state = "whole"
  /\ params' \in Params /\ resumed' = TRUE
  /\ Compatible(ckpt, params')
  /\ errors' = ckpt.errors /\ dropped' = ckpt.dropped
  /\ live'   = Configs \ ckpt.errors
  /\ trials' = ckpt.trials
  /\ round'  = ckpt.rounds_done
  /\ rng'    = Replayed(ckpt.rounds_done, Cardinality(live'))
  /\ todo' = {} /\ warm' = 0 /\ current' = None
  /\ pc' = "between"
  /\ UNCHANGED <<alive, disk, kills>>

(* The parameters differ from the checkpoint's, or it does not parse. *)
ResumeRefused ==
  /\ pc = "start" /\ ckpt # NoFile
  /\ params' \in Params /\ resumed' = TRUE
  /\ ckpt.state = "whole" => ~Compatible(ckpt, params')
  /\ pc' = "refused"
  /\ UNCHANGED <<memory, alive, disk, kills>>

-----------------------------------------------------------------------------
(* run_once: the trial's process group, and the three ways it ends. *)
Group(c) == {<<kills, c, "leader">>} \cup
            (IF c \in Forks THEN {<<kills, c, "child">>} ELSE {})

Killed_LeaderOnly(c) == {<<kills, c, "leader">>}  \* mutant: kill, not killpg
Killed(c) == Group(c)

(* The children a leader that crashed leaves at work. *)
Stray(c) == <<kills, c, "stray">>

MayRun(c) == /\ pc = "warmup" => c = Min(todo)
             /\ pc \in {"warmup", "round"}

Launch ==
  /\ current = None
  /\ \E c \in todo :
       /\ MayRun(c)
       /\ current' = c
       /\ alive' = alive \cup Group(c)
  /\ UNCHANGED <<pc, session, live, errors, dropped, trials, round,
                 todo, warm, rng, disk, kills>>

(* The last warm-up of a configuration, or its one trial of the round. *)
TrialOver(c) ==
  IF pc = "warmup" /\ warm + 1 < params.warmups
  THEN warm' = warm + 1 /\ UNCHANGED todo
  ELSE warm' = 0 /\ todo' = todo \ {c}

Record ==
  /\ current # None
  /\ alive' = alive \ Group(current)
  /\ TrialOver(current)
  /\ trials' = IF pc = "warmup" THEN trials
               ELSE [trials EXCEPT ![current] = Append(@, Trial(params, round + 1))]
  /\ current' = None
  /\ UNCHANGED <<pc, session, live, errors, dropped, round, rng, disk,
                 kills>>

(* A failure disables the configuration for the rest of the session. *)
Disable ==
  /\ errors'  = errors \cup {current}
  /\ dropped' = IF pc = "warmup" THEN dropped ELSE dropped \cup {current}
  /\ live' = live \ {current}
  /\ warm' = 0 /\ todo' = todo \ {current}
  /\ current' = None
  /\ UNCHANGED <<pc, session, trials, round, rng, disk, kills>>

(***************************************************************************)
(* Another exit code, a signal, or no usable record.  Nothing is killed    *)
(* here, and the children of an mpirun that crashed may go on.             *)
(***************************************************************************)
Fail ==
  /\ current # None
  /\ \/ alive' = alive \ Group(current)
     \/ /\ current \in Forks
        /\ alive' = (alive \ Group(current)) \cup {Stray(current)}
  /\ Disable

Timeout_Never ==  \* mutant: communicate() without a timeout
  /\ FALSE
  /\ alive' = alive \ Killed(current)
  /\ Disable
Timeout ==
  /\ current # None
  /\ alive' = alive \ Killed(current)
  /\ Disable

-----------------------------------------------------------------------------
WarmedUp ==
  /\ pc = "warmup" /\ todo = {}
  /\ pc' = "between"
  /\ UNCHANGED <<session, memory, alive, disk, kills>>

BeginRound ==
  /\ pc = "between" /\ round < params.repeats
  /\ rng' = Shuffled(rng, Cardinality(live))
  /\ todo' = live
  /\ pc' = "round"
  /\ UNCHANGED <<session, live, errors, dropped, trials, round, warm,
                 current, alive, disk, kills>>

EndRound ==
  /\ pc = "round" /\ todo = {}
  /\ round' = round + 1
  /\ pc' = "open"
  /\ UNCHANGED <<session, live, errors, dropped, trials, todo, warm,
                 current, rng, alive, disk, kills>>

(* atomic_write_json: open, write and fsync, rename. *)
OpenTmp_InPlace ==  \* mutant: the checkpoint itself is opened for writing
  /\ pc = "open" /\ ckpt' = Half /\ pc' = "write"
  /\ UNCHANGED <<session, memory, alive, tmp, kills>>
OpenTmp ==
  /\ pc = "open" /\ tmp' = Half /\ pc' = "write"
  /\ UNCHANGED <<session, memory, alive, ckpt, kills>>

WriteTmp ==
  /\ pc = "write" /\ tmp' = Snapshot /\ pc' = "replace"
  /\ UNCHANGED <<session, memory, alive, ckpt, kills>>

Replace ==
  /\ pc = "replace" /\ ckpt' = tmp /\ tmp' = NoFile /\ pc' = "between"
  /\ UNCHANGED <<session, memory, alive, kills>>

Finish ==
  /\ pc = "between" /\ round >= params.repeats
  /\ pc' = "done"
  /\ UNCHANGED <<session, memory, alive, disk, kills>>

(***************************************************************************)
(* The harness is killed.  A trial runs in a session of its own, so its    *)
(* processes go on until they end by themselves.                           *)
(***************************************************************************)
Die ==
  /\ kills < MaxKills
  /\ kills' = kills + 1
  /\ pc' = "start"
  /\ live' = {} /\ errors' = {} /\ dropped' = {}
  /\ trials' = [c \in Configs |-> <<>>]
  /\ round' = 0 /\ todo' = {} /\ warm' = 0 /\ current' = None /\ rng' = <<>>
  /\ UNCHANGED <<session, alive, disk>>

Kill == pc \notin {"start", "refused", "done"} /\ Die

(* What no harness waits for, of this session or an earlier one, ends. *)
OrphanEnds ==
  \E c \in Configs, k \in 0 .. kills :
    /\ <<k, c>> # <<kills, current>>
    /\ \E x \in alive : x[1] = k /\ x[2] = c
    /\ alive' = {x \in alive : x[1] # k \/ x[2] # c}
    /\ UNCHANGED <<pc, session, memory, disk, kills>>

Harness == \/ Launch \/ Timeout \/ WarmedUp \/ BeginRound \/ EndRound
           \/ OpenTmp \/ WriteTmp \/ Replace \/ Finish

Next == \/ Start \/ Resume \/ ResumeRefused
        \/ Harness \/ Record \/ Fail
        \/ Kill \/ OrphanEnds

Spec == Init /\ [][Next]_vars

-----------------------------------------------------------------------------
(* c has one trial of each of the first n rounds, all under p. *)
OnePerRound(ts, n, p) == ts = [i \in 1 .. n |-> Trial(p, i)]

(***************************************************************************)
(* The checkpoint is at every moment, whenever the harness is killed, a    *)
(* complete one of a finished round: every configuration it does not list  *)
(* as failed has exactly one trial of each completed round (the comments   *)
(* of atomic_write_json and of the checkpoint in bench_round_robin).       *)
(***************************************************************************)
CheckpointConsistent ==
  \/ ckpt = NoFile
  \/ /\ ckpt.state = "whole"
     /\ \A c \in Configs \ ckpt.errors :
          OnePerRound(ckpt.trials[c], ckpt.rounds_done, ckpt.params)

(***************************************************************************)
(* The design the medians rest on: however often the session was killed    *)
(* and resumed, every configuration reported without an error has one      *)
(* trial of every round, and none of another experiment.                   *)
(***************************************************************************)
BalancedReport ==
  pc = "done" =>
    \A c \in Configs \ errors : OnePerRound(trials[c], params.repeats, params)

(***************************************************************************)
(* A session never runs two trials, and none beside what is left of one    *)
(* that was recorded or timed out.  What may be at work beside a trial, or *)
(* until the next one, are the children of an mpirun that crashed by       *)
(* itself: run_once kills the group on a timeout only.  Their              *)
(* configuration has failed, and has no more trials.                       *)
(***************************************************************************)
OneTrialPerSession ==
  \A x \in alive :
    x[1] = kills /\ x[2] # current =>
      x = Stray(x[2]) /\ x[2] \in errors \ live

AtResume == resumed /\ pc = "between" /\ ckpt # NoFile /\ round = ckpt.rounds_done

(***************************************************************************)
(* After a resume the generator is where the interrupted session had it,   *)
(* if no configuration has failed in a round.                              *)
(***************************************************************************)
ReplayExact == AtResume /\ dropped = {} => rng = ckpt.rng

(***************************************************************************)
(* "replaying the completed rounds' shuffles puts the generator back where *)
(* it was -- the resumed half sees the order it would have seen"           *)
(* (run_bench.py:482-484), with no such condition.  Only an order of two   *)
(* or more configurations can be seen.                                     *)
(***************************************************************************)
ReplayPutsGeneratorBack ==
  AtResume /\ Cardinality(live) > 1 => rng = ckpt.rng
=============================================================================
