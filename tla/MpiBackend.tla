----------------------------- MODULE MpiBackend -----------------------------
(***************************************************************************)
(* mpi_main.cpp: every rank runs the same list of local steps and          *)
(* collective calls.  Rank r accumulates, for every candidate pair, the    *)
(* statistics of the dimensions it owns; one Allreduce adds them up; rank  *)
(* 0 finalizes, validates, prints the record and broadcasts the verdict.   *)
(*                                                                         *)
(* All pairs are treated alike, so the model follows one pair: the         *)
(* contribution of dimension d to its statistics is how often d is         *)
(* counted.  A collective is two steps of a rank, entering and leaving;    *)
(* when it may leave is MPI's rule for that collective.  A reduce lets a   *)
(* non-root leave at once, a broadcast lets the root leave at once.        *)
(***************************************************************************)
EXTENDS Integers, Sequences, FiniteSets, FiniteSetsExt

CONSTANTS World,   \* number of ranks
          MaxDims  \* bound: a fixture has at most this many dimensions

ASSUME WorldAssumption == World \in Nat \ {0}
ASSUME MaxDimsAssumption == MaxDims \in Nat

Unset == -1
Ranks == 0 .. World - 1

VARIABLES rated,      \* the fixture's dimensions are 0 .. rated - 1
          at,         \* at[r]: index of the step of Program r is at
          inside,     \* inside[r]: r has entered the collective it is at
          rejected,   \* rejected[r]: the fixture r reads fails the domain check
          golden,     \* the result agrees with golden (an input)
          validating, \* --validate
          n_dims,     \* n_dims[r]
          owned,      \* owned[r]: dimensions r has accumulated
          counts,     \* counts[r][d]: how often d is counted in r's tensor
          failed,     \* failed[r]
          published,  \* rank 0 has printed its record
          status,     \* status[r]: exit status, or None
          aborted     \* the job has been killed

RatedDims == 0 .. rated - 1

jobVars == <<rated, at, inside, rejected, golden, validating, n_dims, owned, counts, failed,
          published, status, aborted>>

-----------------------------------------------------------------------------
Program ==
  <<"load", "barrier", "ready", "load_max", "n_dims", "barrier", "partial",
    "barrier", "stats", "report", "bcast", "finalize">>

Doing(r) == IF at[r] \in DOMAIN Program THEN Program[at[r]] ELSE "exited"
StatsAt   == CHOOSE i \in DOMAIN Program : Program[i] = "stats"

(* The rank's range of dimensions, in int64 arithmetic. *)
Lo(r) == (n_dims[r] * r) \div World
Hi_Inclusive(r) == (n_dims[r] * (r + 1)) \div World + 1  \* mutant: dim <= hi
Hi_Rounded(r) == (n_dims[r] \div World) * (r + 1)  \* mutant: the rest is lost
Hi(r) == (n_dims[r] * (r + 1)) \div World

Running(r) == ~aborted /\ status[r] = Unset
Entered(r, i) == at[r] > i \/ (at[r] = i /\ inside[r])

JobInit ==
  /\ rated \in 0 .. MaxDims
  /\ at = [r \in Ranks |-> 1]
  /\ inside = [r \in Ranks |-> FALSE]
  /\ rejected \in [Ranks -> BOOLEAN] /\ golden \in BOOLEAN /\ validating \in BOOLEAN
  /\ n_dims = [r \in Ranks |-> 0]
  /\ owned = [r \in Ranks |-> {}]
  /\ counts = [r \in Ranks |-> [d \in RatedDims |-> 0]]
  /\ failed = [r \in Ranks |-> 0]
  /\ published = FALSE
  /\ status = [r \in Ranks |-> Unset]
  /\ aborted = FALSE

-----------------------------------------------------------------------------
(* Local steps. *)
Advance(r) == at' = [at EXCEPT ![r] = @ + 1]

(* Fixture::load and the domain check; n_dims is the largest index + 1. *)
Load(r) ==
  /\ Running(r) /\ Doing(r) = "load" /\ ~rejected[r]
  /\ n_dims' = [n_dims EXCEPT ![r] = rated]
  /\ Advance(r)
  /\ UNCHANGED <<rated, inside, rejected, golden, validating, owned, counts, failed,
                 published, status, aborted>>

(* A rejected input: MPI_Abort, which ends every rank of the job. *)
Reject(r) ==
  /\ Running(r) /\ Doing(r) = "load" /\ rejected[r]
  /\ aborted' = TRUE
  /\ UNCHANGED <<rated, at, inside, rejected, golden, validating, n_dims, owned, counts,
                 failed, published, status>>

(* Fixture::load throws, or the process dies: mpirun ends the job. *)
Die(r) ==
  /\ Running(r) /\ Doing(r) \in {"load", "partial"}
  /\ aborted' = TRUE
  /\ UNCHANGED <<rated, at, inside, rejected, golden, validating, n_dims, owned, counts,
                 failed, published, status>>

PartialStats(r) ==
  /\ Running(r) /\ Doing(r) = "partial"
  /\ owned' = [owned EXCEPT ![r] = Lo(r) .. Hi(r) - 1]
  /\ counts' = [counts EXCEPT ![r] =
                  [d \in RatedDims |-> IF d \in Lo(r) .. Hi(r) - 1 THEN 1 ELSE 0]]
  /\ Advance(r)
  /\ UNCHANGED <<rated, inside, rejected, golden, validating, n_dims, failed, published,
                 status, aborted>>

(* Rank 0 finalizes, validates and prints; the others have nothing to do. *)
Report_ReturnAtOnce(r) ==  \* mutant: a failed validation skips the broadcast
  /\ Running(r) /\ Doing(r) = "report"
  /\ published' = (published \/ r = 0)
  /\ IF r = 0 /\ validating /\ ~golden
     THEN status' = [status EXCEPT ![r] = 1] /\ UNCHANGED at
     ELSE Advance(r) /\ UNCHANGED status
  /\ UNCHANGED <<rated, inside, rejected, golden, validating, n_dims, owned, counts, failed,
                 aborted>>
Report(r) ==
  /\ Running(r) /\ Doing(r) = "report"
  /\ failed' = [failed EXCEPT ![r] =
                  IF r = 0 /\ validating /\ ~golden THEN 1 ELSE @]
  /\ published' = (published \/ r = 0)
  /\ Advance(r)
  /\ UNCHANGED <<rated, inside, rejected, golden, validating, n_dims, owned, counts, status,
                 aborted>>

-----------------------------------------------------------------------------
(* Collectives. *)
Collectives == {"barrier", "ready", "load_max", "n_dims", "stats", "bcast", "finalize"}

Enter(r) ==
  /\ Running(r) /\ Doing(r) \in Collectives /\ ~inside[r]
  /\ inside' = [inside EXCEPT ![r] = TRUE]
  /\ UNCHANGED <<rated, at, rejected, golden, validating, n_dims, owned, counts, failed,
                 published, status, aborted>>

AllEntered(r) == \A s \in Ranks : Entered(s, at[r])
MayLeave(r) ==
  CASE Doing(r) \in {"ready", "load_max"} -> r = 0 => AllEntered(r)
    [] Doing(r) = "bcast"                 -> Entered(0, at[r])
    [] OTHER                             -> AllEntered(r)

(***************************************************************************)
(* The sum is over what each rank contributed when it entered, whatever    *)
(* the ranks that have already left did since.                             *)
(***************************************************************************)
Received_OwnVerdict(r) == failed[r]  \* mutant: no broadcast of the verdict
Received(r) == failed[0]

Leave(r) ==
  /\ Running(r) /\ Doing(r) \in Collectives /\ inside[r] /\ MayLeave(r)
  /\ inside' = [inside EXCEPT ![r] = FALSE]
  /\ Advance(r)
  /\ n_dims' = IF Doing(r) = "n_dims"
               THEN [n_dims EXCEPT ![r] = Max({n_dims[s] : s \in Ranks})]
               ELSE n_dims
  /\ counts' = IF Doing(r) = "stats"
               THEN [counts EXCEPT ![r] =
                       [d \in RatedDims |-> Cardinality({s \in Ranks : d \in owned[s]})]]
               ELSE counts
  /\ failed' = IF Doing(r) = "bcast" THEN [failed EXCEPT ![r] = Received(r)] ELSE failed
  /\ status' = IF Doing(r) = "finalize" THEN [status EXCEPT ![r] = failed[r]] ELSE status
  /\ UNCHANGED <<rated, rejected, golden, validating, owned, published, aborted>>

RankStep(r) == \/ Load(r) \/ Reject(r) \/ PartialStats(r) \/ Report(r)
               \/ Enter(r) \/ Leave(r)

JobNext == \E r \in Ranks : RankStep(r) \/ Die(r)

JobSpec == JobInit /\ [][JobNext]_jobVars

(* Every rank of a job that is not killed keeps running. *)
FairJobSpec == JobSpec /\ \A r \in Ranks : WF_jobVars(RankStep(r))

-----------------------------------------------------------------------------
(***************************************************************************)
(* After the Allreduce every rank holds the statistics of the whole pair:  *)
(* each dimension is counted exactly once, also when there are more ranks  *)
(* than dimensions.                                                        *)
(***************************************************************************)
SumsComplete ==
  \A r \in Ranks : at[r] > StatsAt => \A d \in RatedDims : counts[r][d] = 1

(* "every rank leaves with the same status", and it is the verdict's. *)
SameStatus ==
  \A r \in Ranks : status[r] # Unset =>
    status[r] = IF validating /\ ~golden THEN 1 ELSE 0

(* Every job ends: all ranks exit, or it is killed. *)
JobEnds == <>(aborted \/ \A r \in Ranks : status[r] # Unset)
=============================================================================
