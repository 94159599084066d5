----------------------------- MODULE Recommender -----------------------------
(***************************************************************************)
(* From the reviews to the predictions: a file of reviews is exported as a *)
(* fixture (export_fixture.py), the fixture is validated, an engine        *)
(* computes its pairs, and their similarities become a model, beside the   *)
(* model that Spark trains on the same file (cf_train.py).  Either model   *)
(* predicts ratings.  Other fixtures are cut from the exported one.        *)
(*                                                                         *)
(* The exporter may be killed while it writes a file, which is then torn:  *)
(* part of an array is there, and nothing of a JSON document.  Everything  *)
(* behind it works on whatever the directory then holds.                   *)
(***************************************************************************)
EXTENDS Fixture

CONSTANTS
  Inputs,     \* records of a review file, its mode, a subset and an older directory
  Collected,  \* orders in which distinct().collect() may give the businesses
  Test,       \* the pairs <<user, business>> of the test file
  Bands,      \* sets of overlaps
  Sizes       \* of prefixes

IsVector(r) ==
  /\ r = [d \in DOMAIN r |-> r[d]] /\ IsFiniteSet(DOMAIN r)
  /\ \A d \in DOMAIN r : d \in Nat /\ r[d] \in Int

IsMatrix(rows) ==
  /\ rows = [i \in DOMAIN rows |-> rows[i]] /\ IsFiniteSet(DOMAIN rows)
  /\ DOMAIN rows = 0 .. Cardinality(DOMAIN rows) - 1
  /\ \A i \in DOMAIN rows : IsVector(rows[i])

(* Whole ratings, of reviews or in the rows of a synthetic fixture. *)
ASSUME InputsAssumption ==
  \A in \in Inputs :
    IF in.mode = "synthetic" THEN IsMatrix(in.rows)
    ELSE /\ in.mode \in {"item", "user"}
         /\ in.reviews \in Seq([user : Nat, business : Nat, stars : Int])

(* The directory is empty, or an earlier export was written to its end.    *)
ASSUME OldAssumption ==
  \A in \in Inputs :
    \/ in.old = NoDir
    \/ /\ in.old = [f \in Files |-> in.old[f]]
       /\ \A f \in DataFiles : in.old[f] = in.old["meta"].files[f]

ASSUME SizesAssumption == Sizes \subseteq Nat

VARIABLES
  input,    \* the chosen input
  target,   \* what an export of it writes when nothing interrupts it
  dir,      \* the fixture directory
  step,     \* which script runs next
  written,  \* files the exporter has written
  verdict,  \* of validate_fixture.py: "ok", "fails", or "none" before it
  sims,     \* what the engine has written; <<>> if it gave up
  passed,   \* its own result check
  model,    \* by sims_to_model.py
  trained,  \* by cf_train.py
  crossed,  \* verdict of crosscheck_archived.py
  scored,   \* the predictions rmse.py sees
  cut       \* a derived fixture

dataVars == <<input, target, dir, step, written, verdict, sims, passed, model, trained, crossed, scored, cut>>

Reviews == input.reviews
Mode    == input.mode

Target(in) ==
  IF in.mode = "synthetic" THEN Synthetic(in.rows) ELSE Export(in.reviews, in.mode, in.subset)

Answer(b) == IF b THEN "ok" ELSE "fails"

DataInit ==
  /\ input \in Inputs /\ target = Target(input)
  /\ dir = input.old
  /\ step = "export" /\ written = 0
  /\ verdict = "none" /\ sims = <<>> /\ passed = "none"
  /\ model = {} /\ trained = {} /\ crossed = "none" /\ scored = <<>> /\ cut = NoDir

-----------------------------------------------------------------------------
Later == <<verdict, sims, passed, model, trained, crossed, scored, cut>>

(* make_domain_fixtures.py refuses rows of which no two overlap enough. *)
NothingToWrite == Mode = "synthetic" /\ target["golden"] = <<>>

WriteFile ==
  /\ step = "export" /\ written < Len(WriteOrder) /\ ~NothingToWrite
  /\ LET f == WriteOrder[written + 1] IN dir' = Put(dir, f, target[f])
  /\ written' = written + 1
  /\ UNCHANGED <<input, target, step, Later>>

RefuseRows ==
  /\ step = "export" /\ NothingToWrite
  /\ step' = "end"
  /\ UNCHANGED <<input, target, dir, written, Later>>

Exported ==
  /\ step = "export" /\ written = Len(WriteOrder)
  /\ step' = "validate"
  /\ UNCHANGED <<input, target, dir, written, Later>>

(* Between two files, or the file that is open is cut off; nobody starts   *)
(* the export again.                                                       *)
KillExporter ==
  /\ step = "export" /\ written < Len(WriteOrder) /\ ~NothingToWrite
  /\ LET f == WriteOrder[written + 1]
     IN  \/ dir' = dir
         \/ dir' = IF f = "meta" THEN Without(dir, f) ELSE Put(dir, f, Front(target[f]))
  /\ step' = "validate"
  /\ UNCHANGED <<input, target, written, Later>>

Validate ==
  /\ step = "validate"
  /\ verdict' = Answer(Valid(dir))
  /\ step' = "engine"
  /\ UNCHANGED <<input, target, dir, written, sims, passed, model, trained, crossed, scored, cut>>

(* The engine does not ask for the verdict. *)
RunEngine ==
  /\ step = "engine" /\ Loads(dir) /\ WellFormed(dir)
  /\ sims' = Computed(dir)
  /\ passed' = Answer(check_result(sims', dir["golden"]))
  /\ step' = "model"
  /\ UNCHANGED <<input, target, dir, written, verdict, model, trained, crossed, scored, cut>>

(* Indices out of range or out of order: it may end in any way. *)
EngineMisreads ==
  /\ step = "engine" /\ Loads(dir) /\ ~WellFormed(dir)
  /\ passed' \in {"none", "ok", "fails"}
  /\ step' = "end"
  /\ UNCHANGED <<input, target, dir, written, verdict, sims, model, trained, crossed, scored, cut>>

(* The backends on a GPU do not run on an empty list of pairs: one refuses *)
(* it, the other launches a grid of no blocks.                             *)
GpuRefuses ==
  /\ step = "engine" /\ Loads(dir) /\ dir["pairs"] = <<>>
  /\ step' = "end"
  /\ UNCHANGED <<input, target, dir, written, Later>>

LoadFails ==
  /\ step = "engine" /\ ~Loads(dir)
  /\ step' = "end"
  /\ UNCHANGED <<input, target, dir, written, Later>>

sims_to_model ==
  /\ step = "model" /\ Named(dir, sims)
  /\ model' = ToModel(dir, sims)
  /\ step' = IF verdict = "ok" /\ written = Len(WriteOrder) THEN "derive" ELSE "end"
  /\ UNCHANGED <<input, target, dir, written, verdict, sims, passed, trained, crossed, scored, cut>>

ModelFails ==
  /\ step = "model" /\ ~Named(dir, sims)
  /\ step' = "end"
  /\ UNCHANGED <<input, target, dir, written, Later>>

-----------------------------------------------------------------------------
(* The fixtures that are cut from the exported one.                        *)
CutBand ==
  /\ step = "derive"
  /\ \E band \in Bands : cut' = OverlapBand(dir, band)
  /\ step' = "end"
  /\ UNCHANGED <<input, target, dir, written, verdict, sims, passed, model, trained, crossed, scored>>

CutLanes ==
  /\ step = "derive"
  /\ \E side \in {"full", "tail"} : cut' = LaneBand(dir, side)
  /\ step' = "end"
  /\ UNCHANGED <<input, target, dir, written, verdict, sims, passed, model, trained, crossed, scored>>

(* Similarities that are equal may differ in their last digit, as doubles; *)
(* then the size is not refused.                                           *)
CutPrefix ==
  /\ step = "derive"
  /\ \E n \in Sizes :
       /\ n <= Len(dir["pairs"])
       /\ cut' = Prefix(dir, n) \/ (Hides(dir["golden"], n) /\ cut' = NoDir)
  /\ step' = "end"
  /\ UNCHANGED <<input, target, dir, written, verdict, sims, passed, model, trained, crossed, scored>>

-----------------------------------------------------------------------------
TrainItem ==
  /\ step = "derive" /\ Mode = "item"
  /\ \E off \in SUBSET Cancelling(Reviews, "item") : trained' = ItemModel(Reviews, off)
  /\ step' = "crosscheck"
  /\ UNCHANGED <<input, target, dir, written, verdict, sims, passed, model, crossed, scored, cut>>

TrainUser ==
  /\ step = "derive" /\ Mode = "user"
  /\ \E list \in Collected, order \in Permutations(Entities(Reviews, "user")),
        off \in SUBSET Cancelling(Reviews, "user") :
       LET present == SelectSeq(list, LAMBDA b : b \in Dims(Reviews, "user"))
           idx     == [b \in Dims(Reviews, "user") |-> (CHOOSE i \in DOMAIN present : present[i] = b) - 1]
       IN  trained' = UserModel(Reviews, idx, order, off)
  /\ step' = "predict"
  /\ UNCHANGED <<input, target, dir, written, verdict, sims, passed, model, crossed, scored, cut>>

CrossCheck ==
  /\ step = "crosscheck"
  /\ crossed' = Answer(CrossChecks(dir, trained))
  /\ step' = "predict"
  /\ UNCHANGED <<input, target, dir, written, verdict, sims, passed, model, trained, scored, cut>>

Predict ==
  /\ step = "predict"
  /\ \E m \in {model, trained} :
       scored' = Scored(IF Mode = "item" THEN ItemPredictions(Reviews, m, Test)
                                         ELSE UserPredictions(Reviews, m, Test), Test)
  /\ step' = "end"
  /\ UNCHANGED <<input, target, dir, written, verdict, sims, passed, model, trained, crossed, cut>>

DataNext ==
  \/ WriteFile \/ RefuseRows \/ Exported \/ KillExporter \/ Validate \/ RunEngine \/ EngineMisreads
  \/ GpuRefuses \/ LoadFails
  \/ sims_to_model \/ ModelFails \/ CutBand \/ CutLanes \/ CutPrefix
  \/ TrainItem \/ TrainUser \/ CrossCheck \/ Predict

DataSpec == DataInit /\ [][DataNext]_dataVars

-----------------------------------------------------------------------------
Whole == written = Len(WriteOrder)

(* An export that was not interrupted is valid, unless it has no names to  *)
(* write (validate_fixture.py reads one empty name), and no backend that   *)
(* runs on it fails; all of them run if there is a pair.  Rows, pairs and  *)
(* similarities are what validate_fixture.py and the engine recompute, in  *)
(* the same order (export_fixture.py, fixture.hpp).                        *)
WholeExportPasses ==
  Whole => /\ verdict = "fails" => <<>> \in {dir["entities"], dir["dimids"]}
           /\ passed # "fails"
           /\ step = "end" /\ dir["pairs"] # <<>> => passed = "ok"

(* What validates is one export, the new or the old one: files of two      *)
(* exports, or a torn one, never do, unless they hold the same             *)
(* (validate_fixture.py).                                                  *)
ValidMeansWhole == verdict = "ok" => dir = target \/ dir = input.old

(* The engine on the fixture and Spark on the reviews make the same model  *)
(* but for residues that only Spark writes: in item mode line for line, in *)
(* user mode for the pairs both found; the duplicates in the file are      *)
(* resolved the same way (docs/pearson_contract.md sections 4 and 5).      *)
SameModel ==
  step \in {"crosscheck", "predict"} /\ input.subset = <<>> =>
    /\ Mode = "item" => model = {line \in trained : Retained(line.sim)} /\ crossed # "fails"
    /\ \A line \in model, theirs \in trained :
         {line.a, line.b} = {theirs.a, theirs.b} => line.sim = theirs.sim

(* The stars of an item-based prediction lie within the stars it is made   *)
(* of: its weights are not negative and do not sum to 0, though models     *)
(* come from two programs with a sign filter each (cf_predict.py:38-43).   *)
PredictionsInRange ==
  Mode = "item" /\ scored # <<>> =>
    \A t \in Test : scored[t].avg \/
      /\ \A i \in DOMAIN scored[t].terms : scored[t].terms[i].weight.p >= 0
      /\ \E i \in DOMAIN scored[t].terms : Positive(scored[t].terms[i].weight)

(* A band of a valid fixture is itself valid unless it is empty, and a     *)
(* backend passes on it (make_overlap_fixtures.py).                        *)
BandsValid ==
  "meta" \in DOMAIN cut /\ cut["meta"].mode = "overlap-band" =>
    Valid(cut) /\ check_result(Computed(cut), cut["golden"])

(* The two lane fixtures have as many pairs and cost a warp as many rounds *)
(* while every pair of the tail fixture has fewer elements: what the       *)
(* experiment holds fixed is fixed (make_lane_bands.py:19-21).             *)
LaneBandsMatch ==
  "meta" \in DOMAIN cut /\ cut["meta"].mode = "lane-utilisation band" =>
    LET full == LanePairs(dir, "full")
        tail == LanePairs(dir, "tail")
    IN  /\ Len(full) = Len(tail)
        /\ lane_slots(dir, full) = lane_slots(dir, tail)
        /\ effective(dir, full) > effective(dir, tail)
        /\ check_result(Computed(cut), cut["golden"])

(* docs/pearson_contract.md section 2: a pair is in canonical order. *)
CanonicalOrder == \A line \in trained : line.a < line.b
=============================================================================
