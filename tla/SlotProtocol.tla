---------------------------- MODULE SlotProtocol ----------------------------
(***************************************************************************)
(* What the double-buffered pipeline of nccl_main.cu promises, without     *)
(* streams, events or a host program.                                      *)
(*                                                                         *)
(* The candidate pairs are cut into chunks 0 .. NChunks-1.  On every GPU a *)
(* chunk passes through three stages: the statistics kernel fills the slot *)
(* chunk % 2 of that GPU's buffer, the AllReduce replaces the slot's       *)
(* contents by the sum over all GPUs, and GPU 0 (Root) finalizes the       *)
(* slot into similarities.  A slot may be refilled only after everything   *)
(* that reads it has finished.                                             *)
(*                                                                         *)
(* A kernel or a collective is two steps, its beginning and its end, so    *)
(* that two accesses to one slot can overlap in time.  Every stage is a    *)
(* pair of counters: how many chunks have entered it and how many have     *)
(* left it.                                                                *)
(***************************************************************************)
EXTENDS Naturals

CONSTANTS Gpus,      \* the devices of the communicator
          Root,      \* the device that finalizes: GPU 0
          NChunks    \* number of chunks of one batch

ASSUME GpusAssumption   == Root \in Gpus
ASSUME ChunksAssumption == NChunks \in Nat

VARIABLES begun,      \* begun[g]: statistics kernels started on g
          written,    \* written[g]: statistics kernels finished on g
          joined,     \* joined[g]: collectives g has entered
          reduced,    \* reduced[g]: collectives finished on g
          total,      \* total[c]: what the collective of chunk c summed
          reading,    \* finalize kernels started on Root
          finalized,  \* finalize kernels finished on Root
          slot,       \* slot[g][b]: what buffer slot b of g holds
          result      \* result[c]: the similarities written for chunk c

vars == <<begun, written, joined, reduced, total, reading, finalized, slot, result>>

-----------------------------------------------------------------------------
Chunks == 0 .. NChunks - 1
Count  == 0 .. NChunks
Slots  == 0 .. 1
SlotOf(c) == c % 2

(***************************************************************************)
(* Contents of a slot.  "torn" is a slot a statistics kernel is writing,   *)
(* "partial" this GPU's own statistics of a chunk, "total" their sum over  *)
(* all GPUs; "mixed" is any other sum, useless whatever it is.             *)
(***************************************************************************)
Torn(c)    == [kind |-> "torn", chunk |-> c]
Partial(c) == [kind |-> "partial", chunk |-> c]
Total(c)   == [kind |-> "total", chunk |-> c]
Mixed(c)   == [kind |-> "mixed", chunk |-> c]
Empty      == [kind |-> "empty", chunk |-> 0]
Contents   == [kind : {"empty", "torn", "partial", "total", "mixed"}, chunk : Nat]
Outcome    == {"none", "ok", "bad"}

(***************************************************************************)
(* Chunks whose slot on g has been read by everything that reads it: the   *)
(* finalize kernel on Root, the collective elsewhere.                      *)
(***************************************************************************)
Released_ByReduce(g) == reduced[g]  \* mutant: freed while finalize reads it
Released_OneAhead(g) == reduced[g] + 1  \* mutant: freed while it is reduced
Released(g) == IF g = Root THEN finalized ELSE reduced[g]

(* What must hold before each stage takes its next chunk. *)
More(g) == begun[g] \in Chunks
SlotFree(g) == begun[g] < Released(g) + 2
HasStats_Begun(g) == joined[g] < begun[g]  \* mutant: no wait on chunk_ready
HasStats(g) == joined[g] < written[g]
HasTotal_Joined == reading < joined[Root]  \* mutant: no wait on the collective
HasTotal == reading < reduced[Root]

Init ==
  /\ begun     = [g \in Gpus |-> 0]
  /\ written   = [g \in Gpus |-> 0]
  /\ joined    = [g \in Gpus |-> 0]
  /\ reduced   = [g \in Gpus |-> 0]
  /\ total     = [c \in Chunks |-> "none"]
  /\ reading   = 0
  /\ finalized = 0
  /\ slot      = [g \in Gpus |-> [b \in Slots |-> Empty]]
  /\ result    = [c \in Chunks |-> "none"]

-----------------------------------------------------------------------------
(* The statistics kernel of the next chunk starts on g: its slot is free. *)
StatsBegin(g) ==
  /\ begun[g] = written[g]
  /\ More(g)
  /\ SlotFree(g)
  /\ begun' = [begun EXCEPT ![g] = @ + 1]
  /\ slot'  = [slot EXCEPT ![g][SlotOf(begun[g])] = Torn(begun[g])]
  /\ UNCHANGED <<written, joined, reduced, total, reading, finalized, result>>

StatsEnd(g) ==
  /\ written[g] < begun[g]
  /\ written' = [written EXCEPT ![g] = @ + 1]
  /\ slot'    = [slot EXCEPT ![g][SlotOf(written[g])] = Partial(written[g])]
  /\ UNCHANGED <<begun, joined, reduced, total, reading, finalized, result>>

(* g enters the collective of its next chunk, whose statistics are ready. *)
Join(g) ==
  /\ joined[g] = reduced[g]
  /\ HasStats(g)
  /\ joined' = [joined EXCEPT ![g] = @ + 1]
  /\ UNCHANGED <<begun, written, reduced, total, reading, finalized, slot, result>>

(* Every GPU is in the collective of chunk c: the contributions are summed. *)
Combine(c) ==
  /\ total[c] = "none"
  /\ \A g \in Gpus : c < joined[g]
  /\ total' = [total EXCEPT ![c] =
                 IF \A g \in Gpus : slot[g][SlotOf(c)] = Partial(c)
                 THEN "ok" ELSE "bad"]
  /\ UNCHANGED <<begun, written, joined, reduced, reading, finalized, slot, result>>

(* The collective finishes on g, at a time of its own. *)
ReduceEnd(g) ==
  LET c == reduced[g] IN
  /\ c < joined[g]
  /\ total[c] # "none"
  /\ reduced' = [reduced EXCEPT ![g] = @ + 1]
  /\ slot'    = [slot EXCEPT ![g][SlotOf(c)] =
                   IF total[c] = "ok" THEN Total(c) ELSE Mixed(c)]
  /\ UNCHANGED <<begun, written, joined, total, reading, finalized, result>>

(* GPU 0 starts to finalize the next chunk, whose collective has finished. *)
FinalizeBegin ==
  /\ reading = finalized
  /\ HasTotal
  /\ reading' = reading + 1
  /\ UNCHANGED <<begun, written, joined, reduced, total, finalized, slot, result>>

(***************************************************************************)
(* A slot rewritten at any time during the read no longer holds the total  *)
(* of chunk c here: its chunk differs.                                     *)
(***************************************************************************)
FinalizeEnd ==
  LET c == finalized IN
  /\ c < reading
  /\ finalized' = finalized + 1
  /\ result'    = [result EXCEPT ![c] =
                     IF slot[Root][SlotOf(c)] = Total(c) THEN "ok" ELSE "bad"]
  /\ UNCHANGED <<begun, written, joined, reduced, total, reading, slot>>

Next ==
  \/ \E g \in Gpus : StatsBegin(g) \/ StatsEnd(g) \/ Join(g) \/ ReduceEnd(g)
  \/ \E c \in Chunks : Combine(c)
  \/ FinalizeBegin
  \/ FinalizeEnd

Spec == Init /\ [][Next]_vars

-----------------------------------------------------------------------------
TypeOK ==
  /\ begun   \in [Gpus -> Count]
  /\ written \in [Gpus -> Count]
  /\ joined  \in [Gpus -> Count]
  /\ reduced \in [Gpus -> Count]
  /\ total   \in [Chunks -> Outcome]
  /\ reading \in Count
  /\ finalized \in Count
  /\ slot    \in [Gpus -> [Slots -> Contents]]
  /\ result  \in [Chunks -> Outcome]

(***************************************************************************)
(* The accesses to g's buffer that are under way, as the chunk each works  *)
(* on.                                                                     *)
(***************************************************************************)
Computing(g)  == written[g] < begun[g]
Reducing(g)   == reduced[g] < joined[g]
Finalizing(g) == g = Root /\ finalized < reading

(***************************************************************************)
(* No two of the statistics kernel, the collective and the finalize kernel *)
(* are ever in the same slot of one GPU at once (the race the async loop   *)
(* of nccl_main.cu orders away with its events).                           *)
(***************************************************************************)
NoSlotRace ==
  \A g \in Gpus :
    /\ Computing(g) /\ Reducing(g) => SlotOf(written[g]) # SlotOf(reduced[g])
    /\ Computing(g) /\ Finalizing(g) => SlotOf(written[g]) # SlotOf(finalized)
    /\ Reducing(g) /\ Finalizing(g) => SlotOf(reduced[g]) # SlotOf(finalized)

(***************************************************************************)
(* Each finalized chunk was computed from the complete statistics of that  *)
(* chunk, and once all are finalized there is a similarity for every one.  *)
(***************************************************************************)
ResultsCorrect ==
  /\ \A c \in Chunks : c < finalized => result[c] = "ok"
  /\ \A c \in Chunks : finalized <= c => result[c] = "none"

(* No collective ever sums statistics that belong to different chunks. *)
CollectivesMatch == \A c \in Chunks : total[c] # "bad"

-----------------------------------------------------------------------------
(***************************************************************************)
(* The inductive invariant.  StageOrder relates the counters: a chunk enters a  *)
(* stage after it left the one before, and the statistics kernel is never  *)
(* more than two chunks ahead of the release.  Fresh says what each slot   *)
(* holds for the last two chunks started, which is all a slot can hold.    *)
(***************************************************************************)
StageOrder ==
  /\ \A g \in Gpus :
       /\ reduced[g] <= joined[g] /\ joined[g] <= reduced[g] + 1
       /\ joined[g] <= written[g]
       /\ written[g] <= begun[g] /\ begun[g] <= written[g] + 1
       /\ begun[g] <= reduced[g] + 2
       /\ begun[g] <= NChunks
  /\ begun[Root] <= finalized + 2
  /\ finalized <= reading /\ reading <= finalized + 1
  /\ reading <= reduced[Root]

Summed ==
  \A c \in Chunks :
    /\ \A g \in Gpus : c < reduced[g] => total[c] = "ok"
    /\ total[c] # "none" => \A g \in Gpus : c < joined[g]

Fresh ==
  \A g \in Gpus : \A c \in Chunks :
    c < begun[g] /\ begun[g] <= c + 2 =>
      slot[g][SlotOf(c)] = IF written[g] <= c THEN Torn(c)
                           ELSE IF reduced[g] <= c THEN Partial(c)
                           ELSE Total(c)

IInv == TypeOK /\ StageOrder /\ Summed /\ Fresh /\ CollectivesMatch /\ ResultsCorrect
=============================================================================
