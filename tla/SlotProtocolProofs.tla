------------------------- MODULE SlotProtocolProofs -------------------------
(***************************************************************************)
(* Proofs about SlotProtocol for every set of GPUs and every number of     *)
(* chunks.                                                                 *)
(***************************************************************************)
EXTENDS SlotProtocol, Integers, TLAPS

(* Chunks that share a slot are at least two apart. *)
LEMMA SlotApart ==
  ASSUME NEW c \in Nat, NEW d \in Nat, c < d, d < c + 2
  PROVE  SlotOf(c) # SlotOf(d)
BY DEF SlotOf

(* Every chunk has one of the two slots. *)
LEMMA SlotType == \A c \in Nat : SlotOf(c) \in Slots
BY DEF SlotOf, Slots

LEMMA ContentsType ==
  \A c \in Nat : /\ Torn(c) \in Contents /\ Partial(c) \in Contents
                 /\ Total(c) \in Contents /\ Mixed(c) \in Contents
                 /\ Empty \in Contents
BY DEF Torn, Partial, Total, Mixed, Empty, Contents

(* The variables always have their types. *)
THEOREM TypeCorrect == Spec => []TypeOK
<1>1. Init => TypeOK
  BY ContentsType, ChunksAssumption DEF Init, TypeOK, Count, Outcome, Empty, Contents
<1>2. TypeOK /\ [Next]_vars => TypeOK'
  <2> SUFFICES ASSUME TypeOK, [Next]_vars PROVE TypeOK'
    OBVIOUS
  <2> USE DEF TypeOK
  <2>1. ASSUME NEW g \in Gpus, StatsBegin(g) PROVE TypeOK'
    <3>1. begun[g] + 1 \in Count /\ begun[g] \in Nat
      BY <2>1, ChunksAssumption DEF StatsBegin, More, SlotFree, Count, Chunks
    <3> QED BY <2>1, <3>1, ContentsType, SlotType DEF StatsBegin, More, SlotFree
  <2>2. ASSUME NEW g \in Gpus, StatsEnd(g) PROVE TypeOK'
    <3>1. written[g] + 1 \in Count /\ written[g] \in Nat
      BY <2>2, ChunksAssumption DEF StatsEnd, Count
    <3> QED BY <2>2, <3>1, ContentsType, SlotType DEF StatsEnd
  <2>3. ASSUME NEW g \in Gpus, Join(g) PROVE TypeOK'
    <3>1. joined[g] + 1 \in Count
      BY <2>3, ChunksAssumption DEF Join, HasStats, Count
    <3> QED BY <2>3, <3>1 DEF Join, HasStats
  <2>4. ASSUME NEW g \in Gpus, ReduceEnd(g) PROVE TypeOK'
    <3>1. reduced[g] + 1 \in Count /\ reduced[g] \in Nat
      BY <2>4, ChunksAssumption DEF ReduceEnd, Count
    <3> QED BY <2>4, <3>1, ContentsType, SlotType DEF ReduceEnd
  <2>5. ASSUME NEW c \in Chunks, Combine(c) PROVE TypeOK'
    BY <2>5 DEF Combine, Outcome
  <2>6. CASE FinalizeBegin
    <3>1. reading + 1 \in Count
      BY <2>6, ChunksAssumption, GpusAssumption DEF FinalizeBegin, HasTotal, Count
    <3> QED BY <2>6, <3>1 DEF FinalizeBegin, HasTotal
  <2>7. CASE FinalizeEnd
    <3>1. finalized + 1 \in Count
      BY <2>7, ChunksAssumption DEF FinalizeEnd, Count
    <3>2. PICK r \in Outcome : result' = [result EXCEPT ![finalized] = r]
      BY <2>7 DEF FinalizeEnd, Outcome
    <3>3. result' \in [Chunks -> Outcome]
      BY <3>2
    <3> QED BY <2>7, <3>1, <3>3 DEF FinalizeEnd
  <2>8. CASE UNCHANGED vars
    BY <2>8 DEF vars
  <2> QED BY <2>1, <2>2, <2>3, <2>4, <2>5, <2>6, <2>7, <2>8 DEF Next
<1> QED BY <1>1, <1>2, PTL DEF Spec

(* Chunks near each other share a slot only if they are the same chunk. *)
LEMMA SlotNear ==
  ASSUME NEW c \in Nat, NEW d \in Nat, c < d + 2, d < c + 2, SlotOf(c) = SlotOf(d)
  PROVE  c = d
BY SlotApart

-----------------------------------------------------------------------------
(***************************************************************************)
(* IInv is inductive.  Each action is a lemma: under IInv, the parts of    *)
(* the invariant it can disturb hold after it.                             *)
(***************************************************************************)
LEMMA StatsBeginIInv ==
  ASSUME IInv, TypeOK', NEW g \in Gpus, StatsBegin(g)
  PROVE  IInv'
<1> USE GpusAssumption, ChunksAssumption
<1> DEFINE k == begun[g]
<1>1. StageOrder'
  <2>1. /\ k \in Nat /\ k + 1 <= NChunks
        /\ k + 1 <= reduced[g] + 2
        /\ g = Root => k + 1 <= finalized + 2
    <3>1. k \in Nat /\ k + 1 <= NChunks
      BY DEF StatsBegin, More, Chunks
    <3>2. CASE g = Root
      <4>1. k < finalized + 2 /\ finalized <= reduced[Root]
        BY <3>2 DEF IInv, TypeOK, Count, StageOrder, StatsBegin, SlotFree, Released
      <4> QED BY <3>1, <3>2, <4>1 DEF IInv, TypeOK, Count
    <3>3. CASE g # Root
      BY <3>1, <3>3 DEF IInv, TypeOK, Count, StatsBegin, SlotFree, Released
    <3> QED BY <3>1, <3>2, <3>3
  <2>2. begun' = [begun EXCEPT ![g] = k + 1]
    BY DEF StatsBegin, More, SlotFree
  <2> QED BY <2>1, <2>2 DEF IInv, TypeOK, Count, StageOrder, StatsBegin, More, SlotFree
<1>2. Fresh'
  <2> SUFFICES ASSUME NEW h \in Gpus, NEW c \in Chunks,
                      c < begun'[h], begun'[h] <= c + 2
               PROVE  slot'[h][SlotOf(c)] = IF written[h] <= c THEN Torn(c)
                                            ELSE IF reduced[h] <= c THEN Partial(c)
                                            ELSE Total(c)
    BY DEF Fresh, StatsBegin, More, SlotFree
  <2>1. CASE h = g /\ c = k
    <3>1. slot'[h][SlotOf(c)] = Torn(c)
      BY <2>1, SlotType DEF IInv, TypeOK, Count, StatsBegin, More, SlotFree, Chunks
    <3>2. written[h] <= c
      BY <2>1 DEF IInv, TypeOK, Count, StageOrder
    <3> QED BY <3>1, <3>2
  <2>2. CASE h = g /\ c # k
    <3>1. c < k /\ k <= c + 1 /\ k \in Nat /\ c \in Nat
      BY <2>2 DEF IInv, TypeOK, Count, StatsBegin, More, SlotFree, Chunks
    <3>2. SlotOf(c) # SlotOf(k)
      BY <3>1, SlotApart
    <3>3. slot'[h][SlotOf(c)] = slot[h][SlotOf(c)]
      BY <2>2, <3>1, <3>2, SlotType DEF IInv, TypeOK, Count, StatsBegin, More, SlotFree
    <3> QED BY <2>2, <3>1, <3>3 DEF IInv, Fresh
  <2>3. CASE h # g
    BY <2>3 DEF IInv, TypeOK, Count, Fresh, StatsBegin, More, SlotFree
  <2> QED BY <2>1, <2>2, <2>3
<1> QED BY <1>1, <1>2 DEF IInv, StatsBegin, More, SlotFree, Summed, CollectivesMatch, ResultsCorrect

LEMMA StatsEndIInv ==
  ASSUME IInv, TypeOK', NEW g \in Gpus, StatsEnd(g)
  PROVE  IInv'
<1> USE GpusAssumption, ChunksAssumption
<1> DEFINE k == written[g]
<1>1. StageOrder'
  BY DEF IInv, TypeOK, Count, StageOrder, StatsEnd
<1>2. k \in Nat /\ begun[g] = k + 1 /\ reduced[g] <= k
  BY DEF IInv, TypeOK, Count, StageOrder, StatsEnd
<1>3. Fresh'
  <2> SUFFICES ASSUME NEW h \in Gpus, NEW c \in Chunks,
                      c < begun[h], begun[h] <= c + 2
               PROVE  slot'[h][SlotOf(c)] = IF written'[h] <= c THEN Torn(c)
                                            ELSE IF reduced[h] <= c THEN Partial(c)
                                            ELSE Total(c)
    BY DEF Fresh, StatsEnd
  <2>1. CASE h = g /\ c = k
    <3>1. slot'[h][SlotOf(c)] = Partial(c)
      BY <1>2, <2>1, SlotType DEF IInv, TypeOK, Count, StatsEnd
    <3>2. ~(written'[h] <= c)
      BY <1>2, <2>1 DEF IInv, TypeOK, Count, StatsEnd
    <3> QED BY <1>2, <2>1, <3>1, <3>2
  <2>2. CASE h = g /\ c # k
    <3>1. c \in Nat /\ c < k /\ k <= c + 1
      BY <1>2, <2>2 DEF Chunks
    <3>2. SlotOf(c) # SlotOf(k)
      BY <1>2, <3>1, SlotApart
    <3>3. slot'[h][SlotOf(c)] = slot[h][SlotOf(c)]
      BY <1>2, <2>2, <3>1, <3>2, SlotType DEF IInv, TypeOK, Count, StatsEnd
    <3>4. ~(written[h] <= c) /\ ~(written'[h] <= c)
      BY <1>2, <2>2, <3>1 DEF IInv, TypeOK, Count, StatsEnd
    <3> QED BY <2>2, <3>3, <3>4 DEF IInv, Fresh
  <2>3. CASE h # g
    BY <2>3 DEF IInv, TypeOK, Count, Fresh, StatsEnd
  <2> QED BY <2>1, <2>2, <2>3
<1> QED BY <1>1, <1>3 DEF IInv, StatsEnd, Summed, CollectivesMatch, ResultsCorrect

LEMMA JoinIInv ==
  ASSUME IInv, TypeOK', NEW g \in Gpus, Join(g)
  PROVE  IInv'
<1> USE GpusAssumption, ChunksAssumption
<1>1. StageOrder'
  BY DEF IInv, TypeOK, Count, StageOrder, Join, HasStats
<1>2. Summed'
  <2>1. \A h \in Gpus : joined[h] <= joined'[h]
    BY DEF IInv, TypeOK, Count, Join, HasStats
  <2>2. \A h \in Gpus : joined[h] \in Nat /\ joined'[h] \in Nat
    BY DEF IInv, TypeOK, Count
  <2>3. \A c \in Chunks : c \in Int
    BY DEF Chunks
  <2>4. \A c \in Chunks, h \in Gpus : c < joined[h] => c < joined'[h]
    BY <2>1, <2>2, <2>3
  <2> QED BY <2>4 DEF IInv, Summed, Join, HasStats
<1> QED BY <1>1, <1>2 DEF IInv, Join, HasStats, Fresh, CollectivesMatch, ResultsCorrect

(***************************************************************************)
(* The collective of c is every GPU's current one: no GPU has finished it, *)
(* and none can have started refilling the slot.                           *)
(***************************************************************************)
LEMMA CombineIInv ==
  ASSUME IInv, TypeOK', NEW c \in Chunks, Combine(c)
  PROVE  IInv'
<1> USE GpusAssumption, ChunksAssumption
<1>1. \A g \in Gpus : slot[g][SlotOf(c)] = Partial(c)
  <2> TAKE g \in Gpus
  <2>1. ~(c < reduced[g])
    BY DEF IInv, Summed, Combine
  <2>2. c \in Nat /\ c < joined[g] /\ reduced[g] \in Nat /\ reduced[g] <= c
    BY <2>1 DEF IInv, TypeOK, Count, Combine, Chunks
  <2>3. c < written[g] /\ c < begun[g] /\ begun[g] <= c + 2
    BY <2>2 DEF IInv, TypeOK, Count, StageOrder
  <2>4. ~(written[g] <= c)
    BY <2>2, <2>3 DEF IInv, TypeOK, Count
  <2> QED BY <2>2, <2>3, <2>4 DEF IInv, Fresh
<1>2. total' = [total EXCEPT ![c] = "ok"]
  BY <1>1 DEF Combine
<1>3. Summed'
  BY <1>2 DEF IInv, TypeOK, Count, Summed, Combine
<1>4. CollectivesMatch'
  BY <1>2 DEF IInv, TypeOK, Count, CollectivesMatch
<1> QED BY <1>3, <1>4 DEF IInv, Combine, StageOrder, Fresh, ResultsCorrect

LEMMA ReduceEndIInv ==
  ASSUME IInv, TypeOK', NEW g \in Gpus, ReduceEnd(g)
  PROVE  IInv'
<1> USE GpusAssumption, ChunksAssumption
<1> DEFINE k == reduced[g]
<1>1. StageOrder'
  BY DEF IInv, TypeOK, Count, StageOrder, ReduceEnd
<1>2. /\ k \in Nat /\ k < written[g] /\ begun[g] <= k + 2 /\ k \in Chunks
      /\ written[g] <= begun[g] /\ written[g] \in Nat /\ begun[g] \in Nat
  <2>1. k < joined[g] /\ k \in Nat /\ joined[g] \in Nat /\ written[g] \in Nat /\ begun[g] \in Nat
    BY DEF IInv, TypeOK, Count, ReduceEnd
  <2>2. /\ joined[g] <= written[g] /\ written[g] <= begun[g]
        /\ begun[g] <= k + 2 /\ begun[g] <= NChunks
    BY DEF IInv, StageOrder
  <2> QED BY <2>1, <2>2 DEF Chunks
<1>3. total[k] = "ok"
  BY <1>2 DEF IInv, TypeOK, Count, CollectivesMatch, ReduceEnd, Outcome
<1>4. slot' = [slot EXCEPT ![g][SlotOf(k)] = Total(k)]
  BY <1>3 DEF ReduceEnd
<1>5. Summed'
  <2>1. \A c \in Chunks, h \in Gpus : c < reduced'[h] => c < reduced[h] \/ c = k
    BY <1>2 DEF IInv, TypeOK, Count, ReduceEnd, Chunks
  <2> QED BY <1>3, <2>1 DEF IInv, Summed, ReduceEnd
<1>6. Fresh'
  <2> SUFFICES ASSUME NEW h \in Gpus, NEW c \in Chunks,
                      c < begun[h], begun[h] <= c + 2
               PROVE  slot'[h][SlotOf(c)] = IF written[h] <= c THEN Torn(c)
                                            ELSE IF reduced'[h] <= c THEN Partial(c)
                                            ELSE Total(c)
    BY DEF Fresh, ReduceEnd
  <2>1. CASE h = g /\ c = k
    <3>1. slot'[h][SlotOf(c)] = Total(c)
      BY <1>2, <1>4, <2>1, SlotType DEF IInv, TypeOK, Count
    <3>2. ~(written[h] <= c) /\ ~(reduced'[h] <= c)
      BY <1>2, <2>1 DEF IInv, TypeOK, Count, ReduceEnd
    <3> QED BY <3>1, <3>2
  <2>2. CASE h = g /\ c # k
    <3>1. c \in Nat /\ c < k + 2 /\ k < c + 2
      BY <1>2, <2>2 DEF Chunks
    <3>2. SlotOf(c) # SlotOf(k)
      BY <1>2, <2>2, <3>1, SlotNear
    <3>3. slot'[h][SlotOf(c)] = slot[h][SlotOf(c)]
      BY <1>2, <1>4, <2>2, <3>1, <3>2, SlotType DEF IInv, TypeOK, Count
    <3>4. (reduced'[h] <= c) <=> (reduced[h] <= c)
      <4>1. reduced'[h] = k + 1 /\ reduced[h] = k /\ c # k
        BY <2>2 DEF IInv, TypeOK, Count, ReduceEnd
      <4> QED BY <1>2, <3>1, <4>1
    <3> QED BY <2>2, <3>3, <3>4 DEF IInv, Fresh
  <2>3. CASE h # g
    BY <2>3 DEF IInv, TypeOK, Count, Fresh, ReduceEnd
  <2> QED BY <2>1, <2>2, <2>3
<1> QED BY <1>1, <1>5, <1>6 DEF IInv, ReduceEnd, CollectivesMatch, ResultsCorrect

LEMMA FinalizeBeginIInv ==
  ASSUME IInv, TypeOK', FinalizeBegin
  PROVE  IInv'
<1>1. StageOrder'
  BY GpusAssumption, ChunksAssumption DEF IInv, TypeOK, Count, StageOrder, FinalizeBegin, HasTotal
<1> QED BY <1>1 DEF IInv, FinalizeBegin, HasTotal, Summed, Fresh, CollectivesMatch, ResultsCorrect

LEMMA FinalizeEndIInv ==
  ASSUME IInv, TypeOK', FinalizeEnd
  PROVE  IInv'
<1> USE GpusAssumption, ChunksAssumption
<1> DEFINE k == finalized
<1>1. StageOrder'
  BY DEF IInv, TypeOK, Count, StageOrder, FinalizeEnd
<1>2. /\ k \in Chunks /\ k < begun[Root] /\ begun[Root] <= k + 2
      /\ ~(written[Root] <= k) /\ ~(reduced[Root] <= k)
  BY DEF IInv, TypeOK, Count, StageOrder, FinalizeEnd, Chunks
<1>3. slot[Root][SlotOf(k)] = Total(k)
  BY <1>2 DEF IInv, Fresh
<1>4. result' = [result EXCEPT ![k] = "ok"]
  BY <1>3 DEF FinalizeEnd
<1>5. ResultsCorrect'
  BY <1>2, <1>4 DEF IInv, TypeOK, Count, ResultsCorrect, FinalizeEnd, Chunks
<1> QED BY <1>1, <1>5 DEF IInv, FinalizeEnd, Summed, Fresh, CollectivesMatch

(* The invariant holds in every reachable state. *)
THEOREM Invariance == Spec => []IInv
<1>1. Init => IInv
  <2> SUFFICES ASSUME Init PROVE IInv
    OBVIOUS
  <2>1. TypeOK
    BY ContentsType, ChunksAssumption DEF Init, TypeOK, Count, Outcome, Empty, Contents
  <2>2. StageOrder /\ Summed /\ Fresh /\ CollectivesMatch /\ ResultsCorrect
    BY GpusAssumption, ChunksAssumption
    DEF Init, StageOrder, Summed, Fresh, CollectivesMatch, ResultsCorrect, Chunks
  <2> QED BY <2>1, <2>2 DEF IInv
<1>2. IInv /\ TypeOK' /\ [Next]_vars => IInv'
  <2> SUFFICES ASSUME IInv, TypeOK', [Next]_vars PROVE IInv'
    OBVIOUS
  <2>1. CASE \E g \in Gpus : StatsBegin(g) \/ StatsEnd(g) \/ Join(g) \/ ReduceEnd(g)
    BY <2>1, StatsBeginIInv, StatsEndIInv, JoinIInv, ReduceEndIInv
  <2>2. CASE \E c \in Chunks : Combine(c)
    BY <2>2, CombineIInv
  <2>3. CASE FinalizeBegin \/ FinalizeEnd
    BY <2>3, FinalizeBeginIInv, FinalizeEndIInv
  <2>4. CASE UNCHANGED vars
    BY <2>4 DEF vars, IInv, TypeOK, Count, StageOrder, Summed, Fresh, CollectivesMatch, ResultsCorrect
  <2> QED BY <2>1, <2>2, <2>3, <2>4 DEF Next
<1> QED BY <1>1, <1>2, TypeCorrect, PTL DEF Spec

(***************************************************************************)
(* Whatever the number of GPUs and chunks, no two of the statistics        *)
(* kernel, the collective and the finalize kernel are in one slot at once. *)
(***************************************************************************)
THEOREM RaceFreedom == Spec => []NoSlotRace
<1>1. IInv => NoSlotRace
  <2> SUFFICES ASSUME IInv, NEW g \in Gpus
               PROVE
                 /\ Computing(g) /\ Reducing(g) => SlotOf(written[g]) # SlotOf(reduced[g])
                 /\ Computing(g) /\ Finalizing(g) => SlotOf(written[g]) # SlotOf(finalized)
                 /\ Reducing(g) /\ Finalizing(g) => SlotOf(reduced[g]) # SlotOf(finalized)
    BY DEF NoSlotRace
  <2> USE GpusAssumption DEF IInv, TypeOK, Count, StageOrder
  <2>1. Computing(g) /\ Reducing(g) => reduced[g] < written[g] /\ written[g] < reduced[g] + 2
    BY DEF Computing, Reducing
  <2>2. Computing(g) /\ Finalizing(g) => finalized < written[g] /\ written[g] < finalized + 2
    BY DEF Computing, Finalizing
  <2>3. Reducing(g) /\ Finalizing(g) => finalized < reduced[g] /\ reduced[g] < finalized + 2
    BY DEF Reducing, Finalizing
  <2> QED BY <2>1, <2>2, <2>3, SlotApart
<1> QED BY <1>1, Invariance, PTL

(***************************************************************************)
(* Every similarity finalized came from the complete statistics of its own *)
(* chunk.                                                                  *)
(***************************************************************************)
THEOREM Correctness == Spec => []ResultsCorrect
<1>1. IInv => ResultsCorrect
  BY DEF IInv
<1> QED BY <1>1, Invariance, PTL

(* No collective sums statistics of different chunks. *)
THEOREM CollectiveAgreement == Spec => []CollectivesMatch
<1>1. IInv => CollectivesMatch
  BY DEF IInv
<1> QED BY <1>1, Invariance, PTL
=============================================================================
