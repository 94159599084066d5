---------------------------- MODULE AsyncPipeline ----------------------------
(***************************************************************************)
(* The asynchronous mode of nccl_main.cu: one host thread that issues the  *)
(* whole batch chunk by chunk, and per GPU a compute and a communication   *)
(* stream (and, on GPU 0, a finalize stream) that execute what was issued  *)
(* in FIFO order and are ordered against each other by events only.        *)
(*                                                                         *)
(* Issuing never blocks, so the host may be any number of chunks ahead of  *)
(* the GPUs; it blocks only in the final synchronize.  A kernel or a       *)
(* collective is two steps, its beginning and its end.                     *)
(*                                                                         *)
(* Streams, events and the collective are CUDA's and NCCL's: a stream is a *)
(* FIFO; cudaStreamWaitEvent waits for the record that was the event's     *)
(* latest when the wait was issued (none: no wait); a grouped AllReduce is *)
(* enqueued by ncclGroupEnd, sums once every rank is in it, and finishes   *)
(* on each rank at a time of its own.                                      *)
(***************************************************************************)
EXTENDS Integers, Sequences, FiniteSets

CONSTANTS NGpus,   \* n_gpus: the devices, 0 is the one that finalizes
          NPairs,  \* n_pairs
          Chunk,   \* --chunk: pairs per chunk
          Order    \* order[i]: the global pair in position i of the batch

Gpus  == 0 .. NGpus - 1
Root  == 0
Pairs == 0 .. NPairs - 1

ASSUME SizeAssumption ==
  /\ NGpus \in Nat \ {0}
  /\ NPairs \in Nat
  /\ Chunk \in Nat \ {0}
ASSUME OrderAssumption ==
  /\ Order \in [Pairs -> Pairs]
  /\ \A p \in Pairs : \E i \in Pairs : Order[i] = p

VARIABLES separate,  \* --finalize-stream separate
          pc,        \* where the host is in the chunk loop
          chunk,     \* c, the chunk being issued
          dev,       \* g, in the loops over the devices
          failed,    \* a CUDA or NCCL call has thrown
          queue,     \* queue[s]: what is issued to stream s and not finished
          active,    \* active[s]: the head of queue[s] has begun
          recorded,  \* recorded[e]: records of event e issued
          fired,     \* fired[e]: records of event e executed
          total,     \* total[c]: what the AllReduce of chunk c summed
          slot,      \* slot[g][b]: the contents of d.stats, half b
          sims       \* sims[p]: the similarity written for pair p

hostVars   == <<pc, chunk, dev, failed>>
deviceVars == <<queue, active, recorded, fired, total, slot, sims>>
vars == <<separate, hostVars, deviceVars>>

-----------------------------------------------------------------------------
NChunks == (NPairs + Chunk - 1) \div Chunk
Chunks  == 0 .. NChunks - 1
Slots   == 0 .. 1
SlotOf(c) == c % 2

(* The global pairs of chunk c, scattered through order. *)
Min2(a, b) == IF a < b THEN a ELSE b
PairsOf(c) ==
  LET base == c * Chunk
      len  == Min2(Chunk, NPairs - base)
  IN  {Order[i] : i \in base .. base + len - 1}

(* The devices' streams; fin is GPU 0's own, created but unused under comm. *)
Streams == (Gpus \X {"compute", "comm"}) \cup {<<Root, "fin">>}
Compute(g) == <<g, "compute">>
Comm(g)    == <<g, "comm">>
Fin        == <<Root, "fin">>
FinalizeStream == IF separate THEN Fin ELSE Comm(Root)

Events == [gpu : Gpus, kind : {"ready", "allreduced", "reduced"}, slot : Slots]
Event(g, k, b) == [gpu |-> g, kind |-> k, slot |-> b]

Work(k, c)   == [op |-> k, chunk |-> c]
Wait(e, n)   == [op |-> "wait", event |-> e, count |-> n]
Record(e, n) == [op |-> "record", event |-> e, count |-> n]
Ops == [op : {"stats", "allreduce", "finalize"}, chunk : Chunks]
       \cup [op : {"wait", "record"}, event : Events, count : Nat]

Empty    == [kind |-> "empty", chunk |-> 0]
Torn(c)    == [kind |-> "torn", chunk |-> c]
Partial(c) == [kind |-> "partial", chunk |-> c]
Total(c)   == [kind |-> "total", chunk |-> c]
Mixed(c)   == [kind |-> "mixed", chunk |-> c]
Contents == [kind : {"empty", "torn", "partial", "total", "mixed"}, chunk : {0} \cup Chunks]
Outcome  == {"none", "ok", "bad"}

Init ==
  /\ separate \in BOOLEAN
  /\ pc       = IF NChunks = 0 THEN "sync" ELSE "device"
  /\ chunk    = 0
  /\ dev      = 0
  /\ failed   = FALSE
  /\ queue    = [s \in Streams |-> <<>>]
  /\ active   = [s \in Streams |-> FALSE]
  /\ recorded = [e \in Events |-> 0]
  /\ fired    = [e \in Events |-> 0]
  /\ total    = [c \in Chunks |-> "none"]
  /\ slot     = [g \in Gpus |-> [b \in Slots |-> Empty]]
  /\ sims     = [p \in Pairs |-> "none"]

-----------------------------------------------------------------------------
(* The host.  Each action is one stretch of issuing for the current chunk. *)
Running(p) == pc = p /\ ~failed

NextDevice(after) ==
  IF dev + 1 < NGpus THEN dev' = dev + 1 /\ pc' = pc
                     ELSE dev' = 0 /\ pc' = after

(***************************************************************************)
(* The ordering points: the wait in front of a statistics kernel that      *)
(* reuses its slot, the stream finalize runs on, and the stream on which   *)
(* the slot of g is declared free again.                                   *)
(***************************************************************************)
ReuseWait_None(g, c) == <<>>  \* mutant: no wait on chunk_reduced
ReuseWait(g, c) ==
  LET e == Event(g, "reduced", SlotOf(c))
  IN  IF c >= 2 THEN <<Wait(e, recorded[e])>> ELSE <<>>

ReleaseStream_Comm(g) == Comm(g)  \* mutant: free before finalize has read the slot
ReleaseStream(g) == IF g = Root THEN FinalizeStream ELSE Comm(g)

(***************************************************************************)
(* One device's part of the group: the statistics kernel behind the        *)
(* release of the slot two chunks ago, and the communication stream behind *)
(* the kernel.  The AllReduce itself is only enqueued at the group's end.  *)
(***************************************************************************)
IssueStats ==
  LET ready == Event(dev, "ready", SlotOf(chunk))
      n     == recorded[ready] + 1
  IN
  /\ Running("device")
  /\ queue' = [queue EXCEPT
       ![Compute(dev)] = @ \o ReuseWait(dev, chunk)
                           \o <<Work("stats", chunk), Record(ready, n)>>,
       ![Comm(dev)] = Append(@, Wait(ready, n))]
  /\ recorded' = [recorded EXCEPT ![ready] = n]
  /\ NextDevice("group")
  /\ UNCHANGED <<separate, chunk, failed, active, fired, total, slot, sims>>

Grouped_AllButLast == {Comm(g) : g \in 0 .. NGpus - 2}  \* mutant
Grouped == {Comm(g) : g \in Gpus}

GroupEnd ==
  /\ Running("group")
  /\ queue' = [s \in Streams |-> IF s \in Grouped
                                 THEN Append(queue[s], Work("allreduce", chunk))
                                 ELSE queue[s]]
  /\ pc' = "finalize"
  /\ UNCHANGED <<separate, chunk, dev, failed, active, recorded, fired, total, slot, sims>>

(* GPU 0's finalize: on its own stream behind an event, or on comm. *)
IssueFinalize ==
  LET done == Event(Root, "allreduced", SlotOf(chunk))
      n    == recorded[done] + 1
  IN
  /\ Running("finalize")
  /\ IF separate
     THEN /\ queue' = [queue EXCEPT
                ![Comm(Root)] = Append(@, Record(done, n)),
                ![Fin] = @ \o <<Wait(done, n), Work("finalize", chunk)>>]
          /\ recorded' = [recorded EXCEPT ![done] = n]
     ELSE /\ queue' = [queue EXCEPT ![Comm(Root)] = Append(@, Work("finalize", chunk))]
          /\ UNCHANGED recorded
  /\ pc' = "release"
  /\ UNCHANGED <<separate, chunk, dev, failed, active, fired, total, slot, sims>>

MoreChunks == chunk + 1 < NChunks

(* chunk_reduced, recorded behind the last reader of the slot. *)
IssueRelease ==
  LET e == Event(dev, "reduced", SlotOf(chunk))
      n == recorded[e] + 1
  IN
  /\ Running("release")
  /\ queue'    = [queue EXCEPT ![ReleaseStream(dev)] = Append(@, Record(e, n))]
  /\ recorded' = [recorded EXCEPT ![e] = n]
  /\ NextDevice(IF MoreChunks THEN "device" ELSE "sync")
  /\ chunk' = IF dev + 1 = NGpus THEN chunk + 1 ELSE chunk
  /\ UNCHANGED <<separate, failed, active, fired, total, slot, sims>>

(* The final synchronize returns for one device: all its streams are idle. *)
Synced_ComputeOnly(g) == queue[Compute(g)] = <<>>  \* mutant
Synced(g) == \A s \in Streams : s[1] = g => queue[s] = <<>>

Synchronize ==
  /\ Running("sync")
  /\ Synced(dev)
  /\ NextDevice("done")
  /\ UNCHANGED <<separate, chunk, failed, deviceVars>>

(* CUDA_CHECK or NCCL_CHECK throws: the boundary in main ends the process. *)
HostFail ==
  /\ pc # "done"
  /\ ~failed
  /\ failed' = TRUE
  /\ UNCHANGED <<separate, pc, chunk, dev, deviceVars>>

Host == IssueStats \/ GroupEnd \/ IssueFinalize \/ IssueRelease \/ Synchronize

-----------------------------------------------------------------------------
(* The streams. *)
Next1(s, k) == queue[s] # <<>> /\ Head(queue[s]).op = k
Idle(s, k)  == Next1(s, k) /\ ~active[s]
Busy(s, k)  == Next1(s, k) /\ active[s]

PassWait(s) ==
  /\ Idle(s, "wait")
  /\ fired[Head(queue[s]).event] >= Head(queue[s]).count
  /\ queue' = [queue EXCEPT ![s] = Tail(@)]
  /\ UNCHANGED <<separate, hostVars, active, recorded, fired, total, slot, sims>>

FireRecord(s) ==
  /\ Idle(s, "record")
  /\ fired' = [fired EXCEPT ![Head(queue[s]).event] = Head(queue[s]).count]
  /\ queue' = [queue EXCEPT ![s] = Tail(@)]
  /\ UNCHANGED <<separate, hostVars, active, recorded, total, slot, sims>>

Begin(s) == active' = [active EXCEPT ![s] = TRUE] /\ UNCHANGED queue
End(s)   == /\ active' = [active EXCEPT ![s] = FALSE]
            /\ queue'  = [queue EXCEPT ![s] = Tail(@)]

(* The statistics kernel; until it ends the slot holds neither chunk. *)
StatsBegin(g) ==
  LET c == Head(queue[Compute(g)]).chunk IN
  /\ Idle(Compute(g), "stats")
  /\ Begin(Compute(g))
  /\ slot' = [slot EXCEPT ![g][SlotOf(c)] = Torn(c)]
  /\ UNCHANGED <<separate, hostVars, recorded, fired, total, sims>>

StatsEnd(g) ==
  LET c == Head(queue[Compute(g)]).chunk IN
  /\ Busy(Compute(g), "stats")
  /\ End(Compute(g))
  /\ slot' = [slot EXCEPT ![g][SlotOf(c)] = Partial(c)]
  /\ UNCHANGED <<separate, hostVars, recorded, fired, total, sims>>

(* The in-place AllReduce: each rank enters, all are summed, each leaves. *)
Join(g) ==
  /\ Idle(Comm(g), "allreduce")
  /\ Begin(Comm(g))
  /\ UNCHANGED <<separate, hostVars, recorded, fired, total, slot, sims>>

Combine(c) ==
  /\ total[c] = "none"
  /\ \A g \in Gpus : Busy(Comm(g), "allreduce") /\ Head(queue[Comm(g)]).chunk = c
  /\ total' = [total EXCEPT ![c] =
                 IF \A g \in Gpus : slot[g][SlotOf(c)] = Partial(c) THEN "ok" ELSE "bad"]
  /\ UNCHANGED <<separate, hostVars, queue, active, recorded, fired, slot, sims>>

ReduceEnd(g) ==
  LET c == Head(queue[Comm(g)]).chunk IN
  /\ Busy(Comm(g), "allreduce")
  /\ total[c] # "none"
  /\ End(Comm(g))
  /\ slot' = [slot EXCEPT ![g][SlotOf(c)] = IF total[c] = "ok" THEN Total(c) ELSE Mixed(c)]
  /\ UNCHANGED <<separate, hostVars, recorded, fired, total, sims>>

FinalizeBegin ==
  /\ Idle(FinalizeStream, "finalize")
  /\ Begin(FinalizeStream)
  /\ UNCHANGED <<separate, hostVars, recorded, fired, total, slot, sims>>

(***************************************************************************)
(* A slot rewritten at any time during the read no longer holds the total  *)
(* of chunk c here: its chunk differs.                                     *)
(***************************************************************************)
FinalizeEnd ==
  LET c == Head(queue[FinalizeStream]).chunk IN
  /\ Busy(FinalizeStream, "finalize")
  /\ End(FinalizeStream)
  /\ sims' = [p \in Pairs |->
                IF p \notin PairsOf(c) THEN sims[p]
                ELSE IF slot[Root][SlotOf(c)] = Total(c) THEN "ok" ELSE "bad"]
  /\ UNCHANGED <<separate, hostVars, recorded, fired, total, slot>>

StreamStep(s) ==
  \/ PassWait(s)
  \/ FireRecord(s)
  \/ \E g \in Gpus : s = Compute(g) /\ (StatsBegin(g) \/ StatsEnd(g))
  \/ \E g \in Gpus : s = Comm(g) /\ (Join(g) \/ ReduceEnd(g))
  \/ s = FinalizeStream /\ (FinalizeBegin \/ FinalizeEnd)

Device == ~failed /\ ((\E s \in Streams : StreamStep(s)) \/ (\E c \in Chunks : Combine(c)))

Next == Host \/ HostFail \/ Device

Spec == Init /\ [][Next]_vars

(***************************************************************************)
(* The host thread keeps running, every stream executes what is at its     *)
(* head, and a collective that all ranks have entered completes.           *)
(***************************************************************************)
Fairness ==
  /\ WF_vars(Host)
  /\ \A s \in Streams : WF_vars(~failed /\ StreamStep(s))
  /\ \A c \in Chunks : WF_vars(~failed /\ Combine(c))

FairSpec == Spec /\ Fairness

-----------------------------------------------------------------------------
(* The slot a stream is working on, as the set of slots of its device. *)
InSlot(s) == IF active[s] THEN {<<s[1], SlotOf(Head(queue[s]).chunk)>>} ELSE {}

(***************************************************************************)
(* Two kernels, or a kernel and a collective, of different streams are     *)
(* never in one half of a GPU's buffer at once: the events alone order     *)
(* them, however far the host or a stream is ahead.                        *)
(***************************************************************************)
NoSlotRace ==
  \A s, t \in Streams : s # t => InSlot(s) \cap InSlot(t) = {}

(***************************************************************************)
(* When the host has passed the final synchronize, and copies back, every  *)
(* pair has the similarity of its own complete statistics, the pairs of a  *)
(* short last chunk included.                                              *)
(***************************************************************************)
CompleteAtExit ==
  pc = "done" => \A p \in Pairs : sims[p] = "ok"

(***************************************************************************)
(* Without a failing call the batch finishes: no cycle of waits among the  *)
(* streams, the events and the collectives.                                *)
(***************************************************************************)
Termination == <>(failed \/ pc = "done")

-----------------------------------------------------------------------------
(***************************************************************************)
(* The pipeline implements SlotProtocol.  Of stage k on stream s, what has *)
(* begun is what was issued and is not waiting behind the stream's head.   *)
(***************************************************************************)
Queued(s, k)   == Cardinality({i \in 1 .. Len(queue[s]) : queue[s][i].op = k})
Started(s, k)  == IF Busy(s, k) THEN 1 ELSE 0
StatsIssued(g) == IF \/ pc = "device" /\ g < dev
                     \/ pc \in {"group", "finalize", "release"}
                  THEN chunk + 1 ELSE chunk
ReducesIssued  == IF pc \in {"finalize", "release"} THEN chunk + 1 ELSE chunk
FinalsIssued   == IF pc = "release" THEN chunk + 1 ELSE chunk

Written(g) == StatsIssued(g) - Queued(Compute(g), "stats")
Reduced(g) == ReducesIssued - Queued(Comm(g), "allreduce")
Finalized  == FinalsIssued - Queued(FinalizeStream, "finalize")

Abstract == INSTANCE SlotProtocol WITH
  begun     <- [g \in Gpus |-> Written(g) + Started(Compute(g), "stats")],
  written   <- [g \in Gpus |-> Written(g)],
  joined    <- [g \in Gpus |-> Reduced(g) + Started(Comm(g), "allreduce")],
  reduced   <- [g \in Gpus |-> Reduced(g)],
  reading   <- Finalized + Started(FinalizeStream, "finalize"),
  finalized <- Finalized,
  result    <- [c \in Chunks |->
                  IF \A p \in PairsOf(c) : sims[p] = "ok" THEN "ok"
                  ELSE IF \A p \in PairsOf(c) : sims[p] = "none" THEN "none"
                  ELSE "bad"]

(* The stages of SlotProtocol, in its order and with its slot discipline. *)
RefinesSlotProtocol == Abstract!Spec
=============================================================================
