--------------------------- MODULE PipelineProofs ---------------------------
(***************************************************************************)
(* AsyncPipeline implements SlotProtocol, for any number of GPUs and of    *)
(* pairs and any size of a chunk: streams and events alone keep the stages *)
(* of a chunk, and of the chunks that share its slot, in order.            *)
(*                                                                         *)
(* What is enqueued on a stream is always a segment of one program, the    *)
(* list of all operations the host ever issues to it.  The segment ends    *)
(* where the host is; where it begins is what the stream has executed.     *)
(***************************************************************************)
EXTENDS AsyncPipeline, ProofLemmas, FiniteSetTheorems, FunctionTheorems, SequenceTheorems

-----------------------------------------------------------------------------
(* The operations of chunk c, with their events.  The record of c is the   *)
(* Turn(c)-th of its event.                                                *)
Turn(c) == c \div 2 + 1

Reuse(g, c)   == Wait(Event(g, "reduced", SlotOf(c)), c \div 2)
Filled(g, c)  == Record(Event(g, "ready", SlotOf(c)), Turn(c))
Await(g, c)   == Wait(Event(g, "ready", SlotOf(c)), Turn(c))
SumDone(c)    == Record(Event(Root, "allreduced", SlotOf(c)), Turn(c))
AwaitSum(c)   == Wait(Event(Root, "allreduced", SlotOf(c)), Turn(c))
Release(g, c) == Record(Event(g, "reduced", SlotOf(c)), Turn(c))

(* Operation x has position p in the program of a stream.                  *)
ComputeAt(g, p, x) ==
  \E c \in Nat :
    \/ c < 2  /\ p = 2 * c     /\ x = Work("stats", c)
    \/ c < 2  /\ p = 2 * c + 1 /\ x = Filled(g, c)
    \/ c >= 2 /\ p = 3 * c - 2 /\ x = Reuse(g, c)
    \/ c >= 2 /\ p = 3 * c - 1 /\ x = Work("stats", c)
    \/ c >= 2 /\ p = 3 * c     /\ x = Filled(g, c)

OwnFinalize(g) == g = Root /\ ~separate  \* finalize is on g's comm stream
CommAt(g, p, x) ==
  \E c \in Nat :
    IF OwnFinalize(g)
    THEN \/ p = 4 * c     /\ x = Await(g, c)
         \/ p = 4 * c + 1 /\ x = Work("allreduce", c)
         \/ p = 4 * c + 2 /\ x = Work("finalize", c)
         \/ p = 4 * c + 3 /\ x = Release(g, c)
    ELSE \/ p = 3 * c     /\ x = Await(g, c)
         \/ p = 3 * c + 1 /\ x = Work("allreduce", c)
         \/ p = 3 * c + 2 /\ x = IF g = Root THEN SumDone(c) ELSE Release(g, c)

FinAt(p, x) ==
  \E c \in Nat : \/ p = 3 * c     /\ x = AwaitSum(c)
                 \/ p = 3 * c + 1 /\ x = Work("finalize", c)
                 \/ p = 3 * c + 2 /\ x = Release(Root, c)

At(s, p, x) ==
  \/ \E g \in Gpus : s = Compute(g) /\ ComputeAt(g, p, x)
  \/ \E g \in Gpus : s = Comm(g) /\ CommAt(g, p, x)
  \/ s = Fin /\ separate /\ FinAt(p, x)

(* How much of it the host has issued.                                     *)
ReleasesIssued(g) == IF pc = "release" /\ g < dev THEN chunk + 1 ELSE chunk
ComputeStart(n) == IF n < 2 THEN 2 * n ELSE 3 * n - 2

Issued(s) ==
  IF s = Fin THEN IF separate THEN 2 * FinalsIssued + ReleasesIssued(Root) ELSE 0
  ELSE IF s[2] = "compute" THEN ComputeStart(StatsIssued(s[1]))
  ELSE StatsIssued(s[1]) + ReducesIssued
       + IF s[1] # Root THEN ReleasesIssued(s[1])
         ELSE FinalsIssued + IF separate THEN 0 ELSE ReleasesIssued(Root)

(* The segment, and the position of its first operation.                   *)
Segment(s, q, n) == Len(q) <= n /\ \A i \in 1 .. Len(q) : At(s, n - Len(q) + i - 1, q[i])
Pos(s) == Issued(s) - Len(queue[s])

-----------------------------------------------------------------------------
(* The inductive invariant.                                                *)
Typed ==
  /\ separate \in BOOLEAN /\ failed \in BOOLEAN
  /\ pc \in {"device", "group", "finalize", "release", "sync", "done"}
  /\ chunk \in Nat /\ dev \in Gpus
  /\ queue \in [Streams -> Seq(Ops)] /\ active \in [Streams -> BOOLEAN]
  /\ recorded \in [Events -> Nat] /\ fired \in [Events -> Nat]
  /\ total \in [Chunks -> Outcome] /\ slot \in [Gpus -> [Slots -> Contents]]
  /\ sims \in [Pairs -> Outcome]

Place ==
  /\ pc \in {"device", "group", "finalize", "release"} => chunk < NChunks
  /\ pc \in {"sync", "done"} => chunk = NChunks
  /\ pc \in {"group", "finalize"} => dev = 0

Queues == \A s \in Streams : Segment(s, queue[s], Issued(s))

(* What has been executed of each program, in chunks through each stage;   *)
(* and a stage behind a wait that has passed has what it waited for.       *)
Freed(g) == IF g = Root THEN Finalized ELSE Reduced(g)

ComputeLink(g) ==
  /\ Written(g) < 2  => Pos(Compute(g)) \in {2 * Written(g) - 1, 2 * Written(g)}
  /\ Written(g) >= 2 => /\ Pos(Compute(g)) \in 3 * Written(g) - 3 .. 3 * Written(g) - 1
                        /\ Pos(Compute(g)) = 3 * Written(g) - 1 => Freed(g) >= Written(g) - 1

CommLink(g) ==
  /\ OwnFinalize(g) =>
       /\ Pos(Comm(g)) \in 4 * Reduced(g) - 2 .. 4 * Reduced(g) + 1
       /\ Finalized = IF Pos(Comm(g)) = 4 * Reduced(g) - 2 THEN Reduced(g) - 1 ELSE Reduced(g)
       /\ Pos(Comm(g)) = 4 * Reduced(g) + 1 => Written(g) > Reduced(g)
  /\ ~OwnFinalize(g) =>
       /\ Pos(Comm(g)) \in 3 * Reduced(g) - 1 .. 3 * Reduced(g) + 1
       /\ Pos(Comm(g)) = 3 * Reduced(g) + 1 => Written(g) > Reduced(g)

FinLink ==
  separate => /\ Pos(Fin) \in 3 * Finalized - 1 .. 3 * Finalized + 1
              /\ Pos(Fin) = 3 * Finalized + 1 => Reduced(Root) > Finalized

Links == FinLink /\ \A g \in Gpus : ComputeLink(g) /\ CommLink(g)

(* Records that were issued, and what those that fired are behind.         *)
Turns(n, b) == (n + 1 - b) \div 2
Recorded ==
  \A b \in Slots :
    /\ \A g \in Gpus : /\ recorded[Event(g, "ready", b)] = Turns(StatsIssued(g), b)
                       /\ recorded[Event(g, "reduced", b)] = Turns(ReleasesIssued(g), b)
    /\ separate => recorded[Event(Root, "allreduced", b)] = Turns(FinalsIssued, b)

Behind(e, n) == fired[e] > 0 => n >= 2 * fired[e] + e.slot - 1
Fired ==
  \A b \in Slots :
    /\ \A g \in Gpus : /\ Behind(Event(g, "ready", b), Written(g))
                       /\ Behind(Event(g, "reduced", b), Freed(g))
    /\ separate => Behind(Event(Root, "allreduced", b), Reduced(Root))

Working == \A s \in Streams : active[s] => /\ queue[s] # <<>>
                                           /\ Head(queue[s]).op \in {"stats", "allreduce", "finalize"}

Drained ==
  \A s \in Streams : pc = "done" \/ (pc = "sync" /\ s[1] < dev) => queue[s] = <<>>

IInv == Typed /\ Place /\ Queues /\ Links /\ Recorded /\ Fired /\ Working /\ Drained

-----------------------------------------------------------------------------
(* Counting the operations of one kind in a queue.                         *)
Count(q, k) == Cardinality({i \in 1 .. Len(q) : q[i].op = k})

(* A count of operations is a natural number.                              *)
LEMMA CountFinite ==
  ASSUME NEW q \in Seq(Ops), NEW k
  PROVE  /\ IsFiniteSet({i \in 1 .. Len(q) : q[i].op = k}) /\ Count(q, k) \in Nat
         /\ q = <<>> => Count(q, k) = 0
<1>1. Len(q) \in Nat
  OBVIOUS
<1>2. IsFiniteSet(1 .. Len(q))
  BY <1>1, FS_Interval
<1>3. {i \in 1 .. Len(q) : q[i].op = k} \in SUBSET (1 .. Len(q))
  OBVIOUS
<1>4. IsFiniteSet({i \in 1 .. Len(q) : q[i].op = k})
  BY <1>2, <1>3, FS_Subset
<1>5. q = <<>> => {i \in 1 .. Len(q) : q[i].op = k} = {}
  OBVIOUS
<1> QED
  BY <1>4, <1>5, FS_CardinalityType, FS_EmptySet DEF Count

(* Appending and removing change the counts by the operation moved.        *)
LEMMA CountAppend ==
  ASSUME NEW q \in Seq(Ops), NEW x \in Ops, NEW k
  PROVE  Count(Append(q, x), k) = Count(q, k) + IF x.op = k THEN 1 ELSE 0
<1> DEFINE A == {i \in 1 .. Len(q) : q[i].op = k}
           B == {i \in 1 .. Len(Append(q, x)) : Append(q, x)[i].op = k}
           n == Len(q) + 1
<1>1. /\ Len(q) \in Nat /\ Len(Append(q, x)) = n
      /\ \A i \in 1 .. Len(q) : Append(q, x)[i] = q[i]
      /\ Append(q, x)[n] = x
  OBVIOUS
<1>2. B = IF x.op = k THEN A \cup {n} ELSE A
  BY <1>1
<1>3. n \notin A
  BY <1>1
<1>4. IsFiniteSet(A) /\ Cardinality(A) \in Nat
  BY CountFinite DEF Count
<1>5. Cardinality(A \cup {n}) = Cardinality(A) + 1
  BY <1>3, <1>4, FS_AddElement
<1>6. Count(q, k) = Cardinality(A) /\ Count(Append(q, x), k) = Cardinality(B)
  BY DEF Count
<1> HIDE DEF A, B, n
<1> QED
  BY <1>2, <1>4, <1>5, <1>6

LEMMA CountTail ==
  ASSUME NEW q \in Seq(Ops), q # <<>>, NEW k
  PROVE  Count(Tail(q), k) = Count(q, k) - IF Head(q).op = k THEN 1 ELSE 0
<1> DEFINE A == {i \in 1 .. Len(q) : q[i].op = k}
           T == {i \in 1 .. Len(Tail(q)) : Tail(q)[i].op = k}
           f == [i \in T |-> i + 1]
<1>1. /\ Len(q) \in Nat \ {0} /\ Tail(q) \in Seq(Ops) /\ Len(Tail(q)) = Len(q) - 1
      /\ Head(q) = q[1] /\ \A i \in 1 .. Len(Tail(q)) : Tail(q)[i] = q[i + 1]
  OBVIOUS
<1>2. f \in Bijection(T, A \ {1})
  <2>1. f \in [T -> A \ {1}]
    BY <1>1
  <2>2. \A i, j \in T : f[i] = f[j] => i = j
    BY <1>1
  <2>3. \A a \in A \ {1} : \E i \in T : f[i] = a
    <3> SUFFICES ASSUME NEW a \in A \ {1} PROVE a - 1 \in T /\ f[a - 1] = a
      OBVIOUS
    <3> QED
      BY <1>1
  <2> QED
    BY <2>1, <2>2, <2>3, Fun_IsBij
<1>3. IsFiniteSet(A) /\ Cardinality(A) \in Nat /\ IsFiniteSet(T) /\ Cardinality(T) \in Nat
  BY <1>1, CountFinite DEF Count
<1>4. IsFiniteSet(A \ {1}) /\ Cardinality(A \ {1}) = Cardinality(T)
  BY <1>2, <1>3, FS_Bijection DEF ExistsBijection
<1>5. 1 \in A <=> Head(q).op = k
  BY <1>1
<1>6. Cardinality(A \ {1}) = IF 1 \in A THEN Cardinality(A) - 1 ELSE Cardinality(A)
  BY <1>3, FS_RemoveElement
<1>7. Count(q, k) = Cardinality(A) /\ Count(Tail(q), k) = Cardinality(T)
  BY DEF Count
<1> HIDE DEF A, T, f
<1> QED
  BY <1>3, <1>4, <1>5, <1>6, <1>7

-----------------------------------------------------------------------------
(* Streams, and what is on them.                                           *)
LEMMA GpuFacts == /\ Root \in Gpus /\ Gpus \subseteq Nat /\ NChunks \in Nat
                  /\ \A c \in Nat : SlotOf(c) \in Slots
<1>1. NPairs + Chunk - 1 \in Nat
  BY SizeAssumption
<1> QED
  BY <1>1, SizeAssumption, DivBounds DEF Root, Gpus, NChunks, SlotOf, Slots

(* The streams are different from each other.                              *)
LEMMA StreamFacts ==
  /\ Fin \in Streams
  /\ \A g \in Gpus : /\ Compute(g) \in Streams /\ Comm(g) \in Streams
                     /\ Compute(g) # Fin /\ Comm(g) # Fin
                     /\ Compute(g)[1] = g /\ Comm(g)[1] = g
                     /\ \A h \in Gpus : /\ Compute(g) # Comm(h)
                                        /\ Compute(g) = Compute(h) => g = h
                                        /\ Comm(g) = Comm(h) => g = h
  /\ FinalizeStream \in Streams
  /\ FinalizeStream = IF separate THEN Fin ELSE Comm(Root)
  /\ \A s \in Streams : s = Fin \/ \E g \in Gpus : s = Compute(g) \/ s = Comm(g)
  /\ \A s \in Streams : s[1] \in Gpus
<1> USE DEF Streams, Compute, Comm, Fin
<1>1. \A g \in Gpus : /\ Compute(g) \in Streams /\ Comm(g) \in Streams
                     /\ Compute(g) # Fin /\ Comm(g) # Fin
                     /\ Compute(g)[1] = g /\ Comm(g)[1] = g
  OBVIOUS
<1>2. \A g, h \in Gpus : /\ Compute(g) # Comm(h)
                         /\ Compute(g) = Compute(h) => g = h
                         /\ Comm(g) = Comm(h) => g = h
  OBVIOUS
<1>3. Fin \in Streams /\ \A s \in Streams : s = Fin \/ \E g \in Gpus : s = Compute(g) \/ s = Comm(g)
  OBVIOUS
<1>4. \A s \in Streams : s[1] \in Gpus
  BY GpuFacts
<1>5. FinalizeStream \in Streams
  BY <1>1, <1>3, GpuFacts DEF FinalizeStream
<1> HIDE DEF Streams, Compute, Comm, Fin
<1> QED
  BY <1>1, <1>2, <1>3, <1>4, <1>5 DEF FinalizeStream

(* Issued and At, stream by stream.                                        *)
LEMMA IssuedFacts ==
  /\ Issued(Fin) = IF separate THEN 2 * FinalsIssued + ReleasesIssued(Root) ELSE 0
  /\ \A g \in Gpus :
       /\ Issued(Compute(g)) = ComputeStart(StatsIssued(g))
       /\ Issued(Comm(g)) = StatsIssued(g) + ReducesIssued
            + IF g # Root THEN ReleasesIssued(g)
              ELSE FinalsIssued + IF separate THEN 0 ELSE ReleasesIssued(Root)
BY StreamFacts DEF Issued, Compute, Comm, Fin

LEMMA AtFacts ==
  ASSUME NEW p, NEW x
  PROVE  /\ At(Fin, p, x) <=> separate /\ FinAt(p, x)
         /\ \A g \in Gpus : /\ At(Compute(g), p, x) <=> ComputeAt(g, p, x)
                            /\ At(Comm(g), p, x) <=> CommAt(g, p, x)
BY StreamFacts DEF At

(* The counts of what is issued are chunk or, in its course, chunk + 1.    *)
LEMMA IssuedNat ==
  ASSUME Typed, Place
  PROVE  /\ ReducesIssued \in {chunk, chunk + 1} /\ FinalsIssued \in {chunk, chunk + 1}
         /\ \A g \in Gpus : StatsIssued(g) \in {chunk, chunk + 1} /\ ReleasesIssued(g) \in {chunk, chunk + 1}
         /\ ReducesIssued \in Nat /\ FinalsIssued \in Nat
         /\ ReducesIssued <= NChunks /\ FinalsIssued <= NChunks
         /\ \A g \in Gpus : /\ StatsIssued(g) \in Nat /\ ReleasesIssued(g) \in Nat
                            /\ StatsIssued(g) <= NChunks /\ ReleasesIssued(g) <= NChunks
         /\ \A s \in Streams : Issued(s) \in Nat
<1>1. chunk \in Nat /\ NChunks \in Nat
  BY GpuFacts DEF Typed
<1>2. chunk <= NChunks
  BY <1>1 DEF Typed, Place
<1>3. /\ ReducesIssued \in {chunk, chunk + 1} /\ ReducesIssued <= NChunks
      /\ FinalsIssued \in {chunk, chunk + 1} /\ FinalsIssued <= NChunks
  BY <1>1, <1>2 DEF Place, ReducesIssued, FinalsIssued
<1>4. \A g \in Gpus : /\ StatsIssued(g) \in {chunk, chunk + 1} /\ StatsIssued(g) <= NChunks
                      /\ ReleasesIssued(g) \in {chunk, chunk + 1} /\ ReleasesIssued(g) <= NChunks
  BY <1>1, <1>2 DEF Place, StatsIssued, ReleasesIssued
<1>5. /\ ReducesIssued \in Nat /\ FinalsIssued \in Nat
      /\ \A g \in Gpus : StatsIssued(g) \in Nat /\ ReleasesIssued(g) \in Nat
  BY <1>1, <1>3, <1>4
<1>6. ASSUME NEW s \in Streams PROVE Issued(s) \in Nat
  <2>1. CASE s = Fin
    BY <2>1, <1>5, IssuedFacts, GpuFacts
  <2>2. ASSUME NEW g \in Gpus, s = Compute(g) PROVE Issued(s) \in Nat
    BY <2>2, <1>5, IssuedFacts DEF ComputeStart
  <2>3. ASSUME NEW g \in Gpus, s = Comm(g) PROVE Issued(s) \in Nat
    BY <2>3, <1>5, IssuedFacts, GpuFacts
  <2> QED
    BY <2>1, <2>2, <2>3, StreamFacts
<1> QED
  BY <1>3, <1>4, <1>5, <1>6

(* Two operations of a segment that change places with the queue.          *)
LEMMA SegmentAppend ==
  ASSUME NEW s \in Streams, NEW q \in Seq(Ops), NEW n \in Nat, NEW x \in Ops,
         Segment(s, q, n), At(s, n, x)
  PROVE  Segment(s, Append(q, x), n + 1)
<1>1. /\ Len(q) \in Nat /\ Len(Append(q, x)) = Len(q) + 1
      /\ \A i \in 1 .. Len(q) : Append(q, x)[i] = q[i]
      /\ Append(q, x)[Len(q) + 1] = x
  OBVIOUS
<1>2. ASSUME NEW i \in 1 .. Len(q) + 1
      PROVE  At(s, n + 1 - (Len(q) + 1) + i - 1, Append(q, x)[i])
  <2>1. CASE i = Len(q) + 1
    <3>1. n + 1 - (Len(q) + 1) + i - 1 = n
      BY <1>1, <2>1
    <3> QED
      BY <1>1, <2>1, <3>1
  <2>2. CASE i \in 1 .. Len(q)
    <3>1. n + 1 - (Len(q) + 1) + i - 1 = n - Len(q) + i - 1
      BY <1>1, <2>2
    <3> QED
      BY <1>1, <2>2, <3>1 DEF Segment
  <2> QED
    BY <1>1, <2>1, <2>2
<1> QED
  BY <1>1, <1>2 DEF Segment

(* The rest of a segment is one, and its head is where it was.             *)
LEMMA SegmentTail ==
  ASSUME NEW s \in Streams, NEW q \in Seq(Ops), q # <<>>, NEW n \in Nat, Segment(s, q, n)
  PROVE  /\ Segment(s, Tail(q), n) /\ At(s, n - Len(q), Head(q))
         /\ n - Len(q) \in Nat /\ n - Len(Tail(q)) = n - Len(q) + 1
         /\ Len(q) >= 1 /\ Head(q) \in Ops /\ Tail(q) \in Seq(Ops)
<1>1. /\ Len(q) \in Nat \ {0} /\ Len(Tail(q)) = Len(q) - 1 /\ Tail(q) \in Seq(Ops)
      /\ Head(q) = q[1] /\ \A i \in 1 .. Len(Tail(q)) : Tail(q)[i] = q[i + 1]
      /\ q[1] \in Ops
  OBVIOUS
<1>2. ASSUME NEW i \in 1 .. Len(Tail(q))
      PROVE  At(s, n - Len(Tail(q)) + i - 1, Tail(q)[i])
  <2>1. n - Len(Tail(q)) + i - 1 = n - Len(q) + (i + 1) - 1 /\ i + 1 \in 1 .. Len(q)
    BY <1>1
  <2> QED
    BY <1>1, <2>1 DEF Segment
<1>3. At(s, n - Len(q), Head(q))
  <2>1. n - Len(q) = n - Len(q) + 1 - 1 /\ 1 \in 1 .. Len(q)
    BY <1>1
  <2> QED
    BY <1>1, <2>1 DEF Segment
<1> QED
  BY <1>1, <1>2, <1>3 DEF Segment

-----------------------------------------------------------------------------
(* What is at the head of each stream follows from what was executed.      *)
LEMMA Counters ==
  ASSUME Typed, Place
  PROVE  /\ \A s \in Streams : \A k : Queued(s, k) = Count(queue[s], k) /\ Queued(s, k) \in Nat
         /\ \A s \in Streams : queue[s] \in Seq(Ops) /\ Len(queue[s]) \in Nat /\ Pos(s) \in Int
         /\ \A g \in Gpus : Written(g) \in Int /\ Reduced(g) \in Int /\ Freed(g) \in Int
         /\ Finalized \in Int
<1>1. \A s \in Streams : queue[s] \in Seq(Ops) /\ Len(queue[s]) \in Nat
  BY DEF Typed
<1>2. \A s \in Streams : \A k : Queued(s, k) = Count(queue[s], k) /\ Queued(s, k) \in Nat
  BY <1>1, CountFinite DEF Queued, Count
<1>3. \A s \in Streams : Pos(s) \in Int
  BY <1>1, IssuedNat DEF Pos
<1>4. /\ \A g \in Gpus : Written(g) \in Int /\ Reduced(g) \in Int
      /\ Finalized \in Int
  BY <1>2, IssuedNat, StreamFacts DEF Written, Reduced, Finalized
<1> QED
  BY <1>1, <1>2, <1>3, <1>4 DEF Freed

(* No count is negative: no stream is at a position before its first.      *)
LEMMA CountersNat ==
  ASSUME IInv
  PROVE  /\ \A s \in Streams : Pos(s) \in Nat
         /\ \A g \in Gpus : Written(g) \in Nat /\ Reduced(g) \in Nat /\ Freed(g) \in Nat
         /\ Finalized \in Nat
<1>1. \A s \in Streams : Pos(s) \in Nat
  BY Counters, IssuedNat DEF IInv, Queues, Segment, Pos
<1>2. ASSUME NEW g \in Gpus PROVE Written(g) \in Nat
  BY <1>1, Counters, StreamFacts DEF IInv, Links, ComputeLink
<1>3. ASSUME NEW g \in Gpus PROVE Reduced(g) \in Nat
  <2>1. Pos(Comm(g)) \in Nat /\ Reduced(g) \in Int
    BY <1>1, Counters, StreamFacts DEF IInv
  <2> QED
    BY <2>1 DEF IInv, Links, CommLink
<1>4. Finalized \in Nat
  <2>1. Pos(Fin) \in Nat /\ Pos(Comm(Root)) \in Nat /\ Finalized \in Int /\ Reduced(Root) \in Int
    BY <1>1, Counters, StreamFacts, GpuFacts DEF IInv
  <2>2. CASE separate
    BY <2>1, <2>2 DEF IInv, Links, FinLink
  <2>3. CASE ~separate
    BY <2>1, <2>3, GpuFacts DEF IInv, Links, CommLink, OwnFinalize
  <2> QED
    BY <2>2, <2>3
<1> QED
  BY <1>1, <1>2, <1>3, <1>4 DEF Freed

(* The operation at the head of a stream is the next of its program.       *)
LEMMA HeadPosition ==
  ASSUME IInv, NEW s \in Streams, queue[s] # <<>>
  PROVE  /\ At(s, Pos(s), Head(queue[s])) /\ Pos(s) < Issued(s)
         /\ Pos(s) \in Nat /\ Issued(s) \in Nat /\ Head(queue[s]) \in Ops
<1>1. Segment(s, queue[s], Issued(s)) /\ Issued(s) \in Nat /\ queue[s] \in Seq(Ops)
  BY IssuedNat, Counters DEF IInv, Queues
<1> QED
  BY <1>1, SegmentTail DEF Pos

(* Which operation that is, and what the stages have done by then.         *)
LEMMA HeadCompute ==
  ASSUME IInv, NEW g \in Gpus, queue[Compute(g)] # <<>>
  PROVE  LET x == Head(queue[Compute(g)])
             w == Written(g)
             p == Pos(Compute(g))
         IN  \/ /\ x = Work("stats", w) /\ w < NChunks
                /\ \/ w < 2 /\ p = 2 * w
                   \/ w >= 2 /\ p = 3 * w - 1 /\ Freed(g) >= w - 1
             \/ w >= 2 /\ x = Reuse(g, w) /\ p = 3 * w - 2
             \/ w >= 1 /\ x = Filled(g, w - 1) /\ p = IF w < 2 THEN 2 * w - 1 ELSE 3 * w - 3
<1> DEFINE x == Head(queue[Compute(g)])
           w == Written(g)
           p == Pos(Compute(g))
<1>1. w \in Nat /\ p \in Nat /\ StatsIssued(g) \in Nat /\ StatsIssued(g) <= NChunks /\ NChunks \in Nat
  BY CountersNat, IssuedNat, StreamFacts, GpuFacts DEF IInv
<1>2. ComputeAt(g, p, x)
  BY HeadPosition, StreamFacts, AtFacts
<1>3. p < ComputeStart(StatsIssued(g))
  BY HeadPosition, StreamFacts, IssuedFacts
<1>4. /\ w < 2  => p \in {2 * w - 1, 2 * w}
      /\ w >= 2 => p \in 3 * w - 3 .. 3 * w - 1 /\ (p = 3 * w - 1 => Freed(g) >= w - 1)
  BY DEF IInv, Links, ComputeLink
<1>5. (p = 2 * w /\ w < 2) \/ (p = 3 * w - 1 /\ w >= 2) => w < NChunks
  BY <1>1, <1>3 DEF ComputeStart
<1> HIDE DEF x, w, p
<1>6. PICK c \in Nat :
    \/ c < 2  /\ p = 2 * c     /\ x = Work("stats", c)
    \/ c < 2  /\ p = 2 * c + 1 /\ x = Filled(g, c)
    \/ c >= 2 /\ p = 3 * c - 2 /\ x = Reuse(g, c)
    \/ c >= 2 /\ p = 3 * c - 1 /\ x = Work("stats", c)
    \/ c >= 2 /\ p = 3 * c     /\ x = Filled(g, c)
  BY <1>2 DEF ComputeAt
<1>7. \/ c = w /\ x = Work("stats", w) /\ ((p = 2 * w /\ w < 2) \/ (p = 3 * w - 1 /\ w >= 2))
      \/ c = w /\ w >= 2 /\ x = Reuse(g, w) /\ p = 3 * w - 2
      \/ c = w - 1 /\ w >= 1 /\ x = Filled(g, w - 1) /\ p = IF w < 2 THEN 2 * w - 1 ELSE 3 * w - 3
  BY <1>1, <1>4, <1>6
<1>8. \/ /\ x = Work("stats", w) /\ w < NChunks
         /\ \/ w < 2 /\ p = 2 * w
            \/ w >= 2 /\ p = 3 * w - 1 /\ Freed(g) >= w - 1
      \/ w >= 2 /\ x = Reuse(g, w) /\ p = 3 * w - 2
      \/ w >= 1 /\ x = Filled(g, w - 1) /\ p = IF w < 2 THEN 2 * w - 1 ELSE 3 * w - 3
  BY <1>4, <1>5, <1>7
<1> QED
  BY <1>8 DEF x, w, p

LEMMA HeadComm ==
  ASSUME IInv, NEW g \in Gpus, queue[Comm(g)] # <<>>
  PROVE  LET x == Head(queue[Comm(g)])
             r == Reduced(g)
             p == Pos(Comm(g))
             n == IF OwnFinalize(g) THEN 4 ELSE 3
         IN  \/ x = Await(g, r) /\ p = n * r
             \/ x = Work("allreduce", r) /\ p = n * r + 1 /\ r < NChunks /\ Written(g) > r
             \/ r >= 1 /\ OwnFinalize(g) /\ x = Work("finalize", r - 1) /\ p = 4 * r - 2 /\ Finalized = r - 1
             \/ r >= 1 /\ g = Root /\ separate /\ x = SumDone(r - 1) /\ p = 3 * r - 1
             \/ r >= 1 /\ (g = Root => ~separate) /\ x = Release(g, r - 1) /\ p = n * r - 1
                  /\ Freed(g) >= r
<1> DEFINE x == Head(queue[Comm(g)])
           r == Reduced(g)
           p == Pos(Comm(g))
           f == Finalized
<1>1. /\ r \in Nat /\ p \in Nat /\ NChunks \in Nat /\ f \in Nat
      /\ StatsIssued(g) \in Nat /\ StatsIssued(g) <= NChunks
      /\ ReducesIssued \in Nat /\ ReducesIssued <= NChunks
      /\ FinalsIssued \in Nat /\ FinalsIssued <= NChunks
      /\ ReleasesIssued(g) \in Nat /\ ReleasesIssued(g) <= NChunks
  BY CountersNat, IssuedNat, StreamFacts, GpuFacts DEF IInv
<1>2. CommAt(g, p, x)
  BY HeadPosition, StreamFacts, AtFacts
<1>3. p < StatsIssued(g) + ReducesIssued
          + IF g # Root THEN ReleasesIssued(g)
            ELSE FinalsIssued + IF separate THEN 0 ELSE ReleasesIssued(Root)
  BY HeadPosition, StreamFacts, IssuedFacts
<1>4. CASE OwnFinalize(g)
  <2>1. /\ p \in 4 * r - 2 .. 4 * r + 1
        /\ f = IF p = 4 * r - 2 THEN r - 1 ELSE r
        /\ p = 4 * r + 1 => Written(g) > r
    BY <1>4 DEF IInv, Links, CommLink
  <2>2. p = 4 * r + 1 => r < NChunks
    BY <1>1, <1>3, <1>4 DEF OwnFinalize
  <2>3. g = Root /\ ~separate /\ Freed(g) = f
    BY <1>4 DEF OwnFinalize, Freed
  <2> HIDE DEF x, r, p, f
  <2>4. PICK c \in Nat : \/ p = 4 * c     /\ x = Await(g, c)
                         \/ p = 4 * c + 1 /\ x = Work("allreduce", c)
                         \/ p = 4 * c + 2 /\ x = Work("finalize", c)
                         \/ p = 4 * c + 3 /\ x = Release(g, c)
    BY <1>2, <1>4 DEF CommAt
  <2>5. \/ c = r /\ x = Await(g, r) /\ p = 4 * r
        \/ c = r /\ x = Work("allreduce", r) /\ p = 4 * r + 1
        \/ c = r - 1 /\ r >= 1 /\ x = Work("finalize", r - 1) /\ p = 4 * r - 2
        \/ c = r - 1 /\ r >= 1 /\ x = Release(g, r - 1) /\ p = 4 * r - 1
    BY <1>1, <2>1, <2>4
  <2>6. p = 4 * r - 1 => f = r
    BY <1>1, <2>1
  <2>7. \/ x = Await(g, r) /\ p = 4 * r
        \/ x = Work("allreduce", r) /\ p = 4 * r + 1 /\ r < NChunks /\ Written(g) > r
        \/ r >= 1 /\ x = Work("finalize", r - 1) /\ p = 4 * r - 2 /\ f = r - 1
        \/ r >= 1 /\ x = Release(g, r - 1) /\ p = 4 * r - 1 /\ Freed(g) >= r
    BY <1>1, <2>1, <2>2, <2>3, <2>5, <2>6
  <2> QED
    BY <1>4, <2>3, <2>7 DEF x, r, p, f
<1>5. CASE ~OwnFinalize(g)
  <2>1. /\ p \in 3 * r - 1 .. 3 * r + 1
        /\ p = 3 * r + 1 => Written(g) > r
    BY <1>5 DEF IInv, Links, CommLink
  <2>2. p = 3 * r + 1 => r < NChunks
    BY <1>1, <1>3, <1>5 DEF OwnFinalize
  <2>3. g # Root => Freed(g) = r
    BY DEF Freed
  <2> HIDE DEF x, r, p, f
  <2>4. PICK c \in Nat : \/ p = 3 * c     /\ x = Await(g, c)
                         \/ p = 3 * c + 1 /\ x = Work("allreduce", c)
                         \/ p = 3 * c + 2 /\ x = IF g = Root THEN SumDone(c) ELSE Release(g, c)
    BY <1>2, <1>5 DEF CommAt
  <2>5. \/ c = r /\ x = Await(g, r) /\ p = 3 * r
        \/ c = r /\ x = Work("allreduce", r) /\ p = 3 * r + 1
        \/ c = r - 1 /\ r >= 1 /\ p = 3 * r - 1
             /\ x = IF g = Root THEN SumDone(r - 1) ELSE Release(g, r - 1)
    BY <1>1, <2>1, <2>4
  <2>6. g = Root => separate
    BY <1>5 DEF OwnFinalize
  <2>7. g # Root => r <= Freed(g)
    BY <1>1, <2>3
  <2> QED
    BY <1>1, <1>5, <2>1, <2>2, <2>5, <2>6, <2>7 DEF x, r, p, f
<1> QED
  BY <1>4, <1>5

LEMMA HeadFin ==
  ASSUME IInv, queue[Fin] # <<>>
  PROVE  LET x == Head(queue[Fin])
             f == Finalized
             p == Pos(Fin)
         IN  /\ separate
             /\ \/ x = AwaitSum(f) /\ p = 3 * f
                \/ x = Work("finalize", f) /\ p = 3 * f + 1 /\ f < NChunks /\ Reduced(Root) > f
                \/ f >= 1 /\ x = Release(Root, f - 1) /\ p = 3 * f - 1
<1> DEFINE x == Head(queue[Fin])
           f == Finalized
           p == Pos(Fin)
<1>1. /\ f \in Nat /\ p \in Nat /\ NChunks \in Nat
      /\ FinalsIssued \in Nat /\ FinalsIssued <= NChunks
      /\ ReleasesIssued(Root) \in Nat /\ ReleasesIssued(Root) <= NChunks
  BY CountersNat, IssuedNat, StreamFacts, GpuFacts DEF IInv
<1>2. separate /\ FinAt(p, x)
  BY HeadPosition, StreamFacts, AtFacts
<1>3. p < 2 * FinalsIssued + ReleasesIssued(Root)
  BY <1>2, HeadPosition, StreamFacts, IssuedFacts
<1>4. /\ p \in 3 * f - 1 .. 3 * f + 1
      /\ p = 3 * f + 1 => Reduced(Root) > f
  BY <1>2 DEF IInv, Links, FinLink
<1>5. p = 3 * f + 1 => f < NChunks
  BY <1>1, <1>3
<1> HIDE DEF x, f, p
<1>6. PICK c \in Nat : \/ p = 3 * c     /\ x = AwaitSum(c)
                       \/ p = 3 * c + 1 /\ x = Work("finalize", c)
                       \/ p = 3 * c + 2 /\ x = Release(Root, c)
  BY <1>2 DEF FinAt
<1>7. \/ c = f /\ x = AwaitSum(f) /\ p = 3 * f
      \/ c = f /\ x = Work("finalize", f) /\ p = 3 * f + 1
      \/ c = f - 1 /\ f >= 1 /\ x = Release(Root, f - 1) /\ p = 3 * f - 1
  BY <1>1, <1>4, <1>6
<1> QED
  BY <1>2, <1>4, <1>5, <1>7 DEF x, f, p

-----------------------------------------------------------------------------
(* While the host stands still, everything issued stands still.            *)
LEMMA Still ==
  ASSUME UNCHANGED <<separate, hostVars>>
  PROVE  /\ UNCHANGED <<separate, pc, chunk, dev, failed, FinalizeStream>>
         /\ ReducesIssued' = ReducesIssued /\ FinalsIssued' = FinalsIssued
         /\ \A g : /\ StatsIssued(g)' = StatsIssued(g) /\ ReleasesIssued(g)' = ReleasesIssued(g)
                   /\ OwnFinalize(g)' = OwnFinalize(g)
         /\ \A s : Issued(s)' = Issued(s)
<1>1. UNCHANGED <<separate, pc, chunk, dev, failed>>
  BY DEF hostVars
<1> QED
  BY <1>1 DEF FinalizeStream, ReducesIssued, FinalsIssued, StatsIssued, ReleasesIssued, OwnFinalize, Issued

(* The programs depend on the chosen finalize stream only.                 *)
LEMMA SameProgram ==
  ASSUME separate' = separate
  PROVE  \A s, p, x : At(s, p, x)' <=> At(s, p, x)
BY DEF At, ComputeAt, CommAt, FinAt, OwnFinalize

(* A stream finishes the operation at its head.                            *)
LEMMA PopEffect ==
  ASSUME IInv, NEW s \in Streams, queue[s] # <<>>,
         queue' = [queue EXCEPT ![s] = Tail(@)], UNCHANGED <<separate, hostVars>>
  PROVE  /\ queue' \in [Streams -> Seq(Ops)] /\ Queues'
         /\ Pos(s)' = Pos(s) + 1
         /\ \A t \in Streams : t # s => Pos(t)' = Pos(t) /\ queue'[t] = queue[t]
         /\ \A g \in Gpus : /\ Written(g)' = Written(g) + IF s = Compute(g) /\ Head(queue[s]).op = "stats"
                                                          THEN 1 ELSE 0
                            /\ Reduced(g)' = Reduced(g) + IF s = Comm(g) /\ Head(queue[s]).op = "allreduce"
                                                          THEN 1 ELSE 0
         /\ Finalized' = Finalized + IF s = FinalizeStream /\ Head(queue[s]).op = "finalize"
                                     THEN 1 ELSE 0
<1>1. /\ queue \in [Streams -> Seq(Ops)] /\ queue[s] \in Seq(Ops)
      /\ \A t \in Streams : Segment(t, queue[t], Issued(t)) /\ Issued(t) \in Nat
  BY IssuedNat DEF IInv, Typed, Queues
<1>2. /\ Segment(s, Tail(queue[s]), Issued(s)) /\ Tail(queue[s]) \in Seq(Ops)
      /\ Issued(s) - Len(Tail(queue[s])) = Issued(s) - Len(queue[s]) + 1
  BY <1>1, SegmentTail
<1>3. /\ queue' \in [Streams -> Seq(Ops)] /\ queue'[s] = Tail(queue[s])
      /\ \A t \in Streams : t # s => queue'[t] = queue[t]
  BY <1>1, <1>2
<1>4. \A t \in Streams : Issued(t)' = Issued(t)
  BY Still
<1>5. \A t \in Streams : Segment(t, queue'[t], Issued(t))
  BY <1>1, <1>2, <1>3
<1>6. Queues'
  <2>1. \A t \in Streams : Segment(t, queue[t], Issued(t))' <=> Segment(t, queue'[t], Issued(t))
    BY <1>4, SameProgram DEF Segment
  <2> QED
    BY <1>5, <2>1 DEF Queues
<1>7. Pos(s)' = Pos(s) + 1 /\ \A t \in Streams : t # s => Pos(t)' = Pos(t)
  BY <1>2, <1>3, <1>4 DEF Pos
<1>8. ASSUME NEW t \in Streams, NEW k
      PROVE  Queued(t, k)' = Queued(t, k) - IF t = s /\ Head(queue[s]).op = k THEN 1 ELSE 0
  <2>1. Queued(t, k) = Count(queue[t], k) /\ Queued(t, k)' = Count(queue'[t], k) /\ Queued(t, k) \in Nat
    BY <1>1, CountFinite DEF Queued, Count
  <2>2. CASE t = s
    BY <1>1, <1>3, <2>1, <2>2, CountTail
  <2>3. CASE t # s
    BY <1>3, <2>1, <2>3
  <2> QED
    BY <2>2, <2>3
<1>9. \A t \in Streams : \A k : Queued(t, k) \in Nat
  BY Counters DEF IInv
<1>10. ASSUME NEW g \in Gpus
       PROVE  Written(g)' = Written(g) + IF s = Compute(g) /\ Head(queue[s]).op = "stats" THEN 1 ELSE 0
  <2>1. StatsIssued(g)' = StatsIssued(g) /\ StatsIssued(g) \in Nat /\ Compute(g) \in Streams
    BY Still, IssuedNat, StreamFacts DEF IInv
  <2> QED
    BY <1>8, <1>9, <2>1 DEF Written
<1>11. ASSUME NEW g \in Gpus
       PROVE  Reduced(g)' = Reduced(g) + IF s = Comm(g) /\ Head(queue[s]).op = "allreduce" THEN 1 ELSE 0
  <2>1. ReducesIssued' = ReducesIssued /\ ReducesIssued \in Nat /\ Comm(g) \in Streams
    BY Still, IssuedNat, StreamFacts DEF IInv
  <2> QED
    BY <1>8, <1>9, <2>1 DEF Reduced
<1>12. Finalized' = Finalized + IF s = FinalizeStream /\ Head(queue[s]).op = "finalize" THEN 1 ELSE 0
  <2>1. PICK t \in Streams : t = FinalizeStream /\ FinalizeStream' = t
    BY Still, StreamFacts
  <2>2. FinalsIssued' = FinalsIssued /\ FinalsIssued \in Nat
    BY Still, IssuedNat DEF IInv
  <2>3. Finalized = FinalsIssued - Queued(t, "finalize") /\ Finalized' = FinalsIssued' - Queued(t, "finalize")'
    BY <2>1 DEF Finalized, Queued
  <2> QED
    BY <1>8, <1>9, <2>1, <2>2, <2>3
<1> QED
  BY <1>3, <1>6, <1>7, <1>10, <1>11, <1>12

(* And when it finishes nothing.                                           *)
LEMMA NoPop ==
  ASSUME IInv, UNCHANGED <<separate, hostVars, queue>>
  PROVE  /\ Queues' /\ \A t \in Streams : Pos(t)' = Pos(t)
         /\ \A g \in Gpus : Written(g)' = Written(g) /\ Reduced(g)' = Reduced(g)
         /\ Finalized' = Finalized
<1>1. \A t \in Streams : Issued(t)' = Issued(t)
  BY Still
<1>2. Queues'
  BY <1>1, SameProgram DEF IInv, Queues, Segment
<1>3. \A t \in Streams : Pos(t)' = Pos(t)
  BY <1>1 DEF Pos
<1>4. \A g \in Gpus : Written(g)' = Written(g) /\ Reduced(g)' = Reduced(g)
  BY Still DEF Written, Reduced, Queued
<1>5. Finalized' = Finalized
  BY Still DEF Finalized, Queued
<1> QED
  BY <1>2, <1>3, <1>4, <1>5

-----------------------------------------------------------------------------
(* The links of what a step does not touch.                                *)
LEMMA ComputeFrame ==
  ASSUME IInv, NEW g \in Gpus, Written(g)' = Written(g), Pos(Compute(g))' = Pos(Compute(g)),
         Freed(g)' \in Int, Freed(g)' >= Freed(g)
  PROVE  ComputeLink(g)'
<1>1. Written(g) \in Nat /\ Freed(g) \in Nat
  BY CountersNat
<1> QED
  BY <1>1 DEF IInv, Links, ComputeLink

LEMMA CommFrame ==
  ASSUME IInv, NEW g \in Gpus, separate' = separate,
         Reduced(g)' = Reduced(g), Pos(Comm(g))' = Pos(Comm(g)),
         Written(g)' \in Int, Written(g)' >= Written(g),
         OwnFinalize(g) => Finalized' = Finalized
  PROVE  CommLink(g)'
<1>1. Written(g) \in Nat /\ Reduced(g) \in Nat
  BY CountersNat
<1>2. OwnFinalize(g)' <=> OwnFinalize(g)
  BY DEF OwnFinalize
<1> QED
  BY <1>1, <1>2 DEF IInv, Links, CommLink

LEMMA FinFrame ==
  ASSUME IInv, separate' = separate, separate => Finalized' = Finalized,
         Pos(Fin)' = Pos(Fin), Reduced(Root)' \in Int, Reduced(Root)' >= Reduced(Root)
  PROVE  FinLink'
<1>1. Reduced(Root) \in Nat /\ Finalized \in Nat
  BY CountersNat, GpuFacts
<1> QED
  BY <1>1 DEF IInv, Links, FinLink

LEMMA FiredFrame ==
  ASSUME IInv, separate' = separate, fired' = fired,
         \A g \in Gpus : /\ Written(g)' \in Int /\ Written(g)' >= Written(g)
                         /\ Reduced(g)' \in Int /\ Reduced(g)' >= Reduced(g)
                         /\ Freed(g)' \in Int /\ Freed(g)' >= Freed(g)
  PROVE  Fired'
<1>1. \A e \in Events : fired[e] \in Nat /\ e.slot \in 0 .. 1
  <2>1. \A e \in Events : e.slot \in Slots
    BY DEF Events
  <2> QED
    BY <2>1 DEF IInv, Typed, Slots
<1>2. \A g \in Gpus, k \in {"ready", "allreduced", "reduced"}, b \in Slots : Event(g, k, b) \in Events
  BY DEF Event, Events
<1>3. ASSUME NEW e \in Events, NEW n \in Int, NEW m \in Int, m >= n, Behind(e, n)
      PROVE  Behind(e, m)'
  BY <1>1, <1>3 DEF Behind
<1>4. \A g \in Gpus : Written(g) \in Nat /\ Reduced(g) \in Nat /\ Freed(g) \in Nat
  BY CountersNat
<1> SUFFICES ASSUME NEW b \in Slots
             PROVE  /\ \A g \in Gpus : /\ Behind(Event(g, "ready", b), Written(g))'
                                       /\ Behind(Event(g, "reduced", b), Freed(g))'
                    /\ separate => Behind(Event(Root, "allreduced", b), Reduced(Root))'
  BY DEF Fired
<1>5. ASSUME NEW g \in Gpus
      PROVE  /\ Behind(Event(g, "ready", b), Written(g))'
             /\ Behind(Event(g, "reduced", b), Freed(g))'
  <2>1. Behind(Event(g, "ready", b), Written(g)) /\ Behind(Event(g, "reduced", b), Freed(g))
    BY DEF IInv, Fired
  <2> QED
    BY <1>1, <1>2, <1>4, <2>1 DEF Behind
<1>6. separate => Behind(Event(Root, "allreduced", b), Reduced(Root))'
  <2>1. separate => Behind(Event(Root, "allreduced", b), Reduced(Root))
    BY DEF IInv, Fired
  <2> QED
    BY <1>1, <1>2, <1>4, <2>1, GpuFacts DEF Behind
<1> QED
  BY <1>5, <1>6

-----------------------------------------------------------------------------
(* Steps of the streams.                                                   *)
LEMMA Kinds ==
  /\ \A k, c : Work(k, c).op = k /\ Work(k, c).chunk = c
  /\ \A g, c : /\ Reuse(g, c).op = "wait" /\ Reuse(g, c).event = Event(g, "reduced", SlotOf(c))
                 /\ Reuse(g, c).count = c \div 2
               /\ Await(g, c).op = "wait" /\ Await(g, c).event = Event(g, "ready", SlotOf(c))
                 /\ Await(g, c).count = Turn(c)
               /\ Filled(g, c).op = "record" /\ Filled(g, c).event = Event(g, "ready", SlotOf(c))
                 /\ Filled(g, c).count = Turn(c)
               /\ Release(g, c).op = "record" /\ Release(g, c).event = Event(g, "reduced", SlotOf(c))
                 /\ Release(g, c).count = Turn(c)
  /\ \A c : /\ SumDone(c).op = "record" /\ SumDone(c).event = Event(Root, "allreduced", SlotOf(c))
              /\ SumDone(c).count = Turn(c)
            /\ AwaitSum(c).op = "wait" /\ AwaitSum(c).event = Event(Root, "allreduced", SlotOf(c))
              /\ AwaitSum(c).count = Turn(c)
BY DEF Work, Reuse, Await, Filled, Release, SumDone, AwaitSum, Wait, Record

(* Chunk c is the Turn(c)-th in its slot.                                  *)
LEMMA TurnFacts ==
  \A c \in Nat : /\ c \div 2 \in Nat /\ Turn(c) \in Nat /\ Turn(c) > 0 /\ SlotOf(c) \in Slots
                 /\ 2 * (c \div 2) + SlotOf(c) = c
                 /\ 2 * Turn(c) + SlotOf(c) - 1 = c + 1
                 /\ c >= 2 => c \div 2 > 0
<1> SUFFICES ASSUME NEW c \in Nat
             PROVE  /\ c \div 2 \in Nat /\ (c % 2) \in 0 .. 1 /\ c = 2 * (c \div 2) + (c % 2)
  BY DEF Turn, SlotOf, Slots
<1> QED
  BY ModBounds, DivBounds

LEMMA EventFacts ==
  \A g \in Gpus, k \in {"ready", "allreduced", "reduced"}, b \in Slots :
    /\ Event(g, k, b) \in Events /\ Event(g, k, b).slot = b
    /\ Event(g, k, b).gpu = g /\ Event(g, k, b).kind = k
BY DEF Event, Events

(* A stream does not touch what belongs to the host.                       *)
LEMMA DeviceCommon ==
  ASSUME IInv, UNCHANGED <<separate, hostVars, recorded>>,
         \A t \in Streams : queue[t] = <<>> => queue'[t] = <<>>
  PROVE  Place' /\ Recorded' /\ Drained'
<1>1. Place' /\ Drained'
  BY Still DEF IInv, Place, Drained
<1>2. Recorded'
  BY Still DEF IInv, Recorded
<1> QED
  BY <1>1, <1>2

(* An event that has fired Turn(c) times is behind chunk c.                *)
LEMMA WaitPassed ==
  ASSUME IInv, NEW c \in Nat, NEW g \in Gpus
  PROVE  /\ fired[Event(g, "ready", SlotOf(c))] >= Turn(c) => Written(g) > c
         /\ c >= 2 /\ fired[Event(g, "reduced", SlotOf(c))] >= c \div 2 => Freed(g) >= c - 1
         /\ separate /\ fired[Event(Root, "allreduced", SlotOf(c))] >= Turn(c) => Reduced(Root) > c
<1>1. /\ c \div 2 \in Nat /\ Turn(c) \in Nat /\ Turn(c) > 0 /\ SlotOf(c) \in Nat
      /\ 2 * (c \div 2) + SlotOf(c) = c /\ 2 * Turn(c) + SlotOf(c) - 1 = c + 1
      /\ c >= 2 => c \div 2 > 0
      /\ SlotOf(c) \in Slots
  BY TurnFacts DEF Slots
<1>2. Written(g) \in Nat /\ Freed(g) \in Nat /\ Reduced(Root) \in Nat
  BY CountersNat, GpuFacts
<1>3. ASSUME NEW e \in Events, e.slot = SlotOf(c), NEW n \in Nat, Behind(e, n)
      PROVE  /\ fired[e] >= Turn(c) => n > c
             /\ c >= 2 /\ fired[e] >= c \div 2 => n >= c - 1
  <2>1. fired[e] \in Nat /\ (fired[e] > 0 => n >= 2 * fired[e] + SlotOf(c) - 1)
    BY <1>3 DEF IInv, Typed, Behind
  <2> QED
    BY <1>1, <1>3, <2>1
<1>4. /\ Behind(Event(g, "ready", SlotOf(c)), Written(g))
      /\ Behind(Event(g, "reduced", SlotOf(c)), Freed(g))
      /\ separate => Behind(Event(Root, "allreduced", SlotOf(c)), Reduced(Root))
  BY <1>1 DEF IInv, Fired
<1> QED
  BY <1>1, <1>2, <1>3, <1>4, EventFacts, GpuFacts

(* A wait or a record leaves all counts as they are.                       *)
LEMMA QuietPop ==
  ASSUME IInv, NEW s \in Streams, queue[s] # <<>>, Head(queue[s]).op \in {"wait", "record"},
         queue' = [queue EXCEPT ![s] = Tail(@)], UNCHANGED <<separate, hostVars>>
  PROVE  /\ queue' \in [Streams -> Seq(Ops)] /\ Queues' /\ Pos(s)' = Pos(s) + 1
         /\ \A t \in Streams : t # s => Pos(t)' = Pos(t) /\ queue'[t] = queue[t]
         /\ \A g \in Gpus : Written(g)' = Written(g) /\ Reduced(g)' = Reduced(g) /\ Freed(g)' = Freed(g)
         /\ Finalized' = Finalized
<1>1. /\ \A g \in Gpus : Written(g) \in Nat /\ Reduced(g) \in Nat
      /\ Finalized \in Nat
  BY CountersNat
<1>2. /\ queue' \in [Streams -> Seq(Ops)] /\ Queues' /\ Pos(s)' = Pos(s) + 1
      /\ \A t \in Streams : t # s => Pos(t)' = Pos(t) /\ queue'[t] = queue[t]
      /\ \A g \in Gpus : Written(g)' = Written(g) + 0 /\ Reduced(g)' = Reduced(g) + 0
      /\ Finalized' = Finalized + 0
  BY PopEffect
<1>3. \A g \in Gpus : Written(g)' = Written(g) /\ Reduced(g)' = Reduced(g)
  BY <1>1, <1>2
<1>4. Finalized' = Finalized
  BY <1>1, <1>2
<1>5. \A g \in Gpus : Freed(g)' = Freed(g)
  BY <1>3, <1>4 DEF Freed
<1> QED
  BY <1>2, <1>3, <1>4, <1>5

(* A wait has passed: the stage behind it has what it waited for.          *)
LEMMA PassWaitInv ==
  ASSUME IInv, NEW s \in Streams, PassWait(s)
  PROVE  IInv'
<1>1. /\ queue[s] # <<>> /\ Head(queue[s]).op = "wait" /\ ~active[s]
      /\ fired[Head(queue[s]).event] >= Head(queue[s]).count
      /\ queue' = [queue EXCEPT ![s] = Tail(@)]
      /\ UNCHANGED <<separate, hostVars, active, recorded, fired, total, slot, sims>>
  BY DEF PassWait, Idle, Next1
<1>2. /\ queue' \in [Streams -> Seq(Ops)] /\ Queues' /\ Pos(s)' = Pos(s) + 1
      /\ \A t \in Streams : t # s => Pos(t)' = Pos(t) /\ queue'[t] = queue[t]
      /\ \A g \in Gpus : Written(g)' = Written(g) /\ Reduced(g)' = Reduced(g) /\ Freed(g)' = Freed(g)
      /\ Finalized' = Finalized
  BY <1>1, QuietPop
<1>3. \A g \in Gpus : Written(g) \in Nat /\ Reduced(g) \in Nat /\ Freed(g) \in Nat
  BY CountersNat
<1>4. Typed'
  BY <1>1, <1>2, Still DEF IInv, Typed
<1>5. Place' /\ Recorded' /\ Drained'
  BY <1>1, <1>2, DeviceCommon
<1>6. Fired'
  BY <1>1, <1>2, <1>3, FiredFrame
<1>7. Working'
  BY <1>1, <1>2 DEF IInv, Working
<1>8. ASSUME NEW g \in Gpus PROVE ComputeLink(g)'
  <2>1. CASE s # Compute(g)
    BY <1>2, <1>3, <2>1, ComputeFrame, StreamFacts
  <2>2. CASE s = Compute(g)
    <3>1. /\ Written(g) >= 2 /\ Pos(s) = 3 * Written(g) - 2
          /\ Head(queue[s]) = Reuse(g, Written(g))
      BY <1>1, <2>2, HeadCompute, Kinds
    <3>2. Freed(g) >= Written(g) - 1
      BY <1>1, <1>3, <3>1, WaitPassed, Kinds
    <3> QED
      BY <1>2, <1>3, <2>2, <3>1, <3>2 DEF ComputeLink
  <2> QED
    BY <2>1, <2>2
<1>9. ASSUME NEW g \in Gpus PROVE CommLink(g)'
  <2>1. CASE s # Comm(g)
    BY <1>1, <1>2, <1>3, <2>1, CommFrame, StreamFacts
  <2>2. CASE s = Comm(g)
    <3>1. /\ Pos(s) = (IF OwnFinalize(g) THEN 4 ELSE 3) * Reduced(g)
          /\ Head(queue[s]) = Await(g, Reduced(g))
      BY <1>1, <2>2, HeadComm, Kinds
    <3>2. Written(g) > Reduced(g)
      BY <1>1, <1>3, <3>1, WaitPassed, Kinds
    <3>3. OwnFinalize(g)' <=> OwnFinalize(g)
      BY <1>1 DEF OwnFinalize
    <3>4. OwnFinalize(g) => Finalized = Reduced(g)
      BY <1>3, <2>2, <3>1 DEF IInv, Links, CommLink
    <3> QED
      BY <1>2, <1>3, <2>2, <3>1, <3>2, <3>3, <3>4 DEF CommLink
  <2> QED
    BY <2>1, <2>2
<1>10. FinLink'
  <2>0. Reduced(Root) \in Nat /\ Finalized \in Nat
    BY CountersNat, GpuFacts
  <2>1. CASE s # Fin
    BY <1>1, <1>2, <2>0, <2>1, FinFrame, StreamFacts, GpuFacts
  <2>2. CASE s = Fin
    <3>1. separate /\ Pos(s) = 3 * Finalized /\ Head(queue[s]) = AwaitSum(Finalized)
      BY <1>1, <2>2, HeadFin, Kinds
    <3>2. Reduced(Root) > Finalized
      BY <1>1, <2>0, <3>1, WaitPassed, Kinds, GpuFacts
    <3> QED
      BY <1>2, <2>0, <2>2, <3>1, <3>2, GpuFacts DEF FinLink
  <2> QED
    BY <2>1, <2>2
<1> QED
  BY <1>2, <1>4, <1>5, <1>6, <1>7, <1>8, <1>9, <1>10 DEF IInv, Links

(* A record fires: the stage before it is done.                            *)
LEMMA FireRecordInv ==
  ASSUME IInv, NEW s \in Streams, FireRecord(s)
  PROVE  IInv'
<1> DEFINE x == Head(queue[s])
<1>1. /\ queue[s] # <<>> /\ x.op = "record" /\ ~active[s]
      /\ fired' = [fired EXCEPT ![x.event] = x.count]
      /\ queue' = [queue EXCEPT ![s] = Tail(@)]
      /\ UNCHANGED <<separate, hostVars, active, recorded, total, slot, sims>>
  BY DEF FireRecord, Idle, Next1
<1>2. /\ queue' \in [Streams -> Seq(Ops)] /\ Queues' /\ Pos(s)' = Pos(s) + 1
      /\ \A t \in Streams : t # s => Pos(t)' = Pos(t) /\ queue'[t] = queue[t]
      /\ \A g \in Gpus : Written(g)' = Written(g) /\ Reduced(g)' = Reduced(g) /\ Freed(g)' = Freed(g)
      /\ Finalized' = Finalized
  BY <1>1, QuietPop
<1>3. \A g \in Gpus : Written(g) \in Nat /\ Reduced(g) \in Nat /\ Freed(g) \in Nat
  BY CountersNat
<1> HIDE DEF x
(* What fires is the record of the last chunk that went through.           *)
<1>4. \E g \in Gpus :
        \/ s = Compute(g) /\ Written(g) >= 1 /\ x = Filled(g, Written(g) - 1)
             /\ Pos(s) = IF Written(g) < 2 THEN 2 * Written(g) - 1 ELSE 3 * Written(g) - 3
        \/ s = Comm(g) /\ Reduced(g) >= 1 /\ g = Root /\ separate /\ x = SumDone(Reduced(g) - 1)
             /\ Pos(s) = 3 * Reduced(g) - 1
        \/ s = Comm(g) /\ Reduced(g) >= 1 /\ (g = Root => ~separate) /\ x = Release(g, Reduced(g) - 1)
             /\ Pos(s) = (IF OwnFinalize(g) THEN 4 ELSE 3) * Reduced(g) - 1 /\ Freed(g) >= Reduced(g)
        \/ s = Fin /\ separate /\ g = Root /\ Freed(g) >= 1 /\ x = Release(g, Freed(g) - 1)
             /\ Pos(s) = 3 * Freed(g) - 1
  <2>1. ASSUME NEW g \in Gpus, s = Compute(g)
        PROVE  Written(g) >= 1 /\ x = Filled(g, Written(g) - 1)
                 /\ Pos(s) = IF Written(g) < 2 THEN 2 * Written(g) - 1 ELSE 3 * Written(g) - 3
    BY <1>1, <2>1, HeadCompute, Kinds DEF x
  <2>2. ASSUME NEW g \in Gpus, s = Comm(g)
        PROVE  \/ Reduced(g) >= 1 /\ g = Root /\ separate /\ x = SumDone(Reduced(g) - 1)
                    /\ Pos(s) = 3 * Reduced(g) - 1
               \/ Reduced(g) >= 1 /\ (g = Root => ~separate) /\ x = Release(g, Reduced(g) - 1)
                    /\ Pos(s) = (IF OwnFinalize(g) THEN 4 ELSE 3) * Reduced(g) - 1 /\ Freed(g) >= Reduced(g)
    BY <1>1, <2>2, HeadComm, Kinds DEF x
  <2>3. CASE s = Fin
    BY <1>1, <2>3, HeadFin, Kinds, GpuFacts DEF x, Freed
  <2> QED
    BY <2>1, <2>2, <2>3, StreamFacts
<1>5. \E g \in Gpus, k \in {"ready", "allreduced", "reduced"}, c \in Nat :
        /\ x.event = Event(g, k, SlotOf(c)) /\ x.count = Turn(c)
        /\ k = "ready" => Written(g) >= c + 1
        /\ k = "reduced" => Freed(g) >= c + 1
        /\ k = "allreduced" => g = Root /\ Reduced(Root) >= c + 1
  <2>1. PICK g \in Gpus :
          \/ Written(g) >= 1 /\ x = Filled(g, Written(g) - 1)
          \/ Reduced(g) >= 1 /\ g = Root /\ x = SumDone(Reduced(g) - 1)
          \/ Reduced(g) >= 1 /\ x = Release(g, Reduced(g) - 1) /\ Freed(g) >= Reduced(g)
          \/ Freed(g) >= 1 /\ x = Release(g, Freed(g) - 1)
    BY <1>4
  <2>2. CASE Written(g) >= 1 /\ x = Filled(g, Written(g) - 1)
    <3>1. Written(g) - 1 \in Nat /\ Written(g) >= (Written(g) - 1) + 1
      BY <1>3, <2>2
    <3> QED
      BY <2>2, <3>1, Kinds
  <2>3. CASE Reduced(g) >= 1 /\ g = Root /\ x = SumDone(Reduced(g) - 1)
    <3>1. Reduced(g) - 1 \in Nat /\ Reduced(g) >= (Reduced(g) - 1) + 1
      BY <1>3, <2>3
    <3> QED
      BY <2>3, <3>1, Kinds
  <2>4. CASE Reduced(g) >= 1 /\ x = Release(g, Reduced(g) - 1) /\ Freed(g) >= Reduced(g)
    <3>1. Reduced(g) - 1 \in Nat /\ Freed(g) >= (Reduced(g) - 1) + 1
      BY <1>3, <2>4
    <3> QED
      BY <2>4, <3>1, Kinds
  <2>5. CASE Freed(g) >= 1 /\ x = Release(g, Freed(g) - 1)
    <3>1. Freed(g) - 1 \in Nat /\ Freed(g) >= (Freed(g) - 1) + 1
      BY <1>3, <2>5
    <3> QED
      BY <2>5, <3>1, Kinds
  <2> QED
    BY <2>1, <2>2, <2>3, <2>4, <2>5
<1>6. PICK gx \in Gpus, kx \in {"ready", "allreduced", "reduced"}, cx \in Nat :
        /\ x.event = Event(gx, kx, SlotOf(cx)) /\ x.count = Turn(cx)
        /\ kx = "ready" => Written(gx) >= cx + 1
        /\ kx = "reduced" => Freed(gx) >= cx + 1
        /\ kx = "allreduced" => gx = Root /\ Reduced(Root) >= cx + 1
  BY <1>5
<1>7. /\ SlotOf(cx) \in Slots /\ Turn(cx) \in Nat /\ Turn(cx) > 0
      /\ 2 * Turn(cx) + SlotOf(cx) - 1 = cx + 1 /\ x.event \in Events
  <2>1. cx \in Nat /\ gx \in Gpus /\ kx \in {"ready", "allreduced", "reduced"}
    OBVIOUS
  <2>2. /\ SlotOf(cx) \in Slots /\ Turn(cx) \in Nat /\ Turn(cx) > 0
        /\ 2 * Turn(cx) + SlotOf(cx) - 1 = cx + 1
    BY <2>1, TurnFacts
  <2>3. Event(gx, kx, SlotOf(cx)) \in Events
    BY <2>1, <2>2, EventFacts
  <2> QED
    BY <1>6, <2>2, <2>3
<1>71. ASSUME NEW g \in Gpus, NEW k \in {"ready", "allreduced", "reduced"}, NEW b \in Slots,
              Event(g, k, b) = x.event
       PROVE  g = gx /\ k = kx
  <2>1. Event(g, k, b) = Event(gx, kx, SlotOf(cx))
    BY <1>6, <1>71
  <2> QED
    BY <2>1 DEF Event
<1>72. x.event.slot = SlotOf(cx)
  BY <1>6 DEF Event
<1>8. Fired'
  <2>1. ASSUME NEW e \in Events, NEW n \in Nat, Behind(e, n),
               e = x.event => n >= cx + 1
        PROVE  fired'[e] > 0 => n >= 2 * fired'[e] + e.slot - 1
    <3>1. CASE e = x.event
      <4>1. fired'[e] = Turn(cx) /\ e.slot = SlotOf(cx)
        BY <1>1, <1>6, <1>7, <1>72, <3>1 DEF IInv, Typed
      <4>2. SlotOf(cx) \in Nat /\ n >= cx + 1
        BY <1>7, <2>1, <3>1 DEF Slots
      <4> HIDE DEF x
      <4> QED
        BY <1>7, <2>1, <4>1, <4>2
    <3>2. CASE e # x.event
      BY <1>1, <2>1, <3>2 DEF Behind, IInv, Typed
    <3> QED
      BY <3>1, <3>2
  <2>2. ASSUME NEW g \in Gpus, NEW b \in Slots
        PROVE  Behind(Event(g, "ready", b), Written(g))'
    <3>1. Behind(Event(g, "ready", b), Written(g)) /\ Event(g, "ready", b) \in Events
      BY EventFacts DEF IInv, Fired
    <3>2. Event(g, "ready", b) = x.event => Written(g) >= cx + 1
      BY <1>6, <1>71
    <3> QED
      BY <1>2, <1>3, <2>1, <3>1, <3>2 DEF Behind
  <2>3. ASSUME NEW g \in Gpus, NEW b \in Slots
        PROVE  Behind(Event(g, "reduced", b), Freed(g))'
    <3>1. Behind(Event(g, "reduced", b), Freed(g)) /\ Event(g, "reduced", b) \in Events
      BY EventFacts DEF IInv, Fired
    <3>2. Event(g, "reduced", b) = x.event => Freed(g) >= cx + 1
      BY <1>6, <1>71
    <3> QED
      BY <1>2, <1>3, <2>1, <3>1, <3>2 DEF Behind
  <2>4. ASSUME separate, NEW b \in Slots
        PROVE  Behind(Event(Root, "allreduced", b), Reduced(Root))'
    <3>1. Behind(Event(Root, "allreduced", b), Reduced(Root)) /\ Event(Root, "allreduced", b) \in Events
      BY <2>4, EventFacts, GpuFacts DEF IInv, Fired
    <3>2. Event(Root, "allreduced", b) = x.event => Reduced(Root) >= cx + 1
      BY <1>6, <1>71, GpuFacts
    <3> QED
      BY <1>2, <1>3, <2>1, <3>1, <3>2, GpuFacts DEF Behind
  <2> QED
    BY <1>1, <2>2, <2>3, <2>4 DEF Fired
<1>9. Typed'
  <2>1. fired' \in [Events -> Nat]
    BY <1>1, <1>6, <1>7 DEF IInv, Typed
  <2> QED
    BY <1>1, <1>2, <2>1, Still DEF IInv, Typed
<1>10. Place' /\ Recorded' /\ Drained'
  BY <1>1, <1>2, DeviceCommon
<1>11. Working'
  BY <1>1, <1>2 DEF IInv, Working
<1>12. ASSUME NEW g \in Gpus PROVE ComputeLink(g)'
  <2>1. CASE s # Compute(g)
    BY <1>2, <1>3, <2>1, ComputeFrame, StreamFacts
  <2>2. CASE s = Compute(g)
    <3>1. Written(g) >= 1 /\ Pos(s) = IF Written(g) < 2 THEN 2 * Written(g) - 1 ELSE 3 * Written(g) - 3
      BY <1>4, <2>2, StreamFacts
    <3> QED
      BY <1>2, <1>3, <2>2, <3>1 DEF ComputeLink
  <2> QED
    BY <2>1, <2>2
<1>13. ASSUME NEW g \in Gpus PROVE CommLink(g)'
  <2>1. CASE s # Comm(g)
    BY <1>1, <1>2, <1>3, <2>1, CommFrame, StreamFacts
  <2>2. CASE s = Comm(g)
    <3>1. Reduced(g) >= 1 /\ Pos(s) = (IF OwnFinalize(g) THEN 4 ELSE 3) * Reduced(g) - 1
      BY <1>4, <2>2, StreamFacts DEF OwnFinalize
    <3>2. OwnFinalize(g)' <=> OwnFinalize(g)
      BY <1>1 DEF OwnFinalize
    <3>3. OwnFinalize(g) => Finalized = Reduced(g)
      BY <1>3, <2>2, <3>1 DEF IInv, Links, CommLink
    <3> QED
      BY <1>2, <1>3, <2>2, <3>1, <3>2, <3>3, SMTT(20) DEF CommLink
  <2> QED
    BY <2>1, <2>2
<1>14. FinLink'
  <2>0. Reduced(Root) \in Nat /\ Finalized \in Nat
    BY CountersNat, GpuFacts
  <2>1. CASE s # Fin
    BY <1>1, <1>2, <2>0, <2>1, FinFrame, StreamFacts, GpuFacts
  <2>2. CASE s = Fin
    <3>1. separate /\ Pos(s) = 3 * Finalized - 1
      BY <1>4, <2>2, StreamFacts DEF Freed
    <3> QED
      BY <1>2, <2>0, <2>2, <3>1, GpuFacts DEF FinLink
  <2> QED
    BY <2>1, <2>2
<1> QED
  BY <1>2, <1>8, <1>9, <1>10, <1>11, <1>12, <1>13, <1>14 DEF IInv, Links

-----------------------------------------------------------------------------
(* Kernels and collectives.                                                *)
LEMMA ChunkFacts ==
  ASSUME NEW x \in Ops, x.op \in {"stats", "allreduce", "finalize"}
  PROVE  /\ x.chunk \in Chunks /\ x.chunk \in Nat /\ SlotOf(x.chunk) \in Slots
         /\ Torn(x.chunk) \in Contents /\ Partial(x.chunk) \in Contents
         /\ Total(x.chunk) \in Contents /\ Mixed(x.chunk) \in Contents
<1>1. x.chunk \in Chunks
  BY DEF Ops
<1>2. x.chunk \in Nat
  BY <1>1, GpuFacts DEF Chunks
<1> QED
  BY <1>1, <1>2, GpuFacts DEF Torn, Partial, Total, Mixed, Contents

(* The chunk of a kernel or collective is a chunk of the batch.            *)
LEMMA HeadType ==
  ASSUME IInv, NEW s \in Streams, queue[s] # <<>>
  PROVE  Head(queue[s]) \in Ops
BY HeadPosition

(* Nothing leaves a stream.                                                *)
LEMMA QuietInv ==
  ASSUME IInv, UNCHANGED <<separate, hostVars, queue, recorded, fired, sims>>,
         Working', active' \in [Streams -> BOOLEAN],
         total' \in [Chunks -> Outcome], slot' \in [Gpus -> [Slots -> Contents]]
  PROVE  IInv'
<1>1. /\ Queues' /\ \A t \in Streams : Pos(t)' = Pos(t)
      /\ \A g \in Gpus : Written(g)' = Written(g) /\ Reduced(g)' = Reduced(g) /\ Freed(g)' = Freed(g)
      /\ Finalized' = Finalized
  BY NoPop DEF Freed
<1>2. \A g \in Gpus : Written(g) \in Nat /\ Reduced(g) \in Nat /\ Freed(g) \in Nat
  BY CountersNat
<1>3. Typed'
  BY Still DEF IInv, Typed
<1>4. Place' /\ Recorded' /\ Drained'
  BY DeviceCommon
<1>5. Fired'
  BY <1>1, <1>2, FiredFrame
<1>6. ASSUME NEW g \in Gpus PROVE ComputeLink(g)' /\ CommLink(g)'
  BY <1>1, <1>2, ComputeFrame, CommFrame, StreamFacts
<1>7. FinLink'
  BY <1>1, <1>2, FinFrame, StreamFacts, GpuFacts
<1> QED
  BY <1>1, <1>3, <1>4, <1>5, <1>6, <1>7 DEF IInv, Links

(* Something begins: no queue changes.                                     *)
LEMMA BeginInv ==
  ASSUME IInv, NEW s \in Streams, queue[s] # <<>>, Begin(s),
         Head(queue[s]).op \in {"stats", "allreduce", "finalize"},
         UNCHANGED <<separate, hostVars, recorded, fired, total, sims>>,
         slot' \in [Gpus -> [Slots -> Contents]]
  PROVE  IInv'
<1>1. active' \in [Streams -> BOOLEAN] /\ Working'
  BY DEF Begin, IInv, Typed, Working
<1> QED
  BY <1>1, QuietInv DEF Begin, IInv, Typed

LEMMA StatsBeginInv ==
  ASSUME IInv, NEW g \in Gpus, StatsBegin(g)
  PROVE  IInv'
<1>1. Compute(g) \in Streams /\ queue[Compute(g)] # <<>> /\ Head(queue[Compute(g)]).op = "stats"
  BY StreamFacts DEF StatsBegin, Idle, Next1
<1>2. slot' \in [Gpus -> [Slots -> Contents]]
  BY <1>1, HeadType, ChunkFacts DEF StatsBegin, IInv, Typed
<1> QED
  BY <1>1, <1>2, BeginInv DEF StatsBegin

LEMMA JoinInv ==
  ASSUME IInv, NEW g \in Gpus, Join(g)
  PROVE  IInv'
<1>1. Comm(g) \in Streams /\ queue[Comm(g)] # <<>> /\ Head(queue[Comm(g)]).op = "allreduce"
  BY StreamFacts DEF Join, Idle, Next1
<1> QED
  BY <1>1, BeginInv DEF Join, IInv, Typed

LEMMA FinalizeBeginInv ==
  ASSUME IInv, FinalizeBegin
  PROVE  IInv'
<1>1. PICK s \in Streams : s = FinalizeStream
  BY StreamFacts
<1>2. queue[s] # <<>> /\ Head(queue[s]).op = "finalize" /\ Begin(s)
  BY <1>1 DEF FinalizeBegin, Idle, Next1
<1> QED
  BY <1>2, BeginInv DEF FinalizeBegin, IInv, Typed

LEMMA CombineInv ==
  ASSUME IInv, NEW c \in Chunks, Combine(c)
  PROVE  IInv'
<1>1. total' \in [Chunks -> Outcome]
  BY DEF Combine, IInv, Typed, Outcome
<1>2. Working' /\ active' \in [Streams -> BOOLEAN] /\ slot' \in [Gpus -> [Slots -> Contents]]
  BY DEF Combine, IInv, Typed, Working
<1> QED
  BY <1>1, <1>2, QuietInv DEF Combine

(* Something is finished.                                                  *)
LEMMA EndCommon ==
  ASSUME IInv, NEW s \in Streams, queue[s] # <<>>, End(s),
         UNCHANGED <<separate, hostVars, recorded, fired, total>>,
         slot' \in [Gpus -> [Slots -> Contents]], sims' \in [Pairs -> Outcome]
  PROVE  /\ Typed' /\ Place' /\ Queues' /\ Recorded' /\ Fired' /\ Working' /\ Drained'
         /\ \A g \in Gpus : Written(g)' \in Nat /\ Reduced(g)' \in Nat /\ Freed(g)' \in Nat
         /\ \A g \in Gpus : Freed(g)' >= Freed(g)
<1>1. queue' = [queue EXCEPT ![s] = Tail(@)] /\ active' = [active EXCEPT ![s] = FALSE]
  BY DEF End
<1>2. /\ queue' \in [Streams -> Seq(Ops)] /\ Queues'
      /\ \A t \in Streams : t # s => queue'[t] = queue[t]
      /\ \A g \in Gpus : /\ Written(g)' \in {Written(g), Written(g) + 1}
                         /\ Reduced(g)' \in {Reduced(g), Reduced(g) + 1}
      /\ Finalized' \in {Finalized, Finalized + 1}
  <2>1. Finalized \in Nat /\ \A g \in Gpus : Written(g) \in Nat /\ Reduced(g) \in Nat
    BY CountersNat
  <2>2. /\ queue' \in [Streams -> Seq(Ops)] /\ Queues'
        /\ \A t \in Streams : t # s => queue'[t] = queue[t]
        /\ \A g \in Gpus : /\ Written(g)' = Written(g) + IF s = Compute(g) /\ Head(queue[s]).op = "stats"
                                                          THEN 1 ELSE 0
                           /\ Reduced(g)' = Reduced(g) + IF s = Comm(g) /\ Head(queue[s]).op = "allreduce"
                                                          THEN 1 ELSE 0
        /\ Finalized' = Finalized + IF s = FinalizeStream /\ Head(queue[s]).op = "finalize"
                                     THEN 1 ELSE 0
    BY <1>1, PopEffect
  <2>3. ASSUME NEW g \in Gpus
        PROVE  Written(g)' \in {Written(g), Written(g) + 1} /\ Reduced(g)' \in {Reduced(g), Reduced(g) + 1}
    BY <2>1, <2>2
  <2>4. Finalized' \in {Finalized, Finalized + 1}
    BY <2>1, <2>2
  <2> QED
    BY <2>2, <2>3, <2>4
<1>3. /\ \A g \in Gpus : Written(g) \in Nat /\ Reduced(g) \in Nat /\ Freed(g) \in Nat
      /\ Finalized \in Nat
  BY CountersNat
<1>4. \A g \in Gpus : Freed(g)' \in {Freed(g), Freed(g) + 1}
  BY <1>2, <1>3 DEF Freed
<1>5. Typed'
  <2>1. active' \in [Streams -> BOOLEAN]
    BY <1>1 DEF IInv, Typed
  <2> QED
    BY <1>2, <2>1, Still DEF IInv, Typed
<1>6. \A t \in Streams : queue[t] = <<>> => queue'[t] = <<>>
  BY <1>2
<1>41. ASSUME NEW g \in Gpus
       PROVE  /\ Written(g)' \in Nat /\ Written(g)' >= Written(g)
              /\ Reduced(g)' \in Nat /\ Reduced(g)' >= Reduced(g)
              /\ Freed(g)' \in Nat /\ Freed(g)' >= Freed(g)
  <2>1. /\ Written(g)' \in {Written(g), Written(g) + 1} /\ Reduced(g)' \in {Reduced(g), Reduced(g) + 1}
        /\ Freed(g)' \in {Freed(g), Freed(g) + 1}
    BY <1>2, <1>4
  <2>2. Written(g) \in Nat /\ Reduced(g) \in Nat /\ Freed(g) \in Nat
    BY <1>3
  <2>3. \A n \in Nat : \A m \in {n, n + 1} : m \in Nat /\ m >= n
    OBVIOUS
  <2> QED
    BY <2>1, <2>2, <2>3
<1>7. Fired'
  BY <1>41, FiredFrame
<1>8. Working'
  BY <1>1, <1>2 DEF IInv, Working, Typed
<1> QED
  BY <1>2, <1>41, <1>5, <1>6, <1>7, <1>8, DeviceCommon

(* A statistics kernel ends: its chunk is written.                         *)
LEMMA StatsEndInv ==
  ASSUME IInv, NEW g \in Gpus, StatsEnd(g)
  PROVE  IInv'
<1> DEFINE s == Compute(g)
           w == Written(g)
<1>1. s \in Streams /\ queue[s] # <<>> /\ Head(queue[s]).op = "stats" /\ End(s)
  BY StreamFacts DEF StatsEnd, Busy, Next1
<1>2. slot' \in [Gpus -> [Slots -> Contents]]
  BY <1>1, HeadType, ChunkFacts DEF StatsEnd, IInv, Typed
<1>3. /\ Typed' /\ Place' /\ Queues' /\ Recorded' /\ Fired' /\ Working' /\ Drained'
  BY <1>1, <1>2, EndCommon DEF StatsEnd, IInv, Typed
<1>4. /\ Finalized \in Nat
      /\ \A h \in Gpus : Written(h) \in Nat /\ Reduced(h) \in Nat /\ Freed(h) \in Nat
  BY CountersNat
<1>5. /\ Pos(s)' = Pos(s) + 1 /\ \A t \in Streams : t # s => Pos(t)' = Pos(t)
      /\ \A h \in Gpus : Written(h)' = Written(h) + (IF h = g THEN 1 ELSE 0)
      /\ \A h \in Gpus : Reduced(h)' = Reduced(h)
      /\ Finalized' = Finalized
  <2>1. /\ Pos(s)' = Pos(s) + 1 /\ \A t \in Streams : t # s => Pos(t)' = Pos(t)
        /\ \A h \in Gpus : /\ Written(h)' = Written(h) + IF s = Compute(h) /\ Head(queue[s]).op = "stats"
                                                          THEN 1 ELSE 0
                           /\ Reduced(h)' = Reduced(h) + IF s = Comm(h) /\ Head(queue[s]).op = "allreduce"
                                                          THEN 1 ELSE 0
        /\ Finalized' = Finalized + IF s = FinalizeStream /\ Head(queue[s]).op = "finalize"
                                     THEN 1 ELSE 0
    BY <1>1, PopEffect DEF StatsEnd, End
  <2>2. \A h \in Gpus : s = Compute(h) <=> h = g
    BY StreamFacts
  <2> HIDE DEF s
  <2> QED
    BY <1>1, <1>4, <2>1, <2>2
<1>6. \A h \in Gpus : Freed(h)' = Freed(h)
  BY <1>5 DEF Freed
<1>7. ASSUME NEW h \in Gpus PROVE ComputeLink(h)'
  <2>1. CASE h # g
    BY <1>4, <1>5, <1>6, <2>1, StreamFacts, ComputeFrame
  <2>2. CASE h = g
    <3>1. \/ w < 2 /\ Pos(s) = 2 * w
          \/ w >= 2 /\ Pos(s) = 3 * w - 1
      BY <1>1, HeadCompute, Kinds
    <3> QED
      BY <1>4, <1>5, <1>6, <2>2, <3>1 DEF ComputeLink
  <2> QED
    BY <2>1, <2>2
<1>8. ASSUME NEW h \in Gpus PROVE CommLink(h)'
  BY <1>4, <1>5, StreamFacts, CommFrame DEF StatsEnd
<1>9. FinLink'
  BY <1>4, <1>5, StreamFacts, FinFrame, GpuFacts DEF StatsEnd
<1> QED
  BY <1>3, <1>7, <1>8, <1>9 DEF IInv, Links

(* A collective ends on g: its chunk is reduced there.                     *)
LEMMA ReduceEndInv ==
  ASSUME IInv, NEW g \in Gpus, ReduceEnd(g)
  PROVE  IInv'
<1> DEFINE s == Comm(g)
           r == Reduced(g)
<1>1. s \in Streams /\ queue[s] # <<>> /\ Head(queue[s]).op = "allreduce" /\ End(s)
  BY StreamFacts DEF ReduceEnd, Busy, Next1
<1>2. slot' \in [Gpus -> [Slots -> Contents]]
  BY <1>1, HeadType, ChunkFacts DEF ReduceEnd, IInv, Typed
<1>3. /\ Typed' /\ Place' /\ Queues' /\ Recorded' /\ Fired' /\ Working' /\ Drained'
      /\ \A h \in Gpus : Freed(h)' \in Nat /\ Freed(h)' >= Freed(h)
  BY <1>1, <1>2, EndCommon DEF ReduceEnd, IInv, Typed
<1>4. /\ Finalized \in Nat
      /\ \A h \in Gpus : Written(h) \in Nat /\ Reduced(h) \in Nat /\ Freed(h) \in Nat
  BY CountersNat
<1>5. /\ Pos(s)' = Pos(s) + 1 /\ \A t \in Streams : t # s => Pos(t)' = Pos(t)
      /\ \A h \in Gpus : Reduced(h)' = Reduced(h) + (IF h = g THEN 1 ELSE 0)
      /\ \A h \in Gpus : Written(h)' = Written(h)
      /\ Finalized' = Finalized
  <2>1. /\ Pos(s)' = Pos(s) + 1 /\ \A t \in Streams : t # s => Pos(t)' = Pos(t)
        /\ \A h \in Gpus : /\ Written(h)' = Written(h) + IF s = Compute(h) /\ Head(queue[s]).op = "stats"
                                                          THEN 1 ELSE 0
                           /\ Reduced(h)' = Reduced(h) + IF s = Comm(h) /\ Head(queue[s]).op = "allreduce"
                                                          THEN 1 ELSE 0
        /\ Finalized' = Finalized + IF s = FinalizeStream /\ Head(queue[s]).op = "finalize"
                                     THEN 1 ELSE 0
    BY <1>1, PopEffect DEF ReduceEnd, End
  <2>2. \A h \in Gpus : s = Comm(h) <=> h = g
    BY StreamFacts
  <2> HIDE DEF s
  <2> QED
    BY <1>1, <1>4, <2>1, <2>2
<1>6. separate' = separate
  BY DEF ReduceEnd
<1>7. ASSUME NEW h \in Gpus PROVE ComputeLink(h)'
  BY <1>3, <1>5, StreamFacts, ComputeFrame
<1>8. ASSUME NEW h \in Gpus PROVE CommLink(h)'
  <2>1. CASE h # g
    BY <1>4, <1>5, <1>6, <2>1, StreamFacts, CommFrame
  <2>2. CASE h = g
    <3>1. Pos(s) = (IF OwnFinalize(g) THEN 4 ELSE 3) * r + 1
      BY <1>1, HeadComm, Kinds
    <3>2. OwnFinalize(g)' <=> OwnFinalize(g)
      BY <1>6 DEF OwnFinalize
    <3>3. OwnFinalize(g) => Finalized = r
      BY <1>4, <3>1 DEF IInv, Links, CommLink
    <3> QED
      BY <1>4, <1>5, <2>2, <3>1, <3>2, <3>3 DEF CommLink
  <2> QED
    BY <2>1, <2>2
<1>9. FinLink'
  BY <1>4, <1>5, <1>6, StreamFacts, FinFrame, GpuFacts
<1> QED
  BY <1>3, <1>7, <1>8, <1>9 DEF IInv, Links

(* A finalize kernel ends: its slot may be freed.                          *)
LEMMA FinalizeEndInv ==
  ASSUME IInv, FinalizeEnd
  PROVE  IInv'
<1>1. PICK s \in Streams : s = FinalizeStream
  BY StreamFacts
<1>2. /\ queue[s] # <<>> /\ Head(queue[s]).op = "finalize" /\ End(s)
      /\ UNCHANGED <<separate, hostVars, recorded, fired, total, slot>>
  BY <1>1 DEF FinalizeEnd, Busy, Next1
<1>3. sims' \in [Pairs -> Outcome]
  BY DEF FinalizeEnd, IInv, Typed, Outcome
<1>4. /\ Typed' /\ Place' /\ Queues' /\ Recorded' /\ Fired' /\ Working' /\ Drained'
      /\ \A h \in Gpus : Freed(h)' \in Nat /\ Freed(h)' >= Freed(h)
  BY <1>2, <1>3, EndCommon DEF IInv, Typed
<1>5. /\ Finalized \in Nat /\ Reduced(Root) \in Nat
      /\ \A h \in Gpus : Written(h) \in Nat /\ Reduced(h) \in Nat /\ Freed(h) \in Nat
  BY CountersNat, GpuFacts
<1>6. /\ Pos(s)' = Pos(s) + 1 /\ \A t \in Streams : t # s => Pos(t)' = Pos(t)
      /\ \A h \in Gpus : Written(h)' = Written(h) /\ Reduced(h)' = Reduced(h)
      /\ Finalized' = Finalized + 1
  <2>1. /\ Pos(s)' = Pos(s) + 1 /\ \A t \in Streams : t # s => Pos(t)' = Pos(t)
        /\ \A h \in Gpus : /\ Written(h)' = Written(h) + IF s = Compute(h) /\ Head(queue[s]).op = "stats"
                                                          THEN 1 ELSE 0
                           /\ Reduced(h)' = Reduced(h) + IF s = Comm(h) /\ Head(queue[s]).op = "allreduce"
                                                          THEN 1 ELSE 0
        /\ Finalized' = Finalized + IF s = FinalizeStream /\ Head(queue[s]).op = "finalize"
                                     THEN 1 ELSE 0
    BY <1>2, PopEffect DEF End
  <2> QED
    BY <1>1, <1>2, <1>5, <2>1
<1>7. ASSUME NEW g \in Gpus PROVE ComputeLink(g)'
  <2>1. s # Compute(g)
    BY <1>1, StreamFacts, GpuFacts
  <2> QED
    BY <1>4, <1>6, <2>1, StreamFacts, ComputeFrame
<1>8. ASSUME NEW g \in Gpus PROVE CommLink(g)'
  <2>1. CASE OwnFinalize(g)
    <3>1. s = Comm(g) /\ g = Root /\ ~separate
      BY <1>1, <2>1, StreamFacts DEF OwnFinalize
    <3>2. /\ Reduced(g) >= 1 /\ Pos(s) = 4 * Reduced(g) - 2 /\ Finalized = Reduced(g) - 1
      BY <1>2, <3>1, HeadComm, Kinds
    <3>3. OwnFinalize(g)'
      BY <1>2, <2>1 DEF OwnFinalize
    <3> QED
      BY <1>5, <1>6, <3>1, <3>2, <3>3 DEF CommLink
  <2>2. CASE ~OwnFinalize(g)
    <3>1. s # Comm(g)
      BY <1>1, <2>2, StreamFacts, GpuFacts DEF OwnFinalize
    <3> QED
      BY <1>2, <1>5, <1>6, <2>2, <3>1, StreamFacts, CommFrame
  <2> QED
    BY <2>1, <2>2
<1>9. FinLink'
  <2>1. CASE separate
    <3>1. s = Fin
      BY <1>1, <2>1, StreamFacts
    <3>2. Pos(s) = 3 * Finalized + 1
      BY <1>2, <3>1, HeadFin, Kinds
    <3> QED
      BY <1>5, <1>6, <3>1, <3>2 DEF FinLink
  <2>2. CASE ~separate
    BY <1>2, <2>2 DEF FinLink
  <2> QED
    BY <2>1, <2>2
<1> QED
  BY <1>4, <1>7, <1>8, <1>9 DEF IInv, Links

-----------------------------------------------------------------------------
(* The host extends the segments, and executes nothing.                    *)
Grows(s, q, n, r, m) ==
  /\ r \in Seq(Ops) /\ m \in Nat /\ Segment(s, r, m)
  /\ m - Len(r) = n - Len(q)
  /\ q # <<>> => r # <<>> /\ Head(r) = Head(q)

LEMMA GrowsSame ==
  ASSUME NEW s \in Streams, NEW q \in Seq(Ops), NEW n \in Nat, Segment(s, q, n)
  PROVE  Grows(s, q, n, q, n)
BY DEF Grows

LEMMA GrowsAppend ==
  ASSUME NEW s \in Streams, NEW q \in Seq(Ops), NEW n \in Nat, NEW r, NEW m,
         Grows(s, q, n, r, m), NEW x \in Ops, At(s, m, x)
  PROVE  Grows(s, q, n, Append(r, x), m + 1)
<1>1. r \in Seq(Ops) /\ m \in Nat /\ Segment(s, r, m)
  BY DEF Grows
<1>2. Segment(s, Append(r, x), m + 1)
  BY <1>1, SegmentAppend
<1>3. /\ Append(r, x) \in Seq(Ops) /\ Len(Append(r, x)) = Len(r) + 1 /\ Len(r) \in Nat
      /\ Append(r, x) # <<>> /\ (r # <<>> => Head(Append(r, x)) = Head(r))
  BY <1>1
<1>4. Len(q) \in Nat
  OBVIOUS
<1> QED
  BY <1>1, <1>2, <1>3, <1>4 DEF Grows

(* The concatenations of the code, as appends.                             *)
LEMMA ConcatTwo ==
  ASSUME NEW q \in Seq(Ops), NEW a \in Ops, NEW b \in Ops
  PROVE  q \o <<a, b>> = Append(Append(q, a), b)
OBVIOUS

LEMMA TwoAppends ==
  ASSUME NEW q \in Seq(Ops), NEW w \in Ops, NEW a \in Ops, NEW b \in Ops
  PROVE  /\ q \o <<>> \o <<a, b>> = Append(Append(q, a), b)
         /\ q \o <<w>> \o <<a, b>> = Append(Append(Append(q, w), a), b)
<1>1. ASSUME NEW r \in Seq(Ops) PROVE r \o <<a, b>> = Append(Append(r, a), b)
  BY ConcatTwo
<1>2. q \o <<>> = q /\ q \o <<w>> = Append(q, w) /\ Append(q, w) \in Seq(Ops)
  OBVIOUS
<1> QED
  BY <1>1, <1>2

(* What every step of the host has to keep up.                             *)
LEMMA HostInv ==
  ASSUME IInv, UNCHANGED <<separate, active, fired, total, slot, sims>>,
         failed' \in BOOLEAN, chunk' \in Nat, dev' \in Gpus,
         pc' \in {"device", "group", "finalize", "release", "sync", "done"},
         queue' \in [Streams -> Seq(Ops)], recorded' \in [Events -> Nat],
         \A t \in Streams : Grows(t, queue[t], Issued(t), queue'[t], Issued(t)'),
         \A g \in Gpus :
           /\ StatsIssued(g)' - Count(queue'[Compute(g)], "stats")
                = StatsIssued(g) - Count(queue[Compute(g)], "stats")
           /\ ReducesIssued' - Count(queue'[Comm(g)], "allreduce")
                = ReducesIssued - Count(queue[Comm(g)], "allreduce"),
         FinalsIssued' - Count(queue'[FinalizeStream], "finalize")
           = FinalsIssued - Count(queue[FinalizeStream], "finalize"),
         Place', Recorded', Drained'
  PROVE  /\ IInv'
         /\ \A g \in Gpus : Written(g)' = Written(g) /\ Reduced(g)' = Reduced(g)
         /\ Finalized' = Finalized
         /\ \A s \in Streams : active[s] => queue'[s] # <<>> /\ Head(queue'[s]) = Head(queue[s])
<1>1. Typed'
  BY DEF IInv, Typed
<1>2. Queues'
  <2>1. \A t \in Streams : Segment(t, queue'[t], Issued(t)')
    BY DEF Grows
  <2> QED
    BY <2>1, SameProgram DEF Queues, Segment
<1>3. \A t \in Streams : Pos(t)' = Pos(t)
  BY DEF Grows, Pos
<1>4. /\ \A g \in Gpus : Written(g)' = Written(g) /\ Reduced(g)' = Reduced(g)
      /\ Finalized' = Finalized
  <2>1. FinalizeStream' = FinalizeStream
    BY DEF FinalizeStream
  <2> QED
    BY <2>1 DEF Written, Reduced, Finalized, Queued, Count
<1>5. \A g \in Gpus : Freed(g)' = Freed(g)
  BY <1>4 DEF Freed
<1>6. /\ \A g \in Gpus : Written(g) \in Nat /\ Reduced(g) \in Nat /\ Freed(g) \in Nat
      /\ Reduced(Root) \in Nat
  BY CountersNat, GpuFacts
<1>7. ASSUME NEW g \in Gpus PROVE ComputeLink(g)' /\ CommLink(g)'
  BY <1>3, <1>4, <1>5, <1>6, ComputeFrame, CommFrame, StreamFacts
<1>8. FinLink'
  BY <1>3, <1>4, <1>6, FinFrame, StreamFacts, GpuFacts
<1>9. Fired'
  BY <1>4, <1>5, <1>6, FiredFrame
<1>10. \A s \in Streams : active[s] => queue'[s] # <<>> /\ Head(queue'[s]) = Head(queue[s])
  BY DEF IInv, Working, Grows
<1>11. Working'
  BY <1>10 DEF IInv, Working
<1> QED
  BY <1>1, <1>2, <1>4, <1>7, <1>8, <1>9, <1>10, <1>11 DEF IInv, Links

(* A record in the course of chunk c, and the waits of the next.           *)
LEMMA TurnsFacts ==
  \A c \in Nat :
    /\ \A b \in Slots : Turns(c, b) \in Nat
    /\ Turns(c, SlotOf(c)) = c \div 2 /\ Turns(c + 1, SlotOf(c)) = Turn(c)
    /\ \A b \in Slots : b # SlotOf(c) => Turns(c + 1, b) = Turns(c, b)
<1> SUFFICES ASSUME NEW c \in Nat
             PROVE  /\ \A b \in Slots : Turns(c, b) \in Nat
                    /\ Turns(c, SlotOf(c)) = c \div 2 /\ Turns(c + 1, SlotOf(c)) = c \div 2 + 1
                    /\ \A b \in Slots : b # SlotOf(c) => Turns(c + 1, b) = Turns(c, b)
  BY DEF Turn
<1>1. \A b \in Slots : c + 1 - b \in Nat
  BY DEF Slots
<1>2. \A b \in Slots : Turns(c, b) \in Nat
  BY <1>1, DivBounds DEF Turns
<1>3. PICK h \in Nat : \/ c = 2 * h /\ SlotOf(c) = 0 /\ c \div 2 = h
                       \/ c = 2 * h + 1 /\ SlotOf(c) = 1 /\ c \div 2 = h
  <2>1. c \div 2 \in Nat /\ SlotOf(c) \in 0 .. 1 /\ 2 * (c \div 2) + SlotOf(c) = c
    BY TurnFacts DEF Slots
  <2>2. WITNESS c \div 2 \in Nat
  <2> QED
    BY <2>1
<1>4. /\ (2 * h + 1) \div 2 = h /\ (2 * h) \div 2 = h /\ (2 * h + 2) \div 2 = h + 1
  OBVIOUS
<1>5. CASE c = 2 * h /\ SlotOf(c) = 0 /\ c \div 2 = h
  BY <1>2, <1>4, <1>5 DEF Turns, Slots
<1>6. CASE c = 2 * h + 1 /\ SlotOf(c) = 1 /\ c \div 2 = h
  BY <1>2, <1>4, <1>6 DEF Turns, Slots
<1> QED
  BY <1>3, <1>5, <1>6

(* What is appended is an operation.                                       *)
LEMMA OpsFacts ==
  /\ \A k \in {"stats", "allreduce", "finalize"}, c \in Chunks : Work(k, c) \in Ops
  /\ \A e \in Events, n \in Nat : Wait(e, n) \in Ops /\ Record(e, n) \in Ops
  /\ \A e, n : Wait(e, n).op = "wait" /\ Record(e, n).op = "record"
BY DEF Work, Wait, Record, Ops

LEMMA ProgramOps ==
  ASSUME NEW g \in Gpus, NEW c \in Nat
  PROVE  /\ Reuse(g, c) \in Ops /\ Filled(g, c) \in Ops /\ Await(g, c) \in Ops
         /\ Release(g, c) \in Ops /\ SumDone(c) \in Ops /\ AwaitSum(c) \in Ops
<1>1. c \div 2 \in Nat /\ Turn(c) \in Nat /\ SlotOf(c) \in Slots
  BY TurnFacts
<1>2. /\ Event(g, "ready", SlotOf(c)) \in Events /\ Event(g, "reduced", SlotOf(c)) \in Events
      /\ Event(Root, "allreduced", SlotOf(c)) \in Events
  BY <1>1, EventFacts, GpuFacts
<1> QED
  BY <1>1, <1>2, OpsFacts DEF Reuse, Filled, Await, Release, SumDone, AwaitSum

(* The host's place in the chunk, in what it has issued.                   *)
LEMMA NextDeviceFacts ==
  ASSUME Typed, NEW after, NextDevice(after)
  PROVE  /\ \/ dev + 1 < NGpus /\ dev' = dev + 1 /\ pc' = pc
            \/ dev + 1 = NGpus /\ dev' = 0 /\ pc' = after
         /\ dev' \in Gpus /\ dev \in Nat /\ \A g \in Gpus : g \in Nat /\ g < NGpus
BY SizeAssumption DEF Typed, NextDevice, Gpus

(* How each step of the host changes the counts of what is issued.         *)
LEMMA IssueStatsCounts ==
  ASSUME IInv, IssueStats
  PROVE  /\ chunk \in Chunks /\ chunk' = chunk /\ pc = "device" /\ pc' \in {"device", "group"}
         /\ (pc' = "group" => dev' = 0) /\ dev' \in Gpus /\ dev \in Gpus
         /\ \A g \in Gpus : /\ StatsIssued(g)' = IF g = dev THEN chunk + 1 ELSE StatsIssued(g)
                            /\ g = dev => StatsIssued(g) = chunk
                            /\ ReleasesIssued(g)' = chunk /\ ReleasesIssued(g) = chunk
         /\ ReducesIssued' = chunk /\ ReducesIssued = chunk
         /\ FinalsIssued' = chunk /\ FinalsIssued = chunk
<1>1. /\ pc = "device" /\ chunk' = chunk /\ NextDevice("group") /\ chunk \in Nat /\ chunk < NChunks
      /\ dev \in Gpus
  BY DEF IInv, Typed, Place, IssueStats, Running
<1>2. /\ \/ dev + 1 < NGpus /\ dev' = dev + 1 /\ pc' = "device"
         \/ dev + 1 = NGpus /\ dev' = 0 /\ pc' = "group"
      /\ dev' \in Gpus /\ dev \in Nat /\ \A g \in Gpus : g \in Nat /\ g < NGpus
  BY <1>1, NextDeviceFacts DEF IInv
<1>3. chunk \in Chunks
  BY <1>1, GpuFacts DEF Chunks
<1>4. /\ ReducesIssued' = chunk /\ ReducesIssued = chunk
      /\ FinalsIssued' = chunk /\ FinalsIssued = chunk
      /\ \A g \in Gpus : ReleasesIssued(g)' = chunk /\ ReleasesIssued(g) = chunk
  BY <1>1, <1>2 DEF ReducesIssued, FinalsIssued, ReleasesIssued
<1>5. ASSUME NEW g \in Gpus
      PROVE  /\ StatsIssued(g)' = IF g = dev THEN chunk + 1 ELSE StatsIssued(g)
             /\ g = dev => StatsIssued(g) = chunk
  <2>1. CASE dev + 1 < NGpus /\ dev' = dev + 1 /\ pc' = "device"
    BY <1>1, <1>2, <2>1 DEF StatsIssued
  <2>2. CASE dev + 1 = NGpus /\ dev' = 0 /\ pc' = "group"
    BY <1>1, <1>2, <2>2 DEF StatsIssued
  <2> QED
    BY <1>2, <2>1, <2>2
<1> QED
  BY <1>1, <1>2, <1>3, <1>4, <1>5

LEMMA GroupEndCounts ==
  ASSUME IInv, GroupEnd
  PROVE  /\ chunk \in Chunks /\ chunk' = chunk /\ pc = "group" /\ pc' = "finalize" /\ dev' = 0 /\ dev = 0
         /\ \A g \in Gpus : /\ StatsIssued(g)' = chunk + 1 /\ StatsIssued(g) = chunk + 1
                            /\ ReleasesIssued(g)' = chunk /\ ReleasesIssued(g) = chunk
         /\ ReducesIssued' = chunk + 1 /\ ReducesIssued = chunk
         /\ FinalsIssued' = chunk /\ FinalsIssued = chunk
<1>1. /\ pc = "group" /\ pc' = "finalize" /\ chunk' = chunk /\ dev' = dev /\ chunk \in Nat /\ chunk < NChunks
      /\ dev = 0
  BY DEF IInv, Typed, Place, GroupEnd, Running
<1> QED
  BY <1>1, GpuFacts DEF Chunks, StatsIssued, ReducesIssued, FinalsIssued, ReleasesIssued

LEMMA IssueFinalizeCounts ==
  ASSUME IInv, IssueFinalize
  PROVE  /\ chunk \in Chunks /\ chunk' = chunk /\ pc = "finalize" /\ pc' = "release" /\ dev' = 0 /\ dev = 0
         /\ \A g \in Gpus : /\ StatsIssued(g)' = chunk + 1 /\ StatsIssued(g) = chunk + 1
                            /\ ReleasesIssued(g)' = chunk /\ ReleasesIssued(g) = chunk
         /\ ReducesIssued' = chunk + 1 /\ ReducesIssued = chunk + 1
         /\ FinalsIssued' = chunk + 1 /\ FinalsIssued = chunk
<1>1. /\ pc = "finalize" /\ pc' = "release" /\ chunk' = chunk /\ dev' = dev /\ chunk \in Nat /\ chunk < NChunks
      /\ dev = 0
  BY DEF IInv, Typed, Place, IssueFinalize, Running
<1>2. \A g \in Gpus : ~(g < dev) /\ ~(g < dev')
  BY <1>1, GpuFacts DEF Gpus
<1> QED
  BY <1>1, <1>2, GpuFacts DEF Chunks, StatsIssued, ReducesIssued, FinalsIssued, ReleasesIssued

LEMMA IssueReleaseCounts ==
  ASSUME IInv, IssueRelease
  PROVE  /\ chunk \in Chunks /\ chunk' \in {chunk, chunk + 1} /\ pc = "release"
         /\ \/ pc' = "release" /\ chunk' = chunk
            \/ pc' = "device" /\ chunk' < NChunks /\ dev' = 0
            \/ pc' = "sync" /\ chunk' = NChunks /\ dev' = 0
         /\ dev' \in Gpus /\ dev \in Gpus
         /\ \A g \in Gpus : /\ StatsIssued(g)' = chunk + 1 /\ StatsIssued(g) = chunk + 1
                            /\ ReleasesIssued(g)' = IF g = dev THEN chunk + 1 ELSE ReleasesIssued(g)
                            /\ g = dev => ReleasesIssued(g) = chunk
         /\ ReducesIssued' = chunk + 1 /\ ReducesIssued = chunk + 1
         /\ FinalsIssued' = chunk + 1 /\ FinalsIssued = chunk + 1
<1>1. /\ pc = "release" /\ NextDevice(IF MoreChunks THEN "device" ELSE "sync")
      /\ chunk' = (IF dev + 1 = NGpus THEN chunk + 1 ELSE chunk) /\ chunk \in Nat /\ chunk < NChunks
      /\ dev \in Gpus /\ NChunks \in Nat
  BY GpuFacts DEF IInv, Typed, Place, IssueRelease, Running
<1>2. /\ \/ dev + 1 < NGpus /\ dev' = dev + 1 /\ pc' = "release"
         \/ dev + 1 = NGpus /\ dev' = 0 /\ pc' = IF MoreChunks THEN "device" ELSE "sync"
      /\ dev' \in Gpus /\ dev \in Nat /\ \A g \in Gpus : g \in Nat /\ g < NGpus
  BY <1>1, NextDeviceFacts DEF IInv
<1>3. chunk \in Chunks
  BY <1>1, GpuFacts DEF Chunks
<1>4. CASE dev + 1 < NGpus /\ dev' = dev + 1 /\ pc' = "release"
  <2>1. chunk' = chunk
    BY <1>1, <1>2, <1>4
  <2>2. \A g \in Gpus : g < dev' <=> g < dev \/ g = dev
    BY <1>2, <1>4
  <2>3. \A g \in Gpus : /\ ReleasesIssued(g)' = IF g < dev' THEN chunk + 1 ELSE chunk
                        /\ ReleasesIssued(g) = IF g < dev THEN chunk + 1 ELSE chunk
    BY <1>1, <1>4, <2>1 DEF ReleasesIssued
  <2>4. \A g \in Gpus : /\ ReleasesIssued(g)' = IF g = dev THEN chunk + 1 ELSE ReleasesIssued(g)
                        /\ g = dev => ReleasesIssued(g) = chunk
    BY <1>2, <2>2, <2>3
  <2>5. /\ \A g \in Gpus : StatsIssued(g)' = chunk + 1 /\ StatsIssued(g) = chunk + 1
        /\ ReducesIssued' = chunk + 1 /\ ReducesIssued = chunk + 1
        /\ FinalsIssued' = chunk + 1 /\ FinalsIssued = chunk + 1
    BY <1>1, <1>4, <2>1 DEF StatsIssued, ReducesIssued, FinalsIssued
  <2> QED
    BY <1>1, <1>2, <1>3, <1>4, <2>1, <2>4, <2>5
<1>5. CASE dev + 1 = NGpus /\ dev' = 0 /\ pc' = IF MoreChunks THEN "device" ELSE "sync"
  <2>1. chunk' = chunk + 1
    BY <1>1, <1>5
  <2>2. \A g \in Gpus : ~(g < dev') /\ (g < dev <=> g # dev)
    BY <1>2, <1>5
  <2>3. \/ pc' = "device" /\ chunk' < NChunks
        \/ pc' = "sync" /\ chunk' = NChunks
    BY <1>1, <1>5, <2>1 DEF MoreChunks
  <2>4. \A g \in Gpus : /\ ReleasesIssued(g)' = chunk + 1
                        /\ ReleasesIssued(g) = IF g = dev THEN chunk ELSE chunk + 1
    BY <1>1, <2>1, <2>2, <2>3 DEF ReleasesIssued
  <2>5. /\ \A g \in Gpus : StatsIssued(g)' = chunk + 1 /\ StatsIssued(g) = chunk + 1
        /\ ReducesIssued' = chunk + 1 /\ ReducesIssued = chunk + 1
        /\ FinalsIssued' = chunk + 1 /\ FinalsIssued = chunk + 1
    BY <1>1, <2>1, <2>2, <2>3 DEF StatsIssued, ReducesIssued, FinalsIssued
  <2> QED
    BY <1>1, <1>2, <1>3, <1>5, <2>1, <2>3, <2>4, <2>5
<1> QED
  BY <1>2, <1>4, <1>5

-----------------------------------------------------------------------------
(* A step of the host: the counters of the stages stand still.             *)
Issuing ==
  /\ IInv'
  /\ \A g \in Gpus : Written(g)' = Written(g) /\ Reduced(g)' = Reduced(g)
  /\ Finalized' = Finalized
  /\ \A s \in Streams : active[s] => queue'[s] # <<>> /\ Head(queue'[s]) = Head(queue[s])

LEMMA QueueFacts ==
  ASSUME IInv, NEW s \in Streams
  PROVE  /\ queue[s] \in Seq(Ops) /\ Issued(s) \in Nat /\ Segment(s, queue[s], Issued(s))
         /\ Grows(s, queue[s], Issued(s), queue[s], Issued(s))
         /\ \A k : Count(queue[s], k) \in Nat
<1>1. queue[s] \in Seq(Ops) /\ Issued(s) \in Nat /\ Segment(s, queue[s], Issued(s))
  BY IssuedNat DEF IInv, Typed, Queues
<1>2. \A k : Count(queue[s], k) \in Nat
  BY <1>1, CountFinite
<1> QED
  BY <1>1, <1>2, GrowsSame

(* What IssueStats appends to a compute stream is next in its program.     *)
LEMMA ComputePush ==
  ASSUME IInv, NEW g \in Gpus, NEW c \in Chunks, Issued(Compute(g)) = ComputeStart(c),
         NEW r, r = (IF c >= 2 THEN Append(Append(Append(queue[Compute(g)], Reuse(g, c)), Work("stats", c)), Filled(g, c))
                               ELSE Append(Append(queue[Compute(g)], Work("stats", c)), Filled(g, c)))
  PROVE  /\ Grows(Compute(g), queue[Compute(g)], ComputeStart(c), r, ComputeStart(c + 1))
         /\ Count(r, "stats") = Count(queue[Compute(g)], "stats") + 1
<1> DEFINE s == Compute(g)
           q == queue[s]
           n == ComputeStart(c)
<1>1. s \in Streams /\ q \in Seq(Ops) /\ n \in Nat /\ Grows(s, q, n, q, n) /\ Count(q, "stats") \in Nat
  <2>1. s \in Streams /\ Issued(s) = n
    BY StreamFacts
  <2> HIDE DEF s, n
  <2> QED
    BY <2>1, QueueFacts
<1>2. c \in Nat
  BY GpuFacts DEF Chunks
<1>3. /\ Work("stats", c) \in Ops /\ Filled(g, c) \in Ops /\ Reuse(g, c) \in Ops
      /\ Work("stats", c).op = "stats" /\ Filled(g, c).op = "record" /\ Reuse(g, c).op = "wait"
  BY <1>2, OpsFacts, ProgramOps, Kinds
<1>4. \A p, x : At(s, p, x) <=> ComputeAt(g, p, x)
  BY AtFacts
<1> HIDE DEF s, q
<1>5. CASE c >= 2
  <2>1. n = 3 * c - 2 /\ ComputeStart(c + 1) = 3 * c - 2 + 1 + 1 + 1
    BY <1>2, <1>5 DEF ComputeStart
  <2>2. At(s, n, Reuse(g, c)) /\ At(s, n + 1, Work("stats", c)) /\ At(s, n + 1 + 1, Filled(g, c))
    <3>1. n = 3 * c - 2 /\ n + 1 = 3 * c - 1 /\ n + 1 + 1 = 3 * c
      BY <1>2, <2>1
    <3> HIDE DEF n
    <3> QED
      BY <1>2, <1>4, <1>5, <3>1 DEF ComputeAt
  <2> DEFINE q1 == Append(q, Reuse(g, c))
             q2 == Append(q1, Work("stats", c))
             q3 == Append(q2, Filled(g, c))
  <2>3. Grows(s, q, n, q1, n + 1)
    BY <1>1, <1>3, <2>2, GrowsAppend
  <2>4. Grows(s, q, n, q2, n + 1 + 1)
    <3> HIDE DEF q1
    <3> QED
      BY <1>1, <1>3, <2>2, <2>3, GrowsAppend
  <2>5. Grows(s, q, n, q3, n + 1 + 1 + 1)
    <3> HIDE DEF q2
    <3> QED
      BY <1>1, <1>3, <2>2, <2>4, GrowsAppend
  <2>6. q1 \in Seq(Ops) /\ q2 \in Seq(Ops)
    BY <2>3, <2>4 DEF Grows
  <2>7. Count(q1, "stats") = Count(q, "stats")
    BY <1>1, <1>3, CountAppend
  <2>8. Count(q2, "stats") = Count(q, "stats") + 1
    <3> HIDE DEF q1
    <3> QED
      BY <1>3, <2>6, <2>7, CountAppend
  <2>9. Count(q3, "stats") = Count(q2, "stats")
    <3> HIDE DEF q2
    <3>1. Count(q3, "stats") = Count(q2, "stats") + 0
      BY <1>3, <2>6, CountAppend
    <3> QED
      BY <1>1, <2>8, <3>1
  <2>10. r = q3
    BY <1>5 DEF q, s
  <2>11. n + 1 + 1 + 1 = ComputeStart(c + 1)
    BY <2>1
  <2> HIDE DEF q1, q2, q3, n
  <2>12. Grows(s, q, n, r, ComputeStart(c + 1)) /\ Count(r, "stats") = Count(q, "stats") + 1
    BY <2>5, <2>8, <2>9, <2>10, <2>11
  <2> QED
    BY <2>12 DEF q, s, n
<1>6. CASE ~(c >= 2)
  <2>1. n = 2 * c /\ ComputeStart(c + 1) = 2 * c + 1 + 1
    BY <1>2, <1>6 DEF ComputeStart
  <2>2. At(s, n, Work("stats", c)) /\ At(s, n + 1, Filled(g, c))
    <3>1. n = 2 * c /\ n + 1 = 2 * c + 1 /\ c < 2
      BY <1>2, <1>6, <2>1
    <3> HIDE DEF n
    <3> QED
      BY <1>2, <1>4, <3>1 DEF ComputeAt
  <2> DEFINE q2 == Append(q, Work("stats", c))
             q3 == Append(q2, Filled(g, c))
  <2>4. Grows(s, q, n, q2, n + 1)
    BY <1>1, <1>3, <2>2, GrowsAppend
  <2>5. Grows(s, q, n, q3, n + 1 + 1)
    <3> HIDE DEF q2
    <3> QED
      BY <1>1, <1>3, <2>2, <2>4, GrowsAppend
  <2>6. q2 \in Seq(Ops)
    BY <2>4 DEF Grows
  <2>8. Count(q2, "stats") = Count(q, "stats") + 1
    BY <1>1, <1>3, CountAppend
  <2>9. Count(q3, "stats") = Count(q2, "stats")
    <3> HIDE DEF q2
    <3>1. Count(q3, "stats") = Count(q2, "stats") + 0
      BY <1>3, <2>6, CountAppend
    <3> QED
      BY <1>1, <2>8, <3>1
  <2>10. r = q3
    BY <1>6 DEF q, s
  <2>11. n + 1 + 1 = ComputeStart(c + 1)
    BY <2>1
  <2> HIDE DEF q2, q3, n
  <2>12. Grows(s, q, n, r, ComputeStart(c + 1)) /\ Count(r, "stats") = Count(q, "stats") + 1
    BY <2>5, <2>8, <2>9, <2>10, <2>11
  <2> QED
    BY <2>12 DEF q, s, n
<1> QED
  BY <1>5, <1>6

(* One operation more on a stream.                                         *)
LEMMA OnePush ==
  ASSUME IInv, NEW s \in Streams, NEW x \in Ops, NEW n, n = Issued(s), At(s, n, x)
  PROVE  /\ Grows(s, queue[s], Issued(s), Append(queue[s], x), n + 1)
         /\ \A k : Count(Append(queue[s], x), k) = Count(queue[s], k) + IF x.op = k THEN 1 ELSE 0
         /\ \A k : k # x.op => Count(Append(queue[s], x), k) = Count(queue[s], k)
<1>1. queue[s] \in Seq(Ops) /\ n \in Nat /\ Grows(s, queue[s], n, queue[s], n)
      /\ \A k : Count(queue[s], k) \in Nat
  BY QueueFacts
<1>2. Grows(s, queue[s], n, Append(queue[s], x), n + 1)
  BY <1>1, GrowsAppend
<1>3. \A k : Count(Append(queue[s], x), k) = Count(queue[s], k) + IF x.op = k THEN 1 ELSE 0
  BY <1>1, CountAppend
<1>4. ASSUME NEW k, k # x.op PROVE Count(Append(queue[s], x), k) = Count(queue[s], k)
  <2>1. Count(Append(queue[s], x), k) = Count(queue[s], k) + 0
    BY <1>3, <1>4
  <2> QED
    BY <1>1, <2>1
<1> QED
  BY <1>2, <1>3, <1>4

LEMMA IssuedNext ==
  /\ Issued(Fin)' = IF separate' THEN 2 * FinalsIssued' + ReleasesIssued(Root)' ELSE 0
  /\ \A g \in Gpus :
       /\ Issued(Compute(g))' = ComputeStart(StatsIssued(g)')
       /\ Issued(Comm(g))' = StatsIssued(g)' + ReducesIssued'
            + IF g # Root THEN ReleasesIssued(g)'
              ELSE FinalsIssued' + IF separate' THEN 0 ELSE ReleasesIssued(Root)'
BY StreamFacts DEF Issued, Compute, Comm, Fin, ComputeStart

(* The host issues one device's part of the group.                         *)
LEMMA IssueStatsInv ==
  ASSUME IInv, IssueStats
  PROVE  Issuing
<1>0. PICK g \in Gpus, c \in Chunks : g = dev /\ c = chunk
  BY IssueStatsCounts
<1> DEFINE e == Event(g, "ready", SlotOf(c))
<1>1. /\ c \in Chunks /\ chunk' = c /\ pc = "device" /\ pc' \in {"device", "group"}
      /\ (pc' = "group" => dev' = 0) /\ dev' \in Gpus /\ g \in Gpus
      /\ \A h \in Gpus : /\ StatsIssued(h)' = IF h = g THEN c + 1 ELSE StatsIssued(h)
                         /\ h = g => StatsIssued(h) = c
                         /\ ReleasesIssued(h)' = c /\ ReleasesIssued(h) = c
      /\ ReducesIssued' = c /\ ReducesIssued = c
      /\ FinalsIssued' = c /\ FinalsIssued = c
  BY <1>0, IssueStatsCounts
<1>2. c \in Nat /\ NChunks \in Nat /\ SlotOf(c) \in Slots /\ Turn(c) \in Nat /\ c < NChunks
      /\ \A h \in Gpus : StatsIssued(h) \in Nat
  BY <1>1, GpuFacts, TurnFacts, IssuedNat DEF Chunks, IInv
<1>3. /\ e \in Events /\ recorded[e] = c \div 2 /\ recorded[e] + 1 = Turn(c)
      /\ recorded[Event(g, "reduced", SlotOf(c))] = c \div 2
  BY <1>1, <1>2, EventFacts, TurnsFacts DEF IInv, Recorded, Turn
<1>4. /\ queue' = [queue EXCEPT
            ![Compute(g)] = @ \o ReuseWait(g, c) \o <<Work("stats", c), Record(e, Turn(c))>>,
            ![Comm(g)] = Append(@, Wait(e, Turn(c)))]
      /\ recorded' = [recorded EXCEPT ![e] = Turn(c)]
      /\ UNCHANGED <<separate, failed, active, fired, total, slot, sims>>
  BY <1>0, <1>3 DEF IssueStats
<1>5. Record(e, Turn(c)) = Filled(g, c) /\ Wait(e, Turn(c)) = Await(g, c)
  BY DEF Filled, Await
<1>6. ReuseWait(g, c) = IF c >= 2 THEN <<Reuse(g, c)>> ELSE <<>>
  BY <1>3 DEF ReuseWait, Reuse
<1> HIDE DEF e
<1>7. /\ Work("stats", c) \in Ops /\ Filled(g, c) \in Ops /\ Reuse(g, c) \in Ops /\ Await(g, c) \in Ops
      /\ Await(g, c).op = "wait"
  BY <1>1, <1>2, OpsFacts, ProgramOps, Kinds
<1>8. /\ Compute(g) \in Streams /\ Comm(g) \in Streams /\ Compute(g) # Comm(g)
  BY <1>1, StreamFacts
<1>9. /\ queue \in [Streams -> Seq(Ops)]
      /\ queue[Compute(g)] \in Seq(Ops) /\ queue[Comm(g)] \in Seq(Ops)
  BY <1>8 DEF IInv, Typed
<1>10. /\ queue'[Compute(g)] =
            IF c >= 2 THEN Append(Append(Append(queue[Compute(g)], Reuse(g, c)), Work("stats", c)), Filled(g, c))
                      ELSE Append(Append(queue[Compute(g)], Work("stats", c)), Filled(g, c))
       /\ queue'[Comm(g)] = Append(queue[Comm(g)], Await(g, c))
       /\ \A t \in Streams : t # Compute(g) /\ t # Comm(g) => queue'[t] = queue[t]
  <2>1. /\ queue'[Compute(g)] = queue[Compute(g)] \o ReuseWait(g, c) \o <<Work("stats", c), Filled(g, c)>>
        /\ queue'[Comm(g)] = Append(queue[Comm(g)], Await(g, c))
        /\ \A t \in Streams : t # Compute(g) /\ t # Comm(g) => queue'[t] = queue[t]
    BY <1>4, <1>5, <1>8, <1>9
  <2> DEFINE q == queue[Compute(g)]
  <2>2. CASE c >= 2
    <3>1. q \o <<Reuse(g, c)>> \o <<Work("stats", c), Filled(g, c)>>
            = Append(Append(Append(q, Reuse(g, c)), Work("stats", c)), Filled(g, c))
      BY <1>7, <1>9, TwoAppends
    <3>2. ReuseWait(g, c) = <<Reuse(g, c)>>
      BY <1>6, <2>2
    <3> QED
      BY <2>1, <2>2, <3>1, <3>2
  <2>3. CASE ~(c >= 2)
    <3>1. q \o <<>> \o <<Work("stats", c), Filled(g, c)>> = Append(Append(q, Work("stats", c)), Filled(g, c))
      BY <1>7, <1>9, TwoAppends
    <3>2. ReuseWait(g, c) = <<>>
      BY <1>6, <2>3
    <3> QED
      BY <2>1, <2>3, <3>1, <3>2
  <2> QED
    BY <2>1, <2>2, <2>3
<1>11. /\ Issued(Compute(g)) = ComputeStart(c) /\ Issued(Compute(g))' = ComputeStart(c + 1)
       /\ Grows(Compute(g), queue[Compute(g)], Issued(Compute(g)), queue'[Compute(g)], Issued(Compute(g))')
       /\ Count(queue'[Compute(g)], "stats") = Count(queue[Compute(g)], "stats") + 1
  <2>1. Issued(Compute(g)) = ComputeStart(c) /\ Issued(Compute(g))' = ComputeStart(c + 1)
    BY <1>1, IssuedFacts, IssuedNext
  <2> QED
    BY <1>1, <1>10, <2>1, ComputePush
<1>12. /\ Grows(Comm(g), queue[Comm(g)], Issued(Comm(g)), queue'[Comm(g)], Issued(Comm(g))')
       /\ \A k : k # "wait" => Count(queue'[Comm(g)], k) = Count(queue[Comm(g)], k)
  <2>1. /\ Issued(Comm(g)) = (IF OwnFinalize(g) THEN 4 * c ELSE 3 * c)
        /\ Issued(Comm(g))' = Issued(Comm(g)) + 1
    <3>1. /\ Issued(Comm(g)) = c + c + IF g # Root THEN c ELSE c + IF separate THEN 0 ELSE c
          /\ Issued(Comm(g))' = c + 1 + c + IF g # Root THEN c ELSE c + IF separate THEN 0 ELSE c
      BY <1>1, <1>4, IssuedFacts, IssuedNext, GpuFacts
    <3> QED
      BY <1>2, <3>1 DEF OwnFinalize
  <2>2. At(Comm(g), Issued(Comm(g)), Await(g, c))
    BY <1>1, <1>2, <2>1, AtFacts DEF CommAt
  <2> QED
    BY <1>7, <1>8, <1>10, <2>1, <2>2, OnePush
<1>13. ASSUME NEW t \in Streams, t # Compute(g), t # Comm(g)
       PROVE  Issued(t)' = Issued(t) /\ queue'[t] = queue[t]
  <2>1. CASE t = Fin
    BY <1>1, <1>4, <1>10, <1>13, <2>1, IssuedFacts, IssuedNext, GpuFacts
  <2>2. ASSUME NEW h \in Gpus, t = Compute(h) PROVE Issued(t)' = Issued(t)
    BY <1>1, <1>13, <2>2, IssuedFacts, IssuedNext
  <2>3. ASSUME NEW h \in Gpus, t = Comm(h) PROVE Issued(t)' = Issued(t)
    BY <1>1, <1>4, <1>13, <2>3, IssuedFacts, IssuedNext, GpuFacts
  <2> QED
    BY <1>10, <1>13, <2>1, <2>2, <2>3, StreamFacts
<1>14. \A t \in Streams : Grows(t, queue[t], Issued(t), queue'[t], Issued(t)')
  BY <1>11, <1>12, <1>13, QueueFacts
<1>15. queue' \in [Streams -> Seq(Ops)]
  <2>1. \A t \in Streams : queue'[t] \in Seq(Ops)
    BY <1>14 DEF Grows
  <2>2. queue' = [t \in Streams |-> queue'[t]]
    BY <1>4, <1>9
  <2> QED
    BY <2>1, <2>2
<1>16. ASSUME NEW h \in Gpus
       PROVE  /\ StatsIssued(h)' - Count(queue'[Compute(h)], "stats")
                   = StatsIssued(h) - Count(queue[Compute(h)], "stats")
              /\ ReducesIssued' - Count(queue'[Comm(h)], "allreduce")
                   = ReducesIssued - Count(queue[Comm(h)], "allreduce")
  <2>1. CASE h = g
    <3>1. Count(queue[Compute(g)], "stats") \in Nat
      BY <1>8, QueueFacts
    <3>2. StatsIssued(g)' = c + 1 /\ StatsIssued(g) = c
      BY <1>1
    <3>3. Count(queue'[Comm(g)], "allreduce") = Count(queue[Comm(g)], "allreduce")
      BY <1>12
    <3> QED
      BY <1>1, <1>2, <1>11, <2>1, <3>1, <3>2, <3>3
  <2>2. CASE h # g
    BY <1>1, <1>10, <2>2, StreamFacts
  <2> QED
    BY <2>1, <2>2
<1>17. FinalsIssued' - Count(queue'[FinalizeStream], "finalize")
         = FinalsIssued - Count(queue[FinalizeStream], "finalize")
  <2>1. PICK t \in Streams : t = FinalizeStream /\ t # Compute(g)
    BY <1>1, StreamFacts, GpuFacts
  <2>2. Count(queue'[t], "finalize") = Count(queue[t], "finalize")
    BY <1>12, <1>13, <2>1
  <2> QED
    BY <1>1, <2>1, <2>2
<1>18. recorded' \in [Events -> Nat]
  BY <1>2, <1>3, <1>4 DEF IInv, Typed
<1>19. Recorded'
  <2> SUFFICES ASSUME NEW b \in Slots
               PROVE  /\ \A h \in Gpus : /\ recorded'[Event(h, "ready", b)] = Turns(StatsIssued(h)', b)
                                         /\ recorded'[Event(h, "reduced", b)] = Turns(ReleasesIssued(h)', b)
                      /\ separate => recorded'[Event(Root, "allreduced", b)] = Turns(FinalsIssued', b)
    BY <1>4 DEF Recorded, Turns
  <2>1. \A x \in Events : recorded'[x] = IF x = e THEN Turn(c) ELSE recorded[x]
    BY <1>4 DEF IInv, Typed
  <2>2. ASSUME NEW h \in Gpus
        PROVE  recorded'[Event(h, "ready", b)] = Turns(StatsIssued(h)', b)
    <3>1. recorded[Event(h, "ready", b)] = Turns(StatsIssued(h), b) /\ Event(h, "ready", b) \in Events
      BY EventFacts DEF IInv, Recorded
    <3>2. Event(h, "ready", b) = e <=> h = g /\ b = SlotOf(c)
      BY DEF e, Event
    <3>3. CASE h = g
      BY <1>1, <1>2, <2>1, <3>1, <3>2, <3>3, TurnsFacts
    <3>4. CASE h # g
      BY <1>1, <2>1, <3>1, <3>2, <3>4
    <3> QED
      BY <3>3, <3>4
  <2>3. ASSUME NEW h \in Gpus
        PROVE  recorded'[Event(h, "reduced", b)] = Turns(ReleasesIssued(h)', b)
    <3>1. recorded[Event(h, "reduced", b)] = Turns(ReleasesIssued(h), b) /\ Event(h, "reduced", b) \in Events
      BY EventFacts DEF IInv, Recorded
    <3>2. Event(h, "reduced", b) # e
      BY DEF e, Event
    <3> QED
      BY <1>1, <2>1, <3>1, <3>2
  <2>4. separate => recorded'[Event(Root, "allreduced", b)] = Turns(FinalsIssued', b)
    <3>1. /\ separate => recorded[Event(Root, "allreduced", b)] = Turns(FinalsIssued, b)
          /\ Event(Root, "allreduced", b) \in Events
      BY EventFacts, GpuFacts DEF IInv, Recorded
    <3>2. Event(Root, "allreduced", b) # e
      BY DEF e, Event
    <3> QED
      BY <1>1, <2>1, <3>1, <3>2
  <2> QED
    BY <2>2, <2>3, <2>4
<1>20. Place' /\ Drained'
  BY <1>1, <1>2 DEF Place, Drained
<1> QED
  BY <1>1, <1>2, <1>4, <1>14, <1>15, <1>16, <1>17, <1>18, <1>19, <1>20, HostInv, QueueFacts DEF IInv, Typed, Issuing

(* The group ends: all collectives of the chunk are issued at once.        *)
LEMMA GroupEndInv ==
  ASSUME IInv, GroupEnd
  PROVE  Issuing
<1>0. PICK c \in Chunks : c = chunk
  BY GroupEndCounts
<1>1. /\ chunk' = c /\ pc = "group" /\ pc' = "finalize" /\ dev' = 0 /\ dev = 0
      /\ \A g \in Gpus : /\ StatsIssued(g)' = c + 1 /\ StatsIssued(g) = c + 1
                         /\ ReleasesIssued(g)' = c /\ ReleasesIssued(g) = c
      /\ ReducesIssued' = c + 1 /\ ReducesIssued = c
      /\ FinalsIssued' = c /\ FinalsIssued = c
  BY <1>0, GroupEndCounts
<1>2. c \in Nat /\ NChunks \in Nat /\ c < NChunks
  BY GpuFacts DEF Chunks
<1> DEFINE x == Work("allreduce", c)
<1>3. x \in Ops /\ x.op = "allreduce"
  BY OpsFacts, Kinds
<1>4. /\ queue' = [t \in Streams |-> IF t \in Grouped THEN Append(queue[t], x) ELSE queue[t]]
      /\ UNCHANGED <<separate, failed, active, recorded, fired, total, slot, sims>>
  BY <1>0 DEF GroupEnd
<1> HIDE DEF x
<1>5. ASSUME NEW g \in Gpus
      PROVE  /\ Grows(Comm(g), queue[Comm(g)], Issued(Comm(g)), queue'[Comm(g)], Issued(Comm(g))')
             /\ Count(queue'[Comm(g)], "allreduce") = Count(queue[Comm(g)], "allreduce") + 1
             /\ Count(queue'[Comm(g)], "finalize") = Count(queue[Comm(g)], "finalize")
  <2>1. Comm(g) \in Streams /\ queue'[Comm(g)] = Append(queue[Comm(g)], x)
    BY <1>4, StreamFacts DEF Grouped
  <2>2. /\ Issued(Comm(g)) = IF OwnFinalize(g) THEN 4 * c + 1 ELSE 3 * c + 1
        /\ Issued(Comm(g))' = Issued(Comm(g)) + 1
    <3>1. /\ Issued(Comm(g)) = c + 1 + c + IF g # Root THEN c ELSE c + IF separate THEN 0 ELSE c
          /\ Issued(Comm(g))' = c + 1 + (c + 1) + IF g # Root THEN c ELSE c + IF separate THEN 0 ELSE c
      BY <1>1, <1>4, IssuedFacts, IssuedNext, GpuFacts
    <3> QED
      BY <1>2, <3>1 DEF OwnFinalize
  <2>3. At(Comm(g), Issued(Comm(g)), x)
    BY <1>2, <2>2, AtFacts DEF CommAt, x
  <2>4. /\ Grows(Comm(g), queue[Comm(g)], Issued(Comm(g)), Append(queue[Comm(g)], x), Issued(Comm(g)) + 1)
        /\ \A k : Count(Append(queue[Comm(g)], x), k) = Count(queue[Comm(g)], k) + IF x.op = k THEN 1 ELSE 0
        /\ \A k : k # x.op => Count(Append(queue[Comm(g)], x), k) = Count(queue[Comm(g)], k)
    BY <1>3, <2>1, <2>3, OnePush
  <2>5. Count(Append(queue[Comm(g)], x), "allreduce") = Count(queue[Comm(g)], "allreduce") + 1
    BY <1>3, <2>4
  <2>6. Count(Append(queue[Comm(g)], x), "finalize") = Count(queue[Comm(g)], "finalize")
    BY <1>3, <2>4
  <2> QED
    BY <2>1, <2>2, <2>4, <2>5, <2>6
<1>6. ASSUME NEW t \in Streams, \A g \in Gpus : t # Comm(g)
      PROVE  Issued(t)' = Issued(t) /\ queue'[t] = queue[t]
  <2>1. queue'[t] = queue[t]
    BY <1>4, <1>6 DEF Grouped
  <2>2. CASE t = Fin
    BY <1>1, <1>4, <2>1, <2>2, IssuedFacts, IssuedNext, GpuFacts
  <2>3. ASSUME NEW h \in Gpus, t = Compute(h) PROVE Issued(t)' = Issued(t)
    BY <1>1, <2>3, IssuedFacts, IssuedNext
  <2> QED
    BY <1>6, <2>1, <2>2, <2>3, StreamFacts
<1>7. \A t \in Streams : Grows(t, queue[t], Issued(t), queue'[t], Issued(t)')
  <2> SUFFICES ASSUME NEW t \in Streams PROVE Grows(t, queue[t], Issued(t), queue'[t], Issued(t)')
    OBVIOUS
  <2>1. ASSUME NEW g \in Gpus, t = Comm(g) PROVE Grows(t, queue[t], Issued(t), queue'[t], Issued(t)')
    BY <1>5, <2>1
  <2>2. CASE \A g \in Gpus : t # Comm(g)
    BY <1>6, <2>2, QueueFacts
  <2> QED
    BY <2>1, <2>2
<1>8. queue' \in [Streams -> Seq(Ops)]
  <2>1. \A t \in Streams : queue'[t] \in Seq(Ops)
    BY <1>7 DEF Grows
  <2> QED
    BY <1>4, <2>1
<1>9. ASSUME NEW h \in Gpus
      PROVE  /\ StatsIssued(h)' - Count(queue'[Compute(h)], "stats")
                  = StatsIssued(h) - Count(queue[Compute(h)], "stats")
             /\ ReducesIssued' - Count(queue'[Comm(h)], "allreduce")
                  = ReducesIssued - Count(queue[Comm(h)], "allreduce")
  <2>1. Count(queue[Comm(h)], "allreduce") \in Nat
    BY StreamFacts, QueueFacts
  <2>2. queue'[Compute(h)] = queue[Compute(h)]
    BY <1>6, StreamFacts
  <2>3. Count(queue'[Comm(h)], "allreduce") = Count(queue[Comm(h)], "allreduce") + 1
    BY <1>5
  <2> QED
    BY <1>1, <1>2, <2>1, <2>2, <2>3
<1>10. FinalsIssued' - Count(queue'[FinalizeStream], "finalize")
         = FinalsIssued - Count(queue[FinalizeStream], "finalize")
  <2>1. PICK t \in Streams : t = FinalizeStream /\ (t = Comm(Root) \/ t = Fin)
    BY StreamFacts
  <2>2. Count(queue'[t], "finalize") = Count(queue[t], "finalize")
    BY <1>5, <1>6, <2>1, StreamFacts, GpuFacts
  <2> QED
    BY <1>1, <2>1, <2>2
<1>11. Recorded'
  BY <1>1, <1>4 DEF IInv, Recorded, Turns
<1>12. Place' /\ Drained'
  BY <1>1, <1>2 DEF Place, Drained
<1> QED
  BY <1>1, <1>2, <1>4, <1>7, <1>8, <1>9, <1>10, <1>11, <1>12, HostInv, GpuFacts DEF IInv, Typed, Issuing, Root

(* The final synchronize returns for one device.                           *)
LEMMA SynchronizeInv ==
  ASSUME IInv, Synchronize
  PROVE  Issuing
<1>1. /\ pc = "sync" /\ chunk' = chunk /\ NextDevice("done") /\ Synced(dev) /\ chunk = NChunks
      /\ UNCHANGED <<separate, failed, deviceVars>>
  BY DEF IInv, Place, Synchronize, Running
<1>2. /\ \/ dev + 1 < NGpus /\ dev' = dev + 1 /\ pc' = "sync"
         \/ dev + 1 = NGpus /\ dev' = 0 /\ pc' = "done"
      /\ dev' \in Gpus /\ dev \in Nat /\ \A g \in Gpus : g \in Nat /\ g < NGpus
  BY <1>1, NextDeviceFacts DEF IInv
<1>3. /\ ReducesIssued' = ReducesIssued /\ FinalsIssued' = FinalsIssued
      /\ \A g \in Gpus : StatsIssued(g)' = StatsIssued(g) /\ ReleasesIssued(g)' = ReleasesIssued(g)
  BY <1>1, <1>2 DEF ReducesIssued, FinalsIssued, StatsIssued, ReleasesIssued
<1>4. \A t \in Streams : Issued(t)' = Issued(t)
  <2> SUFFICES ASSUME NEW t \in Streams PROVE Issued(t)' = Issued(t)
    OBVIOUS
  <2>1. CASE t = Fin
    BY <1>1, <1>3, <2>1, IssuedFacts, IssuedNext, GpuFacts
  <2>2. ASSUME NEW h \in Gpus, t = Compute(h) PROVE Issued(t)' = Issued(t)
    BY <1>3, <2>2, IssuedFacts, IssuedNext
  <2>3. ASSUME NEW h \in Gpus, t = Comm(h) PROVE Issued(t)' = Issued(t)
    BY <1>1, <1>3, <2>3, IssuedFacts, IssuedNext, GpuFacts
  <2> QED
    BY <2>1, <2>2, <2>3, StreamFacts
<1>5. UNCHANGED <<queue, active, recorded, fired, total, slot, sims>>
  BY <1>1 DEF deviceVars
<1>6. \A t \in Streams : Grows(t, queue[t], Issued(t), queue'[t], Issued(t)')
  BY <1>4, <1>5, QueueFacts
<1>7. FinalizeStream' = FinalizeStream
  BY <1>1 DEF FinalizeStream
<1>8. Recorded'
  BY <1>1, <1>3, <1>5 DEF IInv, Recorded, Turns
<1>9. Place'
  BY <1>1, <1>2 DEF Place
<1>10. Drained'
  <2> SUFFICES ASSUME NEW s \in Streams, pc' = "done" \/ (pc' = "sync" /\ s[1] < dev')
               PROVE  queue[s] = <<>>
    BY <1>5 DEF Drained
  <2>1. s[1] \in Gpus /\ s[1] \in Nat
    BY <1>2, StreamFacts
  <2>2. s[1] < dev \/ s[1] = dev
    BY <1>2, <2>1
  <2> QED
    BY <1>1, <2>2 DEF IInv, Drained, Synced
<1> QED
  BY <1>1, <1>2, <1>3, <1>5, <1>6, <1>7, <1>8, <1>9, <1>10, HostInv DEF IInv, Typed, Issuing

(* A call throws.                                                          *)
LEMMA HostFailInv ==
  ASSUME IInv, HostFail
  PROVE  Issuing
<1>1. /\ UNCHANGED <<separate, pc, chunk, dev, queue, active, recorded, fired, total, slot, sims>>
      /\ failed' = TRUE
  BY DEF HostFail, deviceVars
<1>2. /\ ReducesIssued' = ReducesIssued /\ FinalsIssued' = FinalsIssued
      /\ \A g \in Gpus : StatsIssued(g)' = StatsIssued(g) /\ ReleasesIssued(g)' = ReleasesIssued(g)
      /\ \A t \in Streams : Issued(t)' = Issued(t)
  BY <1>1 DEF ReducesIssued, FinalsIssued, StatsIssued, ReleasesIssued, Issued
<1>3. \A t \in Streams : Grows(t, queue[t], Issued(t), queue'[t], Issued(t)')
  BY <1>1, <1>2, QueueFacts
<1>4. FinalizeStream' = FinalizeStream
  BY <1>1 DEF FinalizeStream
<1>5. Recorded' /\ Place' /\ Drained'
  BY <1>1, <1>2 DEF IInv, Recorded, Turns, Place, Drained
<1> QED
  BY <1>1, <1>2, <1>3, <1>4, <1>5, HostInv DEF IInv, Typed, Issuing

(* Finalize is issued, on either stream.                                   *)
LEMMA IssueFinalizeInv ==
  ASSUME IInv, IssueFinalize
  PROVE  Issuing
<1>0. PICK c \in Chunks : c = chunk
  BY IssueFinalizeCounts
<1> DEFINE e == Event(Root, "allreduced", SlotOf(c))
           w == Work("finalize", c)
<1>1. /\ chunk' = c /\ pc = "finalize" /\ pc' = "release" /\ dev' = 0 /\ dev = 0
      /\ \A g \in Gpus : /\ StatsIssued(g)' = c + 1 /\ StatsIssued(g) = c + 1
                         /\ ReleasesIssued(g)' = c /\ ReleasesIssued(g) = c
      /\ ReducesIssued' = c + 1 /\ ReducesIssued = c + 1
      /\ FinalsIssued' = c + 1 /\ FinalsIssued = c
  BY <1>0, IssueFinalizeCounts
<1>2. c \in Nat /\ NChunks \in Nat /\ c < NChunks /\ Root \in Gpus /\ SlotOf(c) \in Slots /\ Turn(c) \in Nat
      /\ Comm(Root) \in Streams /\ Fin \in Streams /\ Fin # Comm(Root)
  BY GpuFacts, TurnFacts, StreamFacts DEF Chunks
<1>3. /\ w \in Ops /\ w.op = "finalize" /\ SumDone(c) \in Ops /\ SumDone(c).op = "record"
      /\ AwaitSum(c) \in Ops /\ AwaitSum(c).op = "wait"
  BY <1>2, OpsFacts, ProgramOps, Kinds
<1>4. UNCHANGED <<separate, failed, active, fired, total, slot, sims>>
  BY DEF IssueFinalize
<1>5. queue \in [Streams -> Seq(Ops)]
  BY DEF IInv, Typed
<1>6. /\ Issued(Comm(Root)) = c + 1 + (c + 1) + (c + IF separate THEN 0 ELSE c)
      /\ Issued(Comm(Root))' = c + 1 + (c + 1) + (c + 1 + IF separate THEN 0 ELSE c)
      /\ separate => Issued(Fin) = 2 * c + c /\ Issued(Fin)' = 2 * (c + 1) + c
      /\ ~separate => Issued(Fin)' = Issued(Fin)
  BY <1>1, <1>2, <1>4, IssuedFacts, IssuedNext
<1>7. ASSUME NEW t \in Streams, t # Comm(Root), t # Fin
      PROVE  Issued(t)' = Issued(t)
  <2>1. ASSUME NEW h \in Gpus, t = Compute(h) PROVE Issued(t)' = Issued(t)
    BY <1>1, <2>1, IssuedFacts, IssuedNext
  <2>2. ASSUME NEW h \in Gpus, t = Comm(h) PROVE Issued(t)' = Issued(t)
    <3>1. h # Root
      BY <1>7, <2>2
    <3> QED
      BY <1>1, <2>2, <3>1, IssuedFacts, IssuedNext
  <2> QED
    BY <1>7, <2>1, <2>2, StreamFacts
<1>8. \A t \in Streams : t # Comm(Root) /\ t # Fin => queue'[t] = queue[t]
  BY <1>2, <1>5 DEF IssueFinalize
<1> DEFINE P == /\ queue' \in [Streams -> Seq(Ops)]
                /\ \A t \in {Comm(Root), Fin} : Grows(t, queue[t], Issued(t), queue'[t], Issued(t)')
                /\ Count(queue'[Comm(Root)], "allreduce") = Count(queue[Comm(Root)], "allreduce")
                /\ Count(queue'[FinalizeStream], "finalize") = Count(queue[FinalizeStream], "finalize") + 1
<1>9. ASSUME separate
      PROVE  P /\ Recorded' /\ recorded' \in [Events -> Nat]
  <2>1. recorded[e] + 1 = Turn(c) /\ e \in Events
    BY <1>1, <1>2, <1>9, EventFacts, TurnsFacts DEF IInv, Recorded, Turn
  <2>2. /\ queue' = [queue EXCEPT ![Comm(Root)] = Append(@, SumDone(c)),
                                  ![Fin] = @ \o <<AwaitSum(c), w>>]
        /\ recorded' = [recorded EXCEPT ![e] = Turn(c)]
    BY <1>0, <1>9, <2>1 DEF IssueFinalize, SumDone, AwaitSum
  <2> HIDE DEF w, e
  <2>3. queue[Fin] \in Seq(Ops) /\ queue[Comm(Root)] \in Seq(Ops)
    BY <1>2, <1>5
  <2> DEFINE q1 == Append(queue[Fin], AwaitSum(c))
             q2 == Append(q1, w)
  <2>4. queue'[Comm(Root)] = Append(queue[Comm(Root)], SumDone(c)) /\ queue'[Fin] = q2
    <3>1. queue[Fin] \o <<AwaitSum(c), w>> = q2
      BY <1>3, <2>3, ConcatTwo
    <3>2. queue'[Comm(Root)] = Append(queue[Comm(Root)], SumDone(c)) /\ queue'[Fin] = queue[Fin] \o <<AwaitSum(c), w>>
      BY <1>2, <1>5, <2>2
    <3> QED
      BY <3>1, <3>2
  <2>5. queue' \in [Streams -> Seq(Ops)]
    <3>1. q2 \in Seq(Ops) /\ Append(queue[Comm(Root)], SumDone(c)) \in Seq(Ops)
      BY <1>3, <2>3
    <3>2. queue' = [t \in Streams |-> queue'[t]]
      BY <1>5, <2>2
    <3> HIDE DEF q2
    <3> QED
      BY <1>5, <1>8, <2>4, <3>1, <3>2
  <2>6. /\ Grows(Comm(Root), queue[Comm(Root)], Issued(Comm(Root)), queue'[Comm(Root)], Issued(Comm(Root))')
        /\ Count(queue'[Comm(Root)], "allreduce") = Count(queue[Comm(Root)], "allreduce")
    <3>1. Issued(Comm(Root)) = 3 * c + 2 /\ Issued(Comm(Root))' = Issued(Comm(Root)) + 1 /\ ~OwnFinalize(Root)
      BY <1>2, <1>6, <1>9 DEF OwnFinalize
    <3>2. At(Comm(Root), Issued(Comm(Root)), SumDone(c))
      BY <1>2, <3>1, AtFacts DEF CommAt
    <3> QED
      BY <1>2, <1>3, <2>4, <3>1, <3>2, OnePush
  <2>7. /\ Grows(Fin, queue[Fin], Issued(Fin), queue'[Fin], Issued(Fin)')
        /\ Count(queue'[Fin], "finalize") = Count(queue[Fin], "finalize") + 1
    <3>1. Issued(Fin) = 3 * c /\ Issued(Fin)' = Issued(Fin) + 1 + 1 /\ Issued(Fin) + 1 = 3 * c + 1
      BY <1>2, <1>6, <1>9
    <3>2. At(Fin, Issued(Fin), AwaitSum(c)) /\ At(Fin, Issued(Fin) + 1, w)
      BY <1>2, <1>9, <3>1, AtFacts DEF FinAt, w
    <3>3. /\ Grows(Fin, queue[Fin], Issued(Fin), q1, Issued(Fin) + 1)
          /\ Count(q1, "finalize") = Count(queue[Fin], "finalize")
      BY <1>2, <1>3, <3>2, OnePush
    <3>4. Grows(Fin, queue[Fin], Issued(Fin), q2, Issued(Fin) + 1 + 1) /\ q1 \in Seq(Ops)
      <4>1. q1 \in Seq(Ops) /\ queue[Fin] \in Seq(Ops) /\ Issued(Fin) \in Nat
        BY <1>2, <3>3, QueueFacts DEF Grows
      <4> HIDE DEF q1
      <4> QED
        BY <1>2, <1>3, <3>2, <3>3, <4>1, GrowsAppend
    <3>5. Count(q2, "finalize") = Count(q1, "finalize") + 1
      <4> HIDE DEF q1
      <4> QED
        BY <1>3, <3>4, CountAppend
    <3> HIDE DEF q1, q2
    <3> QED
      BY <2>4, <3>1, <3>3, <3>4, <3>5
  <2>8. FinalizeStream = Fin
    BY <1>9 DEF FinalizeStream
  <2>9. P
    BY <2>5, <2>6, <2>7, <2>8
  <2>10. \A x \in Events : recorded'[x] = IF x = e THEN Turn(c) ELSE recorded[x]
    BY <2>2 DEF IInv, Typed
  <2>11. recorded' \in [Events -> Nat]
    BY <1>2, <2>1, <2>2 DEF IInv, Typed
  <2>12. Recorded'
    <3> SUFFICES ASSUME NEW b \in Slots
                 PROVE  /\ \A h \in Gpus : /\ recorded'[Event(h, "ready", b)] = Turns(StatsIssued(h)', b)
                                           /\ recorded'[Event(h, "reduced", b)] = Turns(ReleasesIssued(h)', b)
                        /\ recorded'[Event(Root, "allreduced", b)] = Turns(FinalsIssued', b)
      BY DEF Recorded, Turns
    <3>1. ASSUME NEW h \in Gpus
          PROVE  /\ recorded'[Event(h, "ready", b)] = Turns(StatsIssued(h)', b)
                 /\ recorded'[Event(h, "reduced", b)] = Turns(ReleasesIssued(h)', b)
      <4>1. /\ recorded[Event(h, "ready", b)] = Turns(StatsIssued(h), b) /\ Event(h, "ready", b) \in Events
            /\ recorded[Event(h, "reduced", b)] = Turns(ReleasesIssued(h), b) /\ Event(h, "reduced", b) \in Events
        BY EventFacts DEF IInv, Recorded
      <4>2. Event(h, "ready", b) # e /\ Event(h, "reduced", b) # e
        BY DEF e, Event
      <4> QED
        BY <1>1, <2>10, <4>1, <4>2
    <3>2. recorded'[Event(Root, "allreduced", b)] = Turns(FinalsIssued', b)
      <4>1. recorded[Event(Root, "allreduced", b)] = Turns(FinalsIssued, b) /\ Event(Root, "allreduced", b) \in Events
        BY <1>2, <1>9, EventFacts DEF IInv, Recorded
      <4>2. Event(Root, "allreduced", b) = e <=> b = SlotOf(c)
        BY DEF e, Event
      <4> QED
        BY <1>1, <1>2, <2>10, <4>1, <4>2, TurnsFacts
    <3> QED
      BY <3>1, <3>2
  <2> QED
    BY <2>9, <2>11, <2>12
<1>10. ASSUME ~separate
       PROVE  P /\ Recorded' /\ recorded' \in [Events -> Nat]
  <2>1. /\ queue' = [queue EXCEPT ![Comm(Root)] = Append(@, w)]
        /\ recorded' = recorded
    BY <1>0, <1>10 DEF IssueFinalize
  <2> HIDE DEF w
  <2>2. /\ queue'[Comm(Root)] = Append(queue[Comm(Root)], w) /\ queue'[Fin] = queue[Fin]
        /\ queue[Comm(Root)] \in Seq(Ops)
    BY <1>2, <1>5, <2>1
  <2>3. queue' \in [Streams -> Seq(Ops)]
    BY <1>3, <1>5, <2>1, <2>2
  <2>4. /\ Grows(Comm(Root), queue[Comm(Root)], Issued(Comm(Root)), queue'[Comm(Root)], Issued(Comm(Root))')
        /\ Count(queue'[Comm(Root)], "allreduce") = Count(queue[Comm(Root)], "allreduce")
        /\ Count(queue'[Comm(Root)], "finalize") = Count(queue[Comm(Root)], "finalize") + 1
    <3>1. Issued(Comm(Root)) = 4 * c + 2 /\ Issued(Comm(Root))' = Issued(Comm(Root)) + 1 /\ OwnFinalize(Root)
      BY <1>2, <1>6, <1>10 DEF OwnFinalize
    <3>2. At(Comm(Root), Issued(Comm(Root)), w)
      BY <1>2, <3>1, AtFacts DEF CommAt, w
    <3> DEFINE r == Append(queue[Comm(Root)], w)
    <3>3. /\ Grows(Comm(Root), queue[Comm(Root)], Issued(Comm(Root)), r, Issued(Comm(Root)) + 1)
          /\ \A k : Count(r, k) = Count(queue[Comm(Root)], k) + IF w.op = k THEN 1 ELSE 0
          /\ \A k : k # w.op => Count(r, k) = Count(queue[Comm(Root)], k)
      BY <1>2, <1>3, <3>2, OnePush
    <3> QED
      BY <1>3, <2>2, <3>1, <3>3
  <2>5. Grows(Fin, queue[Fin], Issued(Fin), queue'[Fin], Issued(Fin)')
    BY <1>2, <1>6, <1>10, <2>2, QueueFacts
  <2>6. FinalizeStream = Comm(Root)
    BY <1>10 DEF FinalizeStream
  <2>7. P
    BY <2>3, <2>4, <2>5, <2>6
  <2>8. Recorded'
    BY <1>1, <1>4, <1>10, <2>1 DEF IInv, Recorded, Turns
  <2> QED
    BY <2>1, <2>7, <2>8 DEF IInv, Typed
<1>11. P /\ Recorded' /\ recorded' \in [Events -> Nat]
  BY <1>9, <1>10 DEF IInv, Typed
<1>12. \A t \in Streams : Grows(t, queue[t], Issued(t), queue'[t], Issued(t)')
  BY <1>7, <1>8, <1>11, QueueFacts
<1>13. ASSUME NEW h \in Gpus
       PROVE  /\ StatsIssued(h)' - Count(queue'[Compute(h)], "stats")
                   = StatsIssued(h) - Count(queue[Compute(h)], "stats")
              /\ ReducesIssued' - Count(queue'[Comm(h)], "allreduce")
                   = ReducesIssued - Count(queue[Comm(h)], "allreduce")
  <2>1. queue'[Compute(h)] = queue[Compute(h)]
    BY <1>2, <1>8, StreamFacts
  <2>2. Count(queue'[Comm(h)], "allreduce") = Count(queue[Comm(h)], "allreduce")
    BY <1>2, <1>8, <1>11, StreamFacts
  <2> QED
    BY <1>1, <2>1, <2>2
<1>14. FinalsIssued' - Count(queue'[FinalizeStream], "finalize")
         = FinalsIssued - Count(queue[FinalizeStream], "finalize")
  <2>1. Count(queue[FinalizeStream], "finalize") \in Nat
    BY StreamFacts, QueueFacts
  <2>2. Count(queue'[FinalizeStream], "finalize") = Count(queue[FinalizeStream], "finalize") + 1
    BY <1>11
  <2> QED
    BY <1>1, <1>2, <2>1, <2>2
<1>15. Place' /\ Drained'
  BY <1>1, <1>2 DEF Place, Drained
<1> QED
  BY <1>1, <1>2, <1>4, <1>11, <1>12, <1>13, <1>14, <1>15, HostInv DEF IInv, Typed, Issuing, Root

(* The slot's release is issued behind its last reader.                    *)
LEMMA IssueReleaseInv ==
  ASSUME IInv, IssueRelease
  PROVE  Issuing
<1>0. PICK g \in Gpus, c \in Chunks : g = dev /\ c = chunk
  BY IssueReleaseCounts
<1> DEFINE e == Event(g, "reduced", SlotOf(c))
<1>1. /\ chunk' \in {c, c + 1} /\ pc = "release"
      /\ \/ pc' = "release" /\ chunk' = c
         \/ pc' = "device" /\ chunk' < NChunks /\ dev' = 0
         \/ pc' = "sync" /\ chunk' = NChunks /\ dev' = 0
      /\ dev' \in Gpus
      /\ \A h \in Gpus : /\ StatsIssued(h)' = c + 1 /\ StatsIssued(h) = c + 1
                         /\ ReleasesIssued(h)' = IF h = g THEN c + 1 ELSE ReleasesIssued(h)
                         /\ h = g => ReleasesIssued(h) = c
      /\ ReducesIssued' = c + 1 /\ ReducesIssued = c + 1
      /\ FinalsIssued' = c + 1 /\ FinalsIssued = c + 1
  BY <1>0, IssueReleaseCounts
<1>2. c \in Nat /\ NChunks \in Nat /\ c < NChunks /\ Root \in Gpus /\ SlotOf(c) \in Slots /\ Turn(c) \in Nat
      /\ e \in Events
  <2>1. c \in Nat /\ NChunks \in Nat /\ c < NChunks /\ Root \in Gpus
    BY GpuFacts DEF Chunks
  <2>2. SlotOf(c) \in Slots /\ Turn(c) \in Nat
    BY <2>1, TurnFacts
  <2> QED
    BY <2>1, <2>2, EventFacts
<1>3. PICK s \in Streams : s = ReleaseStream(g)
  BY StreamFacts DEF ReleaseStream
<1>4. recorded[e] + 1 = Turn(c)
  BY <1>1, <1>2, TurnsFacts DEF IInv, Recorded, Turn
<1>5. /\ queue' = [queue EXCEPT ![s] = Append(@, Release(g, c))]
      /\ recorded' = [recorded EXCEPT ![e] = Turn(c)]
      /\ UNCHANGED <<separate, failed, active, fired, total, slot, sims>>
  BY <1>0, <1>3, <1>4 DEF IssueRelease, Release
<1> HIDE DEF e
<1>6. /\ queue \in [Streams -> Seq(Ops)] /\ queue[s] \in Seq(Ops)
      /\ Release(g, c) \in Ops /\ Release(g, c).op = "record"
  BY <1>2, ProgramOps, Kinds DEF IInv, Typed
<1>7. /\ queue'[s] = Append(queue[s], Release(g, c))
      /\ \A t \in Streams : t # s => queue'[t] = queue[t]
      /\ queue' \in [Streams -> Seq(Ops)]
  BY <1>5, <1>6
<1>8. At(s, Issued(s), Release(g, c)) /\ Issued(s)' = Issued(s) + 1
      /\ \A t \in Streams : t # s => Issued(t)' = Issued(t)
  <2>1. /\ Issued(Fin) = IF separate THEN 2 * (c + 1) + ReleasesIssued(Root) ELSE 0
        /\ Issued(Fin)' = IF separate THEN 2 * (c + 1) + ReleasesIssued(Root)' ELSE 0
        /\ \A h \in Gpus :
             /\ Issued(Compute(h))' = Issued(Compute(h))
             /\ Issued(Comm(h)) = c + 1 + (c + 1)
                  + IF h # Root THEN ReleasesIssued(h) ELSE c + 1 + IF separate THEN 0 ELSE ReleasesIssued(Root)
             /\ Issued(Comm(h))' = c + 1 + (c + 1)
                  + IF h # Root THEN ReleasesIssued(h)' ELSE c + 1 + IF separate THEN 0 ELSE ReleasesIssued(Root)'
    BY <1>1, <1>5, IssuedFacts, IssuedNext
  <2>2. \A h \in Gpus : /\ h # g => ReleasesIssued(h)' = ReleasesIssued(h)
                        /\ h = g => ReleasesIssued(h)' = c + 1 /\ ReleasesIssued(h) = c
    BY <1>1
  <2>3. CASE g # Root
    <3>1. s = Comm(g) /\ ~OwnFinalize(g)
      BY <1>3, <2>3 DEF ReleaseStream, OwnFinalize
    <3>2. Issued(s) = 3 * c + 2 /\ Issued(s)' = Issued(s) + 1
      BY <1>2, <2>1, <2>2, <2>3, <3>1
    <3>3. At(s, Issued(s), Release(g, c))
      BY <1>2, <2>3, <3>1, <3>2, AtFacts DEF CommAt
    <3>4. \A t \in Streams : t # s => Issued(t)' = Issued(t)
      <4>1. Issued(Fin)' = Issued(Fin)
        BY <1>2, <2>1, <2>2, <2>3
      <4>2. \A h \in Gpus : h # g => Issued(Comm(h))' = Issued(Comm(h))
        BY <1>2, <2>1, <2>2, <2>3
      <4> QED
        BY <2>1, <3>1, <4>1, <4>2, StreamFacts
    <3> QED
      BY <3>2, <3>3, <3>4
  <2>4. CASE g = Root /\ separate
    <3>1. s = Fin
      BY <1>3, <2>4 DEF ReleaseStream, FinalizeStream
    <3>2. Issued(s) = 3 * c + 2 /\ Issued(s)' = Issued(s) + 1
      BY <1>2, <2>1, <2>2, <2>4, <3>1
    <3>3. At(s, Issued(s), Release(g, c))
      BY <1>2, <2>4, <3>1, <3>2, AtFacts DEF FinAt
    <3>4. \A h \in Gpus : Issued(Comm(h))' = Issued(Comm(h))
      BY <2>1, <2>2, <2>4
    <3> QED
      BY <2>1, <3>1, <3>2, <3>3, <3>4, StreamFacts
  <2>5. CASE g = Root /\ ~separate
    <3>1. s = Comm(g) /\ OwnFinalize(g)
      BY <1>3, <2>5 DEF ReleaseStream, FinalizeStream, OwnFinalize
    <3>2. Issued(s) = 4 * c + 3 /\ Issued(s)' = Issued(s) + 1
      BY <1>2, <2>1, <2>2, <2>5, <3>1
    <3>3. At(s, Issued(s), Release(g, c))
      BY <1>2, <3>1, <3>2, AtFacts DEF CommAt
    <3>4. /\ Issued(Fin)' = Issued(Fin)
          /\ \A h \in Gpus : h # g => Issued(Comm(h))' = Issued(Comm(h))
      BY <2>1, <2>2, <2>5
    <3> QED
      BY <2>1, <3>1, <3>2, <3>3, <3>4, StreamFacts
  <2> QED
    BY <2>3, <2>4, <2>5
<1>9. /\ Grows(s, queue[s], Issued(s), queue'[s], Issued(s)')
      /\ \A k : k # "record" => Count(queue'[s], k) = Count(queue[s], k)
  BY <1>6, <1>7, <1>8, OnePush
<1>10. \A t \in Streams : Grows(t, queue[t], Issued(t), queue'[t], Issued(t)')
  BY <1>7, <1>8, <1>9, QueueFacts
<1>11. \A t \in Streams : /\ Count(queue'[t], "stats") = Count(queue[t], "stats")
                          /\ Count(queue'[t], "allreduce") = Count(queue[t], "allreduce")
                          /\ Count(queue'[t], "finalize") = Count(queue[t], "finalize")
  BY <1>7, <1>9
<1>12. recorded' \in [Events -> Nat]
  BY <1>2, <1>5 DEF IInv, Typed
<1>13. Recorded'
  <2> SUFFICES ASSUME NEW b \in Slots
               PROVE  /\ \A h \in Gpus : /\ recorded'[Event(h, "ready", b)] = Turns(StatsIssued(h)', b)
                                         /\ recorded'[Event(h, "reduced", b)] = Turns(ReleasesIssued(h)', b)
                      /\ separate => recorded'[Event(Root, "allreduced", b)] = Turns(FinalsIssued', b)
    BY <1>5 DEF Recorded, Turns
  <2>1. \A x \in Events : recorded'[x] = IF x = e THEN Turn(c) ELSE recorded[x]
    BY <1>5 DEF IInv, Typed
  <2>2. ASSUME NEW h \in Gpus
        PROVE  recorded'[Event(h, "reduced", b)] = Turns(ReleasesIssued(h)', b)
    <3>1. recorded[Event(h, "reduced", b)] = Turns(ReleasesIssued(h), b) /\ Event(h, "reduced", b) \in Events
      BY EventFacts DEF IInv, Recorded
    <3>2. Event(h, "reduced", b) = e <=> h = g /\ b = SlotOf(c)
      BY DEF e, Event
    <3>3. CASE h = g
      BY <1>1, <1>2, <2>1, <3>1, <3>2, <3>3, TurnsFacts
    <3>4. CASE h # g
      BY <1>1, <2>1, <3>1, <3>2, <3>4
    <3> QED
      BY <3>3, <3>4
  <2>3. ASSUME NEW h \in Gpus
        PROVE  recorded'[Event(h, "ready", b)] = Turns(StatsIssued(h)', b)
    <3>1. recorded[Event(h, "ready", b)] = Turns(StatsIssued(h), b) /\ Event(h, "ready", b) \in Events
      BY EventFacts DEF IInv, Recorded
    <3>2. Event(h, "ready", b) # e
      BY DEF e, Event
    <3> QED
      BY <1>1, <2>1, <3>1, <3>2
  <2>4. separate => recorded'[Event(Root, "allreduced", b)] = Turns(FinalsIssued', b)
    <3>1. /\ separate => recorded[Event(Root, "allreduced", b)] = Turns(FinalsIssued, b)
          /\ Event(Root, "allreduced", b) \in Events
      BY EventFacts, GpuFacts DEF IInv, Recorded
    <3>2. Event(Root, "allreduced", b) # e
      BY DEF e, Event
    <3> QED
      BY <1>1, <2>1, <3>1, <3>2
  <2> QED
    BY <2>2, <2>3, <2>4
<1>14. Place'
  BY <1>1, <1>2 DEF Place
<1>15. Drained'
  <2> SUFFICES ASSUME NEW t \in Streams, pc' = "done" \/ (pc' = "sync" /\ t[1] < dev')
               PROVE  FALSE
    BY DEF Drained
  <2>1. t[1] < 0 /\ t[1] \in Nat
    BY <1>1, StreamFacts, GpuFacts
  <2> QED
    BY <2>1
<1>16. \A h \in Gpus :
         /\ StatsIssued(h)' - Count(queue'[Compute(h)], "stats")
              = StatsIssued(h) - Count(queue[Compute(h)], "stats")
         /\ ReducesIssued' - Count(queue'[Comm(h)], "allreduce")
              = ReducesIssued - Count(queue[Comm(h)], "allreduce")
  BY <1>1, <1>11, StreamFacts
<1>17. FinalsIssued' - Count(queue'[FinalizeStream], "finalize")
         = FinalsIssued - Count(queue[FinalizeStream], "finalize")
  BY <1>1, <1>11, StreamFacts
<1> QED
  BY <1>1, <1>2, <1>5, <1>7, <1>10, <1>12, <1>13, <1>14, <1>15, <1>16, <1>17, HostInv, SMTT(20) DEF IInv, Typed, Issuing

-----------------------------------------------------------------------------
(* Nothing is issued yet.                                                  *)
LEMMA InitInv == Init => IInv
<1> SUFFICES ASSUME Init PROVE IInv
  OBVIOUS
<1>1. /\ separate \in BOOLEAN /\ failed = FALSE /\ chunk = 0 /\ dev = 0 /\ 0 \in Gpus /\ NChunks \in Nat
      /\ pc = IF NChunks = 0 THEN "sync" ELSE "device"
      /\ \A s \in Streams : queue[s] = <<>> /\ active[s] = FALSE
      /\ \A e \in Events : recorded[e] = 0 /\ fired[e] = 0
  BY GpuFacts DEF Init, Root
<1>2. Typed
  <2>1. Empty \in Contents /\ "none" \in Outcome
    BY DEF Empty, Contents, Outcome
  <2>2. /\ queue \in [Streams -> Seq(Ops)] /\ active \in [Streams -> BOOLEAN]
        /\ recorded \in [Events -> Nat] /\ fired \in [Events -> Nat]
    BY DEF Init
  <2>3. /\ total \in [Chunks -> Outcome] /\ slot \in [Gpus -> [Slots -> Contents]]
        /\ sims \in [Pairs -> Outcome]
    BY <2>1 DEF Init
  <2> QED
    BY <1>1, <2>2, <2>3 DEF Typed
<1>3. Place
  BY <1>1 DEF Place
<1>4. \A g \in Gpus : ~(g < 0)
  BY DEF Gpus
<1>5. /\ ReducesIssued = 0 /\ FinalsIssued = 0
      /\ \A g \in Gpus : StatsIssued(g) = 0 /\ ReleasesIssued(g) = 0
  BY <1>1, <1>4 DEF ReducesIssued, FinalsIssued, StatsIssued, ReleasesIssued
<1>6. \A s \in Streams : Issued(s) = 0
  <2> SUFFICES ASSUME NEW s \in Streams PROVE Issued(s) = 0
    OBVIOUS
  <2>1. CASE s = Fin
    BY <1>5, <2>1, IssuedFacts, GpuFacts
  <2>2. ASSUME NEW g \in Gpus, s = Compute(g) PROVE Issued(s) = 0
    BY <1>5, <2>2, IssuedFacts DEF ComputeStart
  <2>3. ASSUME NEW g \in Gpus, s = Comm(g) PROVE Issued(s) = 0
    BY <1>5, <2>3, IssuedFacts, GpuFacts
  <2> QED
    BY <2>1, <2>2, <2>3, StreamFacts
<1>7. \A s \in Streams : Pos(s) = 0 /\ Segment(s, queue[s], Issued(s))
  BY <1>1, <1>6 DEF Pos, Segment
<1>8. \A s \in Streams : \A k : Queued(s, k) = 0
  <2> SUFFICES ASSUME NEW s \in Streams, NEW k PROVE Queued(s, k) = 0
    OBVIOUS
  <2>1. {i \in 1 .. Len(queue[s]) : queue[s][i].op = k} = {}
    BY <1>1
  <2> QED
    BY <2>1, FS_EmptySet DEF Queued
<1>9. /\ Finalized = 0 /\ \A g \in Gpus : Written(g) = 0 /\ Reduced(g) = 0 /\ Freed(g) = 0
  BY <1>5, <1>8, StreamFacts DEF Finalized, Written, Reduced, Freed
<1>10. Links
  <2>1. FinLink
    BY <1>7, <1>9, StreamFacts, GpuFacts DEF FinLink
  <2>2. ASSUME NEW g \in Gpus PROVE ComputeLink(g) /\ CommLink(g)
    BY <1>7, <1>9, StreamFacts DEF ComputeLink, CommLink
  <2> QED
    BY <2>1, <2>2 DEF Links
<1>11. Recorded
  <2>1. \A b \in Slots : Turns(0, b) = 0
    BY DEF Turns, Slots
  <2> QED
    BY <1>1, <1>5, <2>1, EventFacts, GpuFacts DEF Recorded
<1>12. Fired
  BY <1>1, EventFacts, GpuFacts DEF Fired, Behind
<1> QED
  BY <1>1, <1>2, <1>3, <1>7, <1>10, <1>11, <1>12 DEF IInv, Queues, Working, Drained

LEMMA StutterInv ==
  ASSUME IInv, UNCHANGED vars
  PROVE  Issuing
<1>1. /\ UNCHANGED <<separate, hostVars, queue, recorded, fired, sims, active, total, slot>>
  BY DEF vars, deviceVars
<1>2. Working'
  BY <1>1 DEF IInv, Working
<1>3. IInv'
  BY <1>1, <1>2, QuietInv DEF IInv, Typed
<1> QED
  BY <1>1, <1>3, NoPop DEF IInv, Working, Issuing

LEMMA HostIssuing ==
  ASSUME IInv, Host \/ HostFail \/ UNCHANGED vars
  PROVE  Issuing
BY IssueStatsInv, GroupEndInv, IssueFinalizeInv, IssueReleaseInv, SynchronizeInv, HostFailInv, StutterInv
   DEF Host

LEMMA StreamInv ==
  ASSUME IInv, NEW s \in Streams, StreamStep(s)
  PROVE  IInv'
BY PassWaitInv, FireRecordInv, StatsBeginInv, StatsEndInv, JoinInv, ReduceEndInv, FinalizeBeginInv,
   FinalizeEndInv DEF StreamStep

(* What is queued on every stream is the next part of its program, and no  *)
(* stream is further than the events it has waited for allow.              *)
THEOREM PipelineInvariance == Spec => []IInv
<1>1. IInv /\ [Next]_vars => IInv'
  BY HostIssuing, StreamInv, CombineInv DEF Next, Device, Issuing
<1> QED
  BY InitInv, <1>1, PTL DEF Spec

-----------------------------------------------------------------------------
(* The chunks share the pairs out: none is empty, no two overlap.          *)
LEMMA OrderInjective ==
  \A i, j \in Pairs : Order[i] = Order[j] => i = j
<1>1. IsFiniteSet(Pairs)
  BY SizeAssumption, FS_Interval DEF Pairs
<1>2. Order \in Surjection(Pairs, Pairs)
  BY OrderAssumption, Fun_IsSurj
<1> QED
  BY <1>1, <1>2, FS_SurjSameCardinalityImpliesInj DEF Injection, IsInjective

LEMMA ChunkSpan ==
  ASSUME NEW c \in Chunks
  PROVE  /\ c * Chunk \in Nat /\ c * Chunk < NPairs
         /\ c * Chunk + Min2(Chunk, NPairs - c * Chunk) - 1 \in Int
         /\ Min2(Chunk, NPairs - c * Chunk) >= 1
         /\ c * Chunk + Min2(Chunk, NPairs - c * Chunk) <= NPairs
         /\ Min2(Chunk, NPairs - c * Chunk) <= Chunk
<1>1. c \in Nat /\ Chunk \in Nat \ {0} /\ NPairs \in Nat /\ NChunks \in Nat /\ c < NChunks
  BY SizeAssumption, GpuFacts DEF Chunks
<1>2. c * Chunk \in Nat
  BY <1>1
<1>3. c + 1 <= (NPairs + Chunk - 1) \div Chunk
  BY <1>1 DEF NChunks
<1>4. (c + 1) * Chunk <= NPairs + Chunk - 1
  <2>1. c + 1 \in Nat /\ NPairs + Chunk - 1 \in Nat
    BY <1>1
  <2> QED
    BY <1>1, <1>3, <2>1, DivGalois
<1>5. (c + 1) * Chunk = c * Chunk + Chunk
  BY <1>1
<1>6. c * Chunk < NPairs
  BY <1>1, <1>2, <1>4, <1>5
<1> QED
  BY <1>1, <1>2, <1>6 DEF Min2

(* Different chunks have different pairs, since Order is injective.        *)
LEMMA PairsOfFacts ==
  /\ \A c \in Chunks : PairsOf(c) # {} /\ PairsOf(c) \subseteq Pairs
  /\ \A c, d \in Chunks : c # d => PairsOf(c) \cap PairsOf(d) = {}
<1>1. ASSUME NEW c \in Chunks, NEW i \in c * Chunk .. c * Chunk + Min2(Chunk, NPairs - c * Chunk) - 1
      PROVE  i \in Pairs /\ i \in Nat /\ c * Chunk <= i /\ i < c * Chunk + Chunk
  <2> DEFINE b == c * Chunk
             l == Min2(Chunk, NPairs - b)
  <2>1. /\ b \in Nat /\ b < NPairs /\ b + l - 1 \in Int /\ l >= 1 /\ b + l <= NPairs /\ l <= Chunk
        /\ NPairs \in Nat /\ Chunk \in Nat /\ l \in Int
    BY ChunkSpan, SizeAssumption DEF Min2
  <2> HIDE DEF b, l
  <2>2. i \in b .. b + l - 1
    BY DEF b, l
  <2>3. i \in Pairs /\ i \in Nat /\ b <= i /\ i < b + Chunk
    BY <2>1, <2>2 DEF Pairs
  <2> QED
    BY <2>3 DEF b
<1>2. ASSUME NEW c \in Chunks PROVE PairsOf(c) # {} /\ PairsOf(c) \subseteq Pairs
  <2>1. c * Chunk \in c * Chunk .. c * Chunk + Min2(Chunk, NPairs - c * Chunk) - 1
    BY ChunkSpan, SizeAssumption DEF Min2
  <2> QED
    BY <1>1, <2>1, OrderAssumption DEF PairsOf
<1>3. ASSUME NEW c \in Chunks, NEW d \in Chunks, c < d PROVE PairsOf(c) \cap PairsOf(d) = {}
  <2> SUFFICES ASSUME NEW i \in c * Chunk .. c * Chunk + Min2(Chunk, NPairs - c * Chunk) - 1,
                      NEW j \in d * Chunk .. d * Chunk + Min2(Chunk, NPairs - d * Chunk) - 1,
                      Order[i] = Order[j]
               PROVE  FALSE
    BY DEF PairsOf
  <2>1. i \in Nat /\ j \in Nat /\ i = j /\ d * Chunk <= i /\ i < c * Chunk + Chunk
    BY <1>1, OrderInjective
  <2>2. /\ c \in Nat /\ d \in Nat /\ Chunk \in Nat
    BY SizeAssumption, GpuFacts DEF Chunks
  <2>3. PICK k \in Nat : d = c + 1 + k
    <3>1. d - c - 1 \in Nat /\ d = c + 1 + (d - c - 1)
      BY <1>3, <2>2
    <3> QED
      BY <3>1
  <2>4. d * Chunk = c * Chunk + Chunk + k * Chunk /\ k * Chunk \in Nat /\ c * Chunk \in Nat
    BY <2>2, <2>3
  <2> QED
    BY <2>1, <2>2, <2>4
<1>4. \A c, d \in Chunks : c # d => PairsOf(c) \cap PairsOf(d) = {}
  <2> SUFFICES ASSUME NEW c \in Chunks, NEW d \in Chunks, c # d PROVE PairsOf(c) \cap PairsOf(d) = {}
    OBVIOUS
  <2>1. c < d \/ d < c
    BY GpuFacts DEF Chunks
  <2> QED
    BY <1>3, <2>1
<1> QED
  BY <1>2, <1>4

-----------------------------------------------------------------------------
(* The refinement.  What has begun is what has ended, and what is active.  *)
Begun(g)  == Written(g) + Started(Compute(g), "stats")
Joined(g) == Reduced(g) + Started(Comm(g), "allreduce")
Reading   == Finalized + Started(FinalizeStream, "finalize")
Result(c) == IF \A p \in PairsOf(c) : sims[p] = "ok" THEN "ok"
             ELSE IF \A p \in PairsOf(c) : sims[p] = "none" THEN "none"
             ELSE "bad"

LEMMA StartedFacts ==
  ASSUME IInv, NEW s \in Streams
  PROVE  /\ \A k : Started(s, k) \in {0, 1}
         /\ ~active[s] => \A k : Started(s, k) = 0
         /\ active[s] => \A k : Started(s, k) = IF Head(queue[s]).op = k THEN 1 ELSE 0
BY DEF Started, Busy, Next1, IInv, Working

(* A stream that keeps its head keeps its stage.                           *)
LEMMA SameStarted ==
  ASSUME IInv, NEW s \in Streams, active'[s] = active[s],
         active[s] => queue'[s] # <<>> /\ Head(queue'[s]) = Head(queue[s])
  PROVE  \A k : Started(s, k)' = Started(s, k)
BY DEF Started, Busy, Next1, IInv, Working

(* A stage that begins on a stream.                                        *)
LEMMA BeginStarted ==
  ASSUME IInv, NEW s \in Streams, NEW k, Idle(s, k), Begin(s),
         UNCHANGED <<separate, hostVars>>
  PROVE  /\ \A t \in Streams : t # s => \A j : Started(t, j)' = Started(t, j)
         /\ Started(s, k)' = 1 /\ \A j : Started(s, j) = 0
         /\ \A j : j # k => Started(s, j)' = 0
         /\ \A g \in Gpus : Written(g)' = Written(g) /\ Reduced(g)' = Reduced(g)
         /\ Finalized' = Finalized /\ FinalizeStream' = FinalizeStream
         /\ queue[s] # <<>> /\ Head(queue[s]).op = k
<1>1. /\ ~active[s] /\ queue[s] # <<>> /\ Head(queue[s]).op = k /\ queue' = queue
      /\ active' = [active EXCEPT ![s] = TRUE] /\ active \in [Streams -> BOOLEAN]
  BY DEF Idle, Next1, Begin, IInv, Typed
<1>2. active'[s] = TRUE /\ \A t \in Streams : t # s => active'[t] = active[t]
  BY <1>1
<1>3. \A t \in Streams : t # s => \A j : Started(t, j)' = Started(t, j)
  BY <1>1, <1>2, SameStarted DEF IInv, Working
<1>4. \A j : Started(s, j)' = IF j = k THEN 1 ELSE 0
  BY <1>1, <1>2 DEF Started, Busy, Next1
<1>5. \A j : Started(s, j) = 0
  BY <1>1 DEF Started, Busy
<1> QED
  BY <1>1, <1>3, <1>4, <1>5, NoPop, Still

(* A stage that ends on a stream.                                          *)
LEMMA EndStarted ==
  ASSUME IInv, NEW s \in Streams, NEW k, Busy(s, k), End(s)
  PROVE  /\ \A t \in Streams : t # s => \A j : Started(t, j)' = Started(t, j)
         /\ Started(s, k) = 1 /\ \A j : Started(s, j)' = 0
         /\ \A j : j # k => Started(s, j) = 0
         /\ queue[s] # <<>> /\ Head(queue[s]).op = k
<1>1. /\ active[s] /\ queue[s] # <<>> /\ Head(queue[s]).op = k
      /\ queue' = [queue EXCEPT ![s] = Tail(@)] /\ queue \in [Streams -> Seq(Ops)]
      /\ active' = [active EXCEPT ![s] = FALSE] /\ active \in [Streams -> BOOLEAN]
  BY DEF Busy, Next1, End, IInv, Typed
<1>2. active'[s] = FALSE /\ \A t \in Streams : t # s => active'[t] = active[t] /\ queue'[t] = queue[t]
  BY <1>1
<1>3. \A t \in Streams : t # s => \A j : Started(t, j)' = Started(t, j)
  BY <1>2, SameStarted DEF IInv, Working
<1>4. \A j : Started(s, j)' = 0
  BY <1>2 DEF Started, Busy
<1>5. \A j : Started(s, j) = IF j = k THEN 1 ELSE 0
  BY <1>1 DEF Started, Busy, Next1
<1> QED
  BY <1>1, <1>3, <1>4, <1>5

(* No kernel or collective begins or ends.                                 *)
LEMMA AbstractStutter ==
  ASSUME IInv, UNCHANGED <<separate, active, total, slot, sims>>,
         \A g \in Gpus : Written(g)' = Written(g) /\ Reduced(g)' = Reduced(g),
         Finalized' = Finalized,
         \A s \in Streams : active[s] => queue'[s] # <<>> /\ Head(queue'[s]) = Head(queue[s])
  PROVE  UNCHANGED Abstract!vars
<1>1. \A s \in Streams : \A k : Started(s, k)' = Started(s, k)
  BY SameStarted
<1>2. Started(FinalizeStream, "finalize")' = Started(FinalizeStream, "finalize")
  <2>1. PICK s \in Streams : s = FinalizeStream /\ s = FinalizeStream'
    BY StreamFacts DEF FinalizeStream
  <2>2. Started(FinalizeStream, "finalize")' = Started(s, "finalize")'
    BY <2>1 DEF Started, Busy, Next1
  <2> QED
    BY <1>1, <2>1, <2>2
<1>3. \A g \in Gpus : Begun(g)' = Begun(g) /\ Joined(g)' = Joined(g)
  BY <1>1, StreamFacts DEF Begun, Joined
<1>4. Reading' = Reading
  BY <1>2 DEF Reading
<1>5. \A c : Result(c)' = Result(c)
  BY DEF Result
<1> QED
  BY <1>3, <1>4, <1>5 DEF Abstract!vars, Begun, Joined, Reading, Result

(* Each step of a stream is a step of the protocol ...                     *)
LEMMA StatsBeginStep ==
  ASSUME IInv, NEW g \in Gpus, StatsBegin(g)
  PROVE  Abstract!StatsBegin(g)
<1> DEFINE s == Compute(g)
           w == Written(g)
<1>1. /\ s \in Streams /\ Idle(s, "stats") /\ Begin(s)
      /\ slot' = [slot EXCEPT ![g][SlotOf(Head(queue[s]).chunk)] = Torn(Head(queue[s]).chunk)]
      /\ UNCHANGED <<separate, hostVars, recorded, fired, total, sims>>
  BY StreamFacts DEF StatsBegin
<1>2. /\ \A t \in Streams : t # s => \A j : Started(t, j)' = Started(t, j)
      /\ Started(s, "stats")' = 1 /\ Started(s, "stats") = 0
      /\ \A h \in Gpus : Written(h)' = Written(h) /\ Reduced(h)' = Reduced(h)
      /\ Finalized' = Finalized /\ FinalizeStream' = FinalizeStream
      /\ queue[s] # <<>> /\ Head(queue[s]).op = "stats"
  BY <1>1, BeginStarted
<1>3. /\ Head(queue[s]) = Work("stats", w) /\ w < NChunks /\ (w < 2 \/ Freed(g) >= w - 1)
  BY <1>2, HeadCompute, Kinds
<1>4. w \in Nat /\ Freed(g) \in Nat /\ NChunks \in Nat
  BY CountersNat, GpuFacts
<1>5. /\ Begun(g) = w /\ w \in 0 .. NChunks - 1 /\ w < Freed(g) + 2
  BY <1>2, <1>3, <1>4 DEF Begun
<1>6. /\ \A h \in Gpus : Begun(h)' = (IF h = g THEN w + 1 ELSE Begun(h))
      /\ \A h \in Gpus : Joined(h)' = Joined(h)
      /\ Reading' = Reading
  BY <1>2, <1>4, StreamFacts, GpuFacts DEF Begun, Joined, Reading
<1>7. slot' = [slot EXCEPT ![g][SlotOf(w)] = Torn(w)]
  <2>1. Head(queue[s]).chunk = w
    BY <1>3 DEF Work
  <2> QED
    BY <1>1, <2>1
<1>8. \A c : Result(c)' = Result(c)
  BY <1>1 DEF Result
<1> QED
  BY <1>1, <1>2, <1>5, <1>6, <1>7, <1>8
  DEF Abstract!StatsBegin, Abstract!More, Abstract!SlotFree, Abstract!Released, Abstract!Chunks, Abstract!SlotOf,
      Abstract!Torn, Begun, Joined, Reading, Result, Freed, SlotOf, Torn

LEMMA StatsEndStep ==
  ASSUME IInv, NEW g \in Gpus, StatsEnd(g)
  PROVE  Abstract!StatsEnd(g)
<1> DEFINE s == Compute(g)
           w == Written(g)
<1>1. /\ s \in Streams /\ Busy(s, "stats") /\ End(s)
      /\ slot' = [slot EXCEPT ![g][SlotOf(Head(queue[s]).chunk)] = Partial(Head(queue[s]).chunk)]
      /\ UNCHANGED <<separate, hostVars, recorded, fired, total, sims>>
  BY StreamFacts DEF StatsEnd
<1>2. /\ \A t \in Streams : t # s => \A j : Started(t, j)' = Started(t, j)
      /\ Started(s, "stats") = 1 /\ Started(s, "stats")' = 0
      /\ queue[s] # <<>> /\ Head(queue[s]).op = "stats"
  BY <1>1, EndStarted
<1>3. /\ w \in Nat /\ Finalized \in Nat /\ \A h \in Gpus : Written(h) \in Nat /\ Reduced(h) \in Nat
  BY CountersNat
<1>4. Head(queue[s]).chunk = w
  BY <1>2, HeadCompute, Kinds
<1>5. /\ \A h \in Gpus : Written(h)' = Written(h) + IF h = g THEN 1 ELSE 0
      /\ \A h \in Gpus : Reduced(h)' = Reduced(h)
      /\ Finalized' = Finalized /\ FinalizeStream' = FinalizeStream
  <2>1. /\ \A h \in Gpus : /\ Written(h)' = Written(h) + IF s = Compute(h) /\ Head(queue[s]).op = "stats"
                                                          THEN 1 ELSE 0
                           /\ Reduced(h)' = Reduced(h) + IF s = Comm(h) /\ Head(queue[s]).op = "allreduce"
                                                          THEN 1 ELSE 0
        /\ Finalized' = Finalized + IF s = FinalizeStream /\ Head(queue[s]).op = "finalize"
                                     THEN 1 ELSE 0
    BY <1>1, <1>2, PopEffect DEF End
  <2>2. \A h \in Gpus : s = Compute(h) <=> h = g
    BY StreamFacts
  <2>3. FinalizeStream' = FinalizeStream
    BY <1>1 DEF FinalizeStream
  <2> HIDE DEF s
  <2> QED
    BY <1>2, <1>3, <2>1, <2>2, <2>3
<1>6. /\ \A h \in Gpus : Begun(h)' = Begun(h)
      /\ \A h \in Gpus : Joined(h)' = Joined(h)
      /\ Reading' = Reading /\ w < Begun(g)
  <2>1. ASSUME NEW h \in Gpus PROVE Begun(h)' = Begun(h) /\ Joined(h)' = Joined(h)
    <3>1. CASE h = g
      BY <1>2, <1>3, <1>5, <3>1, StreamFacts DEF Begun, Joined
    <3>2. CASE h # g
      BY <1>2, <1>3, <1>5, <3>2, StreamFacts DEF Begun, Joined
    <3> QED
      BY <3>1, <3>2
  <2>2. Reading' = Reading
    BY <1>2, <1>5, StreamFacts, GpuFacts DEF Reading
  <2>3. w < Begun(g)
    BY <1>2, <1>3 DEF Begun
  <2> QED
    BY <2>1, <2>2, <2>3
<1>61. \A h \in Gpus : Written(h)' = IF h = g THEN w + 1 ELSE Written(h)
  BY <1>3, <1>5
<1>7. slot' = [slot EXCEPT ![g][SlotOf(w)] = Partial(w)]
  BY <1>1, <1>4
<1>8. \A c : Result(c)' = Result(c)
  BY <1>1 DEF Result
<1> QED
  BY <1>1, <1>5, <1>6, <1>61, <1>7, <1>8
  DEF Abstract!StatsEnd, Abstract!SlotOf, Abstract!Partial, Begun, Joined, Reading, Result, SlotOf, Partial

LEMMA JoinStep ==
  ASSUME IInv, NEW g \in Gpus, Join(g)
  PROVE  Abstract!Join(g)
<1> DEFINE s == Comm(g)
           r == Reduced(g)
<1>1. /\ s \in Streams /\ Idle(s, "allreduce") /\ Begin(s)
      /\ UNCHANGED <<separate, hostVars, recorded, fired, total, slot, sims>>
  BY StreamFacts DEF Join
<1>2. /\ \A t \in Streams : t # s => \A j : Started(t, j)' = Started(t, j)
      /\ Started(s, "allreduce")' = 1 /\ Started(s, "allreduce") = 0
      /\ Started(s, "finalize")' = 0 /\ Started(s, "finalize") = 0
      /\ \A h \in Gpus : Written(h)' = Written(h) /\ Reduced(h)' = Reduced(h)
      /\ Finalized' = Finalized /\ FinalizeStream' = FinalizeStream
      /\ queue[s] # <<>> /\ Head(queue[s]).op = "allreduce"
  BY <1>1, BeginStarted
<1>3. r < Written(g)
  BY <1>2, CountersNat, HeadComm, Kinds
<1>4. /\ r \in Nat /\ Finalized \in Nat /\ \A h \in Gpus : Written(h) \in Nat /\ Reduced(h) \in Nat
  BY CountersNat
<1>5. /\ Joined(g) = r
      /\ \A h \in Gpus : Joined(h)' = (IF h = g THEN r + 1 ELSE Joined(h))
      /\ \A h \in Gpus : Begun(h)' = Begun(h)
  BY <1>2, <1>4, StreamFacts DEF Begun, Joined
<1>6. Reading' = Reading
  <2>1. PICK t \in Streams : t = FinalizeStream /\ FinalizeStream' = t
    BY <1>2, StreamFacts
  <2>2. Started(t, "finalize")' = Started(t, "finalize")
    BY <1>2, <2>1
  <2> QED
    BY <1>2, <2>1, <2>2 DEF Reading, Started, Busy, Next1
<1>7. \A c : Result(c)' = Result(c)
  BY <1>1 DEF Result
<1> QED
  BY <1>1, <1>2, <1>3, <1>5, <1>6, <1>7 DEF Abstract!Join, Abstract!HasStats, Begun, Joined, Reading, Result

LEMMA CombineStep ==
  ASSUME IInv, NEW c \in Chunks, Combine(c)
  PROVE  Abstract!Combine(c)
<1>1. /\ total[c] = "none"
      /\ total' = [total EXCEPT ![c] =
                     IF \A g \in Gpus : slot[g][SlotOf(c)] = Partial(c) THEN "ok" ELSE "bad"]
      /\ UNCHANGED <<separate, hostVars, queue, active, recorded, fired, slot, sims>>
  BY DEF Combine
<1>2. ASSUME NEW g \in Gpus PROVE c < Joined(g)
  <2>1. Busy(Comm(g), "allreduce") /\ Head(queue[Comm(g)]).chunk = c
    BY DEF Combine
  <2>2. Started(Comm(g), "allreduce") = 1 /\ queue[Comm(g)] # <<>> /\ Head(queue[Comm(g)]).op = "allreduce"
    BY <2>1 DEF Started, Busy, Next1
  <2>3. c = Reduced(g) /\ Reduced(g) \in Nat
    BY <2>1, <2>2, HeadComm, Kinds, CountersNat
  <2> QED
    BY <2>2, <2>3 DEF Joined
<1>3. /\ \A g \in Gpus : Written(g)' = Written(g) /\ Reduced(g)' = Reduced(g)
      /\ Finalized' = Finalized
  BY <1>1, NoPop
<1>4. \A s, k : Started(s, k)' = Started(s, k)
  BY <1>1 DEF Started, Busy, Next1
<1>5. /\ \A g \in Gpus : Begun(g)' = Begun(g) /\ Joined(g)' = Joined(g)
      /\ \A d : Result(d)' = Result(d)
  BY <1>1, <1>3, <1>4 DEF Begun, Joined, Result
<1>6. Reading' = Reading
  <2>1. PICK t \in Streams : t = FinalizeStream /\ FinalizeStream' = t
    BY <1>1, StreamFacts DEF FinalizeStream
  <2> QED
    BY <1>3, <1>4, <2>1 DEF Reading, Started, Busy, Next1
<1> QED
  BY <1>1, <1>2, <1>3, <1>5, <1>6
  DEF Abstract!Combine, Abstract!SlotOf, Abstract!Partial, Begun, Joined, Reading, Result, SlotOf, Partial

LEMMA ReduceEndStep ==
  ASSUME IInv, NEW g \in Gpus, ReduceEnd(g)
  PROVE  Abstract!ReduceEnd(g)
<1> DEFINE s == Comm(g)
           r == Reduced(g)
           c == Head(queue[s]).chunk
<1>1. /\ s \in Streams /\ Busy(s, "allreduce") /\ End(s) /\ total[c] # "none"
      /\ slot' = [slot EXCEPT ![g][SlotOf(c)] = IF total[c] = "ok" THEN Total(c) ELSE Mixed(c)]
      /\ UNCHANGED <<separate, hostVars, recorded, fired, total, sims>>
  BY StreamFacts DEF ReduceEnd
<1>2. /\ \A t \in Streams : t # s => \A j : Started(t, j)' = Started(t, j)
      /\ Started(s, "allreduce") = 1 /\ Started(s, "allreduce")' = 0
      /\ Started(s, "finalize") = 0 /\ Started(s, "finalize")' = 0
      /\ queue[s] # <<>> /\ Head(queue[s]).op = "allreduce"
  BY <1>1, EndStarted
<1>3. /\ r \in Nat /\ Finalized \in Nat /\ \A h \in Gpus : Written(h) \in Nat /\ Reduced(h) \in Nat
  BY CountersNat
<1>4. c = r
  BY <1>2, HeadComm, Kinds
<1>5. /\ \A h \in Gpus : Reduced(h)' = Reduced(h) + IF h = g THEN 1 ELSE 0
      /\ \A h \in Gpus : Written(h)' = Written(h)
      /\ Finalized' = Finalized /\ FinalizeStream' = FinalizeStream
  <2>1. /\ \A h \in Gpus : /\ Written(h)' = Written(h) + IF s = Compute(h) /\ Head(queue[s]).op = "stats"
                                                          THEN 1 ELSE 0
                           /\ Reduced(h)' = Reduced(h) + IF s = Comm(h) /\ Head(queue[s]).op = "allreduce"
                                                          THEN 1 ELSE 0
        /\ Finalized' = Finalized + IF s = FinalizeStream /\ Head(queue[s]).op = "finalize"
                                     THEN 1 ELSE 0
    BY <1>1, <1>2, PopEffect DEF End
  <2>2. \A h \in Gpus : s = Comm(h) <=> h = g
    BY StreamFacts
  <2>3. FinalizeStream' = FinalizeStream
    BY <1>1 DEF FinalizeStream
  <2> HIDE DEF s
  <2> QED
    BY <1>2, <1>3, <2>1, <2>2, <2>3
<1>6. /\ \A h \in Gpus : Begun(h)' = Begun(h)
      /\ \A h \in Gpus : Joined(h)' = Joined(h)
      /\ r < Joined(g)
  <2>1. ASSUME NEW h \in Gpus PROVE Begun(h)' = Begun(h) /\ Joined(h)' = Joined(h)
    <3>1. CASE h = g
      BY <1>2, <1>3, <1>5, <3>1, StreamFacts DEF Begun, Joined
    <3>2. CASE h # g
      BY <1>2, <1>3, <1>5, <3>2, StreamFacts DEF Begun, Joined
    <3> QED
      BY <3>1, <3>2
  <2>2. r < Joined(g)
    BY <1>2, <1>3 DEF Joined
  <2> QED
    BY <2>1, <2>2
<1>61. \A h \in Gpus : Reduced(h)' = IF h = g THEN r + 1 ELSE Reduced(h)
  BY <1>3, <1>5
<1>7. Reading' = Reading
  <2>1. PICK t \in Streams : t = FinalizeStream /\ FinalizeStream' = t
    BY <1>5, StreamFacts
  <2>2. Started(t, "finalize")' = Started(t, "finalize")
    BY <1>2, <2>1
  <2> QED
    BY <1>5, <2>1, <2>2 DEF Reading, Started, Busy, Next1
<1>8. /\ total[r] # "none"
      /\ slot' = [slot EXCEPT ![g][SlotOf(r)] = IF total[r] = "ok" THEN Total(r) ELSE Mixed(r)]
  BY <1>1, <1>4
<1>9. \A d : Result(d)' = Result(d)
  BY <1>1 DEF Result
<1>10. PICK n \in Nat : n = Reduced(g)
  BY <1>3
<1>11. PICK v : v = IF total[n] = "ok" THEN Total(n) ELSE Mixed(n)
  OBVIOUS
<1>12. total[n] # "none" /\ slot' = [slot EXCEPT ![g][SlotOf(n)] = v]
  BY <1>8, <1>10, <1>11
<1>13. /\ n < Joined(g) /\ \A h \in Gpus : Reduced(h)' = IF h = g THEN n + 1 ELSE Reduced(h)
       /\ total' = total
  BY <1>1, <1>6, <1>61, <1>10
<1>14. [h \in Gpus |-> Reduced(h)]' = [[h \in Gpus |-> Reduced(h)] EXCEPT ![g] = n + 1]
  BY <1>13
<1>15. UNCHANGED <<[h \in Gpus |-> Begun(h)], [h \in Gpus |-> Written(h)], [h \in Gpus |-> Joined(h)],
                   total, Reading, Finalized, [d \in Chunks |-> Result(d)]>>
  BY <1>5, <1>6, <1>7, <1>9, <1>13
<1> HIDE DEF c, r, s
<1> QED
  BY <1>10, <1>11, <1>12, <1>13, <1>14, <1>15
  DEF Abstract!ReduceEnd, Abstract!SlotOf, Abstract!Total, Abstract!Mixed, Begun, Joined, Reading, Result,
      SlotOf, Total, Mixed

(* The next finalize kernel is of a chunk that is reduced on GPU 0.        *)
LEMMA FinalizeHead ==
  ASSUME IInv, queue[FinalizeStream] # <<>>, Head(queue[FinalizeStream]).op = "finalize"
  PROVE  Head(queue[FinalizeStream]) = Work("finalize", Finalized) /\ Finalized < Reduced(Root)
<1>1. Finalized \in Nat /\ Reduced(Root) \in Nat
  BY CountersNat, GpuFacts
<1>2. CASE separate
  <2>1. FinalizeStream = Fin
    BY <1>2 DEF FinalizeStream
  <2> QED
    BY <1>1, <2>1, HeadFin, Kinds
<1>3. CASE ~separate
  <2>1. FinalizeStream = Comm(Root)
    BY <1>3 DEF FinalizeStream
  <2> QED
    BY <1>1, <2>1, GpuFacts, HeadComm, Kinds
<1> QED
  BY <1>2, <1>3

LEMMA FinalizeBeginStep ==
  ASSUME IInv, FinalizeBegin
  PROVE  Abstract!FinalizeBegin
<1>1. PICK s \in Streams : s = FinalizeStream
  BY StreamFacts
<1>2. /\ Idle(s, "finalize") /\ Begin(s)
      /\ UNCHANGED <<separate, hostVars, recorded, fired, total, slot, sims>>
  BY <1>1 DEF FinalizeBegin
<1>3. /\ \A t \in Streams : t # s => \A j : Started(t, j)' = Started(t, j)
      /\ Started(s, "finalize")' = 1 /\ \A j : Started(s, j) = 0
      /\ \A j : j # "finalize" => Started(s, j)' = 0
      /\ \A h \in Gpus : Written(h)' = Written(h) /\ Reduced(h)' = Reduced(h)
      /\ Finalized' = Finalized /\ FinalizeStream' = FinalizeStream
      /\ queue[s] # <<>> /\ Head(queue[s]).op = "finalize"
  BY <1>2, BeginStarted
<1>4. Finalized < Reduced(Root) /\ Finalized \in Nat
  BY <1>1, <1>3, FinalizeHead, CountersNat
<1>5. ASSUME NEW t \in Streams, NEW j, j # "finalize" PROVE Started(t, j)' = Started(t, j)
  BY <1>3, <1>5
<1>6. \A h \in Gpus : Begun(h)' = Begun(h) /\ Joined(h)' = Joined(h)
  BY <1>3, <1>5, StreamFacts DEF Begun, Joined
<1>7. Reading = Finalized /\ Reading' = Reading + 1
  <2>1. Started(FinalizeStream, "finalize") = 0 /\ Started(FinalizeStream, "finalize")' = 1
    BY <1>1, <1>3 DEF Started, Busy, Next1
  <2> QED
    BY <1>3, <1>4, <2>1 DEF Reading
<1>8. \A c : Result(c)' = Result(c)
  BY <1>2 DEF Result
<1> QED
  BY <1>2, <1>3, <1>4, <1>6, <1>7, <1>8, GpuFacts
  DEF Abstract!FinalizeBegin, Abstract!HasTotal, Begun, Joined, Reading, Result

LEMMA FinalizeEndStep ==
  ASSUME IInv, FinalizeEnd
  PROVE  Abstract!FinalizeEnd
<1>1. PICK s \in Streams : s = FinalizeStream
  BY StreamFacts
<1>2. /\ Busy(s, "finalize") /\ End(s)
      /\ UNCHANGED <<separate, hostVars, recorded, fired, total, slot>>
  BY <1>1 DEF FinalizeEnd
<1>3. /\ \A t \in Streams : t # s => \A j : Started(t, j)' = Started(t, j)
      /\ Started(s, "finalize") = 1 /\ \A j : Started(s, j)' = 0
      /\ \A j : j # "finalize" => Started(s, j) = 0
      /\ queue[s] # <<>> /\ Head(queue[s]).op = "finalize"
  BY <1>2, EndStarted
<1>4. PICK f \in Chunks : f = Finalized /\ Head(queue[s]).chunk = f /\ f \in Nat
  <2>1. Head(queue[s]).chunk = Finalized /\ Finalized \in Nat
    BY <1>1, <1>3, FinalizeHead, Kinds, CountersNat
  <2>2. Head(queue[s]).chunk \in Chunks
    BY <1>3, HeadType, ChunkFacts
  <2> QED
    BY <2>1, <2>2
<1>5. PICK v \in {"ok", "bad"} : v = IF slot[Root][SlotOf(f)] = Total(f) THEN "ok" ELSE "bad"
  OBVIOUS
<1>6. /\ \A h \in Gpus : Written(h)' = Written(h) /\ Reduced(h)' = Reduced(h)
      /\ Finalized' = f + 1
  <2>1. /\ \A h \in Gpus : /\ Written(h)' = Written(h) + IF s = Compute(h) /\ Head(queue[s]).op = "stats"
                                                          THEN 1 ELSE 0
                           /\ Reduced(h)' = Reduced(h) + IF s = Comm(h) /\ Head(queue[s]).op = "allreduce"
                                                          THEN 1 ELSE 0
        /\ Finalized' = Finalized + IF s = FinalizeStream /\ Head(queue[s]).op = "finalize"
                                     THEN 1 ELSE 0
    BY <1>2, <1>3, PopEffect DEF End
  <2>2. \A h \in Gpus : Written(h) \in Nat /\ Reduced(h) \in Nat
    BY CountersNat
  <2> QED
    BY <1>1, <1>3, <1>4, <2>1, <2>2
<1>7. ASSUME NEW t \in Streams, NEW j, j # "finalize" PROVE Started(t, j)' = Started(t, j)
  BY <1>3, <1>7
<1>8. \A h \in Gpus : Begun(h)' = Begun(h) /\ Joined(h)' = Joined(h)
  BY <1>6, <1>7, StreamFacts DEF Begun, Joined
<1>9. f < Reading /\ Reading' = Reading
  <2>1. FinalizeStream' = FinalizeStream
    BY <1>2 DEF FinalizeStream
  <2>2. Started(FinalizeStream, "finalize") = 1 /\ Started(FinalizeStream, "finalize")' = 0
    BY <1>1, <1>3, <2>1 DEF Started, Busy, Next1
  <2> QED
    BY <1>4, <1>6, <2>2 DEF Reading
<1>10. sims' = [p \in Pairs |-> IF p \notin PairsOf(f) THEN sims[p] ELSE v]
  BY <1>1, <1>4, <1>5 DEF FinalizeEnd
<1>12. Result(f)' = v
  <2>1. \A p \in PairsOf(f) : sims'[p] = v
    BY <1>10, PairsOfFacts
  <2>2. PairsOf(f) # {}
    BY PairsOfFacts
  <2> QED
    BY <2>1, <2>2 DEF Result
<1>13. ASSUME NEW c \in Chunks, c # f PROVE Result(c)' = Result(c)
  <2>1. \A p \in PairsOf(c) : sims'[p] = sims[p]
    BY <1>10, <1>13, PairsOfFacts
  <2> QED
    BY <2>1 DEF Result
<1> QED
  BY <1>2, <1>4, <1>5, <1>6, <1>8, <1>9, <1>12, <1>13, GpuFacts
  DEF Abstract!FinalizeEnd, Abstract!SlotOf, Abstract!Total, Begun, Joined, Reading, Result, SlotOf, Total

-----------------------------------------------------------------------------
LEMMA AbstractInit == Init => Abstract!Init
<1> SUFFICES ASSUME Init PROVE Abstract!Init
  OBVIOUS
<1>1. IInv
  BY InitInv
<1>2. /\ chunk = 0 /\ dev = 0 /\ (pc = "sync" \/ pc = "device")
      /\ \A s \in Streams : queue[s] = <<>> /\ active[s] = FALSE
      /\ \A p \in Pairs : sims[p] = "none"
  BY DEF Init
<1>3. /\ ReducesIssued = 0 /\ FinalsIssued = 0
      /\ \A g \in Gpus : StatsIssued(g) = 0
  <2>1. \A g \in Gpus : ~(g < 0)
    BY DEF Gpus
  <2> QED
    BY <1>2, <2>1 DEF ReducesIssued, FinalsIssued, StatsIssued
<1>4. \A s \in Streams : \A k : Queued(s, k) = 0 /\ Started(s, k) = 0
  <2> SUFFICES ASSUME NEW s \in Streams, NEW k PROVE Queued(s, k) = 0 /\ Started(s, k) = 0
    OBVIOUS
  <2>1. {i \in 1 .. Len(queue[s]) : queue[s][i].op = k} = {}
    BY <1>2
  <2>2. Queued(s, k) = 0
    BY <2>1, FS_EmptySet DEF Queued
  <2> QED
    BY <1>2, <2>2 DEF Started, Busy
<1>5. /\ Finalized = 0 /\ Reading = 0
      /\ \A g \in Gpus : Written(g) = 0 /\ Reduced(g) = 0 /\ Begun(g) = 0 /\ Joined(g) = 0
  BY <1>3, <1>4, StreamFacts DEF Finalized, Reading, Written, Reduced, Begun, Joined
<1>6. \A c \in Chunks : Result(c) = "none"
  <2> SUFFICES ASSUME NEW c \in Chunks PROVE Result(c) = "none"
    OBVIOUS
  <2>1. PairsOf(c) # {} /\ \A p \in PairsOf(c) : sims[p] = "none"
    BY <1>2, PairsOfFacts
  <2> QED
    BY <2>1 DEF Result
<1>7. /\ total = [c \in Chunks |-> "none"] /\ slot = [g \in Gpus |-> [b \in Slots |-> Empty]]
  BY DEF Init
<1> QED
  BY <1>5, <1>6, <1>7
  DEF Abstract!Init, Abstract!Chunks, Abstract!Slots, Abstract!Empty, Chunks, Slots, Empty,
      Begun, Joined, Reading, Result

(* ... or is hidden: waits and records.                                    *)
LEMMA StreamStepAbstract ==
  ASSUME IInv, NEW s \in Streams, StreamStep(s)
  PROVE  Abstract!Next \/ UNCHANGED Abstract!vars
<1>1. CASE PassWait(s) \/ FireRecord(s)
  <2>1. /\ queue[s] # <<>> /\ Head(queue[s]).op \in {"wait", "record"} /\ ~active[s]
        /\ queue' = [queue EXCEPT ![s] = Tail(@)]
        /\ UNCHANGED <<separate, hostVars, active, total, slot, sims>>
    BY <1>1 DEF PassWait, FireRecord, Idle, Next1
  <2>2. /\ \A g \in Gpus : Written(g)' = Written(g) /\ Reduced(g)' = Reduced(g)
        /\ Finalized' = Finalized
        /\ \A t \in Streams : t # s => queue'[t] = queue[t]
    BY <2>1, QuietPop
  <2>3. \A t \in Streams : active[t] => queue'[t] # <<>> /\ Head(queue'[t]) = Head(queue[t])
    BY <2>1, <2>2 DEF IInv, Working
  <2> QED
    BY <2>1, <2>2, <2>3, AbstractStutter
<1>2. CASE \E g \in Gpus : s = Compute(g) /\ (StatsBegin(g) \/ StatsEnd(g))
  BY <1>2, StatsBeginStep, StatsEndStep DEF Abstract!Next
<1>3. CASE \E g \in Gpus : s = Comm(g) /\ (Join(g) \/ ReduceEnd(g))
  BY <1>3, JoinStep, ReduceEndStep DEF Abstract!Next
<1>4. CASE s = FinalizeStream /\ (FinalizeBegin \/ FinalizeEnd)
  BY <1>4, FinalizeBeginStep, FinalizeEndStep DEF Abstract!Next
<1> QED
  BY <1>1, <1>2, <1>3, <1>4 DEF StreamStep

(* So is every step; what the host issues changes nothing.                 *)
LEMMA AbstractNext == IInv /\ [Next]_vars => [Abstract!Next]_Abstract!vars
<1> SUFFICES ASSUME IInv, [Next]_vars PROVE Abstract!Next \/ UNCHANGED Abstract!vars
  OBVIOUS
<1>1. CASE Host \/ HostFail \/ UNCHANGED vars
  <2>1. Issuing
    BY <1>1, HostIssuing
  <2>2. UNCHANGED <<separate, active, total, slot, sims>>
    BY <1>1 DEF Host, HostFail, vars, IssueStats, GroupEnd, IssueFinalize, IssueRelease, Synchronize, deviceVars
  <2> QED
    BY <2>1, <2>2, AbstractStutter DEF Issuing
<1>2. CASE \E s \in Streams : StreamStep(s)
  BY <1>2, StreamStepAbstract
<1>3. CASE \E c \in Chunks : Combine(c)
  <2>1. PICK c \in Chunks : Combine(c)
    BY <1>3
  <2>2. c \in Abstract!Chunks
    BY DEF Abstract!Chunks, Chunks
  <2> QED
    BY <2>1, <2>2, CombineStep DEF Abstract!Next
<1> QED
  BY <1>1, <1>2, <1>3 DEF Next, Device

(***************************************************************************)
(* The streams and events of the asynchronous mode implement the slot      *)
(* protocol, for any number of GPUs and pairs, any size of a chunk, either *)
(* finalize stream, and however far the host is ahead.                     *)
(***************************************************************************)
THEOREM Refinement == Spec => RefinesSlotProtocol
<1> QED
  BY PipelineInvariance, AbstractInit, AbstractNext, PTL DEF Spec, RefinesSlotProtocol, Abstract!Spec

-----------------------------------------------------------------------------
(* What is proved of the protocol holds of the pipeline.                   *)
P == INSTANCE SlotProtocolProofs WITH
  begun     <- [g \in Gpus |-> Written(g) + Started(Compute(g), "stats")],
  written   <- [g \in Gpus |-> Written(g)],
  joined    <- [g \in Gpus |-> Reduced(g) + Started(Comm(g), "allreduce")],
  reduced   <- [g \in Gpus |-> Reduced(g)],
  reading   <- Finalized + Started(FinalizeStream, "finalize"),
  finalized <- Finalized,
  result    <- [c \in Chunks |->
                  IF \A p \in PairsOf(c) : sims[p] = "ok" THEN "ok"
                  ELSE IF \A p \in PairsOf(c) : sims[p] = "none" THEN "none"
                  ELSE "bad"]

(* SlotProtocolProofs has a copy of the protocol of its own: the same.     *)
LEMMA SameInit == Abstract!Init <=> P!Init
BY DEF Abstract!Init, P!Init, Abstract!Chunks, P!Chunks, Abstract!Slots, P!Slots, Abstract!Empty, P!Empty

LEMMA SameNext == [Abstract!Next]_Abstract!vars <=> [P!Next]_P!vars
<1>1. \A g \in Gpus : /\ Abstract!StatsBegin(g) <=> P!StatsBegin(g)
                      /\ Abstract!StatsEnd(g) <=> P!StatsEnd(g)
  BY DEF Abstract!StatsBegin, P!StatsBegin, Abstract!StatsEnd, P!StatsEnd, Abstract!More, P!More,
         Abstract!SlotFree, P!SlotFree, Abstract!Released, P!Released, Abstract!Chunks, P!Chunks,
         Abstract!SlotOf, P!SlotOf, Abstract!Torn, P!Torn, Abstract!Partial, P!Partial
<1>2. \A g \in Gpus : /\ Abstract!Join(g) <=> P!Join(g)
                      /\ Abstract!ReduceEnd(g) <=> P!ReduceEnd(g)
  BY DEF Abstract!Join, P!Join, Abstract!ReduceEnd, P!ReduceEnd, Abstract!HasStats, P!HasStats,
         Abstract!SlotOf, P!SlotOf, Abstract!Total, P!Total, Abstract!Mixed, P!Mixed
<1>3. \A c : Abstract!Combine(c) <=> P!Combine(c)
  BY DEF Abstract!Combine, P!Combine, Abstract!SlotOf, P!SlotOf, Abstract!Partial, P!Partial
<1>4. /\ Abstract!FinalizeBegin <=> P!FinalizeBegin
      /\ Abstract!FinalizeEnd <=> P!FinalizeEnd
  BY DEF Abstract!FinalizeBegin, P!FinalizeBegin, Abstract!FinalizeEnd, P!FinalizeEnd,
         Abstract!HasTotal, P!HasTotal, Abstract!SlotOf, P!SlotOf, Abstract!Total, P!Total
<1>5. Abstract!vars = P!vars /\ Abstract!vars' = P!vars'
  BY DEF Abstract!vars, P!vars
<1>6. Abstract!Chunks = P!Chunks
  BY DEF Abstract!Chunks, P!Chunks
<1>7. Abstract!Next <=> P!Next
  BY <1>1, <1>2, <1>3, <1>4, <1>6 DEF Abstract!Next, P!Next
<1> QED
  BY <1>5, <1>7

LEMMA Protocol == Spec => []P!NoSlotRace /\ []P!ResultsCorrect
<1>1. Root \in Gpus /\ NChunks \in Nat
  BY GpuFacts
<1>2. P!Spec => []P!NoSlotRace
  BY <1>1, P!RaceFreedom
<1>3. P!Spec => []P!ResultsCorrect
  BY <1>1, P!Correctness
<1>4. Abstract!Spec => P!Spec
  BY SameInit, SameNext, PTL DEF Abstract!Spec, P!Spec
<1> QED
  BY <1>2, <1>3, <1>4, Refinement, PTL DEF RefinesSlotProtocol

(* The chunk a working stream is on is the next one of its stage.          *)
LEMMA ActiveStage ==
  ASSUME IInv, NEW s \in Streams, active[s]
  PROVE  \/ \E g \in Gpus : /\ s = Compute(g) /\ Started(s, "stats") = 1
                            /\ Head(queue[s]).chunk = Written(g)
         \/ \E g \in Gpus : /\ s = Comm(g) /\ Started(s, "allreduce") = 1
                            /\ Head(queue[s]).chunk = Reduced(g)
         \/ /\ s = FinalizeStream /\ Started(s, "finalize") = 1
            /\ Head(queue[s]).chunk = Finalized
<1>1. queue[s] # <<>> /\ Head(queue[s]).op \in {"stats", "allreduce", "finalize"}
  BY DEF IInv, Working
<1>2. \A k : Started(s, k) = IF Head(queue[s]).op = k THEN 1 ELSE 0
  BY StartedFacts
<1>3. CASE \E g \in Gpus : s = Compute(g)
  <2>1. PICK g \in Gpus : s = Compute(g)
    BY <1>3
  <2>2. Head(queue[s]) = Work("stats", Written(g))
    BY <1>1, <2>1, HeadCompute, Kinds
  <2> QED
    BY <1>2, <2>1, <2>2, Kinds
<1>4. CASE \E g \in Gpus : s = Comm(g)
  <2>1. PICK g \in Gpus : s = Comm(g)
    BY <1>4
  <2>2. \/ Head(queue[s]) = Work("allreduce", Reduced(g))
        \/ /\ OwnFinalize(g) /\ Head(queue[s]) = Work("finalize", Reduced(g) - 1)
           /\ Finalized = Reduced(g) - 1
    BY <1>1, <2>1, HeadComm, Kinds
  <2>3. CASE Head(queue[s]) = Work("allreduce", Reduced(g))
    BY <1>2, <2>1, <2>3, Kinds
  <2>4. CASE /\ OwnFinalize(g) /\ Head(queue[s]) = Work("finalize", Reduced(g) - 1)
             /\ Finalized = Reduced(g) - 1
    <3>1. s = FinalizeStream
      BY <2>1, <2>4 DEF OwnFinalize, FinalizeStream
    <3>2. Head(queue[s]).op = "finalize" /\ Head(queue[s]).chunk = Finalized
      BY <2>4, Kinds
    <3> QED
      BY <1>2, <3>1, <3>2
  <2> QED
    BY <2>2, <2>3, <2>4
<1>5. CASE s = Fin
  <2>1. separate /\ Head(queue[s]) = Work("finalize", Finalized)
    BY <1>1, <1>5, HeadFin, Kinds
  <2> QED
    BY <1>2, <1>5, <2>1, Kinds DEF FinalizeStream
<1> QED
  BY <1>3, <1>4, <1>5 DEF Streams, Compute, Comm, Fin

(* Two working streams are in two stages, so in two slots.                 *)
LEMMA RaceTransfer ==
  ASSUME IInv, P!NoSlotRace
  PROVE  NoSlotRace
<1> DEFINE Computing(g)  == Started(Compute(g), "stats") = 1
           Reducing(g)   == Started(Comm(g), "allreduce") = 1
           Finalizing(g) == g = Root /\ Started(FinalizeStream, "finalize") = 1
<1>1. /\ \A g \in Gpus : Written(g) \in Nat /\ Reduced(g) \in Nat
      /\ Finalized \in Nat /\ Root \in Gpus
  BY CountersNat, GpuFacts
<1>2. ASSUME NEW g \in Gpus
      PROVE  /\ Computing(g) /\ Reducing(g) => SlotOf(Written(g)) # SlotOf(Reduced(g))
             /\ Computing(g) /\ Finalizing(g) => SlotOf(Written(g)) # SlotOf(Finalized)
             /\ Reducing(g) /\ Finalizing(g) => SlotOf(Reduced(g)) # SlotOf(Finalized)
  <2>1. /\ Computing(g) => P!Computing(g)
        /\ Reducing(g) => P!Reducing(g)
        /\ Finalizing(g) => P!Finalizing(g)
    BY <1>1 DEF P!Computing, P!Reducing, P!Finalizing
  <2>2. \A c : P!SlotOf(c) = SlotOf(c)
    BY DEF P!SlotOf, SlotOf
  <2>3. /\ P!Computing(g) /\ P!Reducing(g) => SlotOf(Written(g)) # SlotOf(Reduced(g))
        /\ P!Computing(g) /\ P!Finalizing(g) => SlotOf(Written(g)) # SlotOf(Finalized)
        /\ P!Reducing(g) /\ P!Finalizing(g) => SlotOf(Reduced(g)) # SlotOf(Finalized)
    BY <2>2 DEF P!NoSlotRace
  <2> QED
    BY <2>1, <2>3
<1>3. ASSUME NEW s \in Streams, active[s]
      PROVE  \/ \E g \in Gpus : s = Compute(g) /\ Computing(g) /\ InSlot(s) = {<<g, SlotOf(Written(g))>>}
             \/ \E g \in Gpus : s = Comm(g) /\ Reducing(g) /\ InSlot(s) = {<<g, SlotOf(Reduced(g))>>}
             \/ s = FinalizeStream /\ Finalizing(Root) /\ InSlot(s) = {<<Root, SlotOf(Finalized)>>}
  <2>1. InSlot(s) = {<<s[1], SlotOf(Head(queue[s]).chunk)>>}
    BY <1>3 DEF InSlot
  <2>2. FinalizeStream[1] = Root
    BY StreamFacts, <1>1 DEF FinalizeStream, Fin
  <2>3. \A g \in Gpus : Compute(g)[1] = g /\ Comm(g)[1] = g
    BY StreamFacts
  <2> QED
    BY <1>3, <2>1, <2>2, <2>3, ActiveStage
<1>4. SUFFICES ASSUME NEW s \in Streams, NEW t \in Streams, s # t, active[s], active[t]
               PROVE  InSlot(s) \cap InSlot(t) = {}
  BY DEF NoSlotRace, InSlot
<1> HIDE DEF Computing, Reducing, Finalizing
<1> QED
  BY <1>2, <1>3, <1>4

(***************************************************************************)
(* For any number of GPUs and of pairs, any size of a chunk and either     *)
(* finalize stream: no two streams are in one half of a GPU's buffer at    *)
(* once (the events of the async loop in nccl_main.cu).                    *)
(***************************************************************************)
THEOREM RaceFreedom == Spec => []NoSlotRace
<1> QED
  BY RaceTransfer, Protocol, PipelineInvariance, PTL

(* The chunks cover the batch: every pair is in one of them.               *)
LEMMA PairInChunk ==
  ASSUME NEW p \in Pairs
  PROVE  \E c \in Chunks : p \in PairsOf(c)
<1>1. PICK i \in Pairs : Order[i] = p
  BY OrderAssumption
<1>2. i \in Nat /\ i < NPairs /\ NPairs \in Nat /\ Chunk \in Nat \ {0}
  BY SizeAssumption DEF Pairs
<1>3. PICK c \in Nat : c = i \div Chunk /\ Chunk * c <= i /\ i < Chunk * c + Chunk
  BY <1>2, DivBounds
<1>4. Chunk * (c + 1) = Chunk * c + Chunk /\ Chunk * c = c * Chunk /\ c * Chunk \in Nat
  BY <1>2
<1>5. c \in Chunks
  <2>1. Chunk * (c + 1) <= NPairs + Chunk - 1 /\ NPairs + Chunk - 1 \in Nat /\ c + 1 \in Nat
    BY <1>2, <1>3, <1>4
  <2>2. c + 1 <= NChunks
    BY <1>2, <2>1, DivGalois DEF NChunks
  <2> QED
    BY <2>2, GpuFacts DEF Chunks
<1>6. i \in c * Chunk .. c * Chunk + Min2(Chunk, NPairs - c * Chunk) - 1
  BY <1>2, <1>3, <1>4 DEF Min2
<1> QED
  BY <1>1, <1>5, <1>6 DEF PairsOf

(* With every queue empty, all chunks are finalized.                       *)
LEMMA CompleteTransfer ==
  ASSUME IInv, P!ResultsCorrect
  PROVE  CompleteAtExit
<1>1. SUFFICES ASSUME pc = "done", NEW p \in Pairs
               PROVE  sims[p] = "ok"
  BY DEF CompleteAtExit
<1>2. queue[FinalizeStream] = <<>> /\ FinalizeStream \in Streams
  BY <1>1, StreamFacts DEF IInv, Drained
<1>3. Queued(FinalizeStream, "finalize") = 0
  BY <1>2 , Counters, CountFinite DEF IInv
<1>4. chunk = NChunks /\ NChunks \in Nat
  BY <1>1, GpuFacts DEF IInv, Place
<1>5. FinalsIssued = chunk
  BY <1>1 DEF FinalsIssued
<1>6. Finalized = NChunks
  BY <1>3, <1>4, <1>5 DEF Finalized
<1>7. PICK c \in Chunks : p \in PairsOf(c)
  BY PairInChunk
<1>8. c < Finalized /\ c \in P!Chunks /\ P!Chunks = Chunks
  BY <1>4, <1>6, <1>7 DEF P!Chunks, Chunks
<1>9. (IF \A q \in PairsOf(c) : sims[q] = "ok" THEN "ok"
       ELSE IF \A q \in PairsOf(c) : sims[q] = "none" THEN "none" ELSE "bad") = "ok"
  BY <1>7, <1>8 DEF P!ResultsCorrect
<1>10. \A q \in PairsOf(c) : sims[q] = "ok"
  BY <1>9
<1> QED
  BY <1>7, <1>10

(***************************************************************************)
(* For any number of GPUs and of pairs and any size of a chunk: once the   *)
(* host is past the final synchronize (it copies back in nccl_main.cu)     *)
(* every pair has the similarity of its own complete statistics.           *)
(***************************************************************************)
THEOREM Completeness == Spec => []CompleteAtExit
<1> QED
  BY CompleteTransfer, Protocol, PipelineInvariance, PTL
=============================================================================
