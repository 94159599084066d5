----------------------------- MODULE WarpKernel -----------------------------
(***************************************************************************)
(* One launch of a statistics kernel (pair_kernel.cuh, subwarp_pair_stats) *)
(* over n_slots slots.  g consecutive lanes share a slot: they look up     *)
(* where the two rows lie within [dim_lo, dim_hi), stride over the shorter *)
(* slice, search the longer one, and add up what they found by shuffles.   *)
(*                                                                         *)
(* Lanes run independently and meet where the code shuffles under the full *)
(* mask: a warp gets past it when all of its lanes are there.  Six sums    *)
(* are a function of the bag of rating pairs they were made from, and a    *)
(* rating is named by its entity and dimension, so that bag stands for     *)
(* them and a doubled, lost or exchanged rating shows.                     *)
(***************************************************************************)
EXTENDS Integers, Sequences, FiniteSets, Bags

CONSTANTS Entities,   \* whose rows are compared
          RowChoices, \* strictly increasing sequences of dimensions
          Ranges,     \* possible <<dim_lo, dim_hi>>
          Pairs,      \* Pairs[k]: the two entities of pair k, k = 0, 1, ...
          Orders,     \* possible slot -> pair permutations
          MaxSlots,   \* a launch has at most this many slots
          Width,      \* kWarp
          Block,      \* kBlock
          Groups      \* possible g

ASSUME RowsAssumption ==
  \A r \in RowChoices : r \in Seq(Int) /\ \A i, j \in DOMAIN r : i < j => r[i] < r[j]
ASSUME LaunchAssumption ==
  /\ Ranges \subseteq Int \X Int /\ MaxSlots \in Nat
  /\ \A o \in Orders : \A k \in 0 .. MaxSlots - 1 : Pairs[o[k]] \in Entities \X Entities
ASSUME WidthAssumption ==
  /\ Width \in Nat \ {0} /\ Block \in Nat \ {0} /\ Block % Width = 0
  /\ Groups \subseteq {1, 2, 4, 8, 16, 32} /\ \A k \in Groups : Width % k = 0

VARIABLES rows, order, range, n_slots, g, hoist,  \* arguments of the launch
          pc,     \* pc[t]: where thread t is
          sl,     \* sl[t]: its slices
          s,      \* s[t]: its accumulators
          off,    \* off[w]: shuffle offset the lanes of warp w come to next
          stats   \* slot -> statistics, for the slots written so far

args == <<rows, order, range, n_slots, g, hoist>>
vars == <<args, pc, sl, s, off, stats>>

-----------------------------------------------------------------------------
(* Grid: enough blocks for g threads a slot. *)
Threads == 0 .. ((n_slots * g + Block - 1) \div Block) * Block - 1
Warps   == {t \div Width : t \in Threads}
Lanes(w) == w * Width .. w * Width + Width - 1

Slot(t)    == t \div g
Sublane(t) == (t % Block) % g
Active(t)  == Slot(t) < n_slots
PairOf(t)  == Pairs[order[Slot(t)]]

(* __shfl_sync(mask, var, 0, G): lane 0 of the segment of G lanes. *)
Segment(t) == t - ((t % Width) % g)

-----------------------------------------------------------------------------
(* lower_bound_i32 over a row, whose elements are numbered from 0. *)
LowerBound(row, lo, hi, v) ==
  LET search[b \in (0 .. Len(row)) \X (0 .. Len(row))] ==
        LET mid == (b[1] + b[2]) \div 2 IN
        IF b[1] < b[2]
        THEN IF row[mid + 1] < v THEN search[<<mid + 1, b[2]>>] ELSE search[<<b[1], mid>>]
        ELSE b[1]
  IN  search[<<lo, hi>>]

NoSlices == [s0 |-> 0, s1 |-> 0, l0 |-> 0, l1 |-> 0, swapped |-> FALSE]

(* pair_slice_bounds: s0, s1 in the row that is shorter within the range. *)
SliceBounds(p) ==
  LET a  == rows[p[1]]
      b  == rows[p[2]]
      a0 == LowerBound(a, 0, Len(a), range[1])
      a1 == LowerBound(a, a0, Len(a), range[2])
      b0 == LowerBound(b, 0, Len(b), range[1])
      b1 == LowerBound(b, b0, Len(b), range[2])
  IN  IF a1 - a0 > b1 - b0
      THEN [s0 |-> b0, s1 |-> b1, l0 |-> a0, l1 |-> a1, swapped |-> TRUE]
      ELSE [s0 |-> a0, s1 |-> a1, l0 |-> b0, l1 |-> b1, swapped |-> FALSE]

(* x is the first entity's rating, whichever slice is the shorter. *)
InOrder_ShortFirst(short, long, swapped) ==  \* mutant: x is the shorter's
  [x |-> short, y |-> long]
InOrder(short, long, swapped) ==
  IF swapped THEN [x |-> long, y |-> short] ELSE [x |-> short, y |-> long]

(* pair_lane_scan: the lane's share of the shorter slice. *)
LaneScan(p, b, lane) ==
  LET short == IF b.swapped THEN p[2] ELSE p[1]
      long  == IF b.swapped THEN p[1] ELSE p[2]
      mine  == {rows[short][i + 1] : i \in {i \in b.s0 .. b.s1 - 1 : (i - b.s0) % g = lane}}
      Found(d) == LET pos == LowerBound(rows[long], b.l0, b.l1, d)
                  IN  pos < b.l1 /\ rows[long][pos + 1] = d
  IN  SetToBag({InOrder(<<short, d>>, <<long, d>>, b.swapped) : d \in {d \in mine : Found(d)}})

-----------------------------------------------------------------------------
Init ==
  /\ rows \in [Entities -> RowChoices] /\ order \in Orders /\ range \in Ranges
  /\ n_slots \in 1 .. MaxSlots /\ g \in Groups /\ hoist \in BOOLEAN
  /\ pc  = [t \in Threads |-> "bounds"]
  /\ sl  = [t \in Threads |-> NoSlices]
  /\ s   = [t \in Threads |-> EmptyBag]
  /\ off = [w \in Warps |-> g \div 2]
  /\ stats = [k \in {} |-> EmptyBag]

Hoisted == hoist /\ g > 1

(* Inactive lanes stay for the shuffles. *)
AfterBounds_EarlyReturn(t) ==  \* mutant: they return
  IF ~Active(t) THEN "done" ELSE IF Hoisted THEN "bcast" ELSE "scan"
AfterBounds(t) == IF Hoisted THEN "bcast" ELSE "scan"

(* With hoisting only the first lane of a group searches. *)
Bounds(t) ==
  /\ pc[t] = "bounds"
  /\ sl' = IF Active(t) /\ (Hoisted => Sublane(t) = 0)
           THEN [sl EXCEPT ![t] = SliceBounds(PairOf(t))] ELSE sl
  /\ pc' = [pc EXCEPT ![t] = AfterBounds(t)]
  /\ UNCHANGED <<args, s, off, stats>>

AllAt(w, l) == \A t \in Lanes(w) : pc[t] = l
Move(w, l)  == pc' = [t \in Threads |-> IF t \in Lanes(w) THEN l ELSE pc[t]]

Broadcast(w) ==
  /\ AllAt(w, "bcast") /\ Move(w, "scan")
  /\ sl' = [t \in Threads |-> IF t \in Lanes(w) THEN sl[Segment(t)] ELSE sl[t]]
  /\ UNCHANGED <<args, s, off, stats>>

Scan(t) ==
  /\ pc[t] = "scan"
  /\ s' = IF Active(t) THEN [s EXCEPT ![t] = LaneScan(PairOf(t), sl[t], Sublane(t))] ELSE s
  /\ pc' = [pc EXCEPT ![t] = "sync"]
  /\ UNCHANGED <<args, sl, off, stats>>

SyncWarp(w) ==
  /\ AllAt(w, "sync") /\ Move(w, IF off[w] > 0 THEN "reduce" ELSE "store")
  /\ UNCHANGED <<args, sl, s, off, stats>>

(* __shfl_down_sync: past the segment's end a lane gets its own value back. *)
Below(w, t) == IF ((t % Width) % g) + off[w] < g THEN t + off[w] ELSE t

ShuffleDown(w) ==
  /\ AllAt(w, "reduce") /\ off[w] > 0
  /\ s' = [t \in Threads |-> IF t \in Lanes(w) THEN s[t] (+) s[Below(w, t)] ELSE s[t]]
  /\ off' = [off EXCEPT ![w] = @ \div 2]
  /\ Move(w, IF off[w] \div 2 > 0 THEN "reduce" ELSE "store")
  /\ UNCHANGED <<args, sl, stats>>

Writes_AllLanes(t) == Active(t)  \* mutant: every lane of the group stores
Writes(t) == Active(t) /\ Sublane(t) = 0

Store(t) ==
  /\ pc[t] = "store"
  /\ pc' = [pc EXCEPT ![t] = "done"]
  /\ stats' = IF Writes(t)
              THEN [k \in DOMAIN stats \cup {Slot(t)} |-> IF k = Slot(t) THEN s[t] ELSE stats[k]]
              ELSE stats
  /\ UNCHANGED <<args, sl, s, off>>

Next == \/ \E t \in Threads : Bounds(t) \/ Scan(t) \/ Store(t)
        \/ \E w \in Warps : Broadcast(w) \/ SyncWarp(w) \/ ShuffleDown(w)

(* The device keeps running whatever lane can run. *)
Spec == Init /\ [][Next]_vars /\ WF_vars(Next)

-----------------------------------------------------------------------------
(* Contract 2: the dimensions both entities rated, within the range. *)
Reference(p) ==
  LET dimsOf(e) == {rows[e][i] : i \in DOMAIN rows[e]}
      common == {d \in dimsOf(p[1]) \cap dimsOf(p[2]) : range[1] <= d /\ d < range[2]}
  IN  SetToBag({[x |-> <<p[1], d>>, y |-> <<p[2], d>>] : d \in common})

(***************************************************************************)
(* What a slot holds when it is written is the statistics of the pair the  *)
(* order puts there, whatever the group size, with and without hoisting,   *)
(* and whichever of the two rows is the shorter; no other slot is written. *)
(***************************************************************************)
StatsExact ==
  \A k \in DOMAIN stats : k < n_slots /\ stats[k] = Reference(Pairs[order[k]])

(* No two threads write one slot: a slot once written is not written again. *)
OneWriter ==
  [][\A t \in Threads : pc[t] = "store" /\ pc'[t] = "done" /\ Writes(t)
       => Slot(t) \notin DOMAIN stats]_vars

(* No warp waits for a lane that has left, and every slot gets its value. *)
KernelEnds ==
  <>(/\ \A t \in Threads : pc[t] = "done"
     /\ DOMAIN stats = 0 .. n_slots - 1)
=============================================================================
