---------------------------- MODULE PackedReduce ----------------------------
(***************************************************************************)
(* The AllReduce payloads of one pair (pair_kernel.cuh, payload_domain.hpp *)
(* and contract section 9).  Every GPU accumulates six statistics over its *)
(* part of the rated dimensions; --payload says how they travel: as they   *)
(* are (f64), as six machine integers (i32), or as three fields in each of *)
(* two words (packed) that are added without being unpacked.  The domain   *)
(* check refuses the ratings whose sums would not fit.                     *)
(*                                                                         *)
(* The collective adds the GPUs' values in whatever grouping it likes.     *)
(* Widths are constants: with Base = 2^21, Word = 2^64 and IntMax =        *)
(* 2^31 - 1 they are the code's.  Ratings are integers; that other numbers *)
(* are refused, or travel only as f64, is left out.                        *)
(***************************************************************************)
EXTENDS Integers, FiniteSets, FiniteSetsExt

CONSTANTS Gpus, Dims,
          Owner,     \* Owner[d]: the GPU whose range of dimensions d is in
          Ratings,   \* possible ratings
          OtherRows, \* possible lengths of the fixture's longest other row
          Base,      \* 2^kPackBits
          Word,      \* 2^64
          IntMax     \* INT32_MAX

ASSUME GpusAssumption == IsFiniteSet(Gpus) /\ Gpus # {}
ASSUME DimsAssumption == IsFiniteSet(Dims) /\ Owner \in [Dims -> Gpus]
ASSUME RatingsAssumption == Ratings \subseteq Int /\ OtherRows \subseteq Nat
ASSUME WidthAssumption ==
  /\ Base \in Nat \ {0} /\ Word \in Nat \ {0} /\ IntMax \in Nat
  /\ Base * Base * Base <= Word

VARIABLES x, y,     \* ratings of the two entities, functions on their dimensions
          other,    \* length of the longest other row
          payload,  \* --payload
          pc,
          left,     \* left[g]: dimensions g has not yet looked at
          stats,    \* stats[g]: statistics accumulated on g
          sent,     \* GPUs that have put their statistics into the collective
          wire,     \* wire[g]: what g has put into it, with what was added to it
          merged,   \* merged[g]: exact sum of the statistics wire[g] stands for
          group,    \* group[g]: the GPUs whose statistics are in wire[g]
          result    \* the statistics finalize gets

input == <<x, y, other, payload>>
vars  == <<input, pc, left, stats, sent, wire, merged, group, result>>

-----------------------------------------------------------------------------
Payloads == {"f64", "i32", "packed"}
Rows     == UNION {[S -> Ratings] : S \in SUBSET Dims}
Common   == DOMAIN x \cap DOMAIN y

(* n, sx, sy, sxx, syy, sxy. *)
Zero == [n |-> 0, sx |-> 0, sy |-> 0, sxx |-> 0, syy |-> 0, sxy |-> 0]
Plus(s, t) == [n   |-> s.n + t.n,     sx  |-> s.sx + t.sx,   sy  |-> s.sy + t.sy,
               sxx |-> s.sxx + t.sxx, syy |-> s.syy + t.syy, sxy |-> s.sxy + t.sxy]
One(a, b) == [n |-> 1, sx |-> a, sy |-> b, sxx |-> a * a, syy |-> b * b, sxy |-> a * b]

-----------------------------------------------------------------------------
(* check_payload_domain and check_payload_bounds. *)
RowSizes == {Cardinality(DOMAIN x), Cardinality(DOMAIN y), other}
Values == {x[d] : d \in DOMAIN x} \cup {y[d] : d \in DOMAIN y}
IsMax(m, S) == m \in S /\ \A v \in S : v <= m

limit == IF payload = "packed" THEN Base - 1 ELSE IntMax

Fits_SquaresOnly ==  \* mutant: the bound before 2026-09-17; any row fits vmax = 0
  \E vmax \in Values \cup {0}, max_row \in RowSizes :
    /\ IsMax(vmax, Values \cup {0}) /\ IsMax(max_row, RowSizes)
    /\ vmax * vmax * max_row <= limit
Fits_OneGpu ==       \* mutant: the bound on one GPU's partial statistics
  \E vmax \in Values \cup {0} :
    /\ IsMax(vmax, Values \cup {0})
    /\ \A g \in Gpus : vmax * vmax * Cardinality({d \in Dims : Owner[d] = g}) <= limit
Fits ==
  \E vmax \in Values \cup {0}, max_row \in RowSizes :
    /\ IsMax(vmax, Values \cup {0}) /\ IsMax(max_row, RowSizes)
    /\ max_row <= limit
    /\ vmax * max_row <= limit
    /\ vmax * vmax * max_row <= limit

InDomain_AnySign == payload # "f64" => Fits  \* mutant: negative ratings pass
InDomain ==
  payload # "f64" => /\ \A v \in Values : v >= 0
                     /\ Fits

-----------------------------------------------------------------------------
(* pack_six and unpack_six; the fields of a packed word are below Base. *)
Pack3(f) == (f[1] + f[2] * Base + f[3] * (Base * Base)) % Word
Unpack3(w) == <<w % Base, (w \div Base) % Base, (w \div (Base * Base)) % Base>>

(* static_cast<int>: two's complement of IntMax + 1 either side of zero. *)
WrapInt(i) == ((i + IntMax + 1) % (2 * (IntMax + 1))) - (IntMax + 1)
WrapAll(s) == [n   |-> WrapInt(s.n),   sx  |-> WrapInt(s.sx),  sy  |-> WrapInt(s.sy),
               sxx |-> WrapInt(s.sxx), syy |-> WrapInt(s.syy), sxy |-> WrapInt(s.sxy)]

Encode(s) == CASE payload = "f64"    -> s
               [] payload = "i32"    -> WrapAll(s)
               [] payload = "packed" -> <<Pack3(<<s.n, s.sx, s.sy>>), Pack3(<<s.sxx, s.syy, s.sxy>>)>>

AddWord(v, w) == (v + w) % Word  \* uint64_t
Add(v, w) == CASE payload = "f64"    -> Plus(v, w)
               [] payload = "i32"    -> WrapAll(Plus(v, w))
               [] payload = "packed" -> <<AddWord(v[1], w[1]), AddWord(v[2], w[2])>>

Decode(w) ==
  IF payload # "packed" THEN w
  ELSE [n   |-> Unpack3(w[1])[1], sx  |-> Unpack3(w[1])[2], sy  |-> Unpack3(w[1])[3],
        sxx |-> Unpack3(w[2])[1], syy |-> Unpack3(w[2])[2], sxy |-> Unpack3(w[2])[3]]

-----------------------------------------------------------------------------
Init ==
  /\ x \in Rows /\ y \in Rows /\ other \in OtherRows /\ payload \in Payloads
  /\ pc = "check"
  /\ left   = [g \in Gpus |-> {d \in Dims : Owner[d] = g}]
  /\ stats  = [g \in Gpus |-> Zero]
  /\ sent   = {}
  /\ wire   = [g \in Gpus |-> Zero]
  /\ merged = [g \in Gpus |-> Zero]
  /\ group  = [g \in Gpus |-> {}]
  /\ result = Zero

CheckDomain ==
  /\ pc = "check"
  /\ pc' = IF InDomain THEN "run" ELSE "refused"
  /\ UNCHANGED <<input, left, stats, sent, wire, merged, group, result>>

(* pair_lane_scan: a lane of g looks at the next dimension, in any order. *)
Scan(g) ==
  /\ pc = "run"
  /\ \E d \in left[g] :
       /\ left' = [left EXCEPT ![g] = @ \ {d}]
       /\ stats' = [stats EXCEPT ![g] = IF d \in Common THEN Plus(@, One(x[d], y[d])) ELSE @]
  /\ UNCHANGED <<input, pc, sent, wire, merged, group, result>>

Submit(g) ==
  /\ pc = "run" /\ left[g] = {} /\ g \notin sent
  /\ sent' = sent \cup {g}
  /\ wire' = [wire EXCEPT ![g] = Encode(stats[g])]
  /\ merged' = [merged EXCEPT ![g] = stats[g]]
  /\ group' = [group EXCEPT ![g] = {g}]
  /\ UNCHANGED <<input, pc, left, stats, result>>

(* ncclAllReduce adds up two of the values it still holds. *)
Held(g) == group[g] # {}

Combine(g, h) ==
  /\ pc = "run" /\ g # h /\ Held(g) /\ Held(h)
  /\ wire'   = [wire EXCEPT ![g] = Add(@, wire[h])]
  /\ merged' = [merged EXCEPT ![g] = Plus(@, merged[h])]
  /\ group'  = [group EXCEPT ![g] = @ \cup group[h], ![h] = {}]
  /\ UNCHANGED <<input, pc, left, stats, sent, result>>

(* One value is left: everyone's sum. *)
Finish(g) ==
  /\ pc = "run" /\ group[g] = Gpus
  /\ result' = Decode(wire[g])
  /\ pc' = "done"
  /\ UNCHANGED <<input, left, stats, sent, wire, merged, group>>

Next == \/ CheckDomain
        \/ \E g \in Gpus : Scan(g) \/ Submit(g) \/ Finish(g)
        \/ \E g, h \in Gpus : Combine(g, h)

Spec == Init /\ [][Next]_vars

-----------------------------------------------------------------------------
Sixes == [n : Int, sx : Int, sy : Int, sxx : Int, syy : Int, sxy : Int]

(***************************************************************************)
(* Any payload the domain check lets through is lossless: finalize gets    *)
(* exactly what adding up the GPUs' statistics gives (contract 9).         *)
(***************************************************************************)
Lossless ==
  pc = "done" => \E g \in Gpus : group[g] = Gpus /\ result = merged[g]

(***************************************************************************)
(* In the collective no field carries into its neighbour: a partial sum    *)
(* that travels is the encoding of the sums it stands for, not merely one  *)
(* whose errors cancel in the end.                                         *)
(***************************************************************************)
NoCarry ==
  \A g \in Gpus :
    group[g] # {} /\ payload = "packed" =>
      /\ wire[g] = Encode(merged[g])
      /\ \A f \in DOMAIN merged[g] : merged[g][f] \in 0 .. Base - 1
=============================================================================
