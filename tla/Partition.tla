----------------------------- MODULE Partition -----------------------------
(***************************************************************************)
(* pair_partition.hpp: how the pairs or the dimensions are divided among   *)
(* the GPUs.                                                               *)
(***************************************************************************)
EXTENDS Integers

(* A half-open range [begin, end), as split_range returns it. *)
SplitRange(total, g, n_parts) ==
  [begin |-> (total * g) \div n_parts, end |-> (total * (g + 1)) \div n_parts]

Members(r) == r.begin .. r.end - 1

(* Do the n ranges r[0], r[1], ... cover [0, total) one behind another? *)
RangesTile(r, n, total) ==
  /\ r[0].begin = 0
  /\ \A g \in 0 .. n - 1 : r[g].begin <= r[g].end
  /\ \A g \in 1 .. n - 1 : r[g].begin = r[g - 1].end
  /\ r[n - 1].end = total

OrderIsIdentity(order, n) == \A k \in 0 .. n - 1 : order[k] = k
=============================================================================
