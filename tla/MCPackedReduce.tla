--------------------------- MODULE MCPackedReduce ---------------------------
(***************************************************************************)
(* Two GPUs, the first with two of three dimensions, and fields below 3:   *)
(* two ratings of 1 fill a field and a third overflows it, also if each    *)
(* GPU's own sums fit.  A machine integer holds one square of 2, not two.  *)
(* Ratings may be negative, and another row of the fixture the longest.    *)
(***************************************************************************)
EXTENDS PackedReduce

TheOwner == [d \in Dims |-> IF d < 3 THEN 0 ELSE 1]
TheRatings == -1 .. 2
=============================================================================
