---------------------------- MODULE MCWarpKernel ----------------------------
(* Warps of four lanes.  A slice of three elements takes a lane more than  *)
(* one round at g = 1 and 2 and leaves a lane idle at g = 4; one or two    *)
(* slots leave lanes or whole groups inactive; within the ranges either    *)
(* entity may be the shorter, and a dimension be found or not.             *)
EXTENDS WarpKernel

MCRowChoices == {<<0, 2>>, <<1, 2, 3>>}
MCRanges == {<<0, 4>>, <<2, 4>>}
MCPairs  == [k \in 0 .. 2 |-> CASE k = 0 -> <<0, 1>> [] k = 1 -> <<0, 2>> [] k = 2 -> <<1, 2>>]
MCOrders == {[k \in 0 .. 2 |-> 2 - k]}
=============================================================================
