-------------------------- MODULE MCAsyncPipeline --------------------------
(* Two GPUs; seven pairs in chunks of two: more chunks than slots, so that *)
(* both slots are reused, and the last chunk is a short one.  The order is *)
(* neither the identity nor its own inverse.                               *)
EXTENDS AsyncPipeline

MCOrder == [i \in 0 .. NPairs - 1 |-> (3 * i + 1) % NPairs]
=============================================================================
