--------------------------- MODULE MCSlotProtocol ---------------------------
(* Three GPUs, four chunks: each slot is refilled twice over. *)
EXTENDS SlotProtocol

MCGpus == 0 .. 2
=============================================================================
