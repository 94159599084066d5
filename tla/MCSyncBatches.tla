--------------------------- MODULE MCSyncBatches ---------------------------
(* Three GPUs share two pairs and two dimensions: one shard is empty. *)
EXTENDS SyncBatches
=============================================================================
