---------------------------- MODULE MCMpiBackend ----------------------------
(* Three ranks over up to four dimensions: the ranges have different       *)
(* sizes, and with fewer dimensions than ranks some are empty.             *)
EXTENDS MpiBackend
=============================================================================
