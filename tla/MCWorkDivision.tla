--------------------------- MODULE MCWorkDivision ---------------------------
(* Three GPUs, two pairs and four dimensions, with every choice of the rows. *)
EXTENDS WorkDivision
=============================================================================
