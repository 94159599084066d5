--------------------------- MODULE MCBenchSession ---------------------------
(* Two GPU configurations and an MPI one; sessions of one or of two rounds. *)
EXTENDS BenchReport

MCParams  == {[seed |-> 1, repeats |-> n, warmups |-> 2] : n \in {1, 2}}
MCBackend == 1 :> "async" @@ 2 :> "cuda" @@ 3 :> "mpi"
=============================================================================
