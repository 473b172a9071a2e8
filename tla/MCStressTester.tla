--------------------------- MODULE MCStressTester ---------------------------
(* Finite instances of StressTester. *)
EXTENDS StressTester, TLC

ThreadSymmetry == Permutations(Threads)
=============================================================================
