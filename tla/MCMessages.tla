----------------------------- MODULE MCMessages -----------------------------
(* Finite instances of Messages. *)
EXTENDS Messages, TLC

MCSize == [v \in Values |-> 3]

MessageSymmetry ==
    Permutations(Addresses) \cup Permutations(Arenas) \cup Permutations(Values)
=============================================================================
