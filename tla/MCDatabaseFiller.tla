-------------------------- MODULE MCDatabaseFiller --------------------------
(* Finite instances of DatabaseFiller. *)
EXTENDS DatabaseFiller

CONSTANT StartBalance   \* balance every user starts with

MCInitBalance == [u \in Users |-> StartBalance]
=============================================================================
