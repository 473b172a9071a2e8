---------------------------- MODULE MCUserService ----------------------------
(* Finite instances of UserService: threads and connections are model values. *)
EXTENDS UserService
=============================================================================
