------------------------------ MODULE MCBetGun ------------------------------
(* Finite instances of BetGun: the workers are model values. *)
EXTENDS BetGun
=============================================================================
