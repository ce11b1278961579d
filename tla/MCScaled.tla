------------------------------ MODULE MCScaled ------------------------------
(* A small instance of Scaled for TLC. *)
EXTENDS Scaled, TLC

CONSTANT k1
=============================================================================
