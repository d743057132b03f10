---------------------------- MODULE MCSessionInputs ----------------------------
(* Constants for model-checking SessionInputs. *)
EXTENDS SessionInputs

TwoIds == 1..2

=============================================================================
