-------------------------- MODULE MCPendingInputStore --------------------------
(* Constants for model-checking PendingInputStore. *)
EXTENDS PendingInputStore

FourIds == 1..4

=============================================================================
