-------------------------- MODULE MCApprovalBroker --------------------------
(* Calls of the model, of apps and of the command line that ask for the same. *)
EXTENDS ApprovalBroker
CONSTANTS m1, m2, a1, a2, c1
MCKind == [c \in Callers |-> CASE c \in {m1, m2} -> "model" [] c \in {a1, a2} -> "app"
                               [] OTHER -> "cli"]
MCBinding == [c \in Callers |-> "same"]
MCScope == [c \in Callers |-> IF MCKind[c] = "cli" THEN "connection" ELSE "chat"]
=============================================================================
