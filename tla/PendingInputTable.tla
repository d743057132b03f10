--------------------------- MODULE PendingInputTable ---------------------------
(***************************************************************************)
(* The columns of the table deepchat_pending_inputs that do not say where  *)
(* a row of one session is in the queue.  PendingInputStore adds the       *)
(* column queue_order to them, PendingInputRows the sequence which that    *)
(* column stands for.                                                      *)
(*                                                                         *)
(* A row is named by a positive integer and names grow with created_at, so *)
(* "the oldest steer row" is the one with the least name.  A row's payload *)
(* is left out.  "retry" stands for 'blocked' with a retry_required_at,    *)
(* the state the code shows as retry_required; "gone" stands for a deleted *)
(* queue row and for a steer row marked 'consumed'.                        *)
(***************************************************************************)
EXTENDS Naturals, SequencesExt

CONSTANTS
  Ids,       \* the rows the session may ever create
  Capacity   \* MAX_PENDING_INPUTS

ASSUME IdsAssumption == Ids \subseteq Nat \ {0}
ASSUME CapacityAssumption == Capacity \in Nat

VARIABLES
  st,      \* row state
  mode     \* row mode, meaningless for a row that is not live

RowStates == {"unused", "pending", "claimed", "blocked", "retry", "gone"}
Live      == {"pending", "claimed", "blocked", "retry"}

(* nanoid and created_at: the next row to be inserted. *)
IsFresh(i) == st[i] = "unused" /\ \A j \in Ids : j < i => st[j] # "unused"

=============================================================================
