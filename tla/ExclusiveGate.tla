--------------------------- MODULE ExclusiveGate ---------------------------
(***************************************************************************)
(* What the lifecycle gates promise their callers, per key: any number of  *)
(* operations may be inside; a deletion first closes the door, then waits  *)
(* until the room is empty, then has the key for itself, and finally opens *)
(* the door again.  It may also give up while it waits.                    *)
(***************************************************************************)
CONSTANTS Keys, Calls, Nobody

VARIABLES
  inside,     \* inside[k]: the operations admitted for key k
  closer,     \* closer[k]: the deletion that closed the door, or Nobody
  alone       \* alone[k]: whether that deletion has begun its work

roomVars == <<inside, closer, alone>>

RoomInit ==
  /\ inside = [k \in Keys |-> {}]
  /\ closer = [k \in Keys |-> Nobody]
  /\ alone = [k \in Keys |-> FALSE]

Admit(k, c) ==
  /\ closer[k] = Nobody
  /\ c \notin inside[k]
  /\ inside' = [inside EXCEPT ![k] = @ \cup {c}]
  /\ UNCHANGED <<closer, alone>>

Depart(k, c) ==
  /\ c \in inside[k]
  /\ inside' = [inside EXCEPT ![k] = @ \ {c}]
  /\ UNCHANGED <<closer, alone>>

CloseDoor(k, c) ==
  /\ closer[k] = Nobody
  /\ closer' = [closer EXCEPT ![k] = c]
  /\ UNCHANGED <<inside, alone>>

HaveAlone(k) ==
  /\ closer[k] # Nobody
  /\ inside[k] = {}
  /\ ~alone[k]
  /\ alone' = [alone EXCEPT ![k] = TRUE]
  /\ UNCHANGED <<inside, closer>>

OpenDoor(k) ==
  /\ closer[k] # Nobody
  /\ closer' = [closer EXCEPT ![k] = Nobody]
  /\ alone' = [alone EXCEPT ![k] = FALSE]
  /\ UNCHANGED inside

RoomNext ==
  \E k \in Keys :
    \/ \E c \in Calls : Admit(k, c) \/ Depart(k, c) \/ CloseDoor(k, c)
    \/ HaveAlone(k)
    \/ OpenDoor(k)

RoomSpec == RoomInit /\ [][RoomNext]_roomVars
=============================================================================
