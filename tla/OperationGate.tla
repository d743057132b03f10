--------------------------- MODULE OperationGate ---------------------------
(***************************************************************************)
(* AgentLifecycleGate (src/main/agent/lifecycleGate.ts) and                *)
(* SessionDeletionGate (src/main/session/deletionGate.ts): operations of a *)
(* key run side by side, a deletion closes the key and waits until the     *)
(* operations have ended.  The two classes differ in one thing: the        *)
(* session gate waits with a time limit (TimeLimited).                     *)
(*                                                                         *)
(* A call is one invocation of runWith...Operation or runWith...Deletion.  *)
(* place[k][c] names the await at which it is suspended:                   *)
(*   operating  inside the operation                                       *)
(*   draining   in the drain promise, whose resolver is in waiters[k]      *)
(*   woken      the promise is resolved, the call continues in a microtask *)
(*   expired    the promise was rejected by the timer                      *)
(*   deleting   inside the deletion                                        *)
(***************************************************************************)
EXTENDS Naturals, FiniteSets

CONSTANTS Keys, Calls, TimeLimited, Nobody

ASSUME CallsAreFinite == IsFiniteSet(Calls) /\ Nobody \notin Calls
ASSUME TimeLimitedIsSwitch == TimeLimited \in BOOLEAN

VARIABLES
  active,     \* activeOperations: a counter per key, 0 where the map has none
  deleting,   \* deletingAgentIds, deletingSessionIds
  waiters,    \* drainWaiters: the calls whose resolver is registered
  place

gateVars == <<active, deleting, waiters, place>>

Closing == {"draining", "woken", "expired", "deleting"}
Places == {"out", "operating"} \cup Closing

GateInit ==
  /\ active = [k \in Keys |-> 0]
  /\ deleting = {}
  /\ waiters = [k \in Keys |-> {}]
  /\ place = [k \in Keys |-> [c \in Calls |-> "out"]]

(* Mutant: the mark of a deletion is not read. *)
RunOperationUnchecked(k, c) ==
  /\ place[k][c] = "out"
  /\ active' = [active EXCEPT ![k] = @ + 1]
  /\ place' = [place EXCEPT ![k][c] = "operating"]
  /\ UNCHANGED <<deleting, waiters>>

\* A call that is refused throws and changes nothing.
RunOperation(k, c) ==
  /\ place[k][c] = "out"
  /\ k \notin deleting
  /\ active' = [active EXCEPT ![k] = @ + 1]
  /\ place' = [place EXCEPT ![k][c] = "operating"]
  /\ UNCHANGED <<deleting, waiters>>

\* The waiters are resolved by the last operation only; each of them clears its timer.
FinishOperation(k, c) ==
  /\ place[k][c] = "operating"
  /\ active' = [active EXCEPT ![k] = @ - 1]
  /\ LET drained == IF active[k] = 1 THEN waiters[k] ELSE {} IN
       /\ waiters' = [waiters EXCEPT ![k] = @ \ drained]
       /\ place' = [place EXCEPT ![k] =
                      [d \in Calls |-> IF d = c THEN "out"
                                       ELSE IF d \in drained THEN "woken" ELSE @[d]]]
  /\ UNCHANGED deleting

(* Mutant: a second deletion of the same key is let through. *)
RunDeletionTwice(k, c) ==
  /\ place[k][c] = "out"
  /\ deleting' = deleting \cup {k}
  /\ IF active[k] = 0
       THEN /\ place' = [place EXCEPT ![k][c] = "woken"]
            /\ UNCHANGED waiters
       ELSE /\ place' = [place EXCEPT ![k][c] = "draining"]
            /\ waiters' = [waiters EXCEPT ![k] = @ \cup {c}]
  /\ UNCHANGED active

RunDeletion(k, c) ==
  /\ place[k][c] = "out"
  /\ k \notin deleting
  /\ deleting' = deleting \cup {k}
  /\ IF active[k] = 0
       THEN /\ place' = [place EXCEPT ![k][c] = "woken"]
            /\ UNCHANGED waiters
       ELSE /\ place' = [place EXCEPT ![k][c] = "draining"]
            /\ waiters' = [waiters EXCEPT ![k] = @ \cup {c}]
  /\ UNCHANGED active

\* The continuation of the drain promise: the deletion itself begins.
StartDeletion(k, c) ==
  /\ place[k][c] = "woken"
  /\ place' = [place EXCEPT ![k][c] = "deleting"]
  /\ UNCHANGED <<active, deleting, waiters>>

(* Mutant: the timer leaves its waiter behind. *)
DrainExpiresOnly(k, c) ==
  /\ TimeLimited
  /\ place[k][c] = "draining"
  /\ place' = [place EXCEPT ![k][c] = "expired"]
  /\ UNCHANGED <<active, deleting, waiters>>

\* The timer of the session gate: its waiter is withdrawn and the promise rejected.
DrainExpires(k, c) ==
  /\ TimeLimited
  /\ place[k][c] = "draining"
  /\ waiters' = [waiters EXCEPT ![k] = @ \ {c}]
  /\ place' = [place EXCEPT ![k][c] = "expired"]
  /\ UNCHANGED <<active, deleting>>

\* The finally block, after a deletion that succeeded, failed or timed out.
EndDeletion(k, c) ==
  /\ place[k][c] \in {"deleting", "expired"}
  /\ deleting' = deleting \ {k}
  /\ place' = [place EXCEPT ![k][c] = "out"]
  /\ UNCHANGED <<active, waiters>>

GateNext ==
  \E k \in Keys, c \in Calls :
    \/ RunOperation(k, c)
    \/ FinishOperation(k, c)
    \/ RunDeletion(k, c)
    \/ StartDeletion(k, c)
    \/ DrainExpires(k, c)
    \/ EndDeletion(k, c)

GateSpec == GateInit /\ [][GateNext]_gateVars

-----------------------------------------------------------------------------
Operating(k) == {c \in Calls : place[k][c] = "operating"}
Closers(k) == {c \in Calls : place[k][c] \in Closing}

\* The types of the gate: maps, sets and counters over its keys and calls.
GateTypeOK ==
  /\ active \in [Keys -> Nat]
  /\ deleting \in SUBSET Keys
  /\ waiters \in [Keys -> SUBSET Calls]
  /\ place \in [Keys -> [Calls -> Places]]

\* While a deletion of a key is inside, no operation of that key is: the reason why the
\* callers of both gates take them.
DeletionIsAlone ==
  \A k \in Keys : (\E c \in Calls : place[k][c] = "deleting") => Operating(k) = {}

\* A key is closed exactly while one call deletes it. A mark without its call would refuse
\* every later operation of that agent or session until the program ends; a call
\* without its mark would let operations in.
ClosedByOne ==
  \A k \in Keys :
    /\ k \in deleting <=> Closers(k) # {}
    /\ \A c, d \in Closers(k) : c = d

\* A deletion that waits is registered, and has an operation to wait for: the last one to
\* end will find and resolve it, however often earlier deletions timed out.
NoLostDrain ==
  \A k \in Keys :
    /\ waiters[k] = {c \in Calls : place[k][c] = "draining"}
    /\ waiters[k] # {} => Operating(k) # {}

\* The counter of a key is the number of its operations.
CounterIsExact == \A k \in Keys : active[k] = Cardinality(Operating(k))

\* The member of a set of at most one call.
OneOf(S) == IF S = {} THEN Nobody ELSE CHOOSE c \in S : TRUE

\* Both gates implement the room with one door.
Room == INSTANCE ExclusiveGate WITH
  inside <- [k \in Keys |-> Operating(k)],
  closer <- [k \in Keys |-> OneOf(Closers(k))],
  alone <- [k \in Keys |-> \E c \in Calls : place[k][c] = "deleting"]

GateKeepsPromise == Room!RoomSpec
=============================================================================
