--------------------------- MODULE PendingInputPump ---------------------------
(***************************************************************************)
(* The pump that turns waiting rows into turns, one at a time:             *)
(* src/main/agent/deepchat/runtime/pendingInputPump.ts.                    *)
(*                                                                         *)
(* A wake-up (schedule/drain) takes the instance's drain lease or is       *)
(* dropped, unless a launched turn has already settled its claim: then it  *)
(* is remembered and replayed when the lease comes back.  The drain awaits *)
(* the session state between taking the lease and reading the gate, so it  *)
(* is two steps here: Woken and DrainPendingQueue.  A launched turn keeps  *)
(* the lease until Finalize.                                               *)
(***************************************************************************)
EXTENDS PendingInputRows

CONSTANTS
  MaxWakers,   \* bound on finalizations that still await the session state
  Faults       \* whether rare failures happen (journal, initialization, rejected handlers)

ASSUME MaxWakersAssumption == MaxWakers \in Nat \ {0}
ASSUME FaultsAssumption == Faults \in BOOLEAN

VARIABLES
  pump,         \* drain lease, the drain that holds it, the deferred wake-up
  wakers,       \* scheduleNextIfReady calls suspended at their await
  held,         \* restartHeldQueueInputIds
  resumed,      \* manuallyResumedQueueInputIds
  status,       \* the instance's runtime status
  inter,        \* an assistant message has a pending interaction
  asked,        \* a question awaits a follow-up message from the user
  quiet,        \* no user message is later than the latest assistant message
  turn,         \* the launched turn: its claim and its abort signal
  ctl,          \* who owns instance.abortController
  activeSteer,  \* instance.activeSteerPendingInputId
  lost,         \* pending steer rows whose user message was deleted
  consent       \* rows the user released for sending since their last launch

pumpVars == <<pump, wakers, held, resumed>>
chatVars == <<status, inter, asked, quiet>>

Reasons == {"completed", "enqueue", "manual"}

NoTurn == [pc |-> "off", input |-> NoInput, src |-> "queue", disp |-> "none",
           sig |-> "live", fact |-> "none", behind |-> {}, answered |-> FALSE,
           early |-> FALSE, after |-> "idle"]

FreePump == [lease |-> "free", reason |-> "completed", again |-> FALSE,
             deferred |-> "none"]

PumpInit ==
  /\ pump = FreePump
  /\ wakers = 0
  /\ held = {} /\ resumed = {}
  /\ status = "idle"
  /\ inter = FALSE /\ asked = FALSE /\ quiet = FALSE
  /\ turn = NoTurn
  /\ ctl = "none"
  /\ activeSteer = NoInput
  /\ lost = {} /\ consent = {}

-----------------------------------------------------------------------------
(* Wake-ups.                                                               *)

CanDrainFromStatus(s, reason) == s = "idle" \/ (s = "error" /\ reason # "completed")

(* What sessionState.get reports: a pending interaction shows as generating. *)
SessionStatus == IF inter THEN "generating" ELSE status

Priority(reason) ==
  CASE reason = "none" -> 0 [] reason = "completed" -> 1
    [] reason = "enqueue" -> 2 [] reason = "manual" -> 3

(* rememberDeferredWakeup keeps the reason of highest priority. *)
MostUrgent(r1, r2) == IF Priority(r2) > Priority(r1) THEN r2 ELSE r1

(* Mutant: a wake-up is remembered while the turn still owns its claim. *)
WokenTooEarly(p, reason, again, disp, s) ==
  IF p.lease = "free"
  THEN [p EXCEPT !.lease = "drain", !.reason = reason, !.again = again]
  ELSE IF p.lease = "turn" /\ CanDrainFromStatus(s, reason)
  THEN [p EXCEPT !.deferred = MostUrgent(@, reason)]
  ELSE p

(* Mutant: a wake-up that meets a busy pump is dropped. *)
WokenOrDropped(p, reason, again, disp, s) ==
  IF p.lease = "free"
  THEN [p EXCEPT !.lease = "drain", !.reason = reason, !.again = again]
  ELSE p

(* drain(reason) up to its await.  disp and s are the launched claim's     *)
(* disposition and the runtime status at that moment; again says that the  *)
(* caller schedules 'enqueue' once more if nothing was started.            *)
Woken(p, reason, again, disp, s) ==
  IF p.lease = "free"
  THEN [p EXCEPT !.lease = "drain", !.reason = reason, !.again = again]
  ELSE IF p.lease = "turn" /\ disp # "none" /\ CanDrainFromStatus(s, reason)
  THEN [p EXCEPT !.deferred = MostUrgent(@, reason)]
  ELSE p

(* flushDeferredWakeup, just after the lease was released. *)
Flushed(p) ==
  IF p.deferred = "none" THEN p
  ELSE Woken([p EXCEPT !.deferred = "none"], p.deferred, FALSE, "none", status)

Released(p) == [p EXCEPT !.lease = "free", !.reason = "completed", !.again = FALSE]

Wake(reason) == pump' = Woken(pump, reason, FALSE, turn.disp, status)

-----------------------------------------------------------------------------
(* Launching a claimed row.                                                *)

(* clearActiveSteerPendingInputId(expected) *)
ForgetActiveSteer(i) == activeSteer' = IF activeSteer = i THEN NoInput ELSE activeSteer

Begun(i, src) ==
  [NoTurn EXCEPT !.pc = IF src = "steer" THEN "answer" ELSE "attach",
                 !.input = i, !.src = src,
                 !.fact = IF src = "steer" THEN "seen" ELSE "none",
                 !.early = src = "queue" /\ i \in resumed]

(* launch and the synchronous part of TurnCoordinator.start: status        *)
(* generating and a fresh abort controller.                                *)
LaunchTurn(i, src) ==
  /\ turn' = Begun(i, src)
  /\ pump' = [pump EXCEPT !.lease = "turn", !.reason = "completed", !.again = FALSE]
  /\ status' = "generating"
  /\ ctl' = "turn"
  /\ consent' = consent \ {i}

(* initializeTurn throws: a queue row is released for an explicit retry,   *)
(* a steer row, already marked read, is consumed; status and controller    *)
(* are put back.                                                           *)
LaunchFails(i, src) ==
  /\ Faults
  /\ turn' = [Begun(i, src) EXCEPT !.pc = "closing",
                !.disp = IF src = "steer" THEN "consumed" ELSE "released"]
  /\ pump' = [pump EXCEPT !.lease = "turn", !.reason = "completed", !.again = FALSE]
  /\ UNCHANGED <<status, ctl>>
  /\ consent' = consent \ {i}

-----------------------------------------------------------------------------
(* The drain after its await, and what follows a turn.                     *)

(* The part of the gate that does not depend on which row comes next. *)
DrainGate ==
  /\ pump.lease = "drain"
  /\ CanDrainFromStatus(SessionStatus, pump.reason)
  /\ ~asked /\ ~inter
  /\ ~HasBlockingInput /\ ~HasClaimedInput

(* Steer rows go first.  Claiming one marks its messages read, which       *)
(* throws when one of them is no longer in the transcript.                 *)
CanStartSteer(i) == DrainGate /\ IsNextSteer(i) /\ i \notin lost

CanStartQueued(i) == /\ DrainGate
                     /\ \A j \in Ids : ~IsNextSteer(j)
                     /\ IsNextQueued(i) /\ i \notin held

(* The claim of a steer row creates its assistant message. *)
DrainSteerInput(i) ==
  /\ CanStartSteer(i)
  /\ \/ ClaimInput(i) /\ LaunchTurn(i, "steer")
     \/ RestateInput(i, "gone") /\ LaunchFails(i, "steer")
  /\ ForgetActiveSteer(i)
  /\ quiet' = TRUE
  /\ UNCHANGED <<wakers, held, resumed, inter, asked, lost>>

DrainQueuedInput(i) ==
  /\ CanStartQueued(i)
  /\ \/ ClaimInput(i) /\ LaunchTurn(i, "queue")
     \/ RestateInput(i, "retry") /\ LaunchFails(i, "queue")
  /\ UNCHANGED <<wakers, held, resumed, inter, asked, quiet, activeSteer, lost>>

(* Nothing to start: the lease goes back and the drain is over. *)
DrainStartsNothing ==
  /\ pump.lease = "drain"
  /\ \A i \in Ids : ~CanStartSteer(i) /\ ~CanStartQueued(i)
  /\ LET flushed == Flushed(Released(pump))
     IN  pump' = IF pump.again THEN Woken(flushed, "enqueue", FALSE, "none", status)
                               ELSE flushed
  /\ UNCHANGED <<rowVars, wakers, held, resumed, chatVars, turn, ctl,
                 activeSteer, lost, consent>>

(* The turn's promise settled: give the lease back, replay the deferred    *)
(* wake-up, and look for a next row unless this one went back to waiting.  *)
Finalize ==
  LET looksOn == st[turn.input] \notin {"pending", "retry"} /\ HasPendingTurnInput
  IN  /\ turn.pc = "closing"
      /\ looksOn => wakers < MaxWakers
      /\ wakers' = IF looksOn THEN wakers + 1 ELSE wakers
      /\ resumed' = IF turn.disp = "consumed" THEN resumed \ {turn.input} ELSE resumed
      /\ pump' = Flushed(Released(pump))
      /\ turn' = NoTurn
      /\ UNCHANGED <<rowVars, held, chatVars, ctl, activeSteer, lost, consent>>

(* scheduleNextIfReady after its await: only an idle session goes on. *)
ScheduleNextIfReady ==
  /\ wakers > 0
  /\ wakers' = wakers - 1
  /\ IF SessionStatus = "idle" /\ ~asked /\ ~inter
     THEN Wake("completed")
     ELSE UNCHANGED pump
  /\ UNCHANGED <<rowVars, held, resumed, chatVars, turn, ctl, activeSteer, lost,
                 consent>>

=============================================================================
