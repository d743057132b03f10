----------------------------- MODULE TurnLifecycle -----------------------------
(***************************************************************************)
(* A launched turn from its start to its end, the resumption of a paused   *)
(* assistant message, and the user's Stop:                                 *)
(* src/main/agent/deepchat/runtime/turnCoordinator.ts,                     *)
(* runLifecycleCoordinator.ts and interactionCoordinator.ts.               *)
(*                                                                         *)
(* turn.pc is the await at which the turn is suspended:                    *)
(*   attach      attachment preparation                                    *)
(*   context     prompt and compaction preparation, no user message yet    *)
(*   answer      the user message exists, hooks and context follow         *)
(*   entering    the assistant message exists, the run is being prepared   *)
(*   registered  the run is the active generation                          *)
(*   stream      the provider was called                                   *)
(*   rolled      a failed turn's messages are deleted, its row not settled *)
(*   closing     the turn returned, the pump has not finalized it          *)
(* turn.sig is its abort signal: live, stop (the user) or handoff (a steer *)
(* message that arrived before the run was registered).                    *)
(***************************************************************************)
EXTENDS PendingInputPump

CONSTANTS
  Pauses,   \* whether a run may pause for a permission or a question
  Fails     \* whether a turn may fail

ASSUME PausesAssumption == Pauses \in BOOLEAN
ASSUME FailsAssumption == Fails \in BOOLEAN

VARIABLE res   \* the response to an interaction, and the run it resumes

NoResume == [pc |-> "off", sig |-> "live"]

TurnInit == res = NoResume

InRun     == turn.pc \in {"registered", "stream"}
PreRun    == turn.pc \in {"attach", "context", "answer", "entering"}
Unsettled == turn.disp = "none"

-----------------------------------------------------------------------------
(* How a turn ends.                                                        *)

TurnCloses(disp, s) ==
  /\ turn' = [NoTurn EXCEPT !.pc = "closing", !.input = turn.input, !.disp = disp]
  /\ status' = s
  /\ ctl' = IF ctl = "turn" THEN "none" ELSE ctl

(* Mutant: the claim of a steer row is left to somebody else. *)
TurnConsumesQueuedOnly(s) ==
  /\ IF Unsettled /\ turn.src # "steer" THEN ConsumeInput(turn.input)
                                        ELSE UNCHANGED rowVars
  /\ TurnCloses("consumed", s)
  /\ UNCHANGED <<asked, quiet, lost>>

(* The claim is consumed, or was already; the turn ends in status s. *)
TurnConsumes(s) ==
  /\ IF Unsettled THEN ConsumeInput(turn.input) ELSE UNCHANGED rowVars
  /\ TurnCloses("consumed", s)
  /\ UNCHANGED <<asked, quiet, lost>>

(* Mutant: the row is released to pending, as for a mutation. *)
TurnReleasesToPending(s) ==
  /\ RestateInput(turn.input, "pending")
  /\ TurnCloses("released", s)
  /\ UNCHANGED <<asked, quiet, lost>>

TurnReleasesForRetry(s) ==
  /\ RestateInput(turn.input, "retry")
  /\ TurnCloses("released", s)
  /\ UNCHANGED <<asked, quiet, lost>>

(* rollbackPendingInputTurn: everything from the turn's user message on is *)
(* deleted, the messages of steer rows accepted meanwhile included.        *)
TurnRollsBack(s) ==
  /\ turn' = [turn EXCEPT !.pc = "rolled", !.after = s, !.behind = {}]
  /\ lost' = lost \cup turn.behind
  /\ asked' = turn.answered
  /\ quiet' = turn.answered
  /\ UNCHANGED <<rowVars, status, ctl>>

turnRest == <<pumpVars, activeSteer, consent, res>>

(* The settlement that follows in the same synchronous block: only a crash *)
(* can come between.                                                       *)
SettleRolledBack ==
  /\ turn.pc = "rolled"
  /\ TurnReleasesForRetry(turn.after)
  /\ UNCHANGED <<turnRest, inter>>

-----------------------------------------------------------------------------
(* The steps of a turn.                                                    *)

AttachReady ==
  /\ turn.pc = "attach" /\ turn.sig = "live"
  /\ turn' = [turn EXCEPT !.pc = "context"]
  /\ UNCHANGED <<rowVars, chatVars, ctl, lost, turnRest>>

(* attachmentPreparation 'needs_user_action' blocks the row. *)
AttachNeedsUserAction ==
  /\ turn.pc = "attach" /\ turn.sig = "live"
  /\ RestateInput(turn.input, "blocked")
  /\ TurnCloses("blocked", "idle")
  /\ UNCHANGED <<inter, asked, quiet, lost, turnRest>>

(* A message that a steer already materialised for this turn is reused.    *)
(* No abort check stands between the await before this step and the write. *)
AppendUserFact ==
  /\ turn.pc = "context"
  /\ IF turn.fact = "anchor"
     THEN /\ turn' = [turn EXCEPT !.pc = "answer", !.fact = "seen"]
          /\ UNCHANGED <<asked, quiet>>
     ELSE /\ turn' = [turn EXCEPT !.pc = "answer", !.fact = "seen", !.answered = asked]
          /\ asked' = FALSE /\ quiet' = FALSE
  /\ UNCHANGED <<rowVars, status, inter, ctl, lost, turnRest>>

(* A message the user sent leaves the waiting lane here; a queued row      *)
(* stays claimed until its run returns.                                    *)
CreateAssistantMessage ==
  /\ turn.pc = "answer" /\ turn.sig = "live"
  /\ quiet' = (turn.src # "steer" \/ quiet)
  /\ IF turn.src = "send"
     THEN /\ ConsumeInput(turn.input)
          /\ turn' = [turn EXCEPT !.pc = "entering", !.disp = "consumed", !.behind = {}]
     ELSE /\ turn' = [turn EXCEPT !.pc = "entering"]
          /\ UNCHANGED rowVars
  /\ UNCHANGED <<status, inter, asked, ctl, lost, turnRest>>

RegisterRun ==
  /\ turn.pc = "entering" /\ turn.sig = "live"
  /\ turn' = [turn EXCEPT !.pc = "registered"]
  /\ ctl' = "turn"
  /\ UNCHANGED <<rowVars, chatVars, lost, turnRest>>

(* onBeforeProviderStream: a manually resumed row is consumed before the   *)
(* provider sees it.                                                       *)
CrossPreStreamBoundary ==
  /\ turn.pc = "registered"
  /\ IF turn.early /\ Unsettled
     THEN /\ ConsumeInput(turn.input)
          /\ turn' = [turn EXCEPT !.pc = "stream", !.disp = "consumed", !.behind = {}]
     ELSE /\ turn' = [turn EXCEPT !.pc = "stream"]
          /\ UNCHANGED rowVars
  /\ UNCHANGED <<chatVars, ctl, lost, turnRest>>

RunCompletes ==
  /\ turn.pc = "stream"
  /\ TurnConsumes("idle")
  /\ UNCHANGED <<inter, turnRest>>

RunPauses ==
  /\ Pauses /\ turn.pc = "stream"
  /\ TurnConsumes("generating")
  /\ inter' = TRUE
  /\ UNCHANGED turnRest

RunAborted ==
  /\ InRun /\ turn.sig # "live"
  /\ TurnConsumes("idle")
  /\ UNCHANGED <<inter, turnRest>>

(* The run returns status 'error': a row not yet consumed is rolled back. *)
RunReturnsError ==
  /\ Fails /\ InRun
  /\ IF Unsettled /\ turn.src # "steer" THEN TurnRollsBack("error") ELSE TurnConsumes("error")
  /\ UNCHANGED <<inter, turnRest>>

-----------------------------------------------------------------------------
(* The turn throws.                                                        *)

(* An execution journal error ends the turn idle.  What the run already    *)
(* saw is consumed; a user message without a run is rolled back.           *)
TurnJournalFails ==
  /\ Faults /\ (PreRun \/ InRun)
  /\ IF ~Unsettled \/ InRun \/ turn.src = "steer" THEN TurnConsumes("idle")
     ELSE IF turn.fact # "seen" THEN TurnReleasesForRetry("idle")
     ELSE TurnRollsBack("idle")
  /\ UNCHANGED <<inter, turnRest>>

(* Mutant: only the run listens to its abort signal. *)
RunAloneAborted ==
  /\ InRun /\ turn.sig # "live"
  /\ IF Unsettled /\ turn.src # "steer" /\ turn.fact = "none"
     THEN TurnReleasesForRetry("idle")
     ELSE TurnConsumes("idle")
  /\ UNCHANGED <<inter, turnRest>>

(* Stop or hand-off: the partial turn is kept, and a row without a user    *)
(* message goes back for an explicit retry.                                *)
TurnAborted ==
  /\ (PreRun \/ InRun) /\ turn.sig # "live"
  /\ IF Unsettled /\ turn.src # "steer" /\ turn.fact = "none"
     THEN TurnReleasesForRetry("idle")
     ELSE TurnConsumes("idle")
  /\ UNCHANGED <<inter, turnRest>>

(* Any other error: only what no run has seen is rolled back. *)
TurnFails ==
  /\ Fails /\ (PreRun \/ InRun) /\ turn.sig = "live"
  /\ IF ~Unsettled \/ InRun \/ turn.src = "steer" THEN TurnConsumes("error")
     ELSE IF turn.fact # "seen" THEN TurnReleasesForRetry("error")
     ELSE TurnRollsBack("error")
  /\ UNCHANGED <<inter, turnRest>>

-----------------------------------------------------------------------------
(* Responding to an interaction, and the run it resumes.  res.pc is        *)
(* handling while the response is processed, orphaned when Stop cancelled  *)
(* the interaction under the handler, prep and stream for the resumed run. *)

resRest == <<rowVars, wakers, held, resumed, asked, quiet, turn, activeSteer, lost,
             consent>>

ResLetsGoOfController == ctl' = IF ctl = "resume" THEN "none" ELSE ctl

RespondBegins ==
  /\ inter /\ res.pc = "off" /\ ~InRun
  /\ res' = [pc |-> "handling", sig |-> "live"]
  /\ ctl' = "resume"
  /\ UNCHANGED <<resRest, pump, status, inter>>

(* More interactions remain in the message, or the handler rejects. *)
RespondKeepsWaiting ==
  /\ res.pc = "handling" /\ res.sig = "live"
  /\ res' = NoResume
  /\ ResLetsGoOfController
  /\ UNCHANGED <<resRest, pump, status, inter>>

(* The user will answer with a message: the session is idle and waits. *)
RespondAwaitsFollowUp ==
  /\ res.pc = "handling" /\ res.sig = "live"
  /\ res' = NoResume
  /\ ResLetsGoOfController
  /\ inter' = FALSE /\ status' = "idle" /\ asked' = quiet
  /\ UNCHANGED <<rowVars, pumpVars, quiet, turn, activeSteer, lost, consent>>

(* Mutant: resuming leaves the status to the run. *)
RespondResumesSilently ==
  /\ res.pc = "handling" /\ res.sig = "live"
  /\ res' = [pc |-> "prep", sig |-> "live"]
  /\ ctl' = "resume"
  /\ inter' = FALSE
  /\ UNCHANGED <<resRest, pump, status>>

RespondResumes ==
  /\ res.pc = "handling" /\ res.sig = "live"
  /\ res' = [pc |-> "prep", sig |-> "live"]
  /\ ctl' = "resume"
  /\ inter' = FALSE /\ status' = "generating"
  /\ UNCHANGED <<resRest, pump>>

(* settleAbortedTurn without a run: idle unless another operation owns the *)
(* controller; then the lane is woken.                                     *)
AbortSettles(interAfter) ==
  LET replaced == ctl = "turn" /\ ~InRun
      s        == IF replaced THEN status ELSE "idle"
  IN  /\ res' = NoResume
      /\ ResLetsGoOfController
      /\ inter' = interAfter
      /\ status' = s
      /\ pump' = Woken(pump, "completed", FALSE, turn.disp, s)
      /\ UNCHANGED resRest

RespondAborted ==
  \/ res.pc = "handling" /\ res.sig # "live" /\ AbortSettles(FALSE)
  \/ res.pc = "orphaned" /\ AbortSettles(inter)

ResumeStreams ==
  /\ res.pc = "prep" /\ res.sig = "live"
  /\ res' = [res EXCEPT !.pc = "stream"]
  /\ ctl' = "resume"
  /\ UNCHANGED <<resRest, pump, status, inter>>

(* A resumed run that completes or aborts wakes the lane. *)
ResumeSettles ==
  /\ \/ res.pc = "stream"
     \/ res.pc = "prep" /\ res.sig # "live"
  /\ res' = NoResume
  /\ ResLetsGoOfController
  /\ status' = "idle"
  /\ pump' = Woken(pump, "completed", FALSE, turn.disp, "idle")
  /\ UNCHANGED <<resRest, inter>>

ResumePauses ==
  /\ Pauses /\ res.pc = "stream"
  /\ res' = NoResume
  /\ ResLetsGoOfController
  /\ inter' = TRUE /\ status' = "generating"
  /\ UNCHANGED <<resRest, pump>>

(* An error ends the resumption in error, a journal error leaves the       *)
(* session idle; neither wakes the lane.                                   *)
ResumeFails ==
  /\ res.pc \in {"prep", "stream"}
  /\ \/ Fails /\ (res.pc = "stream" \/ res.sig = "live") /\ status' = "error"
     \/ Faults /\ status' = "idle"
  /\ res' = NoResume
  /\ ResLetsGoOfController
  /\ UNCHANGED <<resRest, pump, inter>>

-----------------------------------------------------------------------------
(* RunLifecycleCoordinator.cancel.                                         *)

Aborted(sig) == IF sig = "live" THEN "stop" ELSE sig

(* An active generation keeps its controller, anything earlier loses it. *)
StopRunning ==
  /\ InRun \/ res.pc = "stream" \/ ctl # "none"
  /\ LET stopsTurn == InRun \/ (res.pc # "stream" /\ ctl = "turn")
     IN  /\ turn' = IF stopsTurn THEN [turn EXCEPT !.sig = Aborted(@)] ELSE turn
         /\ res' = IF stopsTurn THEN res ELSE [res EXCEPT !.sig = Aborted(@)]
  /\ ctl' = IF InRun \/ res.pc = "stream" THEN ctl ELSE "none"
  /\ UNCHANGED <<rowVars, pumpVars, chatVars, activeSteer, lost, consent>>

(* Nothing is running but a paused message: it is cancelled on the spot. *)
StopPaused ==
  /\ inter /\ ~InRun /\ res.pc # "stream" /\ ctl = "none"
  /\ inter' = FALSE /\ status' = "idle"
  /\ res' = IF res.pc = "handling" THEN [res EXCEPT !.pc = "orphaned"] ELSE res
  /\ pump' = Woken(pump, "completed", FALSE, turn.disp, "idle")
  /\ UNCHANGED <<resRest, ctl>>

=============================================================================
