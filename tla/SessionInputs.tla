----------------------------- MODULE SessionInputs -----------------------------
(***************************************************************************)
(* The whole input side of one DeepChat session: what the user may do with *)
(* the waiting lane (pendingInputAdmissionCoordinator.ts), composed with   *)
(* the pump, the turns and a crash of the process.                         *)
(*                                                                         *)
(* An operation whose only await is sessionState.get is one step.  Two     *)
(* operations await attachment preparation while they own the session's    *)
(* steer lane and are two steps: a steer message with files, and the       *)
(* promotion of a queued row, which also claims the row meanwhile.         *)
(***************************************************************************)
EXTENDS TurnLifecycle

CONSTANT Crashes   \* whether the process may crash and restart

ASSUME CrashesAssumption == Crashes \in BOOLEAN

VARIABLES
  lane,   \* who owns the steer acceptance lane
  boot    \* whether the last start of the harness succeeded

vars == <<rowVars, pumpVars, chatVars, turn, ctl, activeSteer, lost, consent, res,
          lane, boot>>

FreeLane == [kind |-> "free", input |-> NoInput, seen |-> "idle"]

Init ==
  /\ RowsInit /\ PumpInit /\ TurnInit
  /\ lane = FreeLane
  /\ boot = "up"

(* Steps of the pump and of turns leave these alone. *)
admission == <<lane, boot>>

-----------------------------------------------------------------------------
(* Accepting a message: queue() and sendQueuedMessage().                   *)

Executable == \E i \in Ids : IsNextSteer(i) \/ (IsNextQueued(i) /\ i \notin held)

(* PendingInputPump.canDrain: the gate, and no drain or turn under way. *)
CanDrain(s, reason) ==
  CanDrainFromStatus(s, reason) /\ ~asked /\ ~inter /\ pump.lease = "free"

(* Mutant: a row released for an explicit retry no longer counts. *)
ClaimsPastRetry(src) ==
  /\ ~HasBlockingInput /\ ~HasClaimedInput
  /\ \/ src = "send" /\ asked /\ pump.lease = "free"
     \/ /\ CanDrain(SessionStatus, "enqueue")
        /\ IF src = "send" THEN ~Executable ELSE ~HasPendingTurnInput

(* shouldClaimImmediately: an answer to a question, or an idle empty lane. *)
ClaimsImmediately(src) ==
  /\ ~HasBlockingInput /\ ~HasClaimedInput /\ ~HasRetryRequired
  /\ \/ src = "send" /\ asked /\ pump.lease = "free"
     \/ /\ CanDrain(SessionStatus, "enqueue")
        /\ IF src = "send" THEN ~Executable ELSE ~HasPendingTurnInput

StartAcceptedInput(i, src) ==
  /\ ~IsAtCapacity /\ ClaimsImmediately(src)
  /\ \/ CreateQueueInput(i, "claimed") /\ LaunchTurn(i, src)
     \/ CreateQueueInput(i, "retry") /\ LaunchFails(i, src)
  /\ UNCHANGED <<wakers, held, resumed, inter, asked, quiet, activeSteer, lost, res,
                 admission>>

QueueAcceptedInput(i, src) ==
  /\ ~IsAtCapacity /\ ~ClaimsImmediately(src)
  /\ CreateQueueInput(i, "pending")
  /\ consent' = consent \cup {i}
  /\ Wake("enqueue")
  /\ UNCHANGED <<wakers, held, resumed, chatVars, turn, ctl, activeSteer, lost, res,
                 admission>>

-----------------------------------------------------------------------------
(* Accepting a steer message: steerActiveTurn().                           *)

(* getActiveGeneration: the turn's run or the resumed one. *)
ActiveGeneration == InRun \/ res.pc = "stream"

(* The operation that owns the controller has not been stopped. *)
PreStreamOpen ==
  /\ ~ActiveGeneration
  /\ \/ ctl = "turn" /\ turn.sig # "stop"
     \/ ctl = "resume" /\ res.sig # "stop"

(* materializePreStreamSource needs a transcript anchor, and a response    *)
(* that is still being handled has none.                                   *)
HasPreStreamAnchor == ctl = "turn" \/ res.pc = "prep"

(* The user message of steer row i is appended; with it, before the run,   *)
(* the turn's own user message if it is not in the transcript yet, and the *)
(* hand-off signal.                                                        *)
SteerMessageAppended(i) ==
  LET early == PreStreamOpen /\ ctl = "turn"
      makes == early /\ turn.fact = "none"
  IN  /\ turn' = [turn EXCEPT
           !.sig = IF early THEN "handoff" ELSE @,
           !.fact = IF makes THEN "anchor" ELSE @,
           !.answered = IF makes THEN asked ELSE @,
           !.behind = IF (turn.fact # "none" \/ makes) /\ turn.src # "steer"
                         /\ turn.pc # "closing" /\ Unsettled
                      THEN @ \cup {i} ELSE @]
      /\ res' = IF PreStreamOpen /\ ctl = "resume" THEN [res EXCEPT !.sig = "handoff"]
                ELSE res
      /\ asked' = FALSE /\ quiet' = FALSE
      /\ consent' = consent \cup {i}
      /\ UNCHANGED <<status, inter, ctl, lost>>

OpenSteer == activeSteer # NoInput /\ mode[activeSteer] = "steer" /\ st[activeSteer] = "pending"

(* acceptVisibleSteerInput: the message joins the open steer row, if any. *)
AcceptVisibleSteerInput(i) ==
  /\ IF OpenSteer THEN i = activeSteer /\ UNCHANGED rowVars ELSE CreateSteerInput(i)
  /\ activeSteer' = i
  /\ SteerMessageAppended(i)

(* s is the session status the operation saw at its start. *)
AcceptSteer(i, s) ==
  /\ AcceptVisibleSteerInput(i)
  /\ IF ActiveGeneration THEN UNCHANGED pump
     ELSE IF PreStreamOpen THEN HasPreStreamAnchor /\ UNCHANGED pump
     ELSE IF OpenSteer THEN Wake("enqueue")
     ELSE /\ CanDrain(s, "enqueue")
          /\ pump' = Woken(pump, "enqueue", TRUE, turn.disp, status)
  /\ UNCHANGED <<wakers, held, resumed, boot>>

SteerActiveTurn(i) ==
  /\ lane.kind = "free" /\ ~asked /\ ~inter
  /\ AcceptSteer(i, SessionStatus)
  /\ UNCHANGED lane

SteerWithFilesBegins ==
  /\ lane.kind = "free" /\ ~asked /\ ~inter
  /\ lane' = [FreeLane EXCEPT !.kind = "steer", !.seen = SessionStatus]
  /\ UNCHANGED <<rowVars, pumpVars, chatVars, turn, ctl, activeSteer, lost, consent,
                 res, boot>>

SteerWithFilesCommits(i) ==
  /\ lane.kind = "steer"
  /\ AcceptSteer(i, lane.seen)
  /\ lane' = FreeLane

(* Preparation needs the user, fails or is cancelled, or nothing runs that *)
(* the message could steer.                                                *)
SteerWithFilesEnds ==
  /\ lane.kind = "steer"
  /\ lane' = FreeLane
  /\ UNCHANGED <<rowVars, pumpVars, chatVars, turn, ctl, activeSteer, lost, consent,
                 res, boot>>

-----------------------------------------------------------------------------
(* Promoting a queued row to a steer message: steerPendingInput().         *)

PromotionBegins(i) ==
  /\ lane.kind = "free" /\ ~asked /\ ~inter
  /\ mode[i] = "queue" /\ ~HasBlockingInput
  /\ ClaimInput(i)
  /\ lane' = [FreeLane EXCEPT !.kind = "prep", !.input = i]
  /\ UNCHANGED <<pumpVars, chatVars, turn, ctl, activeSteer, lost, consent, res, boot>>

promotionRest == <<pumpVars, chatVars, turn, ctl, activeSteer, lost, consent, res, boot>>

(* The prepared row becomes a steer message.  What runs is told as for a   *)
(* new steer message; otherwise the lane is woken.                         *)
PromotionCommits ==
  /\ lane.kind = "prep"
  /\ PreStreamOpen => HasPreStreamAnchor
  /\ ConvertQueueInputToSteer(lane.input)
  /\ SteerMessageAppended(lane.input)
  /\ held' = held \ {lane.input} /\ resumed' = resumed \ {lane.input}
  /\ pump' = IF ActiveGeneration \/ PreStreamOpen THEN pump
             ELSE Woken(pump, "enqueue", TRUE, turn.disp, status)
  /\ lane' = FreeLane
  /\ UNCHANGED <<wakers, activeSteer, boot>>

(* No transcript boundary to steer at: the row is back in its place. *)
PromotionRejected ==
  /\ lane.kind = "prep" /\ PreStreamOpen /\ ~HasPreStreamAnchor
  /\ RestateInput(lane.input, "pending")
  /\ lane' = FreeLane
  /\ UNCHANGED promotionRest

PromotionNeedsUserAction ==
  /\ lane.kind = "prep"
  /\ RestateInput(lane.input, "blocked")
  /\ lane' = FreeLane
  /\ UNCHANGED promotionRest

PromotionFails ==
  /\ Fails /\ lane.kind = "prep"
  /\ RestateInput(lane.input, "retry")
  /\ lane' = FreeLane
  /\ UNCHANGED promotionRest

-----------------------------------------------------------------------------
(* Working on the waiting lane.                                            *)

laneRest == <<wakers, chatVars, turn, ctl, activeSteer, lost, res, admission>>

(* An edited row waits again, whatever it waited for before. *)
UpdateQueuedInput(i) ==
  /\ IsWaiting(i)
  /\ RestateInput(i, "pending")
  /\ consent' = consent \cup {i}
  /\ Wake("enqueue")
  /\ UNCHANGED <<laneRest, held, resumed>>

MoveQueuedInput(i, to) ==
  /\ MoveQueueInput(i, to)
  /\ UNCHANGED <<laneRest, pump, held, resumed, consent>>

DeletePendingInput(i) ==
  /\ IsWaiting(i)
  /\ ConsumeInput(i)
  /\ held' = held \ {i} /\ resumed' = resumed \ {i}
  /\ Wake("enqueue")
  /\ UNCHANGED <<laneRest, consent>>

(* Retry or send without image content. *)
ResolveBlockedPendingInput(i) ==
  /\ st[i] = "blocked"
  /\ RestateInput(i, "pending")
  /\ consent' = consent \cup {i}
  /\ Wake("enqueue")
  /\ UNCHANGED <<laneRest, held, resumed>>

RetryPendingQueueInput(i) ==
  /\ mode[i] = "queue" /\ st[i] = "retry"
  /\ RestateInput(i, "pending")
  /\ consent' = consent \cup {i}
  /\ pump' = Woken(pump, "manual", TRUE, turn.disp, status)
  /\ UNCHANGED <<laneRest, held, resumed>>

(* releaseRestartHoldForSession: the user resumes the lane held since the  *)
(* restart, from its head on.                                              *)
ResumePendingQueue(i) ==
  LET freed == {j \in held : IsWaiting(j)}
  IN  /\ ~HasBlockingInput /\ ~HasClaimedInput
      /\ CanDrain(SessionStatus, "manual")
      /\ IsNextQueued(i) /\ i \in held
      /\ held' = held \ freed
      /\ resumed' = resumed \cup {i}
      /\ consent' = consent \cup freed
      /\ pump' = Woken(pump, "manual", FALSE, turn.disp, status)
      /\ UNCHANGED <<rowVars, laneRest>>

-----------------------------------------------------------------------------
(* A crash and the next start: recoverInputsAfterRestart().                *)

(* Mutant: recovery takes any claimed row for one with a message. *)
AssumedMaterialized(i) == turn.input = i /\ Unsettled

(* Rows whose user message is in the transcript when the process dies. *)
Materialized(i) ==
  /\ turn.input = i /\ turn.fact # "none" /\ Unsettled
  /\ turn.pc # "rolled"

ReleasedByRestart(i) == mode[i] = "queue" /\ st[i] = "claimed" /\ ~Materialized(i)
ConsumedByRestart(i) ==
  \/ mode[i] = "queue" /\ st[i] = "claimed" /\ Materialized(i)
  \/ mode[i] = "steer" /\ st[i] \in Live

(* Marking the messages of pending steer rows failed throws if one of them *)
(* is gone, and with it the whole recovery.                                *)
RecoveryThrows == \E i \in lost : mode[i] = "steer" /\ st[i] = "pending"

(* Mutant: only the row that was claimed is held after a restart. *)
RecoverHoldingClaimedOnly ==
  /\ st' = [i \in Ids |-> IF ReleasedByRestart(i) THEN "pending"
                          ELSE IF ConsumedByRestart(i) THEN "gone" ELSE st[i]]
  /\ queue' = RemoveFirstMatch(queue, ConsumedByRestart)
  /\ held' = {i \in Ids : ReleasedByRestart(i)}
  /\ lost' = {}
  /\ UNCHANGED mode

RecoverInputsAfterRestart ==
  /\ st' = [i \in Ids |-> IF ReleasedByRestart(i) THEN "pending"
                          ELSE IF ConsumedByRestart(i) THEN "gone" ELSE st[i]]
  /\ queue' = RemoveFirstMatch(queue, ConsumedByRestart)
  /\ held' = {i \in Ids : ReleasedByRestart(i)
                          \/ (IsWaiting(i) /\ st[i] # "retry")}
  /\ lost' = {}
  /\ UNCHANGED mode

(* Memory is gone.  A pending interaction is found again in the            *)
(* transcript, unless its execution cannot be recovered.                   *)
Restart ==
  /\ Crashes
  /\ IF RecoveryThrows
     THEN boot' = "failed" /\ UNCHANGED <<rowVars, held, lost>>
     ELSE boot' = "up" /\ RecoverInputsAfterRestart
  /\ pump' = FreePump /\ wakers' = 0 /\ resumed' = {}
  /\ status' = "idle"
  /\ inter' \in {inter, FALSE}
  /\ turn' = NoTurn /\ res' = NoResume
  /\ ctl' = "none" /\ activeSteer' = NoInput
  /\ lane' = FreeLane
  /\ consent' = {}
  /\ UNCHANGED <<asked, quiet>>

-----------------------------------------------------------------------------
(* The system.                                                             *)

PumpStep ==
  /\ \/ \E i \in Ids : DrainSteerInput(i) \/ DrainQueuedInput(i)
     \/ DrainStartsNothing \/ Finalize \/ ScheduleNextIfReady
  /\ UNCHANGED <<res, admission>>

(* What a turn and a resumption do when nothing goes wrong. *)
TurnProgress ==
  \/ AttachReady \/ AttachNeedsUserAction \/ AppendUserFact
  \/ CreateAssistantMessage \/ RegisterRun \/ CrossPreStreamBoundary
  \/ RunCompletes \/ RunPauses \/ RunAborted \/ TurnAborted

ResumeProgress == RespondAborted \/ ResumeStreams \/ ResumeSettles \/ ResumePauses

TurnStep ==
  /\ TurnProgress \/ RunReturnsError \/ TurnJournalFails \/ TurnFails
  /\ UNCHANGED admission

ResumeStep ==
  /\ ResumeProgress \/ ResumeFails
  /\ UNCHANGED admission

RespondStep ==
  /\ \/ RespondKeepsWaiting \/ RespondAwaitsFollowUp \/ RespondResumes
  /\ UNCHANGED admission

PreparationProgress ==
  \/ \E i \in Ids : SteerWithFilesCommits(i)
  \/ SteerWithFilesEnds \/ PromotionCommits \/ PromotionRejected
  \/ PromotionNeedsUserAction

PreparationStep == PreparationProgress \/ PromotionFails

UserStep ==
  \/ \E i \in Ids, src \in {"send", "queue"} :
       StartAcceptedInput(i, src) \/ QueueAcceptedInput(i, src)
  \/ \E i \in Ids : \/ SteerActiveTurn(i) \/ PromotionBegins(i)
                   \/ UpdateQueuedInput(i) \/ DeletePendingInput(i)
                   \/ ResolveBlockedPendingInput(i) \/ RetryPendingQueueInput(i)
                   \/ ResumePendingQueue(i)
                   \/ \E to \in 1..Len(queue) : MoveQueuedInput(i, to)
  \/ SteerWithFilesBegins
  \/ (RespondBegins \/ StopRunning \/ StopPaused) /\ UNCHANGED admission

(* Between a rollback and its settlement the event loop runs nothing else. *)
Running == boot = "up" /\ turn.pc # "rolled"

Next ==
  \/ Running /\ (PumpStep \/ TurnStep \/ ResumeStep \/ RespondStep
                   \/ PreparationStep \/ UserStep)
  \/ SettleRolledBack /\ UNCHANGED admission
  \/ Restart

Spec == Init /\ [][Next]_vars

(* The event loop runs every promise that has settled, and attachment      *)
(* preparation, providers and interaction handlers end, without the help   *)
(* of a failure.  Nothing obliges the user to act, nor the process to      *)
(* crash.                                                                  *)
Fairness ==
  /\ WF_vars(Running /\ (DrainStartsNothing \/ \E i \in Ids : DrainSteerInput(i)
                                                             \/ DrainQueuedInput(i))
                     /\ UNCHANGED <<res, admission>>)
  /\ WF_vars(Running /\ Finalize /\ UNCHANGED <<res, admission>>)
  /\ WF_vars(Running /\ ScheduleNextIfReady /\ UNCHANGED <<res, admission>>)
  /\ WF_vars(Running /\ TurnProgress /\ UNCHANGED admission)
  /\ WF_vars(Running /\ (RespondStep \/ (ResumeProgress /\ UNCHANGED admission)))
  /\ WF_vars(Running /\ PreparationProgress)
  /\ WF_vars(SettleRolledBack /\ UNCHANGED admission)

FairSpec == Spec /\ Fairness

-----------------------------------------------------------------------------
(* Types.                                                                  *)

TurnPcs == {"off", "attach", "context", "answer", "entering", "registered", "stream",
            "rolled", "closing"}
Signals == {"live", "stop", "handoff"}
Statuses == {"idle", "generating", "error"}

Turns == [pc : TurnPcs, input : Ids \cup {NoInput}, src : {"send", "queue", "steer"},
          disp : {"none", "consumed", "blocked", "released"}, sig : Signals,
          fact : {"none", "anchor", "seen"}, behind : SUBSET Ids,
          answered : BOOLEAN, early : BOOLEAN, after : {"idle", "error"}]
Pumps == [lease : {"free", "drain", "turn"}, reason : Reasons, again : BOOLEAN,
          deferred : Reasons \cup {"none"}]
Lanes == [kind : {"free", "steer"}, input : {NoInput}, seen : Statuses]
           \cup [kind : {"prep"}, input : Ids, seen : Statuses]

(* Every variable stays in its type: the rows of the waiting lane, the     *)
(* pump's memory, the session's status flags and the operations under way. *)
TypeOK ==
  /\ st \in [Ids -> RowStates]
  /\ mode \in [Ids -> {"queue", "steer"}]
  /\ pump \in Pumps
  /\ wakers \in 0..MaxWakers
  /\ held \subseteq Ids /\ resumed \subseteq Ids
  /\ status \in Statuses
  /\ inter \in BOOLEAN /\ asked \in BOOLEAN /\ quiet \in BOOLEAN
  /\ turn \in Turns
  /\ ctl \in {"none", "turn", "resume"}
  /\ activeSteer \in Ids \cup {NoInput}
  /\ lost \subseteq Ids /\ consent \subseteq Ids
  /\ res \in [pc : {"off", "handling", "orphaned", "prep", "stream"}, sig : Signals]
  /\ lane \in Lanes
  /\ boot \in {"up", "failed"}

-----------------------------------------------------------------------------
(* Safety.                                                                 *)

(* No row is sent behind the user's back: a row the pump may launch was    *)
(* queued, steered, edited, retried or resumed by the user since it was    *)
(* last launched, whatever failures, stops, releases and restarts came in  *)
(* between.  (The retry_required state and the restart hold.)              *)
Consent ==
  boot = "up" =>
    \A i \in Ids : st[i] = "pending" /\ (mode[i] = "steer" \/ i \notin held) => i \in consent

TurnOwns(i) == turn.pc # "off" /\ Unsettled /\ turn.input = i
LaneOwns(i) == lane.kind = "prep" /\ lane.input = i

(* A claim in the database belongs to exactly one operation in memory: the *)
(* turn that has not settled it or the promotion that prepares it.  An     *)
(* ownerless claim would close the drain gate until the next start.        *)
ClaimOwnership ==
  boot = "up" =>
    /\ \A i \in Ids : (st[i] = "claimed") <=> (TurnOwns(i) \/ LaneOwns(i))
    /\ \A i \in Ids : ~(TurnOwns(i) /\ LaneOwns(i))

(* queue_order and the rows agree through every claim, conversion, move,   *)
(* deletion and recovery: each live queue row has one place.               *)
QueueMatchesRows ==
  /\ queue \in Seq(Ids)
  /\ \A m, n \in DOMAIN queue : queue[m] = queue[n] => m = n
  /\ \A i \in Ids : (\E n \in DOMAIN queue : queue[n] = i)
                      <=> (mode[i] = "queue" /\ st[i] \in Live)

(* A deferred wake-up is never orphaned: as long as one is remembered, a   *)
(* launched turn that settled its claim holds the lease and will replay it.*)
DeferredHasOwner == pump.deferred # "none" => pump.lease = "turn" /\ ~Unsettled

(* The session never shows 'generating' for ever: some operation under way *)
(* or an interaction the user can answer is behind it.                     *)
GeneratingHasOwner ==
  boot = "up" /\ status = "generating" =>
    inter \/ res.pc # "off" \/ turn.pc \notin {"off", "closing"}

(* A turn and the resumption of a paused message are never under way in    *)
(* one session at once, from the launch of the turn to its end, whatever   *)
(* the order of answers, stops and wake-ups.                               *)
OneGeneration == ~(turn.pc \notin {"off", "closing"} /\ res.pc \in {"prep", "stream"})

(* A steer message that takes over from a turn which has not streamed yet  *)
(* leaves that turn's own user message in the transcript, unread by any    *)
(* run but in its place.                                                   *)
HandoffKeepsMessage == turn.sig = "handoff" => turn.fact # "none"

(* An accepted steer row waits with its user message in the transcript:    *)
(* claiming the row and recovering it after a restart both throw when the  *)
(* message is gone.                                                        *)
SteerKeepsItsMessage ==
  \A i \in Ids : st[i] = "pending" /\ mode[i] = "steer" => i \notin lost

(* The head of a queue the user resumed after a restart is spent before    *)
(* the provider sees it: whatever the run returns, it does not come back.  *)
ResumedHeadIsSpent ==
  \A i \in resumed : turn.pc = "stream" /\ turn.input = i => st[i] = "gone"

(* Rows, status, transcript and operations under way agree, in every state.*)
Consistent ==
  /\ TypeOK /\ QueueMatchesRows
  /\ GeneratingHasOwner /\ ResumedHeadIsSpent /\ HandoffKeepsMessage

-----------------------------------------------------------------------------
(* Action properties.                                                      *)

Started == turn.pc = "off" /\ turn'.pc # "off"

(* A queued row, or a new message, never starts a turn in front of a       *)
(* waiting steer message.  Only the answer to a question does.             *)
SteerFirst ==
  [][Started /\ ~asked /\ mode'[turn'.input] = "queue" => \A i \in Ids : ~IsNextSteer(i)]_vars

Before(q, j, i) == \E m, n \in DOMAIN q : m < n /\ q[m] = j /\ q[n] = i

(* Queue rows are sent in queue order: a row starts only when every row in *)
(* front of it is held since the restart or waits behind one that is.  The *)
(* answer to a question goes first, and so may a new message while the     *)
(* lane is held.                                                           *)
NoOvertaking ==
  [][Started /\ ~asked /\ st'[turn'.input] = "claimed" /\ mode'[turn'.input] = "queue" =>
       \A j \in Ids : Before(queue', j, turn'.input) =>
         j \in held \/ \E k \in held : Before(queue', k, j)]_vars

(* Steer messages go first, and queue rows in queue order.                 *)
StartsInOrder == SteerFirst /\ NoOvertaking

(* No message vanishes: a claimed queue row leaves the lane only when its  *)
(* own turn put its user message into the transcript and kept it there,    *)
(* and a restart keeps it in the lane otherwise.                           *)
NothingVanishes ==
  [][\A i \in Ids :
       mode[i] = "queue" /\ st[i] = "claimed" /\ st'[i] = "gone" =>
         turn.input = i /\ turn.fact # "none" /\ turn'.pc # "rolled"]_vars

-----------------------------------------------------------------------------
(* What the lane promises for each message, and how its rows keep it.      *)

Withheld(i) ==
  /\ st[i] \in Live /\ ~TurnOwns(i)
  /\ \/ boot = "failed"
     \/ st[i] \in {"blocked", "retry"}
     \/ st[i] = "pending" /\ mode[i] = "queue" /\ i \in held

Phase(i) ==
  CASE st[i] = "unused" -> "new"
    [] st[i] = "gone"   -> "over"
    [] TurnOwns(i)      -> "running"
    [] Withheld(i)      -> "withheld"
    [] OTHER            -> "waiting"

Phases == [i \in Ids |-> Phase(i)]

Delivery == INSTANCE MessageDelivery WITH phase <- Phases, kind <- mode, question <- asked

(* Every step of the lane, its turns, the user and a crash is a step of    *)
(* MessageDelivery or changes nothing a message can see.                   *)
DeliveryPromise == Delivery!Spec

-----------------------------------------------------------------------------
(* Liveness, under FairSpec.                                               *)

(* Every claim is settled: no path through preparation, stop, hand-off,    *)
(* pause, failure or restart leaves a row claimed, unless the harness can  *)
(* no longer start.                                                        *)
ClaimsSettle ==
  \A i \in Ids : []<>(st[i] # "claimed" \/ boot = "failed")

(* The session stops generating or asks the user something, whichever way  *)
(* the turn, the response or the resumed run ends.                         *)
GenerationEnds == []<>(status # "generating" \/ inter)

(* Whatever the session began comes to an end: claims and generations.     *)
OperationsEnd == ClaimsSettle /\ GenerationEnds

(* What the drain gate leaves to the user: an interaction, a question, a   *)
(* failed turn, a row that needs a decision.                               *)
NeedsUser == inter \/ asked \/ status = "error" \/ HasBlockingInput \/ HasRetryRequired

(* The row a drain would start. *)
NextInLine(i) ==
  \/ IsNextSteer(i) /\ i \notin lost
  \/ (\A j \in Ids : ~IsNextSteer(j)) /\ IsNextQueued(i) /\ i \notin held

(* No wake-up is lost: the row that is next in line starts, unless the     *)
(* user takes its place or the session waits for the user.  It holds of    *)
(* sessions without interactions, for the answer to one need not wake the  *)
(* lane (SteerDrains), and of lanes without rows held since a restart, for *)
(* a row that the user moves in front of them is not scheduled.            *)
NextIsServed ==
  [](~inter) => \A i \in Ids :
    []<>(~NextInLine(i) \/ NeedsUser \/ held # {} \/ boot = "failed")

(* Documented, and not what the code does: a waiting steer message goes on *)
(* after the interaction that held it back is answered, after a turn that  *)
(* ends in error and after Stop, unless an interaction, a question or      *)
(* another row that the user is working on blocks it.                      *)
SteerDrains ==
  \A i \in Ids :
    IsNextSteer(i) /\ (res.pc # "off" \/ status = "error" \/ turn.sig = "stop")
      ~> ~IsNextSteer(i) \/ inter \/ asked \/ HasBlockingInput \/ lane.kind = "prep"

=============================================================================
