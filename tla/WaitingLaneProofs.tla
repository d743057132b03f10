--------------------------- MODULE WaitingLaneProofs ---------------------------
(***************************************************************************)
(* The waiting lane for any number of rows and any capacity: claims have   *)
(* owners and nothing is sent without consent; the rows and their order    *)
(* agree with turns, responses and status; a step writes the rows as one   *)
(* transaction of the store does; turns start in order; no message         *)
(* vanishes, and the lane keeps what MessageDelivery promises for each.    *)
(* Below the rows, the table: its queue_order column is always the slots   *)
(* 1, 2, ... and keeps what PendingInputRows says of the sequence.         *)
(***************************************************************************)
EXTENDS SessionInputs, PendingInputStore, FiniteSetTheorems, SequenceTheorems,
        WellFoundedInduction, TLAPS

-----------------------------------------------------------------------------
(* Types of the values the actions are built from.                         *)

LEMMA WokenType ==
  ASSUME NEW p \in Pumps, NEW reason \in Reasons, NEW again \in BOOLEAN,
         NEW disp, NEW s
  PROVE  Woken(p, reason, again, disp, s) \in Pumps
<1>1. MostUrgent(p.deferred, reason) \in Reasons \cup {"none"}
  BY DEF MostUrgent, Pumps
<1>2. CASE p.lease = "free"
  BY <1>2 DEF Woken, Pumps
<1>3. CASE p.lease # "free" /\ p.lease = "turn" /\ disp # "none"
           /\ CanDrainFromStatus(s, reason)
  BY <1>1, <1>3 DEF Woken, Pumps
<1>4. CASE p.lease # "free" /\ ~(p.lease = "turn" /\ disp # "none"
           /\ CanDrainFromStatus(s, reason))
  BY <1>4 DEF Woken, Pumps
<1>. QED
  BY <1>2, <1>3, <1>4

LEMMA ReleasedType ==
  ASSUME NEW p \in Pumps
  PROVE  Released(p) \in Pumps
BY DEF Released, Pumps, Reasons

LEMMA FlushedType ==
  ASSUME NEW p \in Pumps
  PROVE  Flushed(p) \in Pumps
<1>1. [p EXCEPT !.deferred = "none"] \in Pumps
  BY DEF Pumps
<1>2. p.deferred # "none" => p.deferred \in Reasons
  BY DEF Pumps
<1>. QED
  BY <1>1, <1>2, WokenType DEF Flushed

LEMMA BegunType ==
  ASSUME NEW i \in Ids, NEW src \in {"send", "queue", "steer"}
  PROVE  Begun(i, src) \in Turns
BY DEF Begun, NoTurn, Turns, TurnPcs, Signals

LEMMA NoTurnType == NoTurn \in Turns
BY DEF NoTurn, Turns, TurnPcs, Signals

-----------------------------------------------------------------------------
(* Type correctness.                                                       *)

LEMMA LaunchType ==
  ASSUME TypeOK, NEW i \in Ids, NEW src \in {"send", "queue", "steer"},
         LaunchTurn(i, src) \/ LaunchFails(i, src)
  PROVE  /\ turn' \in Turns /\ pump' \in Pumps /\ status' \in Statuses
         /\ ctl' \in {"none", "turn", "resume"} /\ consent' \subseteq Ids
<1>. DEFINE d == IF src = "steer" THEN "consumed" ELSE "released"
<1>3. ASSUME NEW t \in Turns
      PROVE  [t EXCEPT !.pc = "closing", !.disp = d] \in Turns
  BY DEF Turns, TurnPcs
<1>4. [Begun(i, src) EXCEPT !.pc = "closing", !.disp = d] \in Turns
  BY <1>3, BegunType
<1>1. turn' \in Turns
  BY <1>4, BegunType DEF LaunchTurn, LaunchFails
<1>2. pump' \in Pumps
  BY DEF LaunchTurn, LaunchFails, Pumps, Reasons, TypeOK
<1>. QED
  BY <1>1, <1>2 DEF LaunchTurn, LaunchFails, TypeOK, Statuses

LEMMA PumpStepType == TypeOK /\ PumpStep => TypeOK'
<1>. SUFFICES ASSUME TypeOK, PumpStep PROVE TypeOK'
  OBVIOUS
<1>. USE DEF rowVars, chatVars, admission, pumpVars, ClaimInput, RestateInput, RowStates,
             ForgetActiveSteer
<1>1. ASSUME NEW i \in Ids, DrainSteerInput(i) PROVE TypeOK'
  BY <1>1, LaunchType DEF DrainSteerInput, TypeOK, PumpStep
<1>2. ASSUME NEW i \in Ids, DrainQueuedInput(i) PROVE TypeOK'
  BY <1>2, LaunchType DEF DrainQueuedInput, TypeOK, PumpStep
<1>3. ASSUME DrainStartsNothing PROVE TypeOK'
  <2>1. Flushed(Released(pump)) \in Pumps
    BY ReleasedType, FlushedType DEF TypeOK
  <2>2. pump' \in Pumps
    BY <1>3, <2>1, WokenType DEF DrainStartsNothing, Reasons
  <2>. QED
    BY <1>3, <2>2 DEF DrainStartsNothing, TypeOK, PumpStep
<1>4. ASSUME Finalize PROVE TypeOK'
  <2>1. pump' \in Pumps
    BY <1>4, ReleasedType, FlushedType DEF Finalize, TypeOK
  <2>2. wakers' \in 0..MaxWakers
    BY <1>4, MaxWakersAssumption DEF Finalize, TypeOK
  <2>. QED
    BY <1>4, <2>1, <2>2, NoTurnType DEF Finalize, TypeOK, PumpStep
<1>5. ASSUME ScheduleNextIfReady PROVE TypeOK'
  <2>1. Woken(pump, "completed", FALSE, turn.disp, status) \in Pumps
    BY WokenType DEF TypeOK, Reasons
  <2>3. pump' \in Pumps
    BY <1>5, <2>1 DEF ScheduleNextIfReady, Wake, TypeOK
  <2>2. wakers' \in 0..MaxWakers
    BY <1>5, MaxWakersAssumption DEF ScheduleNextIfReady, TypeOK
  <2>. QED
    BY <1>5, <2>2, <2>3 DEF ScheduleNextIfReady, TypeOK, PumpStep
<1>. QED
  BY <1>1, <1>2, <1>3, <1>4, <1>5 DEF PumpStep

(* What an operation on the turn may change, and what it leaves alone. *)
TurnPart ==
  /\ st \in [Ids -> RowStates] /\ mode \in [Ids -> {"queue", "steer"}]
  /\ turn \in Turns /\ status \in Statuses /\ ctl \in {"none", "turn", "resume"}
  /\ asked \in BOOLEAN /\ quiet \in BOOLEAN /\ lost \subseteq Ids

LEMMA TurnClosesType ==
  ASSUME TypeOK, NEW s \in Statuses,
         NEW disp \in {"consumed", "blocked", "released"}, TurnCloses(disp, s)
  PROVE  turn' \in Turns /\ status' \in Statuses /\ ctl' \in {"none", "turn", "resume"}
BY DEF TurnCloses, NoTurn, Turns, TurnPcs, Signals, TypeOK

LEMMA TurnConsumesType ==
  ASSUME TypeOK, NEW s \in Statuses, TurnConsumes(s)
  PROVE  TurnPart'
<1>1. turn' \in Turns /\ status' \in Statuses /\ ctl' \in {"none", "turn", "resume"}
  BY TurnClosesType DEF TurnConsumes
<1>. QED
  BY <1>1 DEF TurnConsumes, ConsumeInput, rowVars, TypeOK, RowStates, TurnPart

LEMMA TurnReleasesType ==
  ASSUME TypeOK, NEW s \in Statuses, TurnReleasesForRetry(s)
  PROVE  TurnPart'
<1>1. turn' \in Turns /\ status' \in Statuses /\ ctl' \in {"none", "turn", "resume"}
  BY TurnClosesType DEF TurnReleasesForRetry
<1>. QED
  BY <1>1 DEF TurnReleasesForRetry, RestateInput, TypeOK, RowStates, TurnPart

LEMMA TurnRollsBackType ==
  ASSUME TypeOK, NEW s \in {"idle", "error"}, TurnRollsBack(s)
  PROVE  TurnPart'
<1>1. turn' \in Turns
  BY DEF TurnRollsBack, Turns, TurnPcs, TypeOK
<1>2. turn.answered \in BOOLEAN /\ turn.behind \subseteq Ids
  BY DEF Turns, TypeOK
<1>. QED
  BY <1>1, <1>2 DEF TurnRollsBack, rowVars, TypeOK, TurnPart

LEMMA TurnStepType == TypeOK /\ TurnStep => TypeOK'
<1>. SUFFICES ASSUME TypeOK, TurnStep PROVE TypeOK'
  OBVIOUS
<1>. USE DEF rowVars, chatVars, admission, pumpVars, turnRest
<1>0. "idle" \in Statuses /\ "error" \in Statuses /\ "generating" \in Statuses
  BY DEF Statuses
<1>1. ASSUME AttachReady PROVE TypeOK'
  <2>1. turn' \in Turns
    BY <1>1 DEF AttachReady, Turns, TurnPcs, TypeOK
  <2>. QED
    BY <1>1, <2>1 DEF AttachReady, TypeOK, TurnStep
<1>2. ASSUME AttachNeedsUserAction PROVE TypeOK'
  BY <1>0, <1>2, TurnClosesType
  DEF AttachNeedsUserAction, RestateInput, RowStates, TypeOK, TurnStep
<1>3. ASSUME AppendUserFact PROVE TypeOK'
  <2>1. [turn EXCEPT !.pc = "answer", !.fact = "seen"] \in Turns
    BY DEF Turns, TurnPcs, TypeOK
  <2>2. [turn EXCEPT !.pc = "answer", !.fact = "seen", !.answered = asked] \in Turns
    BY DEF Turns, TurnPcs, TypeOK
  <2>3. turn' \in Turns /\ asked' \in BOOLEAN /\ quiet' \in BOOLEAN
    BY <1>3, <2>1, <2>2 DEF AppendUserFact, TypeOK
  <2>. QED
    BY <1>3, <2>3 DEF AppendUserFact, TypeOK, TurnStep
<1>4. ASSUME CreateAssistantMessage PROVE TypeOK'
  <2>4. [turn EXCEPT !.pc = "entering", !.disp = "consumed", !.behind = {}] \in Turns
    BY DEF Turns, TurnPcs, TypeOK
  <2>5. [turn EXCEPT !.pc = "entering"] \in Turns
    BY DEF Turns, TurnPcs, TypeOK
  <2>1. turn' \in Turns
    BY <1>4, <2>4, <2>5 DEF CreateAssistantMessage
  <2>2. st' \in [Ids -> RowStates] /\ mode' = mode
    BY <1>4 DEF CreateAssistantMessage, ConsumeInput, RowStates, TypeOK
  <2>3. quiet' \in BOOLEAN
    BY <1>4 DEF CreateAssistantMessage, TypeOK
  <2>. QED
    BY <1>4, <2>1, <2>2, <2>3 DEF CreateAssistantMessage, TypeOK, TurnStep
<1>5. ASSUME RegisterRun PROVE TypeOK'
  <2>1. turn' \in Turns
    BY <1>5 DEF RegisterRun, Turns, TurnPcs, TypeOK
  <2>. QED
    BY <1>5, <2>1 DEF RegisterRun, TypeOK, TurnStep
<1>6. ASSUME CrossPreStreamBoundary PROVE TypeOK'
  <2>4. [turn EXCEPT !.pc = "stream", !.disp = "consumed", !.behind = {}] \in Turns
    BY DEF Turns, TurnPcs, TypeOK
  <2>5. [turn EXCEPT !.pc = "stream"] \in Turns
    BY DEF Turns, TurnPcs, TypeOK
  <2>1. turn' \in Turns
    BY <1>6, <2>4, <2>5 DEF CrossPreStreamBoundary
  <2>2. st' \in [Ids -> RowStates] /\ mode' = mode
    BY <1>6 DEF CrossPreStreamBoundary, ConsumeInput, RowStates, TypeOK
  <2>. QED
    BY <1>6, <2>1, <2>2 DEF CrossPreStreamBoundary, TypeOK, TurnStep
<1>7. ASSUME RunCompletes \/ RunPauses \/ RunAborted PROVE TypeOK'
  BY <1>0, <1>7, TurnConsumesType
  DEF RunCompletes, RunPauses, RunAborted, TurnPart, TypeOK, TurnStep
<1>8. ASSUME RunReturnsError \/ TurnJournalFails \/ TurnAborted \/ TurnFails PROVE TypeOK'
  <2>1. \E s \in {"idle", "error"} :
          TurnConsumes(s) \/ TurnReleasesForRetry(s) \/ TurnRollsBack(s)
    BY <1>8 DEF RunReturnsError, TurnJournalFails, TurnAborted, TurnFails
  <2>2. TurnPart'
    BY <1>0, <2>1, TurnConsumesType, TurnReleasesType, TurnRollsBackType
  <2>. QED
    BY <1>8, <2>2 DEF RunReturnsError, TurnJournalFails, TurnAborted, TurnFails, TurnPart,
                      TypeOK, TurnStep
<1>. QED
  BY <1>1, <1>2, <1>3, <1>4, <1>5, <1>6, <1>7, <1>8 DEF TurnStep, TurnProgress

LEMMA SettleRolledBackType ==
  TypeOK /\ SettleRolledBack /\ UNCHANGED admission => TypeOK'
<1>. SUFFICES ASSUME TypeOK, SettleRolledBack, UNCHANGED admission PROVE TypeOK'
  OBVIOUS
<1>1. turn.after \in Statuses
  BY DEF TypeOK, Turns, Statuses
<1>2. TurnPart'
  BY <1>1, TurnReleasesType DEF SettleRolledBack
<1>. QED
  BY <1>2 DEF SettleRolledBack, turnRest, pumpVars, admission, TurnPart, TypeOK

(* The variable res keeps its type through an EXCEPT on either field. *)
Responses == [pc : {"off", "handling", "orphaned", "prep", "stream"}, sig : Signals]

LEMMA WakeType ==
  ASSUME TypeOK, NEW reason \in Reasons, NEW again \in BOOLEAN, NEW disp, NEW s
  PROVE  Woken(pump, reason, again, disp, s) \in Pumps
BY WokenType DEF TypeOK

LEMMA ResumeStepType == TypeOK /\ ResumeStep => TypeOK'
<1>. SUFFICES ASSUME TypeOK, ResumeStep PROVE TypeOK'
  OBVIOUS
<1>. USE DEF rowVars, chatVars, admission, pumpVars, resRest, ResLetsGoOfController
<1>1. NoResume \in Responses /\ "idle" \in Statuses /\ "error" \in Statuses
      /\ "generating" \in Statuses /\ "completed" \in Reasons
  BY DEF NoResume, Responses, Signals, Statuses, Reasons
<1>2. [res EXCEPT !.pc = "stream"] \in Responses
  BY DEF TypeOK, Responses
<1>3. ASSUME NEW b \in BOOLEAN, AbortSettles(b) PROVE TypeOK'
  <2>1. \E s \in Statuses : status' = s /\ pump' = Woken(pump, "completed", FALSE, turn.disp, s)
    BY <1>1, <1>3 DEF AbortSettles, TypeOK
  <2>2. pump' \in Pumps /\ status' \in Statuses
    BY <1>1, <2>1, WakeType
  <2>. QED
    BY <1>1, <1>3, <2>2 DEF AbortSettles, TypeOK, ResumeStep, Responses
<1>4. ASSUME RespondAborted PROVE TypeOK'
  BY <1>3, <1>4 DEF RespondAborted, TypeOK
<1>5. ASSUME ResumeStreams PROVE TypeOK'
  BY <1>2, <1>5 DEF ResumeStreams, TypeOK, ResumeStep, Responses
<1>6. ASSUME ResumeSettles PROVE TypeOK'
  <2>1. pump' \in Pumps
    BY <1>1, <1>6, WakeType DEF ResumeSettles
  <2>. QED
    BY <1>1, <1>6, <2>1 DEF ResumeSettles, TypeOK, ResumeStep, Responses
<1>7. ASSUME ResumePauses PROVE TypeOK'
  BY <1>1, <1>7 DEF ResumePauses, TypeOK, ResumeStep, Responses
<1>8. ASSUME ResumeFails PROVE TypeOK'
  BY <1>1, <1>8 DEF ResumeFails, TypeOK, ResumeStep, Responses
<1>. QED
  BY <1>4, <1>5, <1>6, <1>7, <1>8 DEF ResumeStep, ResumeProgress

LEMMA RespondStepType == TypeOK /\ RespondStep => TypeOK'
<1>. SUFFICES ASSUME TypeOK, RespondStep PROVE TypeOK'
  OBVIOUS
<1>1. NoResume \in Responses /\ [pc |-> "prep", sig |-> "live"] \in Responses
      /\ "idle" \in Statuses /\ "generating" \in Statuses
  BY DEF NoResume, Responses, Signals, Statuses
<1>. QED
  BY <1>1 DEF RespondStep, RespondKeepsWaiting, RespondAwaitsFollowUp, RespondResumes,
              rowVars, admission, pumpVars, resRest, ResLetsGoOfController, TypeOK, Responses

LEMMA SteerMessageType ==
  ASSUME TypeOK, NEW i \in Ids, SteerMessageAppended(i)
  PROVE  /\ turn' \in Turns /\ res' \in Responses /\ asked' \in BOOLEAN
         /\ quiet' \in BOOLEAN /\ consent' \subseteq Ids
         /\ status' = status /\ inter' = inter /\ ctl' = ctl /\ lost' = lost
<1>1. ASSUME NEW s \in Signals, NEW f \in {"none", "anchor", "seen"},
             NEW a \in BOOLEAN, NEW b \in SUBSET Ids
      PROVE  [turn EXCEPT !.sig = s, !.fact = f, !.answered = a, !.behind = b] \in Turns
  BY <1>1 DEF TypeOK, Turns
<1>2. /\ turn.sig \in Signals /\ "handoff" \in Signals /\ asked \in BOOLEAN
      /\ turn.fact \in {"none", "anchor", "seen"} /\ turn.answered \in BOOLEAN
      /\ turn.behind \in SUBSET Ids /\ turn.behind \cup {i} \in SUBSET Ids
  BY DEF TypeOK, Turns, Signals
<1>3. turn' \in Turns
  <2>. DEFINE early == PreStreamOpen /\ ctl = "turn"
              makes == early /\ turn.fact = "none"
              sig1 == IF early THEN "handoff" ELSE turn.sig
              fact1 == IF makes THEN "anchor" ELSE turn.fact
              answered1 == IF makes THEN asked ELSE turn.answered
              behind1 == IF (turn.fact # "none" \/ makes) /\ turn.src # "steer"
                            /\ turn.pc # "closing" /\ Unsettled
                         THEN turn.behind \cup {i} ELSE turn.behind
  <2>1. /\ sig1 \in Signals /\ fact1 \in {"none", "anchor", "seen"}
        /\ answered1 \in BOOLEAN /\ behind1 \in SUBSET Ids
    BY <1>2
  <2>2. turn' = [turn EXCEPT !.sig = sig1, !.fact = fact1, !.answered = answered1,
                             !.behind = behind1]
    BY DEF SteerMessageAppended
  <2>. HIDE DEF sig1, fact1, answered1, behind1
  <2>. QED
    BY <1>1, <2>1, <2>2
<1>4. [res EXCEPT !.sig = "handoff"] \in Responses
  BY <1>2 DEF TypeOK, Responses
<1>. QED
  BY <1>3, <1>4 DEF SteerMessageAppended, TypeOK, Responses

LEMMA AcceptSteerType ==
  ASSUME TypeOK, NEW i \in Ids, NEW s, AcceptSteer(i, s)
  PROVE  /\ st' \in [Ids -> RowStates] /\ mode' \in [Ids -> {"queue", "steer"}]
         /\ pump' \in Pumps /\ turn' \in Turns /\ res' \in Responses
         /\ asked' \in BOOLEAN /\ quiet' \in BOOLEAN /\ consent' \subseteq Ids
         /\ activeSteer' \in Ids
         /\ UNCHANGED <<wakers, held, resumed, boot, status, inter, ctl, lost>>
<1>1. st' \in [Ids -> RowStates] /\ mode' \in [Ids -> {"queue", "steer"}]
  BY DEF AcceptSteer, AcceptVisibleSteerInput, CreateSteerInput, rowVars, RowStates, TypeOK
<1>2. pump' \in Pumps
  <2>1. "enqueue" \in Reasons
    BY DEF Reasons
  <2>2. /\ Woken(pump, "enqueue", FALSE, turn.disp, status) \in Pumps
        /\ Woken(pump, "enqueue", TRUE, turn.disp, status) \in Pumps
    BY <2>1, WakeType
  <2>. QED
    BY <2>2 DEF AcceptSteer, Wake, TypeOK
<1>3. SteerMessageAppended(i) /\ activeSteer' = i
  BY DEF AcceptSteer, AcceptVisibleSteerInput
<1>. QED
  BY <1>1, <1>2, <1>3, SteerMessageType DEF AcceptSteer

LEMMA PreparationStepType == TypeOK /\ PreparationStep => TypeOK'
<1>. SUFFICES ASSUME TypeOK, PreparationStep PROVE TypeOK'
  OBVIOUS
<1>. USE DEF rowVars, chatVars, pumpVars, promotionRest
<1>1. FreeLane \in Lanes
  BY DEF FreeLane, Lanes, Statuses
<1>2. ASSUME NEW i \in Ids, SteerWithFilesCommits(i) PROVE TypeOK'
  BY <1>1, <1>2, AcceptSteerType DEF SteerWithFilesCommits, TypeOK, Responses
<1>3. ASSUME SteerWithFilesEnds PROVE TypeOK'
  BY <1>1, <1>3 DEF SteerWithFilesEnds, TypeOK
<1>4. ASSUME PromotionRejected \/ PromotionNeedsUserAction \/ PromotionFails PROVE TypeOK'
  <2>1. st' \in [Ids -> RowStates] /\ UNCHANGED <<mode, promotionRest>> /\ lane' = FreeLane
    BY <1>4 DEF PromotionRejected, PromotionNeedsUserAction, PromotionFails, RestateInput,
                RowStates, TypeOK
  <2>. QED
    BY <1>1, <2>1 DEF TypeOK
<1>5. ASSUME PromotionCommits PROVE TypeOK'
  <2>5. lane.input \in Ids
    BY <1>5 DEF PromotionCommits, TypeOK, Lanes
  <2>1. /\ turn' \in Turns /\ res' \in Responses /\ asked' \in BOOLEAN
        /\ quiet' \in BOOLEAN /\ consent' \subseteq Ids
        /\ status' = status /\ inter' = inter /\ ctl' = ctl /\ lost' = lost
    BY <1>5, <2>5, SteerMessageType DEF PromotionCommits
  <2>2. Woken(pump, "enqueue", TRUE, turn.disp, status) \in Pumps
    BY WakeType DEF Reasons
  <2>3. pump' \in Pumps
    BY <1>5, <2>2 DEF PromotionCommits, TypeOK
  <2>4. st' \in [Ids -> RowStates] /\ mode' \in [Ids -> {"queue", "steer"}]
    BY <1>5 DEF PromotionCommits, ConvertQueueInputToSteer, RowStates, TypeOK
  <2>. QED
    BY <1>1, <1>5, <2>1, <2>3, <2>4 DEF PromotionCommits, TypeOK, Responses
<1>. QED
  BY <1>2, <1>3, <1>4, <1>5 DEF PreparationStep, PreparationProgress

LEMMA UserStepType == TypeOK /\ UserStep => TypeOK'
<1>. SUFFICES ASSUME TypeOK, UserStep PROVE TypeOK'
  OBVIOUS
<1>. USE DEF rowVars, chatVars, pumpVars, admission, laneRest
<1>1. /\ "enqueue" \in Reasons /\ "manual" \in Reasons /\ "completed" \in Reasons
      /\ "idle" \in Statuses
  BY DEF Reasons, Statuses
<1>2. /\ Woken(pump, "enqueue", FALSE, turn.disp, status) \in Pumps
      /\ Woken(pump, "manual", FALSE, turn.disp, status) \in Pumps
      /\ Woken(pump, "manual", TRUE, turn.disp, status) \in Pumps
      /\ Woken(pump, "completed", FALSE, turn.disp, "idle") \in Pumps
  BY <1>1, WakeType
<1>3. ASSUME NEW i \in Ids, NEW src \in {"send", "queue"}, StartAcceptedInput(i, src)
      PROVE  TypeOK'
  <2>1. LaunchTurn(i, src) \/ LaunchFails(i, src)
    BY <1>3 DEF StartAcceptedInput
  <2>2. st' \in [Ids -> RowStates] /\ mode' \in [Ids -> {"queue", "steer"}]
    BY <1>3 DEF StartAcceptedInput, CreateQueueInput, RowStates, TypeOK
  <2>. QED
    BY <1>3, <2>1, <2>2, LaunchType DEF StartAcceptedInput, TypeOK
<1>4. ASSUME NEW i \in Ids, NEW src \in {"send", "queue"}, QueueAcceptedInput(i, src)
      PROVE  TypeOK'
  BY <1>2, <1>4 DEF QueueAcceptedInput, CreateQueueInput, Wake, RowStates, TypeOK
<1>5. ASSUME NEW i \in Ids, SteerActiveTurn(i) PROVE TypeOK'
  BY <1>5, AcceptSteerType DEF SteerActiveTurn, TypeOK, Responses
<1>6. ASSUME NEW i \in Ids, PromotionBegins(i) PROVE TypeOK'
  <2>1. lane' \in Lanes
    BY <1>6 DEF PromotionBegins, FreeLane, Lanes, Statuses
  <2>. QED
    BY <1>6, <2>1 DEF PromotionBegins, ClaimInput, RowStates, TypeOK
<1>7. ASSUME NEW i \in Ids,
             UpdateQueuedInput(i) \/ ResolveBlockedPendingInput(i)
               \/ RetryPendingQueueInput(i)
      PROVE  TypeOK'
  BY <1>2, <1>7
  DEF UpdateQueuedInput, ResolveBlockedPendingInput, RetryPendingQueueInput, RestateInput,
      Wake, RowStates, TypeOK
<1>8. ASSUME NEW i \in Ids, DeletePendingInput(i) PROVE TypeOK'
  BY <1>2, <1>8 DEF DeletePendingInput, ConsumeInput, Wake, RowStates, TypeOK
<1>9. ASSUME NEW i \in Ids, ResumePendingQueue(i) PROVE TypeOK'
  BY <1>2, <1>9 DEF ResumePendingQueue, TypeOK
<1>10. ASSUME NEW i \in Ids, NEW to \in 1..Len(queue), MoveQueuedInput(i, to) PROVE TypeOK'
  BY <1>10 DEF MoveQueuedInput, MoveQueueInput, TypeOK
<1>11. ASSUME SteerWithFilesBegins PROVE TypeOK'
  <2>1. SessionStatus \in Statuses
    BY DEF SessionStatus, TypeOK, Statuses
  <2>2. lane' \in Lanes
    BY <1>11, <2>1 DEF SteerWithFilesBegins, FreeLane, Lanes
  <2>. QED
    BY <1>11, <2>2 DEF SteerWithFilesBegins, TypeOK
<1>12. ASSUME RespondBegins, UNCHANGED admission PROVE TypeOK'
  BY <1>12 DEF RespondBegins, resRest, TypeOK, Signals
<1>13. ASSUME StopRunning, UNCHANGED admission PROVE TypeOK'
  <2>1. Aborted(turn.sig) \in Signals /\ Aborted(res.sig) \in Signals
    BY DEF Aborted, TypeOK, Turns, Signals
  <2>2. /\ [turn EXCEPT !.sig = Aborted(@)] \in Turns
        /\ [res EXCEPT !.sig = Aborted(@)] \in Responses
    BY <2>1 DEF TypeOK, Turns, Responses
  <2>. QED
    BY <1>13, <2>2 DEF StopRunning, TypeOK, Responses
<1>14. ASSUME StopPaused, UNCHANGED admission PROVE TypeOK'
  <2>1. [res EXCEPT !.pc = "orphaned"] \in Responses
    BY DEF TypeOK, Responses
  <2>. QED
    BY <1>1, <1>2, <1>14, <2>1 DEF StopPaused, resRest, TypeOK, Responses
<1>. QED
  BY <1>3, <1>4, <1>5, <1>6, <1>7, <1>8, <1>9, <1>10, <1>11, <1>12, <1>13, <1>14
  DEF UserStep

LEMMA FreeTypes ==
  /\ FreePump \in Pumps /\ NoTurn \in Turns /\ NoResume \in Responses
  /\ FreeLane \in Lanes /\ "idle" \in Statuses /\ 0 \in 0..MaxWakers
BY NoTurnType, MaxWakersAssumption
DEF FreePump, Pumps, Reasons, NoResume, Responses, Signals, FreeLane, Lanes, Statuses

LEMMA RestartType == TypeOK /\ Restart => TypeOK'
<1>. SUFFICES ASSUME TypeOK, Restart PROVE TypeOK'
  OBVIOUS
<1>2. /\ st' \in [Ids -> RowStates] /\ mode' \in [Ids -> {"queue", "steer"}]
      /\ held' \subseteq Ids /\ lost' \subseteq Ids /\ boot' \in {"up", "failed"}
  BY DEF Restart, RecoverInputsAfterRestart, rowVars, RowStates, TypeOK
<1>3. inter' \in BOOLEAN
  BY DEF Restart, TypeOK
<1>. QED
  BY <1>2, <1>3, FreeTypes DEF Restart, TypeOK, Responses

LEMMA TypeInit == Init => TypeOK
BY FreeTypes DEF Init, RowsInit, PumpInit, TurnInit, RowStates, TypeOK, Responses

LEMMA TypeStep == TypeOK /\ [Next]_vars => TypeOK'
<1>. SUFFICES ASSUME TypeOK, [Next]_vars PROVE TypeOK'
  OBVIOUS
<1>1. CASE UNCHANGED vars
  BY <1>1 DEF vars, rowVars, pumpVars, chatVars, TypeOK
<1>2. CASE Next
  BY <1>2, PumpStepType, TurnStepType, ResumeStepType, RespondStepType,
     PreparationStepType, UserStepType, SettleRolledBackType, RestartType
  DEF Next
<1>. QED
  BY <1>1, <1>2

(* Every variable of a session keeps its type, for any set of rows, any    *)
(* capacity and any bound on wakers.                                       *)
THEOREM TypeCorrect == Spec => []TypeOK
BY TypeInit, TypeStep, PTL DEF Spec

-----------------------------------------------------------------------------
(* Ownership of claims, consent and deferred wake-ups.                     *)

(* The drain lease is with the launched turn exactly while there is one.   *)
TurnHoldsLease == turn.pc # "off" <=> pump.lease = "turn"

(* A turn has a row, holds its claim until it writes, and has settled it   *)
(* when it closes.                                                         *)
TurnHasClaim ==
  /\ turn.pc # "off" => turn.input \in Ids
  /\ turn.pc \in {"attach", "context", "answer", "rolled"} => Unsettled
  /\ turn.pc = "closing" => ~Unsettled

(* The row being promoted is a queue row the user may have back. *)
LaneHasConsent ==
  \A i \in Ids : LaneOwns(i) => mode[i] = "queue" /\ (i \in held \/ i \in consent)

(* A harness that could not recover runs nothing. *)
FailedBootIsQuiet == boot = "failed" => turn.pc = "off" /\ lane.kind = "free"

OwnershipInv ==
  /\ TypeOK /\ FailedBootIsQuiet
  /\ TurnHoldsLease /\ TurnHasClaim /\ LaneHasConsent
  /\ ClaimOwnership /\ Consent /\ DeferredHasOwner


LEMMA WokenLease ==
  ASSUME NEW p \in Pumps, NEW reason \in Reasons, NEW again \in BOOLEAN, NEW disp, NEW s
  PROVE  /\ Woken(p, reason, again, disp, s).lease = "turn" <=> p.lease = "turn"
         /\ Woken(p, reason, again, disp, s).deferred # "none"
              => p.deferred # "none" \/ (p.lease = "turn" /\ disp # "none")
<1>1. CASE p.lease = "free"
  BY <1>1 DEF Woken, Pumps
<1>2. CASE p.lease # "free" /\ p.lease = "turn" /\ disp # "none"
           /\ CanDrainFromStatus(s, reason)
  BY <1>2 DEF Woken, Pumps
<1>3. CASE p.lease # "free" /\ ~(p.lease = "turn" /\ disp # "none"
           /\ CanDrainFromStatus(s, reason))
  BY <1>3 DEF Woken, Pumps
<1>. QED
  BY <1>1, <1>2, <1>3

LEMMA FlushedLease ==
  ASSUME NEW p \in Pumps
  PROVE  Flushed(Released(p)).lease # "turn" /\ Flushed(Released(p)).deferred = "none"
<1>. DEFINE r == Released(p)
            q == [r EXCEPT !.deferred = "none"]
<1>1. r \in Pumps /\ r.lease = "free"
  BY ReleasedType DEF Released, Pumps
<1>2. q \in Pumps /\ q.lease = "free" /\ q.deferred = "none"
  BY <1>1 DEF Pumps
<1>3. CASE r.deferred = "none"
  BY <1>1, <1>3 DEF Flushed
<1>4. CASE r.deferred # "none"
  <2>1. r.deferred \in Reasons
    BY <1>1, <1>4 DEF Pumps
  <2>. HIDE DEF r, q
  <2>2. Flushed(r) = Woken(q, r.deferred, FALSE, "none", status)
    BY <1>4 DEF Flushed, q
  <2>3. Flushed(r).lease = "drain" /\ Flushed(r).deferred = "none"
    BY <1>2, <2>2 DEF Woken, Pumps
  <2>. QED
    BY <2>3 DEF r
<1>. QED
  BY <1>3, <1>4

(* What a wake-up changes about the pump, in the state of the session. *)
LEMMA WakeKeepsLease ==
  ASSUME OwnershipInv, NEW reason \in Reasons, NEW again \in BOOLEAN, NEW s,
         pump' = Woken(pump, reason, again, turn.disp, s)
  PROVE  /\ pump'.lease = "turn" <=> pump.lease = "turn"
         /\ pump'.deferred # "none" => pump.lease = "turn" /\ ~Unsettled
BY WokenLease DEF OwnershipInv, TypeOK, DeferredHasOwner, Unsettled

OwnershipParts ==
  /\ FailedBootIsQuiet /\ TurnHoldsLease /\ TurnHasClaim /\ LaneHasConsent
  /\ ClaimOwnership /\ Consent /\ DeferredHasOwner

(* A launched row was pending, or new, or is not claimed at all. *)
LEMMA LaunchKeepsOwnership ==
  ASSUME OwnershipInv, NEW i \in Ids, NEW src \in {"send", "queue", "steer"},
         boot = "up", boot' = boot, lane' = lane, held' = held,
         pump.lease # "turn", ~HasClaimedInput,
         LaunchTurn(i, src) \/ LaunchFails(i, src),
         NEW s \in RowStates, st' = [st EXCEPT ![i] = s],
         s = "claimed" <=> LaunchTurn(i, src), s # "pending",
         \A j \in Ids : j # i => mode'[j] = mode[j]
  PROVE  OwnershipParts'
<1>1. turn.pc = "off" /\ pump.deferred = "none" /\ (\A j \in Ids : st[j] # "claimed")
      /\ (\A j \in Ids : ~LaneOwns(j)) /\ st \in [Ids -> RowStates]
  BY DEF OwnershipInv, TurnHoldsLease, DeferredHasOwner, HasClaimedInput, ClaimOwnership,
         LaneOwns, TypeOK
<1>2. pump'.lease = "turn" /\ pump'.deferred = "none"
  BY <1>1 DEF LaunchTurn, LaunchFails, OwnershipInv, TypeOK, Pumps
<1>3. /\ turn'.pc # "off" /\ turn'.input = i
      /\ turn'.pc = "closing" <=> turn'.disp # "none"
      /\ turn'.disp = "none" <=> LaunchTurn(i, src)
  BY ZenonT(30) DEF LaunchTurn, LaunchFails, Begun, NoTurn
<1>4. (\A j \in Ids : ~LaneOwns(j)') /\ consent' = consent \ {i}
  BY <1>1 DEF LaneOwns, LaunchTurn, LaunchFails
<1>5. \A j \in Ids : TurnOwns(j)' <=> j = i /\ LaunchTurn(i, src)
  BY <1>3 DEF TurnOwns, Unsettled
<1>6. ClaimOwnership'
  BY <1>1, <1>4, <1>5 DEF ClaimOwnership
<1>7. Consent'
  BY <1>1, <1>4 DEF Consent, OwnershipInv
<1>. QED
  BY <1>2, <1>3, <1>4, <1>6, <1>7
  DEF OwnershipParts, FailedBootIsQuiet, TurnHoldsLease, TurnHasClaim, LaneHasConsent,
      DeferredHasOwner, Unsettled


(* The row a drain starts was waiting, and the drain saw no claim. *)
LEMMA DrainKeepsOwnership ==
  ASSUME OwnershipInv, NEW i \in Ids, DrainSteerInput(i) \/ DrainQueuedInput(i),
         boot = "up", UNCHANGED admission
  PROVE  OwnershipParts'
<1>1. pump.lease = "drain" /\ ~HasClaimedInput /\ held' = held /\ mode' = mode
      /\ boot' = boot /\ lane' = lane
  BY DEF DrainSteerInput, DrainQueuedInput, CanStartSteer, CanStartQueued, DrainGate,
         ClaimInput, RestateInput, admission
<1>2. PICK src \in {"queue", "steer"}, s \in {"claimed", "gone", "retry"} :
        /\ st' = [st EXCEPT ![i] = s]
        /\ \/ LaunchTurn(i, src) /\ s = "claimed"
           \/ LaunchFails(i, src) /\ s # "claimed"
  <2>1. CASE DrainSteerInput(i)
    BY <2>1 DEF DrainSteerInput, ClaimInput, RestateInput
  <2>2. CASE DrainQueuedInput(i)
    BY <2>2 DEF DrainQueuedInput, ClaimInput, RestateInput
  <2>. QED
    BY <2>1, <2>2
<1>3. ~(LaunchTurn(i, src) /\ LaunchFails(i, src))
  BY DEF LaunchTurn, LaunchFails, Begun, NoTurn
<1>. QED
  BY <1>1, <1>2, <1>3, LaunchKeepsOwnership DEF RowStates

LEMMA PumpStepOwnership ==
  ASSUME OwnershipInv, PumpStep, boot = "up"
  PROVE  OwnershipParts'
<1>. USE DEF rowVars, chatVars, admission
<1>1. ASSUME NEW i \in Ids, DrainSteerInput(i) \/ DrainQueuedInput(i) PROVE OwnershipParts'
  BY <1>1, DrainKeepsOwnership DEF PumpStep
<1>2. ASSUME UNCHANGED <<st, mode, held, turn, consent, lane, boot>>,
             pump'.lease = "turn" <=> pump.lease = "turn",
             pump'.deferred # "none" => pump.lease = "turn" /\ ~Unsettled
      PROVE  OwnershipParts'
  BY <1>2
  DEF OwnershipParts, OwnershipInv, FailedBootIsQuiet, TurnHoldsLease, TurnHasClaim,
      LaneHasConsent, LaneOwns, TurnOwns, ClaimOwnership, Consent, DeferredHasOwner, Unsettled
<1>3. ASSUME DrainStartsNothing PROVE OwnershipParts'
  <2>. DEFINE f == Flushed(Released(pump))
  <2>1. pump.lease = "drain" /\ f.lease # "turn" /\ f.deferred = "none" /\ f \in Pumps
    BY <1>3, FlushedLease, FlushedType, ReleasedType
    DEF DrainStartsNothing, OwnershipInv, TypeOK
  <2>2. pump' = f \/ pump' = Woken(f, "enqueue", FALSE, "none", status)
    BY <1>3 DEF DrainStartsNothing
  <2>. HIDE DEF f
  <2>4. pump'.lease # "turn" /\ pump'.deferred = "none"
    BY <2>1, <2>2 DEF Woken, Pumps
  <2>. QED
    BY <1>2, <1>3, <2>1, <2>4 DEF DrainStartsNothing, PumpStep
<1>4. ASSUME Finalize PROVE OwnershipParts'
  <2>1. turn.pc = "closing" /\ ~Unsettled /\ turn'.pc = "off" /\ turn'.disp = "none"
    BY <1>4 DEF Finalize, OwnershipInv, TurnHasClaim, NoTurn
  <2>2. pump'.lease # "turn" /\ pump'.deferred = "none"
    BY <1>4, FlushedLease DEF Finalize, OwnershipInv, TypeOK
  <2>. QED
    BY <1>4, <2>1, <2>2
    DEF Finalize, PumpStep, OwnershipParts, OwnershipInv, FailedBootIsQuiet, TurnHoldsLease,
        TurnHasClaim, LaneHasConsent, LaneOwns, TurnOwns, ClaimOwnership, Consent,
        DeferredHasOwner, Unsettled
<1>5. ASSUME ScheduleNextIfReady PROVE OwnershipParts'
  <2>1. "completed" \in Reasons /\ FALSE \in BOOLEAN
    BY DEF Reasons
  <2>2. CASE pump' = pump
    BY <1>2, <1>5, <2>2 DEF ScheduleNextIfReady, PumpStep, OwnershipInv, DeferredHasOwner
  <2>3. CASE Wake("completed")
    BY <1>2, <1>5, <2>1, <2>3, WakeKeepsLease DEF ScheduleNextIfReady, PumpStep, Wake
  <2>. QED
    BY <1>5, <2>2, <2>3 DEF ScheduleNextIfReady
<1>. QED
  BY <1>1, <1>3, <1>4, <1>5 DEF PumpStep


(* A turn goes on, or settles its claim by moving its own row out of it. *)
LEMMA TurnKeepsOwnership ==
  ASSUME OwnershipInv, boot = "up", turn.pc # "off",
         UNCHANGED <<mode, pump, held, consent, lane, boot>>,
         turn'.pc # "off", turn'.input = turn.input, TurnHasClaim',
         \/ st' = st /\ (Unsettled' <=> Unsettled)
         \/ /\ Unsettled /\ ~Unsettled'
            /\ \E s \in {"gone", "retry", "blocked"} : st' = [st EXCEPT ![turn.input] = s]
  PROVE  OwnershipParts'
<1>1. turn.input \in Ids /\ st \in [Ids -> RowStates]
  BY DEF OwnershipInv, TurnHasClaim, TypeOK
<1>2. LaneHasConsent' /\ FailedBootIsQuiet' /\ TurnHoldsLease' /\ DeferredHasOwner'
  BY DEF OwnershipInv, LaneHasConsent, LaneOwns, FailedBootIsQuiet, TurnHoldsLease,
         DeferredHasOwner
<1>3. ClaimOwnership'
  BY <1>1 DEF OwnershipInv, ClaimOwnership, TurnOwns, LaneOwns
<1>4. Consent'
  BY <1>1 DEF OwnershipInv, Consent
<1>. QED
  BY <1>2, <1>3, <1>4 DEF OwnershipParts

(* How a turn ends: consumed, released for a retry or rolled back. *)
LEMMA TurnEndsOwnership ==
  ASSUME OwnershipInv, boot = "up", turn.pc # "off", NEW s,
         UNCHANGED <<pump, held, consent, lane, boot>>,
         \/ TurnConsumes(s)
         \/ Unsettled /\ (TurnReleasesForRetry(s) \/ TurnRollsBack(s))
  PROVE  OwnershipParts'
<1>1. turn \in Turns
  BY DEF OwnershipInv, TypeOK
<1>2. ASSUME TurnConsumes(s) PROVE OwnershipParts'
  <2>1. /\ turn'.pc = "closing" /\ turn'.input = turn.input /\ ~Unsettled' /\ mode' = mode
        /\ IF Unsettled THEN st' = [st EXCEPT ![turn.input] = "gone"] ELSE st' = st
    BY <1>2 DEF TurnConsumes, TurnCloses, ConsumeInput, rowVars, NoTurn, Unsettled
  <2>. QED
    BY <2>1, TurnKeepsOwnership DEF TurnHasClaim, OwnershipInv
<1>3. ASSUME Unsettled, TurnReleasesForRetry(s) PROVE OwnershipParts'
  <2>1. /\ turn'.pc = "closing" /\ turn'.input = turn.input /\ ~Unsettled' /\ mode' = mode
        /\ st' = [st EXCEPT ![turn.input] = "retry"]
    BY <1>3 DEF TurnReleasesForRetry, TurnCloses, RestateInput, NoTurn, Unsettled
  <2>. QED
    BY <1>3, <2>1, TurnKeepsOwnership DEF TurnHasClaim, OwnershipInv
<1>4. ASSUME Unsettled, TurnRollsBack(s) PROVE OwnershipParts'
  <2>1. /\ turn'.pc = "rolled" /\ turn'.input = turn.input /\ turn'.disp = turn.disp
        /\ mode' = mode /\ st' = st
    BY <1>1, <1>4 DEF TurnRollsBack, rowVars, Turns
  <2>. QED
    BY <1>4, <2>1, TurnKeepsOwnership DEF TurnHasClaim, OwnershipInv, Unsettled
<1>. QED
  BY <1>2, <1>3, <1>4

LEMMA TurnStepOwnership ==
  ASSUME OwnershipInv, TurnStep, boot = "up"
  PROVE  OwnershipParts'
<1>. USE DEF rowVars, chatVars, admission, pumpVars, turnRest
<1>1. turn \in Turns /\ TurnHasClaim
  BY DEF OwnershipInv, TypeOK
<1>2. ASSUME AttachReady \/ AppendUserFact \/ RegisterRun PROVE OwnershipParts'
  <2>1. /\ turn.pc # "off" /\ turn'.input = turn.input /\ turn'.disp = turn.disp
        /\ turn'.pc \in {"context", "answer", "registered"}
        /\ turn'.pc = "registered" \/ turn.pc \in {"attach", "context"}
        /\ UNCHANGED <<st, mode, pump, held, consent, lane, boot>>
    <3>1. CASE AttachReady
      BY <1>1, <3>1 DEF AttachReady, Turns, TurnStep
    <3>2. CASE AppendUserFact
      BY <1>1, <3>2 DEF AppendUserFact, Turns, TurnStep
    <3>3. CASE RegisterRun
      BY <1>1, <3>3 DEF RegisterRun, Turns, TurnStep
    <3>. QED
      BY <1>2, <3>1, <3>2, <3>3
  <2>. QED
    BY <1>1, <2>1, TurnKeepsOwnership DEF TurnHasClaim, Unsettled
<1>3. ASSUME AttachNeedsUserAction PROVE OwnershipParts'
  <2>1. /\ turn'.pc = "closing" /\ turn'.input = turn.input /\ ~Unsettled' /\ mode' = mode
        /\ st' = [st EXCEPT ![turn.input] = "blocked"]
        /\ UNCHANGED <<pump, held, consent, lane, boot>> /\ turn.pc = "attach"
    BY <1>3 DEF AttachNeedsUserAction, TurnCloses, RestateInput, NoTurn, Unsettled, TurnStep
  <2>. QED
    BY <1>1, <2>1, TurnKeepsOwnership DEF TurnHasClaim
<1>4. ASSUME CreateAssistantMessage \/ CrossPreStreamBoundary PROVE OwnershipParts'
  <2>1. /\ turn.pc # "off" /\ turn'.input = turn.input
        /\ turn'.pc \in {"entering", "stream"} /\ mode' = mode
        /\ \/ st' = st /\ turn'.disp = turn.disp
           \/ /\ st' = [st EXCEPT ![turn.input] = "gone"]
              /\ Unsettled /\ turn'.disp = "consumed"
        /\ UNCHANGED <<pump, held, consent, lane, boot>>
    <3>1. CASE CreateAssistantMessage
      BY <1>1, <3>1
      DEF CreateAssistantMessage, ConsumeInput, Turns, TurnStep, TurnHasClaim
    <3>2. CASE CrossPreStreamBoundary
      BY <1>1, <3>2 DEF CrossPreStreamBoundary, ConsumeInput, Turns, TurnStep
    <3>. QED
      BY <1>4, <3>1, <3>2
  <2>. QED
    BY <1>1, <2>1, TurnKeepsOwnership DEF TurnHasClaim, Unsettled
<1>5. ASSUME RunCompletes \/ RunPauses \/ RunAborted \/ RunReturnsError
               \/ TurnJournalFails \/ TurnAborted \/ TurnFails
      PROVE  OwnershipParts'
  <2>1. turn.pc # "off" /\ UNCHANGED <<pump, held, consent, lane, boot>>
    BY <1>5
    DEF RunCompletes, RunPauses, RunAborted, RunReturnsError, TurnJournalFails, TurnAborted,
        TurnFails, TurnStep, InRun, PreRun
  <2>2. \E s \in Statuses :
          \/ TurnConsumes(s)
          \/ Unsettled /\ (TurnReleasesForRetry(s) \/ TurnRollsBack(s))
    BY <1>5
    DEF RunCompletes, RunPauses, RunAborted, RunReturnsError, TurnJournalFails, TurnAborted,
        TurnFails, Statuses
  <2>. QED
    BY <2>1, <2>2, TurnEndsOwnership
<1>. QED
  BY <1>2, <1>3, <1>4, <1>5 DEF TurnStep, TurnProgress

LEMMA SettleOwnership ==
  ASSUME OwnershipInv, SettleRolledBack, UNCHANGED admission
  PROVE  OwnershipParts'
<1>1. boot = "up" /\ turn.pc = "rolled" /\ Unsettled
  BY DEF SettleRolledBack, OwnershipInv, TurnHasClaim, FailedBootIsQuiet, TypeOK
<1>. QED
  BY <1>1, TurnEndsOwnership DEF SettleRolledBack, turnRest, pumpVars, admission


(* A step that leaves rows, turn and lane alone and at most wakes the pump. *)
LEMMA WakeKeepsOwnership ==
  ASSUME OwnershipInv, UNCHANGED <<st, mode, held, turn, consent, lane, boot>>,
         \/ pump' = pump
         \/ \E reason \in Reasons, again \in BOOLEAN, s \in Statuses :
              pump' = Woken(pump, reason, again, turn.disp, s)
  PROVE  OwnershipParts'
<1>1. /\ pump'.lease = "turn" <=> pump.lease = "turn"
      /\ pump'.deferred # "none" => pump.lease = "turn" /\ ~Unsettled
  BY WakeKeepsLease DEF OwnershipInv, DeferredHasOwner
<1>. QED
  BY <1>1
  DEF OwnershipParts, OwnershipInv, FailedBootIsQuiet, TurnHoldsLease, TurnHasClaim,
      LaneHasConsent, LaneOwns, TurnOwns, ClaimOwnership, Consent, DeferredHasOwner, Unsettled

LEMMA ResumeStepOwnership ==
  ASSUME OwnershipInv, ResumeStep \/ RespondStep
  PROVE  OwnershipParts'
<1>. USE DEF rowVars, chatVars, admission, pumpVars, resRest
<1>1. "completed" \in Reasons /\ "idle" \in Statuses /\ status \in Statuses
      /\ FALSE \in BOOLEAN
  BY DEF Reasons, Statuses, OwnershipInv, TypeOK
<1>2. UNCHANGED <<st, mode, held, turn, consent, lane, boot>>
  BY DEF ResumeStep, ResumeProgress, RespondStep, RespondAborted, AbortSettles, ResumeStreams,
         ResumeSettles, ResumePauses, ResumeFails, RespondKeepsWaiting,
         RespondAwaitsFollowUp, RespondResumes
<1>3. \/ pump' = pump
      \/ \E s \in Statuses : pump' = Woken(pump, "completed", FALSE, turn.disp, s)
  BY <1>1 DEF ResumeStep, ResumeProgress, RespondStep, RespondAborted, AbortSettles, ResumeStreams,
         ResumeSettles, ResumePauses, ResumeFails, RespondKeepsWaiting,
         RespondAwaitsFollowUp, RespondResumes
<1>. QED
  BY <1>1, <1>2, <1>3, WakeKeepsOwnership

(* A steer message changes the turn's signal and its message, not its claim. *)
LEMMA SteerMessageOwnership ==
  ASSUME OwnershipInv, NEW i \in Ids, SteerMessageAppended(i)
  PROVE  /\ turn'.pc = turn.pc /\ turn'.input = turn.input /\ turn'.disp = turn.disp
         /\ consent' = consent \cup {i}
BY DEF SteerMessageAppended, OwnershipInv, TypeOK, Turns

(* A row that is not claimed changes, and the user knows of it. *)
LEMMA RowKeepsOwnership ==
  ASSUME OwnershipInv, NEW i \in Ids, NEW s \in {"pending", "gone"}, st[i] # "claimed",
         st' = [st EXCEPT ![i] = s], s = "pending" => i \in consent',
         \A j \in Ids : j # i => mode'[j] = mode[j],
         turn'.pc = turn.pc, turn'.input = turn.input, turn'.disp = turn.disp,
         consent \subseteq consent', \A j \in held : j \in held' \/ j \in consent' \/ j = i,
         boot' = boot, lane' = lane \/ (lane' = FreeLane /\ lane.kind # "prep"),
         pump'.lease = "turn" <=> pump.lease = "turn",
         pump'.deferred # "none" => pump.lease = "turn" /\ ~Unsettled
  PROVE  OwnershipParts'
<1>1. st \in [Ids -> RowStates]
  BY DEF OwnershipInv, TypeOK
<1>2. TurnHoldsLease' /\ TurnHasClaim' /\ FailedBootIsQuiet' /\ DeferredHasOwner'
  BY DEF OwnershipInv, TurnHoldsLease, TurnHasClaim, FailedBootIsQuiet, DeferredHasOwner,
         Unsettled, FreeLane
<1>3. \A j \in Ids : (TurnOwns(j)' <=> TurnOwns(j)) /\ (LaneOwns(j)' <=> LaneOwns(j))
  BY DEF TurnOwns, LaneOwns, Unsettled, FreeLane
<1>4. ClaimOwnership' /\ Consent'
  BY <1>1, <1>3 DEF OwnershipInv, ClaimOwnership, Consent
<1>5. LaneHasConsent'
  BY <1>1, <1>3 DEF OwnershipInv, ClaimOwnership, LaneHasConsent, FailedBootIsQuiet,
                    LaneOwns, TypeOK
<1>. QED
  BY <1>2, <1>4, <1>5 DEF OwnershipParts

LEMMA AcceptSteerOwnership ==
  ASSUME OwnershipInv, NEW i \in Ids, NEW s, AcceptSteer(i, s),
         lane' = lane \/ (lane' = FreeLane /\ lane.kind # "prep")
  PROVE  OwnershipParts'
<1>1. /\ turn'.pc = turn.pc /\ turn'.input = turn.input /\ turn'.disp = turn.disp
      /\ consent' = consent \cup {i}
  BY SteerMessageOwnership DEF AcceptSteer, AcceptVisibleSteerInput
<1>2. /\ st' = [st EXCEPT ![i] = "pending"] /\ st[i] # "claimed"
      /\ \A j \in Ids : j # i => mode'[j] = mode[j]
  <2>1. st \in [Ids -> RowStates] /\ mode \in [Ids -> {"queue", "steer"}]
    BY DEF OwnershipInv, TypeOK
  <2>2. CASE OpenSteer
    BY <2>1, <2>2 DEF AcceptSteer, AcceptVisibleSteerInput, OpenSteer, rowVars
  <2>3. CASE ~OpenSteer
    BY <2>1, <2>3 DEF AcceptSteer, AcceptVisibleSteerInput, CreateSteerInput, IsFresh
  <2>. QED
    BY <2>2, <2>3
<1>3. /\ pump'.lease = "turn" <=> pump.lease = "turn"
      /\ pump'.deferred # "none" => pump.lease = "turn" /\ ~Unsettled
  <2>1. "enqueue" \in Reasons /\ TRUE \in BOOLEAN /\ FALSE \in BOOLEAN
    BY DEF Reasons
  <2>2. CASE pump' = pump
    BY <2>2 DEF OwnershipInv, DeferredHasOwner
  <2>3. CASE pump' = Woken(pump, "enqueue", FALSE, turn.disp, status)
    BY <2>1, <2>3, WakeKeepsLease
  <2>4. CASE pump' = Woken(pump, "enqueue", TRUE, turn.disp, status)
    BY <2>1, <2>4, WakeKeepsLease
  <2>. QED
    BY <2>2, <2>3, <2>4 DEF AcceptSteer, Wake
<1>4. boot' = boot /\ held' = held
  BY DEF AcceptSteer
<1>. QED
  BY <1>1, <1>2, <1>3, <1>4, RowKeepsOwnership


(* The row being promoted gets back to the lane, with the user's consent, *)
(* or waits for a decision.                                               *)
LEMMA LaneSettlesOwnership ==
  ASSUME OwnershipInv, boot = "up", lane.kind = "prep", lane' = FreeLane, boot' = boot,
         NEW s \in {"pending", "blocked", "retry"}, st' = [st EXCEPT ![lane.input] = s],
         turn'.pc = turn.pc, turn'.input = turn.input, turn'.disp = turn.disp,
         \/ mode' = mode /\ held' = held /\ consent' = consent
         \/ /\ lane.input \in consent' /\ mode' = [mode EXCEPT ![lane.input] = "steer"]
            /\ consent \subseteq consent' /\ held' = held \ {lane.input},
         pump'.lease = "turn" <=> pump.lease = "turn",
         pump'.deferred # "none" => pump.lease = "turn" /\ ~Unsettled
  PROVE  OwnershipParts'
<1>1. /\ st \in [Ids -> RowStates] /\ mode \in [Ids -> {"queue", "steer"}]
      /\ lane.input \in Ids /\ st[lane.input] = "claimed" /\ LaneOwns(lane.input)
      /\ \A j \in Ids : ~(TurnOwns(j) /\ LaneOwns(j))
  BY DEF OwnershipInv, TypeOK, Lanes, ClaimOwnership, LaneOwns
<1>2. TurnHoldsLease' /\ TurnHasClaim' /\ FailedBootIsQuiet' /\ DeferredHasOwner'
  BY DEF OwnershipInv, TurnHoldsLease, TurnHasClaim, FailedBootIsQuiet, DeferredHasOwner,
         Unsettled, FreeLane
<1>3. \A j \in Ids : (TurnOwns(j)' <=> TurnOwns(j)) /\ ~LaneOwns(j)'
                     /\ (LaneOwns(j) <=> j = lane.input)
  BY DEF TurnOwns, LaneOwns, Unsettled, FreeLane
<1>4. ClaimOwnership'
  BY <1>1, <1>3 DEF OwnershipInv, ClaimOwnership
<1>5. LaneHasConsent'
  BY <1>3 DEF LaneHasConsent
<1>6. Consent'
  BY <1>1 DEF OwnershipInv, Consent, LaneHasConsent
<1>. QED
  BY <1>2, <1>4, <1>5, <1>6 DEF OwnershipParts

LEMMA PreparationStepOwnership ==
  ASSUME OwnershipInv, PreparationStep, boot = "up"
  PROVE  OwnershipParts'
<1>. USE DEF rowVars, chatVars, pumpVars, promotionRest
<1>1. ASSUME NEW i \in Ids, SteerWithFilesCommits(i) PROVE OwnershipParts'
  <2>1. AcceptSteer(i, lane.seen) /\ lane' = FreeLane /\ lane.kind # "prep"
    BY <1>1 DEF SteerWithFilesCommits
  <2>. QED
    BY <2>1, AcceptSteerOwnership
<1>2. ASSUME SteerWithFilesEnds PROVE OwnershipParts'
  <2>1. LaneHasConsent'
    BY <1>2 DEF SteerWithFilesEnds, FreeLane, LaneHasConsent, LaneOwns
  <2>2. \A j \in Ids : (TurnOwns(j)' <=> TurnOwns(j)) /\ ~LaneOwns(j)' /\ ~LaneOwns(j)
    BY <1>2 DEF SteerWithFilesEnds, FreeLane, TurnOwns, LaneOwns, Unsettled
  <2>3. ClaimOwnership'
    BY <1>2, <2>2 DEF SteerWithFilesEnds, OwnershipInv, ClaimOwnership
  <2>. QED
    BY <1>2, <2>1, <2>3
    DEF SteerWithFilesEnds, OwnershipInv, OwnershipParts, FailedBootIsQuiet, TurnHoldsLease,
        TurnHasClaim, Consent, DeferredHasOwner, Unsettled, FreeLane
<1>3. ASSUME PromotionRejected \/ PromotionNeedsUserAction \/ PromotionFails
      PROVE  OwnershipParts'
  <2>1. \E s \in {"pending", "blocked", "retry"} : st' = [st EXCEPT ![lane.input] = s]
    BY <1>3
    DEF PromotionRejected, PromotionNeedsUserAction, PromotionFails, RestateInput
  <2>2. /\ lane.kind = "prep" /\ lane' = FreeLane
        /\ UNCHANGED <<mode, pump, held, turn, consent, boot>>
    BY <1>3
    DEF PromotionRejected, PromotionNeedsUserAction, PromotionFails, RestateInput
  <2>3. pump'.deferred # "none" => pump.lease = "turn" /\ ~Unsettled
    BY <2>2 DEF OwnershipInv, DeferredHasOwner
  <2>. QED
    BY <2>1, <2>2, <2>3, LaneSettlesOwnership
<1>4. ASSUME PromotionCommits PROVE OwnershipParts'
  <2>1. lane.kind = "prep" /\ lane.input \in Ids
    BY <1>4 DEF PromotionCommits, OwnershipInv, TypeOK, Lanes
  <2>2. /\ turn'.pc = turn.pc /\ turn'.input = turn.input /\ turn'.disp = turn.disp
        /\ consent' = consent \cup {lane.input}
    BY <1>4, <2>1, SteerMessageOwnership DEF PromotionCommits
  <2>3. /\ st' = [st EXCEPT ![lane.input] = "pending"]
        /\ mode' = [mode EXCEPT ![lane.input] = "steer"]
        /\ held' = held \ {lane.input} /\ lane' = FreeLane /\ boot' = boot
    BY <1>4 DEF PromotionCommits, ConvertQueueInputToSteer
  <2>4. /\ pump'.lease = "turn" <=> pump.lease = "turn"
        /\ pump'.deferred # "none" => pump.lease = "turn" /\ ~Unsettled
    <3>1. "enqueue" \in Reasons /\ TRUE \in BOOLEAN
      BY DEF Reasons
    <3>2. CASE pump' = pump
      BY <3>2 DEF OwnershipInv, DeferredHasOwner
    <3>3. CASE pump' = Woken(pump, "enqueue", TRUE, turn.disp, status)
      BY <3>1, <3>3, WakeKeepsLease
    <3>. QED
      BY <1>4, <3>2, <3>3 DEF PromotionCommits
  <2>. QED
    BY <2>1, <2>2, <2>3, <2>4, LaneSettlesOwnership
<1>. QED
  BY <1>1, <1>2, <1>3, <1>4 DEF PreparationStep, PreparationProgress

LEMMA RestartOwnership ==
  ASSUME OwnershipInv, Restart
  PROVE  OwnershipParts'
<1>1. /\ turn' = NoTurn /\ lane' = FreeLane /\ pump' = FreePump
      /\ boot' = "failed" \/ (boot' = "up" /\ RecoverInputsAfterRestart)
  BY DEF Restart
<1>2. /\ FailedBootIsQuiet' /\ TurnHoldsLease' /\ TurnHasClaim' /\ LaneHasConsent'
      /\ DeferredHasOwner'
  BY <1>1
  DEF FailedBootIsQuiet, TurnHoldsLease, TurnHasClaim, LaneHasConsent, LaneOwns,
      DeferredHasOwner, NoTurn, FreeLane, FreePump, Unsettled
<1>3. \A i \in Ids : ~TurnOwns(i)' /\ ~LaneOwns(i)'
  BY <1>1 DEF TurnOwns, LaneOwns, NoTurn, FreeLane
<1>4. ASSUME RecoverInputsAfterRestart
      PROVE  \A i \in Ids : /\ st'[i] # "claimed"
                            /\ st'[i] = "pending" => mode'[i] = "queue" /\ i \in held'
  <2>1. mode \in [Ids -> {"queue", "steer"}]
    BY DEF OwnershipInv, TypeOK
  <2>. QED
    BY <1>4, <2>1
    DEF RecoverInputsAfterRestart, ReleasedByRestart, ConsumedByRestart, IsWaiting, Live
<1>5. ClaimOwnership' /\ Consent'
  BY <1>1, <1>3, <1>4 DEF ClaimOwnership, Consent
<1>. QED
  BY <1>2, <1>5 DEF OwnershipParts


(* An operation on one row of the lane that then wakes the pump. *)
LEMMA LaneEditOwnership ==
  ASSUME OwnershipInv, NEW i \in Ids,
         UpdateQueuedInput(i) \/ ResolveBlockedPendingInput(i)
           \/ RetryPendingQueueInput(i) \/ DeletePendingInput(i)
  PROVE  OwnershipParts'
<1>. USE DEF rowVars, chatVars, admission, laneRest
<1>1. PICK s \in {"pending", "gone"} :
        st' = [st EXCEPT ![i] = s] /\ (s = "pending" => i \in consent')
  <2>1. CASE DeletePendingInput(i)
    BY <2>1 DEF DeletePendingInput, ConsumeInput
  <2>2. CASE ~DeletePendingInput(i)
    BY <2>2 DEF UpdateQueuedInput, ResolveBlockedPendingInput, RetryPendingQueueInput,
                RestateInput, OwnershipInv, TypeOK
  <2>. QED
    BY <2>1, <2>2
<1>2. /\ st[i] # "claimed" /\ UNCHANGED <<mode, turn, lane, boot>>
      /\ consent \subseteq consent' /\ \A j \in held : j \in held' \/ j = i
  BY DEF UpdateQueuedInput, ResolveBlockedPendingInput, RetryPendingQueueInput,
         DeletePendingInput, RestateInput, ConsumeInput, IsWaiting
<1>3. /\ pump'.lease = "turn" <=> pump.lease = "turn"
      /\ pump'.deferred # "none" => pump.lease = "turn" /\ ~Unsettled
  <2>1. "enqueue" \in Reasons /\ "manual" \in Reasons /\ TRUE \in BOOLEAN
        /\ FALSE \in BOOLEAN
    BY DEF Reasons
  <2>2. \/ pump' = Woken(pump, "enqueue", FALSE, turn.disp, status)
        \/ pump' = Woken(pump, "manual", TRUE, turn.disp, status)
    BY DEF UpdateQueuedInput, ResolveBlockedPendingInput, RetryPendingQueueInput,
           DeletePendingInput, Wake
  <2>. QED
    BY <2>1, <2>2, WakeKeepsLease
<1>. QED
  BY <1>1, <1>2, <1>3, RowKeepsOwnership

LEMMA UserStepOwnership ==
  ASSUME OwnershipInv, UserStep, boot = "up"
  PROVE  OwnershipParts'
<1>. USE DEF rowVars, chatVars, pumpVars, admission, laneRest
<1>1. /\ "enqueue" \in Reasons /\ "manual" \in Reasons /\ "completed" \in Reasons
      /\ TRUE \in BOOLEAN /\ FALSE \in BOOLEAN /\ "idle" \in Statuses
      /\ st \in [Ids -> RowStates] /\ mode \in [Ids -> {"queue", "steer"}]
      /\ status \in Statuses
  BY DEF Reasons, Statuses, OwnershipInv, TypeOK
<1>2. ASSUME NEW i \in Ids, NEW src \in {"send", "queue"}, StartAcceptedInput(i, src)
      PROVE  OwnershipParts'
  <2>1. pump.lease # "turn" /\ ~HasClaimedInput
    BY <1>2 DEF StartAcceptedInput, ClaimsImmediately, CanDrain
  <2>2. PICK s \in {"claimed", "retry"} :
          /\ st' = [st EXCEPT ![i] = s]
          /\ \/ LaunchTurn(i, src) /\ s = "claimed"
             \/ LaunchFails(i, src) /\ s # "claimed"
    BY <1>2 DEF StartAcceptedInput, CreateQueueInput
  <2>3. ~(LaunchTurn(i, src) /\ LaunchFails(i, src))
    BY DEF LaunchTurn, LaunchFails, Begun, NoTurn
  <2>4. boot' = boot /\ lane' = lane /\ held' = held
        /\ \A j \in Ids : j # i => mode'[j] = mode[j]
    BY <1>1, <1>2 DEF StartAcceptedInput, CreateQueueInput
  <2>. QED
    BY <2>1, <2>2, <2>3, <2>4, LaunchKeepsOwnership DEF RowStates
<1>3. ASSUME NEW i \in Ids, NEW src \in {"send", "queue"}, QueueAcceptedInput(i, src)
      PROVE  OwnershipParts'
  <2>1. /\ st[i] # "claimed" /\ st' = [st EXCEPT ![i] = "pending"]
        /\ consent' = consent \cup {i} /\ UNCHANGED <<turn, lane, boot, held>>
        /\ \A j \in Ids : j # i => mode'[j] = mode[j]
        /\ pump' = Woken(pump, "enqueue", FALSE, turn.disp, status)
    BY <1>1, <1>3 DEF QueueAcceptedInput, CreateQueueInput, IsFresh, Wake
  <2>2. /\ pump'.lease = "turn" <=> pump.lease = "turn"
        /\ pump'.deferred # "none" => pump.lease = "turn" /\ ~Unsettled
    BY <1>1, <2>1, WakeKeepsLease
  <2>. QED
    BY <2>1, <2>2, RowKeepsOwnership
<1>4. ASSUME NEW i \in Ids, SteerActiveTurn(i) PROVE OwnershipParts'
  <2>1. AcceptSteer(i, SessionStatus) /\ lane' = lane
    BY <1>4 DEF SteerActiveTurn
  <2>. QED
    BY <2>1, AcceptSteerOwnership
<1>5. ASSUME NEW i \in Ids, PromotionBegins(i) PROVE OwnershipParts'
  <2>1. /\ st[i] = "pending" /\ st' = [st EXCEPT ![i] = "claimed"] /\ mode[i] = "queue"
        /\ lane.kind = "free" /\ lane'.kind = "prep" /\ lane'.input = i
        /\ UNCHANGED <<mode, pump, held, turn, consent, boot>>
    BY <1>5 DEF PromotionBegins, ClaimInput, FreeLane
  <2>2. \A j \in Ids : /\ TurnOwns(j)' <=> TurnOwns(j)
                       /\ ~LaneOwns(j)
                       /\ LaneOwns(j)' <=> j = i
    BY <2>1 DEF TurnOwns, LaneOwns, Unsettled
  <2>3. ClaimOwnership'
    BY <1>1, <2>1, <2>2 DEF OwnershipInv, ClaimOwnership
  <2>4. LaneHasConsent' /\ Consent'
    BY <1>1, <2>1, <2>2 DEF OwnershipInv, Consent, LaneHasConsent
  <2>. QED
    BY <2>1, <2>3, <2>4
    DEF OwnershipInv, OwnershipParts, FailedBootIsQuiet, TurnHoldsLease, TurnHasClaim,
        DeferredHasOwner, Unsettled
<1>6. ASSUME NEW i \in Ids, ResumePendingQueue(i) PROVE OwnershipParts'
  <2>1. /\ UNCHANGED <<st, mode, turn, lane, boot>>
        /\ pump' = Woken(pump, "manual", FALSE, turn.disp, status)
        /\ \A j \in held : j \in held' \/ j \in consent'
        /\ consent \subseteq consent'
    BY <1>6 DEF ResumePendingQueue
  <2>2. /\ pump'.lease = "turn" <=> pump.lease = "turn"
        /\ pump'.deferred # "none" => pump.lease = "turn" /\ ~Unsettled
    BY <1>1, <2>1, WakeKeepsLease
  <2>. QED
    BY <2>1, <2>2
    DEF OwnershipParts, OwnershipInv, FailedBootIsQuiet, TurnHoldsLease, TurnHasClaim,
        LaneHasConsent, LaneOwns, TurnOwns, ClaimOwnership, Consent, DeferredHasOwner,
        Unsettled
<1>7. ASSUME NEW i \in Ids, NEW to \in 1..Len(queue), MoveQueuedInput(i, to)
      PROVE  OwnershipParts'
  BY <1>7, WakeKeepsOwnership DEF MoveQueuedInput, MoveQueueInput
<1>8. ASSUME SteerWithFilesBegins PROVE OwnershipParts'
  <2>1. \A j \in Ids : /\ TurnOwns(j)' <=> TurnOwns(j)
                       /\ ~LaneOwns(j)' /\ ~LaneOwns(j)
    BY <1>8 DEF SteerWithFilesBegins, FreeLane, TurnOwns, LaneOwns, Unsettled
  <2>. QED
    BY <1>8, <2>1
    DEF SteerWithFilesBegins, OwnershipParts, OwnershipInv, FailedBootIsQuiet,
        TurnHoldsLease, TurnHasClaim, LaneHasConsent, ClaimOwnership, Consent,
        DeferredHasOwner, Unsettled
<1>9. ASSUME RespondBegins \/ StopPaused, UNCHANGED admission PROVE OwnershipParts'
  <2>1. /\ UNCHANGED <<st, mode, held, turn, consent, lane, boot>>
        /\ pump' = pump \/ pump' = Woken(pump, "completed", FALSE, turn.disp, "idle")
    BY <1>9 DEF RespondBegins, StopPaused, resRest
  <2>. QED
    BY <1>1, <2>1, WakeKeepsOwnership
<1>10. ASSUME StopRunning, UNCHANGED admission PROVE OwnershipParts'
  <2>1. /\ turn'.pc = turn.pc /\ turn'.input = turn.input /\ turn'.disp = turn.disp
        /\ UNCHANGED <<st, mode, held, pump, consent, lane, boot>>
    BY <1>10 DEF StopRunning, OwnershipInv, TypeOK, Turns
  <2>. QED
    BY <2>1
    DEF OwnershipParts, OwnershipInv, FailedBootIsQuiet, TurnHoldsLease, TurnHasClaim,
        LaneHasConsent, LaneOwns, TurnOwns, ClaimOwnership, Consent, DeferredHasOwner,
        Unsettled
<1>. QED
  BY <1>2, <1>3, <1>4, <1>5, <1>6, <1>7, <1>8, <1>9, <1>10, LaneEditOwnership DEF UserStep

LEMMA OwnershipInductive == OwnershipInv /\ [Next]_vars => OwnershipInv'
<1>. SUFFICES ASSUME OwnershipInv, [Next]_vars PROVE OwnershipInv'
  OBVIOUS
<1>1. TypeOK'
  BY TypeStep DEF OwnershipInv
<1>2. ASSUME UNCHANGED vars PROVE OwnershipParts'
  BY <1>2, WakeKeepsOwnership DEF vars, rowVars, pumpVars
<1>3. ASSUME Running /\ (PumpStep \/ TurnStep \/ ResumeStep \/ RespondStep
                           \/ PreparationStep \/ UserStep)
      PROVE  OwnershipParts'
  BY <1>3, PumpStepOwnership, TurnStepOwnership, ResumeStepOwnership,
     PreparationStepOwnership, UserStepOwnership DEF Running
<1>4. ASSUME SettleRolledBack, UNCHANGED admission PROVE OwnershipParts'
  BY <1>4, SettleOwnership
<1>5. ASSUME Restart PROVE OwnershipParts'
  BY <1>5, RestartOwnership
<1>6. OwnershipParts'
  BY <1>2, <1>3, <1>4, <1>5 DEF Next
<1>. QED
  BY <1>1, <1>6 DEF OwnershipInv, OwnershipParts

LEMMA OwnershipAlways == Spec => []OwnershipInv
<1>1. Init => OwnershipInv
  BY TypeInit
  DEF Init, RowsInit, PumpInit, FreePump, NoTurn, FreeLane, OwnershipInv, FailedBootIsQuiet,
      TurnHoldsLease, TurnHasClaim, LaneHasConsent, LaneOwns, TurnOwns, ClaimOwnership,
      Consent, DeferredHasOwner, Unsettled
<1>. QED
  BY <1>1, OwnershipInductive, PTL DEF Spec

(* A claim in the database always belongs to exactly one operation in      *)
(* memory, the turn that has not settled it or the promotion preparing it, *)
(* so no failure, stop or hand-off leaves a claim that would close the     *)
(* drain gate until the next start.                                        *)
THEOREM ClaimsAreOwned == Spec => []ClaimOwnership
<1>1. OwnershipInv => ClaimOwnership
  BY DEF OwnershipInv
<1>. QED
  BY <1>1, OwnershipAlways, PTL

(* The pump never sends a row the user has not released since its last     *)
(* launch: the retry_required state and the restart hold keep it back.     *)
THEOREM NothingSentWithoutConsent == Spec => []Consent
<1>1. OwnershipInv => Consent
  BY DEF OwnershipInv
<1>. QED
  BY <1>1, OwnershipAlways, PTL

(* A remembered wake-up always has a launched turn that holds the lease    *)
(* and will replay it when it closes.                                      *)
THEOREM DeferredWakeupsAreOwned == Spec => []DeferredHasOwner
<1>1. OwnershipInv => DeferredHasOwner
  BY DEF OwnershipInv
<1>. QED
  BY <1>1, OwnershipAlways, PTL

-----------------------------------------------------------------------------
(* The invariants.                                                         *)

\* A turn was launched and has not returned.
Active == turn.pc \notin {"off", "closing"}

\* The response that is handled has its interaction, and the controller of a turn its turn.
OwnersAreThere ==
  /\ res.pc = "handling" => inter
  /\ ctl = "turn" => Active

\* A resumed run shows in the status, and it is alone: no interaction or question is open.
ResumedIsAlone ==
  res.pc \in {"prep", "stream"} => status = "generating" /\ ~inter /\ ~asked /\ ~Active

\* An open interaction leaves no room for a question or a turn.
InteractionIsAlone == inter => ~asked /\ ~Active

\* Past the preparation of its context a turn has its user message in the transcript, and a
\* steer message has it from the start; that message answers any question.
MessageIsThere ==
  /\ turn.pc \in {"answer", "entering", "registered", "stream"} => turn.fact = "seen"
  /\ Active /\ turn.src = "steer" => turn.fact = "seen"
  /\ Active /\ turn.pc # "rolled" /\ turn.fact # "none" => ~asked

GenerationInv ==
  /\ OwnersAreThere /\ ResumedIsAlone /\ InteractionIsAlone /\ MessageIsThere
  /\ GeneratingHasOwner /\ HandoffKeepsMessage

\* What a turn settled before its end is gone.
SettledIsGone ==
  Active /\ ~Unsettled => turn.disp = "consumed" /\ st[turn.input] = "gone"

\* A head that the user resumed is a queue row, and a turn that has it spends it early: it is
\* not claimed any more when the provider is called.
ResumedIsSpent ==
  /\ \A i \in resumed : st[i] # "unused" /\ mode[i] = "queue"
  /\ Active /\ Unsettled /\ turn.input \in resumed => turn.pc # "stream" /\ turn.early

HeadInv == SettledIsGone /\ ResumedIsSpent

LaneInv == OwnershipInv /\ QueueMatchesRows /\ GenerationInv /\ HeadInv

-----------------------------------------------------------------------------
(* Sequences without repetition.                                           *)

\* q lists the elements of R, each once.
IsOrder(q, R) ==
  /\ q \in Seq(Ids)
  /\ \A m, n \in DOMAIN q : q[m] = q[n] => m = n
  /\ \A i \in Ids : (\E n \in DOMAIN q : q[n] = i) <=> i \in R

\* An element at the end.
LEMMA OrderAppends ==
  ASSUME NEW q, NEW R, IsOrder(q, R), NEW i \in Ids, i \notin R
  PROVE  IsOrder(Append(q, i), R \cup {i})
<1> DEFINE a == Append(q, i)
<1>1. q \in Seq(Ids) /\ Len(q) \in Nat /\ DOMAIN q = 1..Len(q)
  BY DEF IsOrder
<1>2. /\ a \in Seq(Ids) /\ DOMAIN a = 1..(Len(q) + 1)
      /\ \A n \in 1..Len(q) : a[n] = q[n]
      /\ a[Len(q) + 1] = i
  BY <1>1, AppendProperties
<1> HIDE DEF a
<1>3. \A n \in 1..Len(q) : q[n] # i /\ q[n] \in Ids
  BY <1>1 DEF IsOrder
<1>4. \A n \in DOMAIN a : n \in 1..Len(q) \/ n = Len(q) + 1
  BY <1>1, <1>2
<1>5. \A m, n \in DOMAIN a : a[m] = a[n] => m = n
  BY <1>1, <1>2, <1>3, <1>4 DEF IsOrder
<1>6. \A j \in Ids : (\E n \in DOMAIN a : a[n] = j) <=> j \in R \cup {i}
  <2>1. ASSUME NEW j \in Ids, j \in R PROVE \E n \in DOMAIN a : a[n] = j
    <3>1. PICK n \in 1..Len(q) : q[n] = j
      BY <1>1, <2>1 DEF IsOrder
    <3> QED
      BY <1>1, <1>2, <3>1
  <2>2. Len(q) + 1 \in DOMAIN a
    BY <1>1, <1>2
  <2>3. ASSUME NEW n \in DOMAIN a, NEW j \in Ids, a[n] = j PROVE j \in R \cup {i}
    BY <1>1, <1>2, <1>4, <2>3 DEF IsOrder
  <2> QED
    BY <1>2, <2>1, <2>2, <2>3
<1> QED
  BY <1>2, <1>5, <1>6 DEF IsOrder, a

\* A sequence without its element at k.
LEMMA RemovedAt ==
  ASSUME NEW S, NEW q \in Seq(S), NEW k \in 1..Len(q)
  PROVE  /\ RemoveAt(q, k) \in Seq(S)
         /\ DOMAIN RemoveAt(q, k) = 1..(Len(q) - 1)
         /\ \A n \in 1..(Len(q) - 1) :
              RemoveAt(q, k)[n] = IF n < k THEN q[n] ELSE q[n + 1]
<1> DEFINE front == SubSeq(q, 1, k - 1)
           back  == SubSeq(q, k + 1, Len(q))
<1>1. Len(q) \in Nat /\ \A n \in 1..Len(q) : q[n] \in S
  OBVIOUS
<1>2. /\ front \in Seq(S) /\ Len(front) = k - 1
      /\ \A n \in 1..(k - 1) : front[n] = q[n]
  BY <1>1, SubSeqProperties
<1>3. /\ back \in Seq(S) /\ Len(back) = Len(q) - k
      /\ \A n \in 1..(Len(q) - k) : back[n] = q[k + n]
  BY <1>1, SubSeqProperties
<1>4. RemoveAt(q, k) = front \o back
  BY DEF RemoveAt
<1> HIDE DEF front, back
<1>5. /\ front \o back \in Seq(S) /\ Len(front \o back) = Len(front) + Len(back)
      /\ \A n \in 1..(Len(front) + Len(back)) :
           (front \o back)[n] = IF n <= Len(front) THEN front[n] ELSE back[n - Len(front)]
  BY <1>2, <1>3, ConcatProperties
<1>6. Len(front) + Len(back) = Len(q) - 1 /\ Len(q) - 1 \in Nat /\ k \in Nat
  BY <1>1, <1>2, <1>3
<1>7. ASSUME NEW n \in 1..(Len(q) - 1)
      PROVE  (front \o back)[n] = IF n < k THEN q[n] ELSE q[n + 1]
  <2>1. (front \o back)[n] = IF n <= k - 1 THEN front[n] ELSE back[n - (k - 1)]
    BY <1>2, <1>5, <1>6
  <2>2. CASE n < k
    BY <1>2, <1>6, <2>1, <2>2
  <2>3. CASE ~(n < k)
    <3>1. n - (k - 1) \in 1..(Len(q) - k) /\ k + (n - (k - 1)) = n + 1 /\ ~(n <= k - 1)
      BY <1>1, <1>6, <2>3
    <3> QED
      BY <1>3, <2>1, <2>3, <3>1
  <2> QED
    BY <2>2, <2>3
<1>8. DOMAIN (front \o back) = 1..(Len(q) - 1)
  BY <1>5, <1>6
<1> QED
  BY <1>4, <1>5, <1>7, <1>8

\* The element leaves, the others keep their order.
LEMMA OrderLosesPlace ==
  ASSUME NEW q, NEW R, IsOrder(q, R), NEW k \in DOMAIN q
  PROVE  IsOrder(RemoveAt(q, k), R \ {q[k]})
<1> DEFINE r == RemoveAt(q, k)
<1>1. q \in Seq(Ids) /\ Len(q) \in Nat /\ DOMAIN q = 1..Len(q)
  BY DEF IsOrder
<1>2. /\ r \in Seq(Ids) /\ DOMAIN r = 1..(Len(q) - 1)
      /\ \A n \in 1..(Len(q) - 1) : r[n] = IF n < k THEN q[n] ELSE q[n + 1]
  BY <1>1, RemovedAt
<1> HIDE DEF r
<1>3. \A m, n \in DOMAIN q : q[m] = q[n] => m = n
  BY DEF IsOrder
<1>4. ASSUME NEW m \in DOMAIN r, NEW n \in DOMAIN r, r[m] = r[n] PROVE m = n
  <2>1. /\ m \in Nat /\ n \in Nat /\ k \in Nat
        /\ m \in 1..(Len(q) - 1) /\ n \in 1..(Len(q) - 1)
        /\ m \in DOMAIN q /\ m + 1 \in DOMAIN q /\ n \in DOMAIN q /\ n + 1 \in DOMAIN q
    BY <1>1, <1>2
  <2>2. r[m] = (IF m < k THEN q[m] ELSE q[m + 1]) /\ r[n] = (IF n < k THEN q[n] ELSE q[n + 1])
    BY <1>2, <2>1
  <2>3. (IF m < k THEN m ELSE m + 1) = (IF n < k THEN n ELSE n + 1)
    BY <1>3, <1>4, <2>1, <2>2
  <2> QED
    BY <2>1, <2>3
<1>5. ASSUME NEW j \in Ids, j \in R, j # q[k] PROVE \E n \in DOMAIN r : r[n] = j
  <2>1. PICK n \in 1..Len(q) : q[n] = j
    BY <1>1, <1>5 DEF IsOrder
  <2>2. n # k
    BY <1>5, <2>1
  <2>3. CASE n < k
    BY <1>1, <1>2, <2>1, <2>3
  <2>4. CASE n > k
    <3>1. n - 1 \in DOMAIN r /\ r[n - 1] = q[n]
      BY <1>1, <1>2, <2>4
    <3> QED
      BY <2>1, <3>1
  <2> QED
    BY <1>1, <2>2, <2>3, <2>4
<1>6. ASSUME NEW j \in Ids, NEW n \in DOMAIN r, r[n] = j PROVE j \in R /\ j # q[k]
  <2>1. PICK m \in DOMAIN q : m # k /\ q[m] = j
    BY <1>1, <1>2, <1>6, SMTT(30)
  <2> QED
    BY <1>3, <2>1 DEF IsOrder
<1>7. \A j \in Ids : (\E n \in DOMAIN r : r[n] = j) <=> j \in R \ {q[k]}
  BY <1>5, <1>6
<1> QED
  BY <1>2, <1>4, <1>7 DEF IsOrder, r

\* The first occurrence of an element of an order is its only one.
LEMMA RemovedFirst ==
  ASSUME NEW R, NEW f, IsOrder(f, R), NEW k \in DOMAIN f
  PROVE  RemoveFirst(f, f[k]) = RemoveAt(f, k)
<1>1. f \in Seq(Ids) /\ DOMAIN f = 1..Len(f)
  BY DEF IsOrder
<1>2. {n \in 1..Len(f) : f[n] = f[k]} = {k}
  BY <1>1 DEF IsOrder
<1>3. Min({k}) = k
  BY <1>1 DEF Min
<1>4. SelectInSeq(f, LAMBDA v : v = f[k]) = k
  BY <1>2, <1>3 DEF SelectInSeq
<1> QED
  BY <1>1, <1>4 DEF RemoveFirst

\* Removing an element by its value.
LEMMA OrderRemoves ==
  ASSUME NEW q, NEW R, IsOrder(q, R), NEW i \in Ids, i \in R
  PROVE  IsOrder(RemoveFirst(q, i), R \ {i})
<1>1. PICK k \in DOMAIN q : q[k] = i
  BY DEF IsOrder
<1>2. RemoveFirst(q, i) = RemoveAt(q, k)
  BY <1>1, RemovedFirst
<1> QED
  BY <1>1, <1>2, OrderLosesPlace

\* A set of naturals has a least element.
LEMMA LeastExists ==
  ASSUME NEW S, S \subseteq Nat, S # {}
  PROVE  Min(S) \in S /\ \A y \in S : Min(S) =< y
<1>1. PICK x \in S : \A y \in S : ~(<<y, x>> \in OpToRel(<, Nat))
  BY NatLessThanWellFounded, WFMin
<1>2. \A y \in S : x =< y
  <2>1. ASSUME NEW y \in S, y < x PROVE FALSE
    <3>1. <<y, x>> \in OpToRel(<, Nat)
      BY <2>1 DEF OpToRel
    <3> QED
      BY <1>1, <3>1
  <2> QED
    BY <2>1
<1> QED
  BY <1>2 DEF Min

\* A bounded set of naturals has a greatest element.
LEMMA GreatestExists ==
  ASSUME NEW N \in Nat, NEW S, S \subseteq 1..N, S # {}
  PROVE  Max(S) \in S /\ \A y \in S : Max(S) >= y
<1> DEFINE T == {N - x : x \in S}
<1>1. T \subseteq Nat /\ T # {}
  <2>1. \A x \in S : N - x \in Nat
    OBVIOUS
  <2>2. PICK x \in S : TRUE
    OBVIOUS
  <2>3. N - x \in T
    OBVIOUS
  <2> QED
    BY <2>1, <2>3
<1>2. Min(T) \in T /\ \A t \in T : Min(T) =< t
  BY <1>1, LeastExists
<1>3. PICK x \in S : Min(T) = N - x
  BY <1>2
<1>4. \A y \in S : x >= y
  <2> SUFFICES ASSUME NEW y \in S PROVE x >= y
    OBVIOUS
  <2>1. N - x =< N - y
    BY <1>2, <1>3
  <2> QED
    BY <2>1
<1> QED
  BY <1>4 DEF Max


\* The slots of a move from one waiting slot to another: what lies between them, the old slot
\* included, goes one waiting slot further, and the new slot takes the old one's row.
Shifted(slots, from, to) ==
  {n \in slots : (to < n /\ n <= from) \/ (from <= n /\ n < to)}
NextSlot(slots, from, to, n) ==
  IF to < from THEN Max({k \in slots : k < n}) ELSE Min({k \in slots : k > n})
Source(slots, from, to, n) ==
  IF n = to THEN from
  ELSE IF n \in Shifted(slots, from, to) THEN NextSlot(slots, from, to, n) ELSE n

\* Moving up: the slot a shifted row comes from is the waiting slot in front of its new one.
LEMMA SourceAbove ==
  ASSUME NEW N \in Nat, NEW slots \in SUBSET (1..N), NEW from \in slots, NEW to \in slots,
         to < from, NEW n \in Shifted(slots, from, to)
  PROVE  /\ Source(slots, from, to, n) \in slots
         /\ to <= Source(slots, from, to, n) /\ Source(slots, from, to, n) < n
         /\ n <= from /\ to < n /\ n \in slots
         /\ \A k \in slots : k < n => k <= Source(slots, from, to, n)
<1> DEFINE below == {k \in slots : k < n}
<1>1. n \in slots /\ to < n /\ n <= from
  BY DEF Shifted
<1>2. below \subseteq 1..N /\ to \in below
  BY <1>1
<1>3. Max(below) \in below /\ \A y \in below : Max(below) >= y
  BY <1>2, GreatestExists
<1>4. Source(slots, from, to, n) = Max(below)
  BY <1>1 DEF Source, NextSlot
<1> QED
  BY <1>1, <1>2, <1>3, <1>4

\* Moving down: the waiting slot behind its new one.
LEMMA SourceBelow ==
  ASSUME NEW N \in Nat, NEW slots \in SUBSET (1..N), NEW from \in slots, NEW to \in slots,
         from < to, NEW n \in Shifted(slots, from, to)
  PROVE  /\ Source(slots, from, to, n) \in slots
         /\ Source(slots, from, to, n) <= to /\ n < Source(slots, from, to, n)
         /\ from <= n /\ n < to /\ n \in slots
         /\ \A k \in slots : n < k => Source(slots, from, to, n) <= k
<1> DEFINE above == {k \in slots : k > n}
<1>1. n \in slots /\ from <= n /\ n < to
  BY DEF Shifted
<1>2. above \subseteq Nat /\ to \in above
  <2>1. slots \subseteq Nat
    OBVIOUS
  <2> QED
    BY <1>1, <2>1
<1>3. Min(above) \in above /\ \A y \in above : Min(above) =< y
  BY <1>2, LeastExists
<1>4. Source(slots, from, to, n) = Min(above)
  BY <1>1 DEF Source, NextSlot
<1> QED
  BY <1>1, <1>2, <1>3, <1>4

Permutes(N, slots, from, to) ==
  /\ \A n \in 1..N : Source(slots, from, to, n) \in 1..N
  /\ \A m, n \in 1..N : Source(slots, from, to, m) = Source(slots, from, to, n) => m = n
  /\ \A k \in 1..N : \E n \in 1..N : Source(slots, from, to, n) = k

\* A move permutes the slots.
LEMMA MovePermutes ==
  ASSUME NEW N \in Nat, NEW slots \in SUBSET (1..N), NEW from \in slots, NEW to \in slots,
         to # from
  PROVE  Permutes(N, slots, from, to)
<1> DEFINE S(n) == Source(slots, from, to, n)
           moved == Shifted(slots, from, to)
<1>0. from \in 1..N /\ to \in 1..N /\ moved \subseteq 1..N
  BY DEF Shifted
<1>10. slots \subseteq 1..N /\ slots \subseteq Nat
  OBVIOUS
<1>1. S(to) = from /\ to \notin moved
  BY <1>0 DEF Source, Shifted
<1>2. \A n \in 1..N : n # to /\ n \notin moved => S(n) = n
  BY DEF Source
<1>3. from \in moved
  BY <1>0 DEF Shifted
<1>4. \A n \in slots : n # to /\ n \notin moved =>
        (to < from => n < to \/ n > from) /\ (from < to => n > to \/ n < from)
  BY <1>0 DEF Shifted
<1>5. CASE to < from
  <2>1. \A n \in moved : /\ S(n) \in slots /\ to <= S(n) /\ S(n) < n /\ n <= from /\ to < n
                         /\ n \in slots
                         /\ \A k \in slots : k < n => k <= S(n)
    BY <1>5, SourceAbove
  <2>9. \A n \in moved : S(n) \in Nat /\ n \in Nat
    BY <1>10, <2>1
  <2> HIDE DEF S, moved
  <2>2. \A n \in 1..N : S(n) \in 1..N
    BY <1>0, <1>1, <1>2, <2>1
  <2>3. ASSUME NEW m \in 1..N, NEW n \in 1..N, S(m) = S(n), m < n PROVE FALSE
    <3>1. CASE m \in moved /\ n \in moved
      BY <2>1, <2>3, <2>9, <3>1
    <3>2. CASE m \notin moved /\ n \notin moved
      BY <1>0, <1>1, <1>2, <1>3, <2>3, <3>2
    <3>3. CASE m \in moved /\ n \notin moved
      <4>1. CASE n = to
        BY <1>0, <1>1, <2>1, <2>3, <2>9, <3>3, <4>1
      <4>2. CASE n # to
        BY <1>0, <1>2, <1>4, <1>5, <2>1, <2>3, <3>3, <4>2
      <4> QED
        BY <4>1, <4>2
    <3>4. CASE m \notin moved /\ n \in moved
      <4>1. CASE m = to
        BY <1>0, <1>1, <2>1, <2>3, <2>9, <3>4, <4>1
      <4>2. CASE m # to
        BY <1>0, <1>2, <1>4, <1>5, <2>1, <2>3, <3>4, <4>2
      <4> QED
        BY <4>1, <4>2
    <3> QED
      BY <3>1, <3>2, <3>3, <3>4
  <2>4. ASSUME NEW k \in 1..N PROVE \E n \in 1..N : S(n) = k
    <3>1. CASE k = from
      BY <1>0, <1>1, <3>1
    <3>2. CASE k # to /\ k \notin moved
      BY <1>2, <3>2
    <3>3. CASE k # from /\ (k = to \/ k \in moved)
      <4> DEFINE above == {n \in slots : n > k}
      <4>1. k \in slots /\ k < from /\ to <= k
        BY <1>0, <1>5, <2>1, <3>3
      <4>2. above \subseteq Nat /\ from \in above
        BY <1>10, <4>1
      <4>3. Min(above) \in above /\ \A y \in above : Min(above) =< y
        BY <4>2, LeastExists
      <4>4. PICK n \in slots : n > k /\ \A y \in slots : y > k => n =< y
        BY <4>3
      <4>5. n <= from /\ to < n
        BY <1>0, <4>1, <4>4
      <4>6. n \in moved
        BY <4>5 DEF moved, Shifted
      <4>7. S(n) \in slots /\ k <= S(n) /\ S(n) < n
        BY <2>1, <4>1, <4>4, <4>6
      <4>8. ~(k < S(n))
        <5>1. k < S(n) => n <= S(n)
          BY <4>4, <4>7
        <5>2. S(n) \in Nat /\ n \in Nat /\ k \in Nat
          BY <1>10, <4>1, <4>7
        <5> QED
          BY <4>7, <5>1, <5>2
      <4>9. S(n) = k
        <5>1. S(n) \in Nat /\ k \in Nat
          BY <1>10, <4>1, <4>7
        <5> QED
          BY <4>7, <4>8, <5>1
      <4> QED
        BY <1>10, <4>9
    <3> QED
      BY <3>1, <3>2, <3>3
  <2>5. \A m, n \in 1..N : S(m) = S(n) => m = n
    BY <2>3
  <2> QED
    BY <2>2, <2>4, <2>5 DEF S, Permutes
<1>6. CASE from < to
  <2>1. \A n \in moved : /\ S(n) \in slots /\ S(n) <= to /\ n < S(n) /\ from <= n /\ n < to
                         /\ n \in slots
                         /\ \A k \in slots : n < k => S(n) <= k
    BY <1>6, SourceBelow
  <2>9. \A n \in moved : S(n) \in Nat /\ n \in Nat
    BY <1>10, <2>1
  <2> HIDE DEF S, moved
  <2>2. \A n \in 1..N : S(n) \in 1..N
    BY <1>0, <1>1, <1>2, <2>1
  <2>3. ASSUME NEW m \in 1..N, NEW n \in 1..N, S(m) = S(n), m < n PROVE FALSE
    <3>1. CASE m \in moved /\ n \in moved
      BY <2>1, <2>3, <2>9, <3>1
    <3>2. CASE m \notin moved /\ n \notin moved
      BY <1>0, <1>1, <1>2, <1>3, <2>3, <3>2
    <3>3. CASE m \in moved /\ n \notin moved
      <4>1. CASE n = to
        BY <1>0, <1>1, <2>1, <2>3, <2>9, <3>3, <4>1
      <4>2. CASE n # to
        BY <1>0, <1>2, <1>4, <1>6, <2>1, <2>3, <3>3, <4>2
      <4> QED
        BY <4>1, <4>2
    <3>4. CASE m \notin moved /\ n \in moved
      <4>1. CASE m = to
        BY <1>0, <1>1, <2>1, <2>3, <2>9, <3>4, <4>1
      <4>2. CASE m # to
        BY <1>0, <1>2, <1>4, <1>6, <2>1, <2>3, <3>4, <4>2
      <4> QED
        BY <4>1, <4>2
    <3> QED
      BY <3>1, <3>2, <3>3, <3>4
  <2>4. ASSUME NEW k \in 1..N PROVE \E n \in 1..N : S(n) = k
    <3>1. CASE k = from
      BY <1>0, <1>1, <3>1
    <3>2. CASE k # to /\ k \notin moved
      BY <1>2, <3>2
    <3>3. CASE k # from /\ (k = to \/ k \in moved)
      <4> DEFINE below == {n \in slots : n < k}
      <4>1. k \in slots /\ from < k /\ k <= to
        BY <1>0, <1>6, <2>1, <3>3
      <4>2. below \subseteq 1..N /\ from \in below
        BY <1>10, <4>1
      <4>3. Max(below) \in below /\ \A y \in below : Max(below) >= y
        BY <4>2, GreatestExists
      <4>4. PICK n \in slots : n < k /\ \A y \in slots : y < k => n >= y
        BY <4>3
      <4>5. from <= n /\ n < to
        BY <1>0, <4>1, <4>4
      <4>6. n \in moved
        BY <4>5 DEF moved, Shifted
      <4>7. S(n) \in slots /\ S(n) <= k /\ n < S(n)
        BY <2>1, <4>1, <4>4, <4>6
      <4>8. ~(S(n) < k)
        <5>1. S(n) < k => n >= S(n)
          BY <4>4, <4>7
        <5>2. S(n) \in Nat /\ n \in Nat /\ k \in Nat
          BY <1>10, <4>1, <4>7
        <5> QED
          BY <4>7, <5>1, <5>2
      <4>9. S(n) = k
        <5>1. S(n) \in Nat /\ k \in Nat
          BY <1>10, <4>1, <4>7
        <5> QED
          BY <4>7, <4>8, <5>1
      <4> QED
        BY <1>10, <4>9
    <3> QED
      BY <3>1, <3>2, <3>3
  <2>5. \A m, n \in 1..N : S(m) = S(n) => m = n
    BY <2>3
  <2> QED
    BY <2>2, <2>4, <2>5 DEF S, Permutes
<1> QED
  BY <1>0, <1>5, <1>6

\* The rows of an order keep their places but for a permutation.
LEMMA MovedIsOrder ==
  ASSUME NEW R, NEW f, IsOrder(f, R), NEW slots \in SUBSET (1..Len(f)),
         NEW from \in slots, NEW to \in slots, to # from,
         NEW p, p = [x \in DOMAIN f |-> f[Source(slots, from, to, x)]]
  PROVE  IsOrder(p, R)
<1> DEFINE N == Len(f)
           S(n) == Source(slots, from, to, n)
<1>1. f \in Seq(Ids) /\ N \in Nat /\ DOMAIN f = 1..N
  BY DEF IsOrder
<1>2. \A m, n \in 1..N : f[m] = f[n] => m = n
  BY <1>1 DEF IsOrder
<1>3. /\ \A n \in 1..N : S(n) \in 1..N
      /\ \A m, n \in 1..N : S(m) = S(n) => m = n
      /\ \A k \in 1..N : \E n \in 1..N : S(n) = k
  <2> HIDE DEF N
  <2>1. N \in Nat /\ slots \in SUBSET (1..N)
    BY <1>1 DEF N
  <2>2. Permutes(N, slots, from, to)
    BY <2>1, MovePermutes
  <2> QED
    BY <2>2 DEF Permutes
<1> HIDE DEF S
<1>4. DOMAIN p = 1..N /\ \A n \in 1..N : p[n] = f[S(n)]
  BY <1>1 DEF S
<1>5. p \in Seq(Ids)
  <2>1. \A n \in 1..N : f[n] \in Ids
    BY <1>1
  <2>2. \A n \in 1..N : f[S(n)] \in Ids
    BY <1>3, <2>1
  <2>3. p = [n \in 1..N |-> f[S(n)]]
    BY <1>1 DEF S
  <2> HIDE DEF N
  <2>4. [n \in 1..N |-> f[S(n)]] \in Seq(Ids)
    BY <1>1, <2>2, IsASeq
  <2> QED
    BY <2>3, <2>4
<1>6. ASSUME NEW m \in 1..N, NEW n \in 1..N, p[m] = p[n] PROVE m = n
  <2>1. S(m) \in 1..N /\ S(n) \in 1..N /\ f[S(m)] = f[S(n)]
    BY <1>3, <1>4, <1>6
  <2>2. S(m) = S(n)
    BY <1>2, <2>1
  <2> QED
    BY <1>3, <2>2
<1>7. ASSUME NEW j \in Ids PROVE (\E n \in 1..N : p[n] = j) <=> j \in R
  <2>1. (\E n \in 1..N : f[n] = j) <=> j \in R
    BY <1>1 DEF IsOrder
  <2>2. ASSUME NEW k \in 1..N, f[k] = j PROVE \E n \in 1..N : p[n] = j
    <3>1. PICK n \in 1..N : S(n) = k
      BY <1>3
    <3> QED
      BY <1>4, <2>2, <3>1
  <2>3. ASSUME NEW n \in 1..N, p[n] = j PROVE \E k \in 1..N : f[k] = j
    BY <1>3, <1>4, <2>3
  <2> QED
    BY <2>1, <2>2, <2>3
<1>8. \A m, n \in DOMAIN p : p[m] = p[n] => m = n
  BY <1>4, <1>6
<1>9. \A j \in Ids : (\E n \in DOMAIN p : p[n] = j) <=> j \in R
  BY <1>4, <1>7
<1> QED
  BY <1>5, <1>8, <1>9 DEF IsOrder

\* A move of the lane is such a permutation.
LEMMA OrderMoves ==
  ASSUME NEW R, IsOrder(queue, R), NEW i \in Ids, i \in R, NEW to, MoveQueueInput(i, to)
  PROVE  IsOrder(queue', R)
<1> DEFINE slots == {n \in DOMAIN queue : IsWaiting(queue[n])}
           N == Len(queue)
<1>1. PICK from \in DOMAIN queue : queue[from] = i
  BY DEF IsOrder
<1>2. queue \in Seq(Ids) /\ N \in Nat /\ DOMAIN queue = 1..N
  BY DEF IsOrder
<1>3. \A m, n \in DOMAIN queue : queue[m] = queue[n] => m = n
  BY DEF IsOrder
<1>4. (CHOOSE n \in DOMAIN queue : queue[n] = i) = from
  BY <1>1, <1>3
<1>5. slots \in SUBSET (1..N) /\ from \in slots /\ to \in slots /\ to # from
  BY <1>1, <1>2 DEF MoveQueueInput
<1> DEFINE S(n) == Source(slots, from, to, n)
<1>6. queue' = [n \in DOMAIN queue |-> queue[S(n)]]
  <2>1. queue' = [n \in DOMAIN queue |->
           IF n = to THEN i
           ELSE IF n \in Shifted(slots, from, to) THEN queue[NextSlot(slots, from, to, n)]
           ELSE queue[n]]
    BY <1>4 DEF MoveQueueInput, Shifted, NextSlot
  <2> QED
    BY <1>1, <2>1 DEF Source
<1> HIDE DEF slots
<1> QED
  BY <1>2, <1>5, <1>6, MovedIsOrder

-----------------------------------------------------------------------------
(* A step of the session writes the rows as one transaction of the store.  *)

LiveQueue == {i \in Ids : mode[i] = "queue" /\ st[i] \in Live}

\* What one transaction makes of a row.
WritesRow(i) ==
  \/ \E s \in Live : CreateQueueInput(i, s)
  \/ CreateSteerInput(i)
  \/ st[i] \in Live /\ (\E s \in Live : RestateInput(i, s))
  \/ st[i] \in Live /\ ConsumeInput(i)
  \/ st[i] \in Live /\ mode[i] = "steer" /\ RestateInput(i, "gone")
  \/ st[i] \in Live /\ mode[i] = "queue" /\ ConvertQueueInputToSteer(i)
  \/ \E to : MoveQueueInput(i, to)

RowStep == UNCHANGED rowVars \/ \E i \in Ids : WritesRow(i)

\* A turn that has not settled holds a claimed row.
LEMMA TurnHoldsRow ==
  ASSUME OwnershipInv, turn.pc # "off"
  PROVE  /\ turn.input \in Ids /\ boot = "up"
         /\ Unsettled => st[turn.input] = "claimed" /\ TurnOwns(turn.input)
<1>1. turn.input \in Ids /\ boot = "up"
  BY DEF OwnershipInv, TurnHasClaim, FailedBootIsQuiet, TypeOK
<1>2. Unsettled => TurnOwns(turn.input)
  BY DEF TurnOwns
<1> QED
  BY <1>1, <1>2 DEF OwnershipInv, ClaimOwnership

\* The row that is being promoted is a claimed queue row.
LEMMA LaneHoldsRow ==
  ASSUME OwnershipInv, lane.kind = "prep"
  PROVE  /\ lane.input \in Ids /\ boot = "up"
         /\ st[lane.input] = "claimed" /\ mode[lane.input] = "queue" /\ LaneOwns(lane.input)
<1>1. lane.input \in Ids /\ boot = "up"
  BY DEF OwnershipInv, FailedBootIsQuiet, TypeOK, Lanes
<1>2. LaneOwns(lane.input)
  BY DEF LaneOwns
<1> QED
  BY <1>1, <1>2 DEF OwnershipInv, ClaimOwnership, LaneHasConsent

LEMMA PumpStepWrites == OwnershipInv /\ PumpStep => RowStep
<1> SUFFICES ASSUME OwnershipInv, PumpStep PROVE RowStep
  OBVIOUS
<1>1. ASSUME NEW i \in Ids, DrainSteerInput(i) PROVE WritesRow(i)
  BY <1>1
  DEF DrainSteerInput, CanStartSteer, IsNextSteer, WaitingSteer, ClaimInput, RestateInput,
      WritesRow, Live
<1>2. ASSUME NEW i \in Ids, DrainQueuedInput(i) PROVE WritesRow(i)
  BY <1>2
  DEF DrainQueuedInput, CanStartQueued, IsNextQueued, ClaimInput, RestateInput, WritesRow, Live
<1>3. DrainStartsNothing \/ Finalize \/ ScheduleNextIfReady => UNCHANGED rowVars
  BY DEF DrainStartsNothing, Finalize, ScheduleNextIfReady
<1> QED
  BY <1>1, <1>2, <1>3 DEF PumpStep, RowStep

LEMMA TurnStepWrites == OwnershipInv /\ TurnStep => RowStep
<1> SUFFICES ASSUME OwnershipInv, TurnStep PROVE RowStep
  OBVIOUS
<1>1. turn.pc # "off"
  BY DEF TurnStep, TurnProgress, AttachReady, AttachNeedsUserAction, AppendUserFact,
         CreateAssistantMessage, RegisterRun, CrossPreStreamBoundary, RunCompletes, RunPauses,
         RunAborted, TurnAborted, RunReturnsError, TurnJournalFails, TurnFails, InRun, PreRun
<1>2. turn.input \in Ids /\ (Unsettled => st[turn.input] \in Live)
  BY <1>1, TurnHoldsRow DEF Live
<1>3. turn.pc \in {"attach", "context", "answer"} => Unsettled
  BY DEF OwnershipInv, TurnHasClaim
<1>4. AttachReady \/ AppendUserFact \/ RegisterRun => UNCHANGED rowVars
  BY DEF AttachReady, AppendUserFact, RegisterRun
<1>5. AttachNeedsUserAction => WritesRow(turn.input)
  BY <1>2, <1>3 DEF AttachNeedsUserAction, WritesRow, Live
<1>6. CreateAssistantMessage \/ CrossPreStreamBoundary => RowStep
  BY <1>2, <1>3 DEF CreateAssistantMessage, CrossPreStreamBoundary, RowStep, WritesRow
<1>7. ASSUME NEW s, TurnConsumes(s) PROVE RowStep
  BY <1>2, <1>7 DEF TurnConsumes, RowStep, WritesRow
<1>8. ASSUME NEW s, TurnReleasesForRetry(s), Unsettled PROVE RowStep
  BY <1>2, <1>8 DEF TurnReleasesForRetry, RowStep, WritesRow, Live
<1>9. ASSUME NEW s, TurnRollsBack(s) PROVE RowStep
  BY <1>9 DEF TurnRollsBack, RowStep
<1> QED
  BY <1>4, <1>5, <1>6, <1>7, <1>8, <1>9, <1>2
  DEF TurnStep, TurnProgress, RunCompletes, RunPauses, RunAborted, TurnAborted,
      RunReturnsError, TurnJournalFails, TurnFails, RowStep

LEMMA ResponsesWriteNothing == ResumeStep \/ RespondStep => UNCHANGED rowVars
BY DEF ResumeStep, ResumeProgress, RespondStep, RespondAborted, AbortSettles, ResumeStreams,
       ResumeSettles, ResumePauses, ResumeFails, RespondKeepsWaiting, RespondAwaitsFollowUp,
       RespondResumes, resRest

LEMMA AcceptSteerWrites ==
  ASSUME NEW i \in Ids, NEW s, AcceptSteer(i, s)
  PROVE  RowStep
BY DEF AcceptSteer, AcceptVisibleSteerInput, RowStep, WritesRow

LEMMA PreparationStepWrites == OwnershipInv /\ PreparationStep => RowStep
<1> SUFFICES ASSUME OwnershipInv, PreparationStep PROVE RowStep
  OBVIOUS
<1>1. lane.kind = "prep" =>
        lane.input \in Ids /\ st[lane.input] \in Live /\ mode[lane.input] = "queue"
  BY LaneHoldsRow DEF Live
<1>2. ASSUME NEW i \in Ids, SteerWithFilesCommits(i) PROVE RowStep
  BY <1>2, AcceptSteerWrites DEF SteerWithFilesCommits
<1>3. SteerWithFilesEnds => RowStep
  BY DEF SteerWithFilesEnds, RowStep
<1>4. PromotionRejected \/ PromotionNeedsUserAction \/ PromotionFails => RowStep
  BY <1>1
  DEF PromotionRejected, PromotionNeedsUserAction, PromotionFails, RowStep, WritesRow, Live
<1>5. PromotionCommits => RowStep
  BY <1>1 DEF PromotionCommits, RowStep, WritesRow
<1> QED
  BY <1>2, <1>3, <1>4, <1>5 DEF PreparationStep, PreparationProgress

LEMMA UserStepWrites == OwnershipInv /\ UserStep => RowStep
<1> SUFFICES ASSUME OwnershipInv, UserStep PROVE RowStep
  OBVIOUS
<1>1. ASSUME NEW i \in Ids, NEW src, StartAcceptedInput(i, src) \/ QueueAcceptedInput(i, src)
      PROVE  RowStep
  BY <1>1 DEF StartAcceptedInput, QueueAcceptedInput, RowStep, WritesRow, Live
<1>2. ASSUME NEW i \in Ids, SteerActiveTurn(i) PROVE RowStep
  BY <1>2, AcceptSteerWrites DEF SteerActiveTurn
<1>3. ASSUME NEW i \in Ids,
             \/ PromotionBegins(i) \/ UpdateQueuedInput(i) \/ ResolveBlockedPendingInput(i)
             \/ RetryPendingQueueInput(i)
      PROVE  RowStep
  BY <1>3
  DEF PromotionBegins, UpdateQueuedInput, ResolveBlockedPendingInput, RetryPendingQueueInput,
      ClaimInput, IsWaiting, RestateInput, RowStep, WritesRow, Live
<1>4. ASSUME NEW i \in Ids, DeletePendingInput(i) PROVE RowStep
  BY <1>4 DEF DeletePendingInput, IsWaiting, RowStep, WritesRow, Live
<1>5. ASSUME NEW i \in Ids, ResumePendingQueue(i) PROVE RowStep
  BY <1>5 DEF ResumePendingQueue, RowStep
<1>6. ASSUME NEW i \in Ids, NEW to, MoveQueuedInput(i, to) PROVE RowStep
  BY <1>6 DEF MoveQueuedInput, RowStep, WritesRow
<1>7. SteerWithFilesBegins \/ RespondBegins \/ StopRunning \/ StopPaused => RowStep
  BY DEF SteerWithFilesBegins, RespondBegins, StopRunning, StopPaused, resRest, RowStep
<1> QED
  BY <1>1, <1>2, <1>3, <1>4, <1>5, <1>6, <1>7 DEF UserStep

LEMMA StepWritesRows == OwnershipInv /\ [Next]_vars => RowStep \/ Restart
<1> SUFFICES ASSUME OwnershipInv, [Next]_vars, ~Restart PROVE RowStep
  OBVIOUS
<1>1. UNCHANGED vars => RowStep
  BY DEF vars, RowStep
<1>2. SettleRolledBack => RowStep
  <2> SUFFICES ASSUME SettleRolledBack PROVE RowStep
    OBVIOUS
  <2>1. turn.input \in Ids /\ st[turn.input] \in Live
    BY TurnHoldsRow DEF SettleRolledBack, OwnershipInv, TurnHasClaim, Live
  <2> QED
    BY <2>1 DEF SettleRolledBack, TurnReleasesForRetry, RowStep, WritesRow, Live
<1> QED
  BY <1>1, <1>2, PumpStepWrites, TurnStepWrites, ResponsesWriteNothing,
     PreparationStepWrites, UserStepWrites DEF Next, RowStep


-----------------------------------------------------------------------------
(* The lane lists exactly its live queue rows.                             *)

LEMMA OrderIsMatch == QueueMatchesRows <=> IsOrder(queue, LiveQueue)
BY DEF QueueMatchesRows, IsOrder, LiveQueue

LEMMA WriteKeepsOrder ==
  ASSUME TypeOK, QueueMatchesRows, NEW i \in Ids, WritesRow(i)
  PROVE  QueueMatchesRows'
<1>1. IsOrder(queue, LiveQueue)
  BY OrderIsMatch
<1>2. st \in [Ids -> RowStates] /\ mode \in [Ids -> {"queue", "steer"}]
  BY DEF TypeOK
<1>3. IsOrder(queue', LiveQueue')
  <2>1. ASSUME NEW s \in Live, CreateQueueInput(i, s) PROVE IsOrder(queue', LiveQueue')
    <3>1. i \notin LiveQueue /\ queue' = Append(queue, i)
      BY <2>1 DEF CreateQueueInput, IsFresh, LiveQueue, Live
    <3>2. LiveQueue' = LiveQueue \cup {i}
      BY <1>2, <2>1 DEF CreateQueueInput, LiveQueue
    <3> QED
      BY <1>1, <3>1, <3>2, OrderAppends
  <2>2. ASSUME CreateSteerInput(i) PROVE IsOrder(queue', LiveQueue')
    <3>1. LiveQueue' = LiveQueue /\ queue' = queue
      BY <1>2, <2>2 DEF CreateSteerInput, IsFresh, LiveQueue, Live
    <3> QED
      BY <1>1, <3>1
  <2>3. ASSUME NEW s \in Live, st[i] \in Live, RestateInput(i, s)
        PROVE  IsOrder(queue', LiveQueue')
    <3>1. LiveQueue' = LiveQueue /\ queue' = queue
      BY <1>2, <2>3 DEF RestateInput, LiveQueue
    <3> QED
      BY <1>1, <3>1
  <2>4. ASSUME st[i] \in Live, ConsumeInput(i) PROVE IsOrder(queue', LiveQueue')
    <3>1. CASE mode[i] = "queue"
      <4>1. i \in LiveQueue /\ queue' = RemoveFirst(queue, i)
        BY <2>4, <3>1 DEF ConsumeInput, LiveQueue
      <4>2. LiveQueue' = LiveQueue \ {i}
        BY <1>2, <2>4, <3>1 DEF ConsumeInput, LiveQueue, Live
      <4> QED
        BY <1>1, <4>1, <4>2, OrderRemoves
    <3>2. CASE mode[i] # "queue"
      <4>1. LiveQueue' = LiveQueue /\ queue' = queue
        BY <1>2, <2>4, <3>2 DEF ConsumeInput, LiveQueue
      <4> QED
        BY <1>1, <4>1
    <3> QED
      BY <3>1, <3>2
  <2>5. ASSUME mode[i] = "steer", RestateInput(i, "gone") PROVE IsOrder(queue', LiveQueue')
    <3>1. LiveQueue' = LiveQueue /\ queue' = queue
      BY <1>2, <2>5 DEF RestateInput, LiveQueue
    <3> QED
      BY <1>1, <3>1
  <2>6. ASSUME st[i] \in Live, mode[i] = "queue", ConvertQueueInputToSteer(i)
        PROVE  IsOrder(queue', LiveQueue')
    <3>1. i \in LiveQueue /\ queue' = RemoveFirst(queue, i)
      BY <2>6 DEF ConvertQueueInputToSteer, LiveQueue
    <3>2. LiveQueue' = LiveQueue \ {i}
      BY <1>2, <2>6 DEF ConvertQueueInputToSteer, LiveQueue
    <3> QED
      BY <1>1, <3>1, <3>2, OrderRemoves
  <2>7. ASSUME NEW to, MoveQueueInput(i, to) PROVE IsOrder(queue', LiveQueue')
    <3>1. i \in LiveQueue /\ LiveQueue' = LiveQueue
      BY <2>7 DEF MoveQueueInput, IsWaiting, LiveQueue, Live
    <3> QED
      BY <1>1, <2>7, <3>1, OrderMoves
  <2> QED
    BY <2>1, <2>2, <2>3, <2>4, <2>5, <2>6, <2>7 DEF WritesRow
<1> QED
  BY <1>3 DEF QueueMatchesRows, IsOrder, LiveQueue

\* Recovery takes at most one row out of the lane: the turn's.
LEMMA RecoveryKeepsOrder ==
  ASSUME TypeOK, QueueMatchesRows, RecoverInputsAfterRestart
  PROVE  QueueMatchesRows'
<1>1. IsOrder(queue, LiveQueue)
  BY OrderIsMatch
<1>2. st \in [Ids -> RowStates] /\ mode \in [Ids -> {"queue", "steer"}]
  BY DEF TypeOK
<1>3. queue \in Seq(Ids) /\ DOMAIN queue = 1..Len(queue) /\ Len(queue) \in Nat
  BY <1>1 DEF IsOrder
<1>4. \A n \in DOMAIN queue : queue[n] \in Ids /\ mode[queue[n]] = "queue" /\ st[queue[n]] \in Live
  BY <1>1, <1>3 DEF IsOrder, LiveQueue
<1>5. LiveQueue' = {i \in LiveQueue : ~ConsumedByRestart(i)}
  <2>1. ASSUME NEW i \in Ids PROVE i \in LiveQueue' <=> i \in LiveQueue /\ ~ConsumedByRestart(i)
    <3>1. st'[i] = IF ReleasedByRestart(i) THEN "pending"
                   ELSE IF ConsumedByRestart(i) THEN "gone" ELSE st[i]
      BY DEF RecoverInputsAfterRestart
    <3>2. mode' = mode
      BY DEF RecoverInputsAfterRestart
    <3>3. ReleasedByRestart(i) => st[i] \in Live /\ mode[i] = "queue" /\ ~ConsumedByRestart(i)
      BY DEF ReleasedByRestart, ConsumedByRestart, Live
    <3> QED
      BY <3>1, <3>2, <3>3 DEF LiveQueue, Live
  <2> QED
    BY <2>1 DEF LiveQueue
<1>6. queue' = RemoveFirstMatch(queue, ConsumedByRestart)
  BY DEF RecoverInputsAfterRestart
<1>7. CASE \E k \in DOMAIN queue : ConsumedByRestart(queue[k])
  <2>1. PICK k \in DOMAIN queue : ConsumedByRestart(queue[k])
    BY <1>7
  <2>2. \A n \in DOMAIN queue : ConsumedByRestart(queue[n]) => queue[n] = turn.input
    BY <1>4 DEF ConsumedByRestart, Materialized
  <2>3. \A n \in DOMAIN queue : ConsumedByRestart(queue[n]) <=> n = k
    BY <1>1, <2>1, <2>2 DEF IsOrder
  <2>4. {n \in 1..Len(queue) : ConsumedByRestart(queue[n])} = {k}
    BY <1>3, <2>1, <2>3
  <2>5. Min({k}) = k
    BY <1>3 DEF Min
  <2>6. SelectInSeq(queue, ConsumedByRestart) = k
    BY <2>4, <2>5 DEF SelectInSeq
  <2>7. queue' = RemoveAt(queue, k)
    BY <1>3, <1>6, <2>1, <2>6 DEF RemoveFirstMatch
  <2>8. \A i \in LiveQueue : ConsumedByRestart(i) <=> i = queue[k]
    BY <1>1, <2>1, <2>3 DEF IsOrder, LiveQueue
  <2>9. LiveQueue' = LiveQueue \ {queue[k]}
    BY <1>5, <2>8
  <2>10. IsOrder(queue', LiveQueue')
    BY <1>1, <2>7, <2>9, OrderLosesPlace
  <2> QED
    BY <2>10 DEF QueueMatchesRows, IsOrder, LiveQueue
<1>8. CASE ~\E k \in DOMAIN queue : ConsumedByRestart(queue[k])
  <2>1. queue' = queue
    BY <1>3, <1>6, <1>8 DEF RemoveFirstMatch
  <2>2. \A i \in LiveQueue : ~ConsumedByRestart(i)
    BY <1>1, <1>8 DEF IsOrder, LiveQueue
  <2>3. LiveQueue' = LiveQueue
    BY <1>5, <2>2
  <2>4. IsOrder(queue', LiveQueue')
    BY <1>1, <2>1, <2>3
  <2> QED
    BY <2>4 DEF QueueMatchesRows, IsOrder, LiveQueue
<1> QED
  BY <1>7, <1>8

LEMMA StepKeepsOrder == OwnershipInv /\ QueueMatchesRows /\ [Next]_vars => QueueMatchesRows'
<1> SUFFICES ASSUME OwnershipInv, QueueMatchesRows, [Next]_vars PROVE QueueMatchesRows'
  OBVIOUS
<1>1. TypeOK
  BY DEF OwnershipInv
<1>2. UNCHANGED rowVars => QueueMatchesRows'
  BY DEF rowVars, QueueMatchesRows
<1>3. Restart => QueueMatchesRows'
  BY <1>1, <1>2, RecoveryKeepsOrder DEF Restart
<1> QED
  BY <1>1, <1>2, <1>3, StepWritesRows, WriteKeepsOrder DEF RowStep

-----------------------------------------------------------------------------
(* Turns, responses and the status of the session agree.                   *)

\* What the agreement is about.
Generation == <<turn, ctl, res, status, inter, asked, boot>>

LEMMA UntouchedKeepsGeneration == GenerationInv /\ UNCHANGED Generation => GenerationInv'
BY DEF Generation, GenerationInv, OwnersAreThere, ResumedIsAlone, InteractionIsAlone,
       MessageIsThere, GeneratingHasOwner, HandoffKeepsMessage, Active

\* A turn starts where no turn, no interaction and no resumed run is.
LEMMA LaunchKeepsGeneration ==
  ASSUME GenerationInv, turn.pc = "off", ~inter, asked \/ status # "generating",
         NEW i \in Ids, NEW src \in {"send", "queue", "steer"}, src = "steer" => ~asked,
         LaunchTurn(i, src) \/ LaunchFails(i, src),
         UNCHANGED <<inter, asked, res, boot>>
  PROVE  GenerationInv'
<1>1. ~Active /\ ctl # "turn" /\ res.pc \notin {"prep", "stream", "handling"}
  BY DEF Active, GenerationInv, OwnersAreThere, ResumedIsAlone
<1>2. /\ turn'.src = src /\ turn'.sig = "live"
      /\ turn'.fact = IF src = "steer" THEN "seen" ELSE "none"
  BY ZenonT(30) DEF LaunchTurn, LaunchFails, Begun, NoTurn
<1>3. CASE LaunchTurn(i, src)
  <2>1. /\ turn'.pc = IF src = "steer" THEN "answer" ELSE "attach"
        /\ ctl' = "turn" /\ status' = "generating"
    BY <1>3 DEF LaunchTurn, Begun, NoTurn
  <2> QED
    BY <1>1, <1>2, <2>1
    DEF GenerationInv, OwnersAreThere, ResumedIsAlone, InteractionIsAlone, MessageIsThere,
        GeneratingHasOwner, HandoffKeepsMessage, Active
<1>4. CASE LaunchFails(i, src)
  <2>1. turn'.pc = "closing" /\ ctl' = ctl /\ status' = status
    BY <1>4 DEF LaunchFails, Begun, NoTurn
  <2> QED
    BY <1>1, <1>2, <2>1
    DEF GenerationInv, OwnersAreThere, ResumedIsAlone, InteractionIsAlone, MessageIsThere,
        GeneratingHasOwner, HandoffKeepsMessage, Active
<1> QED
  BY <1>3, <1>4

LEMMA PumpStepGeneration ==
  ASSUME OwnershipInv, GenerationInv, PumpStep
  PROVE  GenerationInv'
<1>1. ASSUME NEW i \in Ids, DrainSteerInput(i) \/ DrainQueuedInput(i) PROVE GenerationInv'
  <2>1. /\ pump.lease = "drain" /\ ~asked /\ ~inter
        /\ CanDrainFromStatus(SessionStatus, pump.reason)
        /\ UNCHANGED <<inter, asked, res, boot>>
    BY <1>1
    DEF DrainSteerInput, DrainQueuedInput, CanStartSteer, CanStartQueued, DrainGate, PumpStep,
        admission
  <2>2. turn.pc = "off" /\ status # "generating"
    BY <2>1 DEF OwnershipInv, TurnHoldsLease, CanDrainFromStatus, SessionStatus
  <2>3. PICK src \in {"queue", "steer"} : LaunchTurn(i, src) \/ LaunchFails(i, src)
    BY <1>1 DEF DrainSteerInput, DrainQueuedInput
  <2> QED
    BY <2>1, <2>2, <2>3, LaunchKeepsGeneration
<1>2. ASSUME Finalize PROVE GenerationInv'
  <2>1. /\ turn.pc = "closing" /\ turn' = NoTurn
        /\ UNCHANGED <<ctl, res, status, inter, asked, boot>>
    BY <1>2 DEF Finalize, PumpStep, admission, chatVars
  <2> QED
    BY <2>1
    DEF GenerationInv, OwnersAreThere, ResumedIsAlone, InteractionIsAlone, MessageIsThere,
        GeneratingHasOwner, HandoffKeepsMessage, Active, NoTurn
<1>3. ASSUME DrainStartsNothing \/ ScheduleNextIfReady PROVE GenerationInv'
  BY <1>3, UntouchedKeepsGeneration
  DEF DrainStartsNothing, ScheduleNextIfReady, chatVars, PumpStep, admission, Generation
<1> QED
  BY <1>1, <1>2, <1>3 DEF PumpStep

\* A turn that returns leaves the status to nobody.
LEMMA TurnReturnsGeneration ==
  ASSUME GenerationInv, Active, NEW d, NEW s, TurnCloses(d, s), s # "generating",
         UNCHANGED <<inter, asked, res, boot>>
  PROVE  GenerationInv'
<1>1. /\ turn'.pc = "closing" /\ turn'.sig = "live" /\ ctl' # "turn" /\ status' = s
      /\ turn'.src = "queue"
  BY DEF TurnCloses, NoTurn
<1> QED
  BY <1>1
  DEF GenerationInv, OwnersAreThere, ResumedIsAlone, InteractionIsAlone, MessageIsThere,
      GeneratingHasOwner, HandoffKeepsMessage, Active

LEMMA TurnRollsBackGeneration ==
  ASSUME TypeOK, GenerationInv, Active, NEW s, TurnRollsBack(s), UNCHANGED <<inter, res, boot>>
  PROVE  GenerationInv'
<1>1. /\ turn'.pc = "rolled" /\ turn'.sig = turn.sig /\ turn'.fact = turn.fact
      /\ turn'.src = turn.src /\ ctl' = ctl /\ status' = status
  BY DEF TurnRollsBack, TypeOK, Turns
<1> QED
  BY <1>1
  DEF GenerationInv, OwnersAreThere, ResumedIsAlone, InteractionIsAlone, MessageIsThere,
      GeneratingHasOwner, HandoffKeepsMessage, Active

LEMMA TurnStepGeneration ==
  ASSUME OwnershipInv, GenerationInv, TurnStep
  PROVE  GenerationInv'
<1>1. turn \in Turns /\ TypeOK
  BY DEF OwnershipInv, TypeOK
<1>2. Active /\ boot' = boot
  BY DEF TurnStep, TurnProgress, AttachReady, AttachNeedsUserAction, AppendUserFact, admission,
         CreateAssistantMessage, RegisterRun, CrossPreStreamBoundary, RunCompletes, RunPauses,
         RunAborted, TurnAborted, RunReturnsError, TurnJournalFails, TurnFails, InRun, PreRun,
         Active
<1>3. ASSUME AttachReady \/ RegisterRun \/ CreateAssistantMessage \/ CrossPreStreamBoundary
      PROVE  GenerationInv'
  <2>1. /\ turn'.sig = turn.sig /\ turn'.fact = turn.fact /\ turn'.src = turn.src
        /\ turn'.pc \in {"context", "registered", "entering", "stream"}
        /\ turn'.pc # "context" => turn.pc \in {"answer", "entering", "registered"}
    BY <1>1, <1>3
    DEF AttachReady, RegisterRun, CreateAssistantMessage, CrossPreStreamBoundary, Turns
  <2>2. UNCHANGED <<status, inter, asked, res>> /\ (ctl' = ctl \/ ctl' = "turn")
    BY <1>3
    DEF AttachReady, RegisterRun, CreateAssistantMessage, CrossPreStreamBoundary, chatVars,
        turnRest
  <2>3. Active' /\ turn'.pc # "rolled" /\ (turn'.pc # "context" => turn.fact = "seen")
    BY <2>1 DEF Active, GenerationInv, MessageIsThere
  <2>4. MessageIsThere'
    <3>1. turn.fact # "none" => ~asked
      <4>1. turn.pc # "rolled"
        BY <1>3
        DEF AttachReady, RegisterRun, CreateAssistantMessage, CrossPreStreamBoundary
      <4> QED
        BY <1>2, <4>1 DEF GenerationInv, MessageIsThere
    <3> QED
      BY <1>2, <2>1, <2>2, <2>3, <3>1 DEF GenerationInv, MessageIsThere
  <2> QED
    BY <1>2, <2>1, <2>2, <2>3, <2>4
    DEF GenerationInv, OwnersAreThere, ResumedIsAlone, InteractionIsAlone,
        GeneratingHasOwner, HandoffKeepsMessage, Active
<1>4. ASSUME AppendUserFact PROVE GenerationInv'
  <2>1. /\ turn'.sig = turn.sig /\ turn'.fact = "seen" /\ turn'.src = turn.src
        /\ turn'.pc = "answer" /\ turn.pc = "context"
        /\ asked' = FALSE \/ (asked' = asked /\ turn.fact = "anchor")
        /\ UNCHANGED <<status, inter, ctl, res>>
    BY <1>1, <1>4 DEF AppendUserFact, turnRest, Turns
  <2> QED
    BY <1>2, <2>1
    DEF GenerationInv, OwnersAreThere, ResumedIsAlone, InteractionIsAlone, MessageIsThere,
        GeneratingHasOwner, HandoffKeepsMessage, Active
<1>5. ASSUME RunPauses PROVE GenerationInv'
  <2>1. /\ turn.pc = "stream" /\ turn'.pc = "closing" /\ turn'.sig = "live"
        /\ ctl' # "turn" /\ inter' = TRUE /\ UNCHANGED <<asked, res>>
    BY <1>5 DEF RunPauses, TurnConsumes, TurnCloses, turnRest, NoTurn
  <2> QED
    BY <1>2, <2>1
    DEF GenerationInv, OwnersAreThere, ResumedIsAlone, InteractionIsAlone, MessageIsThere,
        GeneratingHasOwner, HandoffKeepsMessage, Active
<1>6. ASSUME \/ AttachNeedsUserAction \/ RunCompletes \/ RunAborted \/ TurnAborted
             \/ RunReturnsError \/ TurnJournalFails \/ TurnFails
      PROVE  GenerationInv'
  <2>1. UNCHANGED <<inter, res, boot>>
    BY <1>2, <1>6
    DEF AttachNeedsUserAction, RunCompletes, RunAborted, TurnAborted, RunReturnsError,
        TurnJournalFails, TurnFails, turnRest
  <2>2. \E s \in {"idle", "error"} :
          \/ \E d \in {"consumed", "blocked", "released"} : TurnCloses(d, s) /\ asked' = asked
          \/ TurnRollsBack(s)
    BY <1>6
    DEF AttachNeedsUserAction, RunCompletes, RunAborted, TurnAborted, RunReturnsError,
        TurnJournalFails, TurnFails, TurnConsumes, TurnReleasesForRetry
  <2> QED
    BY <1>1, <1>2, <2>1, <2>2, TurnReturnsGeneration, TurnRollsBackGeneration
<1> QED
  BY <1>3, <1>4, <1>5, <1>6 DEF TurnStep, TurnProgress

LEMMA SettleGeneration ==
  ASSUME OwnershipInv, GenerationInv, SettleRolledBack, UNCHANGED admission
  PROVE  GenerationInv'
<1>1. Active /\ turn.after # "generating" /\ UNCHANGED <<inter, asked, res, boot>>
  BY DEF SettleRolledBack, TurnReleasesForRetry, turnRest, admission, Active, OwnershipInv,
         TypeOK, Turns
<1> QED
  BY <1>1, TurnReturnsGeneration DEF SettleRolledBack, TurnReleasesForRetry

LEMMA ResponseGeneration ==
  ASSUME TypeOK, GenerationInv, ResumeStep \/ RespondStep
  PROVE  GenerationInv'
<1>1. UNCHANGED <<turn, boot>> /\ inter \in BOOLEAN /\ res \in Responses
  BY DEF ResumeStep, ResumeProgress, RespondStep, RespondAborted, AbortSettles, ResumeStreams,
         ResumeSettles, ResumePauses, ResumeFails, RespondKeepsWaiting, RespondAwaitsFollowUp,
         RespondResumes, resRest, admission, TypeOK, Responses
<1>2. ASSUME RespondAborted PROVE GenerationInv'
  <2>1. /\ res'.pc = "off" /\ (ctl' = ctl \/ ctl' = "none") /\ asked' = asked
        /\ inter' = FALSE \/ inter' = inter
        /\ status' = "idle" \/ (status' = status /\ ctl = "turn")
    <3>1. PICK b \in {FALSE, inter} : AbortSettles(b)
      BY <1>2 DEF RespondAborted
    <3>2. /\ res' = NoResume /\ ctl' = (IF ctl = "resume" THEN "none" ELSE ctl)
          /\ inter' = b /\ asked' = asked
          /\ status' = "idle" \/ (status' = status /\ ctl = "turn")
      BY <3>1 DEF AbortSettles, ResLetsGoOfController, resRest
    <3> QED
      BY <1>1, <3>2 DEF NoResume
  <2> QED
    BY <1>1, <2>1
    DEF GenerationInv, OwnersAreThere, ResumedIsAlone, InteractionIsAlone, MessageIsThere,
        GeneratingHasOwner, HandoffKeepsMessage, Active
<1>3. ASSUME ResumeStreams PROVE GenerationInv'
  <2>1. /\ res.pc = "prep" /\ res'.pc = "stream" /\ ctl' = "resume"
        /\ UNCHANGED <<status, inter, asked>>
    BY <1>1, <1>3 DEF ResumeStreams, resRest, Responses
  <2> QED
    BY <1>1, <2>1
    DEF GenerationInv, OwnersAreThere, ResumedIsAlone, InteractionIsAlone, MessageIsThere,
        GeneratingHasOwner, HandoffKeepsMessage, Active
<1>4. ASSUME ResumeSettles \/ ResumeFails PROVE GenerationInv'
  <2>1. /\ res'.pc = "off" /\ (ctl' = ctl \/ ctl' = "none") /\ status' # "generating"
        /\ UNCHANGED <<inter, asked>>
    <3>1. /\ res' = NoResume /\ ctl' = (IF ctl = "resume" THEN "none" ELSE ctl)
          /\ UNCHANGED <<inter, asked>>
      BY <1>4 DEF ResumeSettles, ResumeFails, ResLetsGoOfController, resRest
    <3>2. status' \in {"idle", "error"}
      BY <1>4 DEF ResumeSettles, ResumeFails
    <3> QED
      BY <3>1, <3>2 DEF NoResume
  <2> QED
    BY <1>1, <2>1
    DEF GenerationInv, OwnersAreThere, ResumedIsAlone, InteractionIsAlone, MessageIsThere,
        GeneratingHasOwner, HandoffKeepsMessage, Active
<1>5. ASSUME ResumePauses PROVE GenerationInv'
  <2>1. /\ res.pc = "stream" /\ res'.pc = "off" /\ (ctl' = ctl \/ ctl' = "none")
        /\ inter' = TRUE /\ asked' = asked
    BY <1>5 DEF ResumePauses, NoResume, ResLetsGoOfController, resRest
  <2> QED
    BY <1>1, <2>1
    DEF GenerationInv, OwnersAreThere, ResumedIsAlone, InteractionIsAlone, MessageIsThere,
        GeneratingHasOwner, HandoffKeepsMessage, Active
<1>6. ASSUME RespondKeepsWaiting PROVE GenerationInv'
  <2>1. /\ res.pc = "handling" /\ res'.pc = "off" /\ (ctl' = ctl \/ ctl' = "none")
        /\ UNCHANGED <<status, inter, asked>>
    BY <1>6 DEF RespondKeepsWaiting, NoResume, ResLetsGoOfController, resRest
  <2> QED
    BY <1>1, <2>1
    DEF GenerationInv, OwnersAreThere, ResumedIsAlone, InteractionIsAlone, MessageIsThere,
        GeneratingHasOwner, HandoffKeepsMessage, Active
<1>7. ASSUME RespondAwaitsFollowUp PROVE GenerationInv'
  <2>1. /\ res.pc = "handling" /\ res'.pc = "off" /\ (ctl' = ctl \/ ctl' = "none")
        /\ inter' = FALSE /\ status' = "idle"
    BY <1>7 DEF RespondAwaitsFollowUp, NoResume, ResLetsGoOfController
  <2> QED
    BY <1>1, <2>1
    DEF GenerationInv, OwnersAreThere, ResumedIsAlone, InteractionIsAlone, MessageIsThere,
        GeneratingHasOwner, HandoffKeepsMessage, Active
<1>8. ASSUME RespondResumes PROVE GenerationInv'
  <2>1. /\ res.pc = "handling" /\ res'.pc = "prep" /\ ctl' = "resume"
        /\ inter' = FALSE /\ status' = "generating" /\ asked' = asked
    BY <1>8 DEF RespondResumes, resRest
  <2> QED
    BY <1>1, <2>1
    DEF GenerationInv, OwnersAreThere, ResumedIsAlone, InteractionIsAlone, MessageIsThere,
        GeneratingHasOwner, HandoffKeepsMessage, Active
<1> QED
  BY <1>2, <1>3, <1>4, <1>5, <1>6, <1>7, <1>8
  DEF ResumeStep, ResumeProgress, RespondStep

\* The message of a steer row answers a question and may take a turn's own message along.
LEMMA SteerMessageGeneration ==
  ASSUME TypeOK, GenerationInv, NEW i \in Ids, SteerMessageAppended(i), boot' = boot
  PROVE  GenerationInv'
<1>1. turn \in Turns /\ res \in Responses
  BY DEF TypeOK, Responses
<1>2. /\ turn'.pc = turn.pc /\ turn'.src = turn.src
      /\ turn'.fact = turn.fact \/ (turn.fact = "none" /\ turn'.fact = "anchor")
      /\ turn'.sig = turn.sig \/ turn'.fact # "none"
  <2> DEFINE early == PreStreamOpen /\ ctl = "turn"
             makes == early /\ turn.fact = "none"
  <2>1. /\ turn'.pc = turn.pc /\ turn'.src = turn.src
        /\ turn'.fact = IF makes THEN "anchor" ELSE turn.fact
        /\ turn'.sig = IF early THEN "handoff" ELSE turn.sig
    BY <1>1 DEF SteerMessageAppended, Turns
  <2> QED
    BY <2>1
<1>3. res'.pc = res.pc
  BY <1>1 DEF SteerMessageAppended, Responses
<1>4. asked' = FALSE /\ UNCHANGED <<status, inter, ctl>>
  BY DEF SteerMessageAppended
<1>5. MessageIsThere'
  BY <1>2, <1>4 DEF GenerationInv, MessageIsThere, Active
<1>6. HandoffKeepsMessage'
  BY <1>2 DEF GenerationInv, HandoffKeepsMessage
<1> QED
  BY <1>2, <1>3, <1>4, <1>5, <1>6
  DEF GenerationInv, OwnersAreThere, ResumedIsAlone, InteractionIsAlone, GeneratingHasOwner,
      Active

LEMMA AcceptSteerGeneration ==
  ASSUME TypeOK, GenerationInv, NEW i \in Ids, NEW s, AcceptSteer(i, s)
  PROVE  GenerationInv'
BY SteerMessageGeneration DEF AcceptSteer, AcceptVisibleSteerInput

LEMMA PreparationStepGeneration ==
  ASSUME OwnershipInv, GenerationInv, PreparationStep
  PROVE  GenerationInv'
<1>1. TypeOK
  BY DEF OwnershipInv
<1>2. ASSUME NEW i \in Ids, SteerWithFilesCommits(i) PROVE GenerationInv'
  BY <1>1, <1>2, AcceptSteerGeneration DEF SteerWithFilesCommits
<1>3. ASSUME PromotionCommits PROVE GenerationInv'
  <2>1. lane.input \in Ids
    BY <1>3, LaneHoldsRow DEF PromotionCommits
  <2> QED
    BY <1>1, <1>3, <2>1, SteerMessageGeneration DEF PromotionCommits
<1>4. ASSUME \/ SteerWithFilesEnds \/ PromotionRejected \/ PromotionNeedsUserAction
             \/ PromotionFails
      PROVE  GenerationInv'
  BY <1>4, UntouchedKeepsGeneration
  DEF SteerWithFilesEnds, PromotionRejected, PromotionNeedsUserAction, PromotionFails,
      promotionRest, chatVars, Generation
<1> QED
  BY <1>2, <1>3, <1>4 DEF PreparationStep, PreparationProgress

LEMMA UserStepGeneration ==
  ASSUME OwnershipInv, GenerationInv, UserStep
  PROVE  GenerationInv'
<1>1. TypeOK
  BY DEF OwnershipInv
<1>2. ASSUME NEW i \in Ids, NEW src \in {"send", "queue"}, StartAcceptedInput(i, src)
      PROVE  GenerationInv'
  <2>1. /\ pump.lease = "free" /\ (LaunchTurn(i, src) \/ LaunchFails(i, src))
        /\ asked \/ CanDrain(SessionStatus, "enqueue")
        /\ UNCHANGED <<inter, asked, res, boot>>
    BY <1>2 DEF StartAcceptedInput, ClaimsImmediately, CanDrain, admission
  <2>2. turn.pc = "off"
    BY <2>1 DEF OwnershipInv, TurnHoldsLease
  <2>3. ~inter /\ (asked \/ status # "generating")
    BY <2>1
    DEF CanDrain, CanDrainFromStatus, SessionStatus, GenerationInv, InteractionIsAlone
  <2> QED
    BY <2>1, <2>2, <2>3, LaunchKeepsGeneration
<1>3. ASSUME NEW i \in Ids, SteerActiveTurn(i) PROVE GenerationInv'
  BY <1>1, <1>3, AcceptSteerGeneration DEF SteerActiveTurn
<1>4. ASSUME NEW i \in Ids,
             \/ \E src \in {"send", "queue"} : QueueAcceptedInput(i, src)
             \/ PromotionBegins(i) \/ UpdateQueuedInput(i) \/ DeletePendingInput(i)
             \/ ResolveBlockedPendingInput(i) \/ RetryPendingQueueInput(i)
             \/ ResumePendingQueue(i) \/ (\E to : MoveQueuedInput(i, to))
      PROVE  GenerationInv'
  BY <1>4, UntouchedKeepsGeneration
  DEF QueueAcceptedInput, PromotionBegins, UpdateQueuedInput, DeletePendingInput,
      ResolveBlockedPendingInput, RetryPendingQueueInput, ResumePendingQueue, MoveQueuedInput,
      laneRest, chatVars, admission, Generation
<1>5. SteerWithFilesBegins => GenerationInv'
  BY UntouchedKeepsGeneration DEF SteerWithFilesBegins, chatVars, Generation
<1>6. ASSUME RespondBegins, UNCHANGED admission PROVE GenerationInv'
  <2>1. /\ inter /\ res'.pc = "handling" /\ ctl' = "resume"
        /\ UNCHANGED <<turn, status, inter, asked, boot>>
    BY <1>6 DEF RespondBegins, resRest, admission
  <2> QED
    BY <2>1
    DEF GenerationInv, OwnersAreThere, ResumedIsAlone, InteractionIsAlone, MessageIsThere,
        GeneratingHasOwner, HandoffKeepsMessage, Active
<1>7. ASSUME StopRunning, UNCHANGED admission PROVE GenerationInv'
  <2>1. /\ turn'.pc = turn.pc /\ turn'.src = turn.src /\ turn'.fact = turn.fact
        /\ turn'.sig \in {turn.sig, "stop"}
    BY <1>1, <1>7 DEF StopRunning, Aborted, TypeOK, Turns
  <2>2. /\ res'.pc = res.pc /\ (ctl' = ctl \/ ctl' = "none")
        /\ UNCHANGED <<status, inter, asked, boot>>
    BY <1>1, <1>7 DEF StopRunning, TypeOK, chatVars, admission
  <2> QED
    BY <2>1, <2>2
    DEF GenerationInv, OwnersAreThere, ResumedIsAlone, InteractionIsAlone, MessageIsThere,
        GeneratingHasOwner, HandoffKeepsMessage, Active
<1>8. ASSUME StopPaused, UNCHANGED admission PROVE GenerationInv'
  <2>1. res'.pc = IF res.pc = "handling" THEN "orphaned" ELSE res.pc
    BY <1>1, <1>8 DEF StopPaused, TypeOK
  <2>2. /\ inter /\ inter' = FALSE /\ status' = "idle"
        /\ UNCHANGED <<turn, ctl, asked, boot>>
    BY <1>8 DEF StopPaused, resRest, admission
  <2> QED
    BY <2>1, <2>2
    DEF GenerationInv, OwnersAreThere, ResumedIsAlone, InteractionIsAlone, MessageIsThere,
        GeneratingHasOwner, HandoffKeepsMessage, Active
<1> QED
  BY <1>2, <1>3, <1>4, <1>5, <1>6, <1>7, <1>8 DEF UserStep

LEMMA RestartGeneration ==
  ASSUME GenerationInv, Restart
  PROVE  GenerationInv'
<1>1. /\ turn' = NoTurn /\ res' = NoResume /\ ctl' = "none" /\ status' = "idle"
      /\ inter' = inter \/ inter' = FALSE
      /\ asked' = asked
  BY DEF Restart
<1> QED
  BY <1>1
  DEF GenerationInv, OwnersAreThere, ResumedIsAlone, InteractionIsAlone, MessageIsThere,
      GeneratingHasOwner, HandoffKeepsMessage, Active, NoTurn, NoResume

LEMMA StepKeepsGeneration == OwnershipInv /\ GenerationInv /\ [Next]_vars => GenerationInv'
<1> SUFFICES ASSUME OwnershipInv, GenerationInv, [Next]_vars PROVE GenerationInv'
  OBVIOUS
<1>1. TypeOK
  BY DEF OwnershipInv
<1>2. UNCHANGED vars => GenerationInv'
  BY UntouchedKeepsGeneration DEF vars, chatVars, Generation
<1> QED
  BY <1>1, <1>2, PumpStepGeneration, TurnStepGeneration, ResponseGeneration,
     PreparationStepGeneration, UserStepGeneration, SettleGeneration, RestartGeneration
  DEF Next

-----------------------------------------------------------------------------
(* What a turn settled stays settled, and a resumed head is spent early.   *)

\* A row that is gone stays gone, and no row becomes unused again.
LEMMA RowsKeepPast ==
  ASSUME TypeOK, RowStep, NEW j \in Ids
  PROVE  /\ st[j] = "gone" => st'[j] = "gone"
         /\ st[j] # "unused" => st'[j] # "unused"
<1>1. st \in [Ids -> RowStates]
  BY DEF TypeOK
<1>2. ASSUME NEW i \in Ids, WritesRow(i)
      PROVE  \/ st' = st
             \/ /\ st[i] # "gone"
                /\ \E s \in Live \cup {"gone"} : st' = [st EXCEPT ![i] = s]
  BY <1>2
  DEF WritesRow, CreateQueueInput, CreateSteerInput, IsFresh, RestateInput, ConsumeInput,
      ConvertQueueInputToSteer, MoveQueueInput, Live
<1> QED
  BY <1>1, <1>2 DEF RowStep, rowVars, Live

LEMMA HeadStays ==
  ASSUME OwnershipInv, HeadInv, RowStep, resumed' \subseteq resumed,
         turn'.pc = turn.pc, turn'.input = turn.input, turn'.disp = turn.disp,
         turn'.early = turn.early, \A j \in resumed' : mode'[j] = mode[j]
  PROVE  HeadInv'
<1>1. TypeOK /\ resumed \subseteq Ids
  BY DEF OwnershipInv, TypeOK
<1>2. Active => turn.input \in Ids
  BY DEF Active, OwnershipInv, TurnHasClaim
<1>3. SettledIsGone'
  BY <1>1, <1>2, RowsKeepPast DEF HeadInv, SettledIsGone, Active, Unsettled
<1>4. ResumedIsSpent'
  BY <1>1, RowsKeepPast DEF HeadInv, ResumedIsSpent, Active, Unsettled
<1> QED
  BY <1>3, <1>4 DEF HeadInv

\* Launching takes the head as it was resumed.
LEMMA LaunchHead ==
  ASSUME OwnershipInv, HeadInv, RowStep, resumed' = resumed,
         NEW i \in Ids, NEW src \in {"send", "queue", "steer"},
         src # "queue" => i \notin resumed, \A j \in resumed : mode'[j] = mode[j],
         LaunchTurn(i, src) \/ LaunchFails(i, src)
  PROVE  HeadInv'
<1>1. TypeOK /\ resumed \subseteq Ids
  BY DEF OwnershipInv, TypeOK
<1>2. \A j \in resumed' : st'[j] # "unused" /\ mode'[j] = "queue"
  BY <1>1, RowsKeepPast DEF HeadInv, ResumedIsSpent
<1>3. CASE LaunchTurn(i, src)
  <2>1. /\ turn'.input = i /\ turn'.disp = "none" /\ turn'.pc # "stream"
        /\ turn'.early = (src = "queue" /\ i \in resumed)
    BY <1>3 DEF LaunchTurn, Begun, NoTurn
  <2> QED
    BY <1>2, <2>1 DEF HeadInv, SettledIsGone, ResumedIsSpent, Unsettled
<1>4. CASE LaunchFails(i, src)
  <2>1. ~Active'
    BY <1>4 DEF LaunchFails, Begun, NoTurn, Active
  <2> QED
    BY <1>2, <2>1 DEF HeadInv, SettledIsGone, ResumedIsSpent
<1> QED
  BY <1>3, <1>4

LEMMA PumpStepHead ==
  ASSUME OwnershipInv, HeadInv, PumpStep
  PROVE  HeadInv'
<1>1. RowStep /\ TypeOK /\ resumed \subseteq Ids
  BY PumpStepWrites DEF OwnershipInv, TypeOK
<1>2. ASSUME NEW i \in Ids, DrainSteerInput(i) PROVE HeadInv'
  <2>1. /\ mode' = mode /\ resumed' = resumed /\ mode[i] = "steer"
        /\ LaunchTurn(i, "steer") \/ LaunchFails(i, "steer")
    BY <1>2
    DEF DrainSteerInput, CanStartSteer, IsNextSteer, WaitingSteer, ClaimInput, RestateInput
  <2>2. i \notin resumed
    BY <2>1 DEF HeadInv, ResumedIsSpent
  <2> QED
    BY <1>1, <2>1, <2>2, LaunchHead
<1>3. ASSUME NEW i \in Ids, DrainQueuedInput(i) PROVE HeadInv'
  <2>1. /\ mode' = mode /\ resumed' = resumed
        /\ LaunchTurn(i, "queue") \/ LaunchFails(i, "queue")
    BY <1>3 DEF DrainQueuedInput, ClaimInput, RestateInput
  <2> QED
    BY <1>1, <2>1, LaunchHead
<1>4. ASSUME Finalize PROVE HeadInv'
  <2>1. turn'.pc = "off" /\ resumed' \subseteq resumed /\ UNCHANGED <<st, mode>>
    BY <1>4 DEF Finalize, NoTurn, rowVars
  <2> QED
    BY <2>1 DEF HeadInv, SettledIsGone, ResumedIsSpent, Active
<1>5. ASSUME DrainStartsNothing \/ ScheduleNextIfReady PROVE HeadInv'
  BY <1>1, <1>5, HeadStays DEF DrainStartsNothing, ScheduleNextIfReady, rowVars
<1> QED
  BY <1>2, <1>3, <1>4, <1>5 DEF PumpStep

LEMMA TurnStepHead ==
  ASSUME OwnershipInv, HeadInv, TurnStep \/ SettleRolledBack
  PROVE  HeadInv'
<1>1. /\ turn \in Turns /\ TypeOK /\ st \in [Ids -> RowStates] /\ resumed \subseteq Ids
      /\ Active /\ turn.input \in Ids
  <2>1. Active
    BY DEF TurnStep, TurnProgress, AttachReady, AttachNeedsUserAction, AppendUserFact,
           CreateAssistantMessage, RegisterRun, CrossPreStreamBoundary, RunCompletes,
           RunPauses, RunAborted, TurnAborted, RunReturnsError, TurnJournalFails, TurnFails,
           InRun, PreRun, SettleRolledBack, Active
  <2> QED
    BY <2>1 DEF OwnershipInv, TypeOK, TurnHasClaim, Active
<1>2. resumed' = resumed /\ mode' = mode
  BY DEF TurnStep, TurnProgress, AttachReady, AttachNeedsUserAction, AppendUserFact,
         CreateAssistantMessage, RegisterRun, CrossPreStreamBoundary, RunCompletes, RunPauses,
         RunAborted, TurnAborted, RunReturnsError, TurnJournalFails, TurnFails, TurnConsumes,
         TurnReleasesForRetry, TurnRollsBack, RestateInput, ConsumeInput, SettleRolledBack,
         turnRest, pumpVars, rowVars
<1>3. RowStep
  <2>1. SettleRolledBack => WritesRow(turn.input)
    <3>1. SettleRolledBack => st[turn.input] \in Live
      BY <1>1, TurnHoldsRow DEF SettleRolledBack, OwnershipInv, TurnHasClaim, Live, Active
    <3> QED
      BY <3>1 DEF SettleRolledBack, TurnReleasesForRetry, WritesRow, Live
  <2> QED
    BY <1>1, <2>1, TurnStepWrites DEF RowStep
<1>4. \A j \in resumed' : st'[j] # "unused" /\ mode'[j] = "queue"
  BY <1>1, <1>2, <1>3, RowsKeepPast DEF HeadInv, ResumedIsSpent
<1>5. ASSUME AttachReady \/ AppendUserFact \/ RegisterRun PROVE HeadInv'
  <2>1. /\ turn'.input = turn.input /\ turn'.disp = turn.disp /\ turn'.early = turn.early
        /\ turn'.pc # "stream" /\ st' = st
    BY <1>1, <1>5 DEF AttachReady, AppendUserFact, RegisterRun, Turns, rowVars
  <2> QED
    BY <1>1, <1>2, <1>4, <2>1 DEF HeadInv, SettledIsGone, ResumedIsSpent, Unsettled
<1>6. ASSUME CreateAssistantMessage PROVE HeadInv'
  <2>1. /\ turn'.input = turn.input /\ turn'.early = turn.early /\ turn'.pc # "stream"
        /\ \/ turn'.disp = turn.disp /\ st' = st
           \/ turn'.disp = "consumed" /\ st'[turn.input] = "gone"
    BY <1>1, <1>6 DEF CreateAssistantMessage, ConsumeInput, Turns, rowVars
  <2> QED
    BY <1>1, <1>2, <1>4, <2>1 DEF HeadInv, SettledIsGone, ResumedIsSpent, Unsettled
<1>7. ASSUME CrossPreStreamBoundary PROVE HeadInv'
  <2>1. /\ turn'.input = turn.input /\ turn'.early = turn.early
        /\ \/ turn'.disp = turn.disp /\ st' = st /\ (Unsettled => ~turn.early)
           \/ turn'.disp = "consumed" /\ st'[turn.input] = "gone"
    BY <1>1, <1>7 DEF CrossPreStreamBoundary, ConsumeInput, Turns, rowVars
  <2> QED
    BY <1>1, <1>2, <1>4, <2>1 DEF HeadInv, SettledIsGone, ResumedIsSpent, Unsettled
<1>8. ASSUME \/ AttachNeedsUserAction \/ RunCompletes \/ RunPauses \/ RunAborted \/ TurnAborted
             \/ RunReturnsError \/ TurnJournalFails \/ TurnFails \/ SettleRolledBack
      PROVE  HeadInv'
  <2>1. \/ \E d, s : TurnCloses(d, s)
        \/ \E s : TurnRollsBack(s)
    BY <1>8
    DEF AttachNeedsUserAction, RunCompletes, RunPauses, RunAborted, TurnAborted,
        RunReturnsError, TurnJournalFails, TurnFails, SettleRolledBack, TurnConsumes,
        TurnReleasesForRetry
  <2>2. CASE \E d, s : TurnCloses(d, s)
    <3>1. ~Active'
      BY <2>2 DEF TurnCloses, NoTurn, Active
    <3> QED
      BY <1>4, <3>1 DEF HeadInv, SettledIsGone, ResumedIsSpent
  <2>3. CASE \E s : TurnRollsBack(s)
    <3>1. /\ turn'.input = turn.input /\ turn'.disp = turn.disp /\ turn'.early = turn.early
          /\ turn'.pc # "stream" /\ st' = st
      BY <1>1, <2>3 DEF TurnRollsBack, Turns, rowVars
    <3> QED
      BY <1>1, <1>2, <1>4, <3>1 DEF HeadInv, SettledIsGone, ResumedIsSpent, Unsettled
  <2> QED
    BY <2>1, <2>2, <2>3
<1> QED
  BY <1>5, <1>6, <1>7, <1>8 DEF TurnStep, TurnProgress

LEMMA ResponseHead ==
  ASSUME OwnershipInv, HeadInv, ResumeStep \/ RespondStep
  PROVE  HeadInv'
<1>1. UNCHANGED <<turn, resumed>> /\ RowStep /\ mode' = mode
  BY ResponsesWriteNothing
  DEF ResumeStep, ResumeProgress, RespondStep, RespondAborted, AbortSettles, ResumeStreams,
      ResumeSettles, ResumePauses, ResumeFails, RespondKeepsWaiting, RespondAwaitsFollowUp,
      RespondResumes, resRest, pumpVars, rowVars, RowStep
<1> QED
  BY <1>1, HeadStays

LEMMA SteerMessageTurn ==
  ASSUME TypeOK, NEW i, SteerMessageAppended(i)
  PROVE  /\ turn'.pc = turn.pc /\ turn'.input = turn.input /\ turn'.disp = turn.disp
         /\ turn'.early = turn.early /\ turn'.src = turn.src
BY DEF SteerMessageAppended, TypeOK, Turns

LEMMA AcceptSteerHead ==
  ASSUME OwnershipInv, HeadInv, NEW i \in Ids, NEW s, AcceptSteer(i, s)
  PROVE  HeadInv'
<1>1. TypeOK /\ mode \in [Ids -> {"queue", "steer"}] /\ resumed \subseteq Ids
  BY DEF OwnershipInv, TypeOK
<1>2. RowStep /\ resumed' = resumed /\ SteerMessageAppended(i)
  BY AcceptSteerWrites DEF AcceptSteer, AcceptVisibleSteerInput
<1>3. \A j \in resumed : mode'[j] = mode[j]
  <2>1. mode' = mode \/ (st[i] = "unused" /\ mode' = [mode EXCEPT ![i] = "steer"])
    BY DEF AcceptSteer, AcceptVisibleSteerInput, CreateSteerInput, IsFresh, rowVars
  <2> QED
    BY <1>1, <2>1 DEF HeadInv, ResumedIsSpent
<1> QED
  BY <1>1, <1>2, <1>3, SteerMessageTurn, HeadStays

LEMMA PreparationStepHead ==
  ASSUME OwnershipInv, HeadInv, PreparationStep
  PROVE  HeadInv'
<1>1. RowStep /\ TypeOK /\ mode \in [Ids -> {"queue", "steer"}] /\ resumed \subseteq Ids
  BY PreparationStepWrites DEF OwnershipInv, TypeOK
<1>2. ASSUME NEW i \in Ids, SteerWithFilesCommits(i) PROVE HeadInv'
  BY <1>2, AcceptSteerHead DEF SteerWithFilesCommits
<1>3. ASSUME PromotionCommits PROVE HeadInv'
  <2>1. /\ SteerMessageAppended(lane.input) /\ resumed' = resumed \ {lane.input}
        /\ mode' = [mode EXCEPT ![lane.input] = "steer"]
    BY <1>3 DEF PromotionCommits, ConvertQueueInputToSteer
  <2>2. \A j \in resumed' : mode'[j] = mode[j]
    BY <1>1, <2>1
  <2> QED
    BY <1>1, <2>1, <2>2, SteerMessageTurn, HeadStays
<1>4. ASSUME \/ SteerWithFilesEnds \/ PromotionRejected \/ PromotionNeedsUserAction
             \/ PromotionFails
      PROVE  HeadInv'
  <2>1. UNCHANGED <<turn, resumed, mode>>
    BY <1>4
    DEF SteerWithFilesEnds, PromotionRejected, PromotionNeedsUserAction, PromotionFails,
        RestateInput, promotionRest, pumpVars, rowVars
  <2> QED
    BY <1>1, <2>1, HeadStays
<1> QED
  BY <1>2, <1>3, <1>4 DEF PreparationStep, PreparationProgress

LEMMA UserStepHead ==
  ASSUME OwnershipInv, HeadInv, UserStep
  PROVE  HeadInv'
<1>1. RowStep /\ TypeOK /\ mode \in [Ids -> {"queue", "steer"}] /\ resumed \subseteq Ids
  BY UserStepWrites DEF OwnershipInv, TypeOK
<1>2. ASSUME NEW i \in Ids, NEW src \in {"send", "queue"},
             StartAcceptedInput(i, src) \/ QueueAcceptedInput(i, src)
      PROVE  HeadInv'
  <2>1. /\ st[i] = "unused" /\ mode' = [mode EXCEPT ![i] = "queue"] /\ resumed' = resumed
        /\ \/ LaunchTurn(i, src) \/ LaunchFails(i, src)
           \/ turn' = turn
    BY <1>2
    DEF StartAcceptedInput, QueueAcceptedInput, CreateQueueInput, IsFresh
  <2>2. i \notin resumed /\ \A j \in resumed : mode'[j] = mode[j]
    BY <1>1, <2>1 DEF HeadInv, ResumedIsSpent
  <2> QED
    BY <1>1, <2>1, <2>2, LaunchHead, HeadStays
<1>3. ASSUME NEW i \in Ids, SteerActiveTurn(i) PROVE HeadInv'
  BY <1>3, AcceptSteerHead DEF SteerActiveTurn
<1>4. ASSUME NEW i \in Ids, ResumePendingQueue(i) PROVE HeadInv'
  <2>1. /\ resumed' = resumed \cup {i} /\ UNCHANGED <<st, mode, turn>>
        /\ mode[i] = "queue" /\ st[i] = "pending"
    BY <1>4 DEF ResumePendingQueue, IsNextQueued, IsHead, IsWaiting, laneRest, rowVars
  <2>2. Active /\ Unsettled => turn.input # i
    BY <2>1, TurnHoldsRow DEF Active
  <2> QED
    BY <2>1, <2>2 DEF HeadInv, SettledIsGone, ResumedIsSpent, Active, Unsettled
<1>5. ASSUME NEW i \in Ids,
             \/ PromotionBegins(i) \/ UpdateQueuedInput(i) \/ DeletePendingInput(i)
             \/ ResolveBlockedPendingInput(i) \/ RetryPendingQueueInput(i)
             \/ \E to : MoveQueuedInput(i, to)
      PROVE  HeadInv'
  <2>1. turn' = turn /\ mode' = mode /\ resumed' \subseteq resumed
    BY <1>5
    DEF PromotionBegins, UpdateQueuedInput, DeletePendingInput, ResolveBlockedPendingInput,
        RetryPendingQueueInput, MoveQueuedInput, ClaimInput, RestateInput, ConsumeInput,
        MoveQueueInput, laneRest, pumpVars
  <2> QED
    BY <1>1, <2>1, HeadStays
<1>6. ASSUME SteerWithFilesBegins \/ RespondBegins \/ StopPaused PROVE HeadInv'
  <2>1. UNCHANGED <<turn, resumed, mode>>
    BY <1>6 DEF SteerWithFilesBegins, RespondBegins, StopPaused, resRest, pumpVars, rowVars
  <2> QED
    BY <1>1, <2>1, HeadStays
<1>7. ASSUME StopRunning PROVE HeadInv'
  <2>1. /\ turn'.pc = turn.pc /\ turn'.input = turn.input /\ turn'.disp = turn.disp
        /\ turn'.early = turn.early /\ UNCHANGED <<resumed, mode>>
    BY <1>1, <1>7 DEF StopRunning, TypeOK, Turns, pumpVars, rowVars
  <2> QED
    BY <1>1, <2>1, HeadStays
<1> QED
  BY <1>2, <1>3, <1>4, <1>5, <1>6, <1>7 DEF UserStep

LEMMA StepKeepsHead == OwnershipInv /\ HeadInv /\ [Next]_vars => HeadInv'
<1> SUFFICES ASSUME OwnershipInv, HeadInv, [Next]_vars PROVE HeadInv'
  OBVIOUS
<1>1. UNCHANGED vars => HeadInv'
  BY HeadStays DEF vars, rowVars, pumpVars, RowStep
<1>2. Restart => HeadInv'
  BY DEF Restart, HeadInv, SettledIsGone, ResumedIsSpent, Active, NoTurn
<1> QED
  BY <1>1, <1>2, PumpStepHead, TurnStepHead, ResponseHead, PreparationStepHead, UserStepHead
  DEF Next

-----------------------------------------------------------------------------
(* The theorems.                                                           *)

LEMMA LaneInit == Init => LaneInv
<1> SUFFICES ASSUME Init PROVE LaneInv
  OBVIOUS
<1>1. OwnershipInv
  BY TypeInit
  DEF Init, RowsInit, PumpInit, FreePump, NoTurn, FreeLane, OwnershipInv, FailedBootIsQuiet,
      TurnHoldsLease, TurnHasClaim, LaneHasConsent, LaneOwns, TurnOwns, ClaimOwnership,
      Consent, DeferredHasOwner, Unsettled
<1>2. QueueMatchesRows
  <2>1. queue = <<>> /\ \A i \in Ids : st[i] = "unused"
    BY DEF Init, RowsInit
  <2> QED
    BY <2>1 DEF QueueMatchesRows, Live
<1>3. GenerationInv
  BY DEF Init, PumpInit, TurnInit, NoTurn, NoResume, GenerationInv, OwnersAreThere,
         ResumedIsAlone, InteractionIsAlone, MessageIsThere, GeneratingHasOwner,
         HandoffKeepsMessage, Active
<1>4. HeadInv
  BY DEF Init, PumpInit, NoTurn, HeadInv, SettledIsGone, ResumedIsSpent, Active
<1> QED
  BY <1>1, <1>2, <1>3, <1>4 DEF LaneInv

LEMMA LaneAlways == Spec => []LaneInv
<1>1. LaneInv /\ [Next]_vars => LaneInv'
  BY OwnershipInductive, StepKeepsOrder, StepKeepsGeneration, StepKeepsHead DEF LaneInv
<1> QED
  BY <1>1, LaneInit, PTL DEF Spec

\* The waiting lane holds together for any number of rows: each live queue row has one place
\* in the lane, a session that shows 'generating' has an operation or an interaction behind
\* it, a turn that a steer message takes over from keeps its own message, and a head that the
\* user resumed after a restart is spent before the provider sees it.
THEOREM LaneIsConsistent == Spec => []Consistent
<1>1. LaneInv => Consistent
  <2> SUFFICES ASSUME LaneInv PROVE Consistent
    OBVIOUS
  <2>1. ResumedHeadIsSpent
    BY DEF ResumedHeadIsSpent, LaneInv, HeadInv, SettledIsGone, ResumedIsSpent, Active
  <2> QED
    BY <2>1 DEF LaneInv, OwnershipInv, GenerationInv, Consistent
<1> QED
  BY <1>1, LaneAlways, PTL

\* A turn and the resumption of a paused message never run in one session at once.
THEOREM GenerationsAreAlone == Spec => []OneGeneration
<1>1. LaneInv => OneGeneration
  BY DEF LaneInv, GenerationInv, ResumedIsAlone, OneGeneration, Active
<1> QED
  BY <1>1, LaneAlways, PTL

-----------------------------------------------------------------------------
(* What a step may never do.                                               *)

\* A turn consumes its own row, which has its user message in the transcript.
LEMMA TurnStepKeepsMessages ==
  ASSUME OwnershipInv, GenerationInv, TurnStep, NEW i \in Ids, st[i] = "claimed", st'[i] = "gone"
  PROVE  turn.input = i /\ turn.fact # "none" /\ turn'.pc # "rolled"
<1>1. turn \in Turns /\ st \in [Ids -> RowStates]
  BY DEF OwnershipInv, TypeOK
<1>2. Active
  BY DEF TurnStep, TurnProgress, AttachReady, AttachNeedsUserAction, AppendUserFact,
         CreateAssistantMessage, RegisterRun, CrossPreStreamBoundary, RunCompletes, RunPauses,
         RunAborted, TurnAborted, RunReturnsError, TurnJournalFails, TurnFails, InRun, PreRun,
         Active
<1>3. turn.pc = "rolled" => FALSE
  BY DEF TurnStep, TurnProgress, AttachReady, AttachNeedsUserAction, AppendUserFact,
         CreateAssistantMessage, RegisterRun, CrossPreStreamBoundary, RunCompletes, RunPauses,
         RunAborted, TurnAborted, RunReturnsError, TurnJournalFails, TurnFails, InRun, PreRun
<1>4. /\ InRun \/ turn.pc = "answer" => turn.fact = "seen"
      /\ turn.src = "steer" => turn.fact = "seen"
  BY <1>2 DEF GenerationInv, MessageIsThere, InRun
<1>5. ~(AttachReady \/ AppendUserFact \/ RegisterRun)
  BY DEF AttachReady, AppendUserFact, RegisterRun, rowVars
<1>6. ASSUME NEW s, TurnReleasesForRetry(s) PROVE FALSE
  BY <1>1, <1>6 DEF TurnReleasesForRetry, RestateInput
<1>7. ASSUME NEW s, TurnRollsBack(s) PROVE FALSE
  BY <1>7 DEF TurnRollsBack, rowVars
<1>8. ASSUME AttachNeedsUserAction PROVE FALSE
  BY <1>1, <1>8 DEF AttachNeedsUserAction, RestateInput
<1>9. ASSUME CreateAssistantMessage \/ CrossPreStreamBoundary PROVE turn.input = i
  BY <1>1, <1>9 DEF CreateAssistantMessage, CrossPreStreamBoundary, ConsumeInput, rowVars
<1>10. ASSUME CreateAssistantMessage \/ CrossPreStreamBoundary
       PROVE  turn'.pc # "rolled" /\ turn.fact = "seen"
  BY <1>1, <1>4, <1>10 DEF CreateAssistantMessage, CrossPreStreamBoundary, Turns, InRun
<1>11. ASSUME NEW s, TurnConsumes(s) PROVE turn.input = i /\ Unsettled /\ turn'.pc = "closing"
  BY <1>1, <1>11 DEF TurnConsumes, TurnCloses, ConsumeInput, NoTurn, rowVars
<1>12. ASSUME RunCompletes \/ RunPauses \/ RunAborted \/ RunReturnsError
       PROVE  turn.input = i /\ turn'.pc = "closing" /\ InRun
  BY <1>6, <1>7, <1>11, <1>12 DEF RunCompletes, RunPauses, RunAborted, RunReturnsError, InRun
<1>13. ASSUME TurnJournalFails \/ TurnAborted \/ TurnFails
       PROVE  /\ turn.input = i /\ turn'.pc = "closing"
              /\ InRun \/ turn.src = "steer" \/ turn.fact # "none"
  BY <1>6, <1>7, <1>11, <1>13 DEF TurnJournalFails, TurnAborted, TurnFails
<1> QED
  BY <1>4, <1>5, <1>8, <1>9, <1>10, <1>12, <1>13 DEF TurnStep, TurnProgress

\* No other operation takes a claimed row out of the lane.
LEMMA OthersKeepClaims ==
  ASSUME OwnershipInv, NEW i \in Ids, st[i] = "claimed", mode[i] = "queue",
         \/ PumpStep \/ ResumeStep \/ RespondStep \/ PreparationStep \/ UserStep
         \/ SettleRolledBack
  PROVE  st'[i] # "gone"
<1>1. st \in [Ids -> RowStates]
  BY DEF OwnershipInv, TypeOK
<1>2. PumpStep => st'[i] # "gone"
  BY <1>1
  DEF PumpStep, DrainSteerInput, DrainQueuedInput, CanStartSteer, CanStartQueued, DrainGate,
      HasClaimedInput, DrainStartsNothing, Finalize, ScheduleNextIfReady, rowVars
<1>3. ResumeStep \/ RespondStep => st'[i] # "gone"
  BY ResponsesWriteNothing DEF rowVars
<1>4. ASSUME NEW j \in Ids, NEW s, AcceptSteer(j, s) PROVE st'[i] # "gone"
  BY <1>1, <1>4 DEF AcceptSteer, AcceptVisibleSteerInput, CreateSteerInput, rowVars
<1>5. PreparationStep => st'[i] # "gone"
  BY <1>1, <1>4
  DEF PreparationStep, PreparationProgress, SteerWithFilesCommits, SteerWithFilesEnds,
      PromotionCommits, PromotionRejected, PromotionNeedsUserAction, PromotionFails,
      ConvertQueueInputToSteer, RestateInput, rowVars
<1>6. SettleRolledBack => st'[i] # "gone"
  BY <1>1 DEF SettleRolledBack, TurnReleasesForRetry, RestateInput
<1>7. ASSUME NEW j \in Ids, NEW src, StartAcceptedInput(j, src) \/ QueueAcceptedInput(j, src)
      PROVE  st'[i] # "gone"
  BY <1>1, <1>7 DEF StartAcceptedInput, QueueAcceptedInput, CreateQueueInput
<1>8. ASSUME NEW j \in Ids,
             \/ PromotionBegins(j) \/ UpdateQueuedInput(j) \/ ResolveBlockedPendingInput(j)
             \/ RetryPendingQueueInput(j) \/ ResumePendingQueue(j)
             \/ \E to : MoveQueuedInput(j, to)
      PROVE  st'[i] # "gone"
  BY <1>1, <1>8
  DEF PromotionBegins, UpdateQueuedInput, ResolveBlockedPendingInput, RetryPendingQueueInput,
      ResumePendingQueue, MoveQueuedInput, ClaimInput, RestateInput, MoveQueueInput, rowVars
<1>9. ASSUME NEW j \in Ids, DeletePendingInput(j) PROVE st'[i] # "gone"
  <2>1. j # i /\ st' = [st EXCEPT ![j] = "gone"]
    BY <1>9 DEF DeletePendingInput, IsWaiting, ConsumeInput
  <2> QED
    BY <1>1, <2>1
<1>10. SteerWithFilesBegins \/ RespondBegins \/ StopRunning \/ StopPaused => st'[i] # "gone"
  BY DEF SteerWithFilesBegins, RespondBegins, StopRunning, StopPaused, resRest, rowVars
<1>11. UserStep => st'[i] # "gone"
  BY <1>4, <1>7, <1>8, <1>9, <1>10 DEF UserStep, SteerActiveTurn
<1> QED
  BY <1>2, <1>3, <1>5, <1>6, <1>11

\* No message vanishes: a claimed queue row leaves the lane only when its own turn put its user
\* message into the transcript and kept it there, and a restart keeps it in the lane otherwise.
THEOREM MessagesAreKept == Spec => NothingVanishes
<1>1. ASSUME LaneInv, [Next]_vars, NEW i \in Ids, mode[i] = "queue", st[i] = "claimed",
             st'[i] = "gone"
      PROVE  turn.input = i /\ turn.fact # "none" /\ turn'.pc # "rolled"
  <2>1. OwnershipInv /\ GenerationInv
    BY <1>1 DEF LaneInv
  <2>2. ~UNCHANGED vars
    BY <1>1 DEF vars, rowVars
  <2>3. CASE Restart
    <3>1. turn'.pc = "off" /\ (st' = st \/ RecoverInputsAfterRestart)
      BY <2>3 DEF Restart, NoTurn, rowVars
    <3>2. ConsumedByRestart(i)
      BY <1>1, <3>1 DEF RecoverInputsAfterRestart
    <3> QED
      BY <1>1, <3>1, <3>2 DEF ConsumedByRestart, Materialized
  <2>4. CASE TurnStep
    BY <1>1, <2>1, <2>4, TurnStepKeepsMessages
  <2> QED
    BY <1>1, <2>1, <2>2, <2>3, <2>4, OthersKeepClaims DEF Next
<1>2. LaneInv /\ [Next]_vars =>
        [\A i \in Ids :
           mode[i] = "queue" /\ st[i] = "claimed" /\ st'[i] = "gone" =>
             turn.input = i /\ turn.fact # "none" /\ turn'.pc # "rolled"]_vars
  BY <1>1
<1> QED
  BY <1>2, LaneAlways, PTL DEF Spec, NothingVanishes

\* Only three steps start a turn.
LEMMA WhoStarts ==
  ASSUME TypeOK, [Next]_vars, Started
  PROVE  \E i \in Ids :
           \/ DrainSteerInput(i) \/ DrainQueuedInput(i)
           \/ \E src \in {"send", "queue"} : StartAcceptedInput(i, src)
<1>1. ~UNCHANGED vars /\ ~Restart
  <2>1. UNCHANGED vars => turn' = turn
    BY DEF vars
  <2>2. Restart => turn'.pc = "off"
    BY DEF Restart, NoTurn
  <2> QED
    BY <2>1, <2>2 DEF Started
<1>2. ~TurnStep /\ ~SettleRolledBack
  BY DEF Started, TurnStep, TurnProgress, AttachReady, AttachNeedsUserAction, AppendUserFact,
         CreateAssistantMessage, RegisterRun, CrossPreStreamBoundary, RunCompletes, RunPauses,
         RunAborted, TurnAborted, RunReturnsError, TurnJournalFails, TurnFails, InRun, PreRun,
         SettleRolledBack
<1>3. ~ResumeStep /\ ~RespondStep
  BY DEF Started, ResumeStep, ResumeProgress, RespondStep, RespondAborted, AbortSettles,
         ResumeStreams, ResumeSettles, ResumePauses, ResumeFails, RespondKeepsWaiting,
         RespondAwaitsFollowUp, RespondResumes, resRest
<1>4. ~DrainStartsNothing /\ ~Finalize /\ ~ScheduleNextIfReady
  BY DEF Started, DrainStartsNothing, Finalize, ScheduleNextIfReady, NoTurn
<1>5. ASSUME NEW i, SteerMessageAppended(i) PROVE FALSE
  BY <1>5, SteerMessageTurn DEF Started
<1>6. ~PreparationStep
  BY <1>5
  DEF Started, PreparationStep, PreparationProgress, SteerWithFilesCommits, AcceptSteer,
      AcceptVisibleSteerInput, SteerWithFilesEnds, PromotionCommits, PromotionRejected,
      PromotionNeedsUserAction, PromotionFails, promotionRest
<1>7. ASSUME NEW i \in Ids,
             \/ \E src \in {"send", "queue"} : QueueAcceptedInput(i, src)
             \/ SteerActiveTurn(i) \/ PromotionBegins(i)
             \/ UpdateQueuedInput(i) \/ DeletePendingInput(i)
             \/ ResolveBlockedPendingInput(i) \/ RetryPendingQueueInput(i)
             \/ ResumePendingQueue(i)
             \/ \E to : MoveQueuedInput(i, to)
      PROVE  FALSE
  BY <1>5, <1>7
  DEF Started, QueueAcceptedInput, SteerActiveTurn, AcceptSteer, AcceptVisibleSteerInput,
      PromotionBegins, UpdateQueuedInput, DeletePendingInput, ResolveBlockedPendingInput,
      RetryPendingQueueInput, ResumePendingQueue, MoveQueuedInput, laneRest
<1>8. ~SteerWithFilesBegins /\ ~RespondBegins /\ ~StopRunning /\ ~StopPaused
  BY DEF Started, SteerWithFilesBegins, RespondBegins, StopRunning, StopPaused, resRest,
         TypeOK, Turns
<1> QED
  BY <1>1, <1>2, <1>3, <1>4, <1>6, <1>7, <1>8 DEF Next, PumpStep, UserStep

\* Every row of the lane that is not claimed, blocked or waiting for a retry is pending.
LEMMA PendingLane ==
  ASSUME QueueMatchesRows, ~HasClaimedInput, ~HasBlockingInput, ~HasRetryRequired,
         NEW n \in DOMAIN queue
  PROVE  queue[n] \in Ids /\ mode[queue[n]] = "queue" /\ st[queue[n]] = "pending"
<1>1. queue[n] \in Ids
  BY DEF QueueMatchesRows
<1>2. mode[queue[n]] = "queue" /\ st[queue[n]] \in Live
  BY <1>1 DEF QueueMatchesRows
<1> QED
  BY <1>1, <1>2 DEF HasClaimedInput, HasBlockingInput, HasRetryRequired, IsWaiting, Live

LEMMA StartsBehindSteer ==
  ASSUME LaneInv, [Next]_vars, Started, ~asked, mode'[turn'.input] = "queue"
  PROVE  \A i \in Ids : ~IsNextSteer(i)
<1>1. TypeOK /\ mode \in [Ids -> {"queue", "steer"}]
  BY DEF LaneInv, OwnershipInv, TypeOK
<1>2. PICK i \in Ids : \/ DrainSteerInput(i) \/ DrainQueuedInput(i)
                       \/ \E src \in {"send", "queue"} : StartAcceptedInput(i, src)
  BY <1>1, WhoStarts
<1>3. CASE DrainSteerInput(i)
  <2>1. turn'.input = i /\ mode' = mode /\ mode[i] = "steer"
    BY <1>3
    DEF DrainSteerInput, CanStartSteer, IsNextSteer, WaitingSteer, ClaimInput, RestateInput,
        LaunchTurn, LaunchFails, Begun, NoTurn
  <2> QED
    BY <2>1
<1>4. CASE DrainQueuedInput(i)
  BY <1>4 DEF DrainQueuedInput, CanStartQueued
<1>5. CASE \E src \in {"send", "queue"} : StartAcceptedInput(i, src)
  BY <1>5 DEF StartAcceptedInput, ClaimsImmediately, Executable, HasPendingTurnInput
<1> QED
  BY <1>2, <1>3, <1>4, <1>5

LEMMA StartsInQueueOrder ==
  ASSUME LaneInv, [Next]_vars, Started, ~asked, st'[turn'.input] = "claimed",
         mode'[turn'.input] = "queue", NEW j \in Ids, Before(queue', j, turn'.input)
  PROVE  j \in held \/ \E k \in held : Before(queue', k, j)
<1>1. TypeOK /\ mode \in [Ids -> {"queue", "steer"}] /\ QueueMatchesRows
  BY DEF LaneInv, OwnershipInv, TypeOK
<1>2. queue \in Seq(Ids) /\ DOMAIN queue = 1..Len(queue) /\ Len(queue) \in Nat
  BY <1>1 DEF QueueMatchesRows
<1>3. PICK i \in Ids : \/ DrainSteerInput(i) \/ DrainQueuedInput(i)
                       \/ \E src \in {"send", "queue"} : StartAcceptedInput(i, src)
  BY <1>1, WhoStarts
<1>4. turn'.input = i
  BY <1>3, ZenonT(30)
  DEF DrainSteerInput, DrainQueuedInput, StartAcceptedInput, LaunchTurn, LaunchFails, Begun,
      NoTurn
<1>5. PICK m, n \in DOMAIN queue' : m < n /\ queue'[m] = j /\ queue'[n] = i
  BY <1>4 DEF Before
<1>6. ~DrainSteerInput(i)
  <2>1. DrainSteerInput(i) => mode[i] = "steer" /\ mode' = mode
    BY DEF DrainSteerInput, CanStartSteer, IsNextSteer, WaitingSteer, ClaimInput, RestateInput
  <2> QED
    BY <1>4, <2>1
<1>7. CASE DrainQueuedInput(i)
  <2>1. queue' = queue /\ IsHead(i) /\ ~HasClaimedInput
    BY <1>7
    DEF DrainQueuedInput, CanStartQueued, IsNextQueued, DrainGate, ClaimInput, RestateInput
  <2>2. \A k \in 1..(n - 1) : ~IsWaiting(queue[k])
    BY <1>1, <1>5, <2>1 DEF IsHead, QueueMatchesRows
  <2>3. m \in 1..(n - 1)
    BY <1>2, <1>5, <2>1
  <2>4. ~IsWaiting(j) /\ mode[j] = "queue" /\ st[j] \in Live
    BY <1>1, <1>5, <2>1, <2>2, <2>3 DEF QueueMatchesRows
  <2> QED
    BY <2>1, <2>4 DEF IsWaiting, Live, HasClaimedInput
<1>8. CASE \E src \in {"send", "queue"} : StartAcceptedInput(i, src)
  <2>1. PICK src \in {"send", "queue"} : StartAcceptedInput(i, src)
    BY <1>8
  <2>2. /\ ~HasBlockingInput /\ ~HasClaimedInput /\ ~HasRetryRequired
        /\ \/ src = "send" /\ ~Executable
           \/ src = "queue" /\ ~HasPendingTurnInput
        /\ queue' = Append(queue, i)
    BY <2>1 DEF StartAcceptedInput, ClaimsImmediately, CreateQueueInput
  <2>3. /\ DOMAIN queue' = 1..(Len(queue) + 1)
        /\ \A k \in 1..Len(queue) : queue'[k] = queue[k]
    BY <1>2, <2>2, AppendProperties
  <2>4. m \in 1..Len(queue) /\ 1 \in 1..Len(queue) /\ queue[m] = j
    BY <1>2, <1>5, <2>3
  <2> DEFINE head == queue[1]
  <2>5. head \in Ids /\ mode[head] = "queue" /\ st[head] = "pending"
    BY <1>1, <1>2, <2>2, <2>4, PendingLane
  <2>6. IsNextQueued(head)
    BY <1>2, <2>4, <2>5 DEF IsNextQueued, IsHead, IsWaiting
  <2>7. head \in held
    BY <2>2, <2>5, <2>6 DEF Executable, HasPendingTurnInput
  <2>8. CASE m = 1
    BY <2>4, <2>7, <2>8
  <2>9. CASE m # 1
    <3>1. 1 < m /\ queue'[1] = head /\ 1 \in DOMAIN queue'
      BY <1>2, <2>3, <2>4, <2>9
    <3> QED
      BY <1>5, <2>7, <3>1 DEF Before
  <2> QED
    BY <2>8, <2>9
<1> QED
  BY <1>3, <1>6, <1>7, <1>8

\* Messages start in order: no queued row and no new message goes in front of a waiting steer
\* message, and a queue row starts only when all that stands in front of it is held since the
\* restart or waits behind a row that is.  The answer to a question is exempt.
THEOREM LaneStartsInOrder == Spec => StartsInOrder
<1>1. LaneInv /\ [Next]_vars =>
        [Started /\ ~asked /\ mode'[turn'.input] = "queue" =>
           \A i \in Ids : ~IsNextSteer(i)]_vars
  BY StartsBehindSteer
<1>2. LaneInv /\ [Next]_vars =>
        [Started /\ ~asked /\ st'[turn'.input] = "claimed" /\ mode'[turn'.input] = "queue" =>
           \A j \in Ids : Before(queue', j, turn'.input) =>
             j \in held \/ \E k \in held : Before(queue', k, j)]_vars
  BY StartsInQueueOrder
<1>3. Spec => SteerFirst
  BY <1>1, LaneAlways, PTL DEF Spec, SteerFirst
<1>4. Spec => NoOvertaking
  BY <1>2, LaneAlways, PTL DEF Spec, NoOvertaking
<1> QED
  BY <1>3, <1>4 DEF StartsInOrder

-----------------------------------------------------------------------------
(* The promise: every step of the session is a step of MessageDelivery or  *)
(* changes nothing a message can see.                                      *)

\* A row that was never used is a queue row: accepting one does not change its kind.
FreshIsQueue == \A i \in Ids : st[i] = "unused" => mode[i] = "queue"

\* What MessageDelivery allows a step to be.
Promised == Delivery!Next \/ UNCHANGED <<Phases, mode>>

\* Phase as a function of what it depends on.
PhaseOf(s, m, owned, withheld, up) ==
  IF s = "unused" THEN "new"
  ELSE IF s = "gone" THEN "over"
  ELSE IF owned THEN "running"
  ELSE IF ~up \/ s \in {"blocked", "retry"} \/ (s = "pending" /\ m = "queue" /\ withheld)
  THEN "withheld" ELSE "waiting"

\* A turn that owns a row holds a claim.
LEMMA OwnedIsClaimed ==
  ASSUME OwnershipInv, NEW i \in Ids, TurnOwns(i)
  PROVE  st[i] = "claimed"
<1>1. turn.pc # "off" /\ turn.input = i /\ Unsettled
  BY DEF TurnOwns
<1> QED
  BY <1>1, TurnHoldsRow

LEMMA PhaseNow ==
  ASSUME OwnershipInv, NEW i \in Ids
  PROVE  Phase(i) = PhaseOf(st[i], mode[i], TurnOwns(i), i \in held, boot = "up")
<1>1. /\ st[i] \in {"unused", "gone"} \cup Live
      /\ boot \in {"up", "failed"}
      /\ st[i] \in {"unused", "gone"} => ~TurnOwns(i) /\ st[i] \notin Live
  BY OwnedIsClaimed DEF OwnershipInv, TypeOK, RowStates, Live
<1>2. CASE st[i] = "unused"
  BY <1>1, <1>2 DEF Phase, PhaseOf, Withheld
<1>3. CASE st[i] \in Live
  BY <1>1, <1>3 DEF Phase, PhaseOf, Withheld, Live
<1>4. CASE st[i] = "gone"
  BY <1>1, <1>4 DEF Phase, PhaseOf, Withheld
<1> QED
  BY <1>1, <1>2, <1>3, <1>4

LEMMA PhaseNext ==
  ASSUME OwnershipInv', NEW i \in Ids
  PROVE  Phase(i)' = PhaseOf(st'[i], mode'[i], TurnOwns(i)', i \in held', boot' = "up")
<1>1. /\ st'[i] \in {"unused", "gone"} \cup Live
      /\ boot' \in {"up", "failed"}
  BY DEF OwnershipInv, TypeOK, RowStates, Live
<1>5. st'[i] \in {"unused", "gone"} => ~TurnOwns(i)' /\ st'[i] \notin Live
  <2>1. TurnOwns(i)' => boot' = "up"
    BY <1>1 DEF TurnOwns, OwnershipInv, FailedBootIsQuiet
  <2>2. TurnOwns(i)' => st'[i] = "claimed"
    BY <2>1 DEF OwnershipInv, ClaimOwnership
  <2> QED
    BY <2>2 DEF Live
<1>2. CASE st'[i] = "unused"
  BY <1>5, <1>2 DEF Phase, PhaseOf, Withheld
<1>3. CASE st'[i] \in Live
  BY <1>1, <1>3 DEF Phase, PhaseOf, Withheld, Live
<1>4. CASE st'[i] = "gone"
  BY <1>5, <1>4 DEF Phase, PhaseOf, Withheld
<1> QED
  BY <1>1, <1>2, <1>3, <1>4

\* A message whose row, place and owner stay as they are sees nothing.
LEMMA MessageSeesNothing ==
  ASSUME OwnershipInv, OwnershipInv', NEW j \in Ids, st'[j] = st[j], mode'[j] = mode[j],
         TurnOwns(j)' <=> TurnOwns(j), j \in held' <=> j \in held, boot' = boot
  PROVE  Phase(j)' = Phase(j)
BY PhaseNow, PhaseNext DEF PhaseOf

LEMMA QuietStep ==
  ASSUME OwnershipInv, OwnershipInv', UNCHANGED <<st, mode, held, boot>>,
         \A j \in Ids : TurnOwns(j)' <=> TurnOwns(j)
  PROVE  Promised
<1>1. \A j \in Ids : Phase(j)' = Phase(j)
  BY MessageSeesNothing
<1> QED
  BY <1>1 DEF Promised, Phases

\* A step that one message sees.
OnlyTouches(i) ==
  \A j \in Ids : j # i => /\ st'[j] = st[j] /\ mode'[j] = mode[j]
                          /\ TurnOwns(j)' <=> TurnOwns(j)
                          /\ j \in held' <=> j \in held

LEMMA OneMessageMoves ==
  ASSUME OwnershipInv, OwnershipInv', NEW i \in Ids, boot' = boot, OnlyTouches(i)
  PROVE  /\ Phases' = [Phases EXCEPT ![i] = Phase(i)']
         /\ Delivery!Becomes(i, Phase(i)')
<1>1. \A j \in Ids : j # i => Phase(j)' = Phase(j)
  BY MessageSeesNothing DEF OnlyTouches
<1>2. Phases' = [Phases EXCEPT ![i] = Phase(i)']
  BY <1>1 DEF Phases
<1> QED
  BY <1>2 DEF Delivery!Becomes, Phases

\* The moves of a message that start nothing.
LegalMove(p, q) ==
  \/ p = q
  \/ p = "running" /\ q \in {"over", "withheld"}
  \/ p = "waiting" /\ q \in {"withheld", "over"}
  \/ p = "withheld" /\ q \in {"waiting", "over"}

LEMMA LegalMoveIsPromised ==
  ASSUME OwnershipInv, OwnershipInv', NEW i \in Ids, boot' = boot, mode' = mode, OnlyTouches(i),
         LegalMove(Phase(i), Phase(i)')
  PROVE  Promised
<1>1. /\ Phases' = [Phases EXCEPT ![i] = Phase(i)']
      /\ Delivery!Becomes(i, Phase(i)')
  BY OneMessageMoves
<1>2. Phases[i] = Phase(i)
  BY DEF Phases
<1>3. CASE Phase(i)' = Phase(i)
  BY <1>1, <1>2, <1>3 DEF Promised, Phases
<1>4. CASE Phase(i) = "running" /\ Phase(i)' \in {"over", "withheld"}
  <2>1. Delivery!Finish(i)
    BY <1>1, <1>2, <1>4 DEF Delivery!Finish
  <2> QED
    BY <2>1 DEF Promised, Delivery!Next
<1>5. CASE Phase(i) = "waiting" /\ Phase(i)' = "withheld"
  <2>1. Delivery!Withhold(i)
    BY <1>1, <1>2, <1>5 DEF Delivery!Withhold
  <2> QED
    BY <2>1 DEF Promised, Delivery!Next
<1>6. CASE Phase(i) \in {"waiting", "withheld"} /\ Phase(i)' = "over"
  <2>1. Delivery!Drop(i)
    BY <1>1, <1>2, <1>6 DEF Delivery!Drop
  <2> QED
    BY <2>1 DEF Promised, Delivery!Next
<1>7. CASE Phase(i) = "withheld" /\ Phase(i)' = "waiting"
  <2>1. Phases' = [k \in Ids |-> IF k \in {i} THEN "waiting" ELSE Phases[k]]
    BY <1>1, <1>7 DEF Phases
  <2>2. Delivery!Release({i})
    BY <1>7, <2>1 DEF Delivery!Release, Phases
  <2> QED
    BY <2>2 DEF Promised, Delivery!Next
<1> QED
  BY <1>3, <1>4, <1>5, <1>6, <1>7 DEF LegalMove

\* A row that changes its state, with whoever owned it or owns it now.
LEMMA OneRowMoves ==
  ASSUME OwnershipInv, NEW i \in Ids, NEW s, st' = [st EXCEPT ![i] = s], mode' = mode,
         held' = held \/ held' = held \ {i},
         \A j \in Ids : j # i => (TurnOwns(j)' <=> TurnOwns(j))
  PROVE  OnlyTouches(i) /\ st'[i] = s
BY DEF OnlyTouches, OwnershipInv, TypeOK

\* The turn settles its claim and does not go on with it.
LEMMA TurnSettles ==
  ASSUME OwnershipInv, OwnershipInv', turn.pc # "off", Unsettled,
         NEW s \in {"gone", "retry", "blocked"}, st' = [st EXCEPT ![turn.input] = s],
         ~Unsettled', UNCHANGED <<mode, held, boot>>
  PROVE  Promised
<1>1. PICK i \in Ids : i = turn.input /\ st[i] = "claimed" /\ TurnOwns(i)
  BY TurnHoldsRow
<1>2. TypeOK /\ \A j \in Ids : j # i => ~TurnOwns(j)
  BY <1>1 DEF TurnOwns, OwnershipInv
<1>3. \A j \in Ids : ~TurnOwns(j)'
  BY DEF TurnOwns
<1>4. OnlyTouches(i) /\ st'[i] = s
  BY <1>1, <1>2, <1>3, OneRowMoves
<1>5. Phase(i) = "running"
  BY <1>1, <1>2, PhaseNow DEF PhaseOf
<1>6. Phase(i)' \in {"over", "withheld"}
  BY <1>3, <1>4, PhaseNext DEF PhaseOf
<1> QED
  BY <1>2, <1>4, <1>5, <1>6, LegalMoveIsPromised DEF LegalMove

\* A row that no turn owns changes its state, and nobody is launched.
LEMMA IdleRowMoves ==
  ASSUME OwnershipInv, OwnershipInv', NEW i \in Ids, NEW s, st' = [st EXCEPT ![i] = s],
         UNCHANGED <<mode, boot>>, held' = held \/ held' = held \ {i},
         \A j \in Ids : TurnOwns(j)' <=> TurnOwns(j), ~TurnOwns(i),
         LegalMove(PhaseOf(st[i], mode[i], FALSE, i \in held, boot = "up"),
                   PhaseOf(s, mode[i], FALSE, i \in held', boot = "up"))
  PROVE  Promised
<1>1. OnlyTouches(i) /\ st'[i] = s
  BY OneRowMoves
<1>2. Phase(i) = PhaseOf(st[i], mode[i], FALSE, i \in held, boot = "up")
  BY PhaseNow DEF PhaseOf
<1>3. Phase(i)' = PhaseOf(s, mode[i], FALSE, i \in held', boot = "up")
  BY <1>1, PhaseNext DEF PhaseOf
<1> QED
  BY <1>1, <1>2, <1>3, LegalMoveIsPromised

\* Where nothing is blocked or claimed, no steer message waits unless one is next.
NoSteerWaits == \A j \in Ids : Phase(j) = "waiting" => mode[j] = "queue"

LEMMA SteerIsNext ==
  ASSUME OwnershipInv, boot = "up", ~HasBlockingInput, ~HasClaimedInput,
         \A j \in Ids : ~IsNextSteer(j)
  PROVE  NoSteerWaits
<1> DEFINE Waits == {j \in Ids : WaitingSteer(j)}
<1>1. Waits = {}
  <2>1. SUFFICES ASSUME Waits # {} PROVE FALSE
    OBVIOUS
  <2>2. Waits \subseteq Nat
    BY IdsAssumption
  <2>3. Min(Waits) \in Waits /\ \A j \in Waits : Min(Waits) <= j
    BY <2>1, <2>2, LeastExists
  <2>4. PICK i \in Ids : WaitingSteer(i) /\ \A j \in Ids : WaitingSteer(j) => i <= j
    BY <2>3
  <2>5. st[i] = "pending"
    BY <2>4 DEF WaitingSteer, HasBlockingInput
  <2> QED
    BY <2>4, <2>5 DEF IsNextSteer
<1>2. SUFFICES ASSUME NEW j \in Ids, Phase(j) = "waiting", mode[j] # "queue" PROVE FALSE
  BY DEF NoSteerWaits
<1>3. st[j] = "pending" /\ mode[j] = "steer"
  <2>1. st[j] \in RowStates /\ mode[j] \in {"queue", "steer"}
    BY DEF OwnershipInv, TypeOK
  <2>2. st[j] \notin {"unused", "gone", "blocked", "retry", "claimed"}
    BY <1>2, PhaseNow DEF PhaseOf, HasClaimedInput
  <2> QED
    BY <1>2, <2>1, <2>2 DEF RowStates
<1> QED
  BY <1>1, <1>3 DEF WaitingSteer

\* A message starts.
LEMMA LaunchIsStart ==
  ASSUME OwnershipInv, OwnershipInv', boot = "up", NEW i \in Ids, NEW src,
         LaunchTurn(i, src), turn.pc = "off",
         st' = [st EXCEPT ![i] = "claimed"], UNCHANGED <<mode, held, boot>>,
         Phase(i) \in {"new", "waiting"},
         (Phase(i) = "new" /\ asked) \/ (mode[i] = "queue" => NoSteerWaits)
  PROVE  Promised
<1> DEFINE pc == IF src = "steer" THEN "answer" ELSE "attach"
<1>1. TypeOK /\ TypeOK'
  BY DEF OwnershipInv
<1>2. turn'.pc # "off" /\ turn'.disp = "none" /\ turn'.input = i
  BY DEF LaunchTurn, Begun, NoTurn
<1>3. \A j \in Ids : ~TurnOwns(j)
  BY DEF TurnOwns
<1>4. \A j \in Ids : TurnOwns(j)' <=> j = i
  BY <1>2 DEF TurnOwns, Unsettled
<1>5. OnlyTouches(i) /\ st'[i] = "claimed"
  BY <1>1, <1>3, <1>4, OneRowMoves
<1>6. /\ Phases' = [Phases EXCEPT ![i] = Phase(i)']
      /\ Delivery!Becomes(i, Phase(i)')
  BY <1>1, <1>5, OneMessageMoves
<1>7. Phase(i)' = "running"
  BY <1>1, <1>4, <1>5, PhaseNext DEF PhaseOf
<1>8. \A j \in Ids : Phases[j] = Phase(j)
  BY DEF Phases
<1>9. \A j \in Ids : Phase(j) # "running"
  BY <1>1, <1>3, PhaseNow DEF PhaseOf
<1>10. Delivery!Start(i)
  <2>1. Delivery!Nobody("running")
    BY <1>8, <1>9 DEF Delivery!Nobody, Phases
  <2>2. \/ Phases[i] = "new" /\ asked
        \/ mode[i] = "queue" =>
             \A j \in Ids : Phases[j] = "waiting" => mode[j] = "queue"
    BY <1>8 DEF NoSteerWaits
  <2>3. Phases[i] \in {"new", "waiting"}
    BY <1>8
  <2> QED
    BY <1>6, <1>7, <2>1, <2>2, <2>3 DEF Delivery!Start, Phases
<1> QED
  BY <1>10 DEF Promised, Delivery!Next

\* A message is accepted and waits or is withheld.
LEMMA AcceptIsPromised ==
  ASSUME OwnershipInv, OwnershipInv', boot' = boot, NEW i \in Ids, st[i] = "unused",
         NEW m \in {"queue", "steer"}, mode' = [mode EXCEPT ![i] = m],
         NEW s, st' = [st EXCEPT ![i] = s], held' = held,
         \A j \in Ids : j # i => (TurnOwns(j)' <=> TurnOwns(j)),
         Phase(i)' = "waiting" \/ (m = "queue" /\ Phase(i)' = "withheld")
  PROVE  Promised
<1>1. OnlyTouches(i)
  BY DEF OnlyTouches, OwnershipInv, TypeOK
<1>2. /\ Phases' = [Phases EXCEPT ![i] = Phase(i)']
      /\ Delivery!Becomes(i, Phase(i)')
  BY <1>1, OneMessageMoves
<1>3. Phases[i] = "new"
  BY PhaseNow DEF Phases, PhaseOf
<1>4. Delivery!Accept(i, m, Phase(i)')
  BY <1>2, <1>3 DEF Delivery!Accept, Phases
<1> QED
  BY <1>4 DEF Promised, Delivery!Next

-----------------------------------------------------------------------------
(* The steps of the pump.                                                  *)

\* A drain that goes through the gate finds no turn, and no message in its way.
LEMMA DrainFinds ==
  ASSUME OwnershipInv, DrainGate, boot = "up"
  PROVE  /\ turn.pc = "off" /\ \A j \in Ids : ~TurnOwns(j)
         /\ (\A j \in Ids : ~IsNextSteer(j)) => NoSteerWaits
<1>1. turn.pc = "off"
  BY DEF OwnershipInv, TurnHoldsLease, DrainGate
<1>2. ~HasBlockingInput /\ ~HasClaimedInput
  BY DEF DrainGate
<1> QED
  BY <1>1, <1>2, SteerIsNext DEF TurnOwns

LEMMA FailedLaunchOwnsNothing ==
  ASSUME NEW i, NEW src, LaunchFails(i, src)
  PROVE  \A j \in Ids : ~TurnOwns(j)'
BY DEF LaunchFails, Begun, NoTurn, TurnOwns, Unsettled

LEMMA DrainSteerIsPromised ==
  ASSUME OwnershipInv, OwnershipInv', boot = "up", boot' = boot, NEW i \in Ids,
         DrainSteerInput(i)
  PROVE  Promised
<1>1. DrainGate /\ st[i] = "pending" /\ mode[i] = "steer"
  BY DEF DrainSteerInput, CanStartSteer, IsNextSteer, WaitingSteer
<1>2. turn.pc = "off" /\ \A j \in Ids : ~TurnOwns(j)
  BY <1>1, DrainFinds
<1>3. UNCHANGED <<mode, held>>
  BY DEF DrainSteerInput, ClaimInput, RestateInput
<1>4. CASE ClaimInput(i) /\ LaunchTurn(i, "steer")
  <2>1. Phase(i) = "waiting"
    BY <1>1, <1>2, PhaseNow DEF PhaseOf
  <2>2. st' = [st EXCEPT ![i] = "claimed"]
    BY <1>4 DEF ClaimInput
  <2> QED
    BY <1>1, <1>2, <1>3, <1>4, <2>1, <2>2, LaunchIsStart
<1>5. CASE RestateInput(i, "gone") /\ LaunchFails(i, "steer")
  <2>1. st' = [st EXCEPT ![i] = "gone"]
    BY <1>5 DEF RestateInput
  <2>2. \A j \in Ids : TurnOwns(j)' <=> TurnOwns(j)
    BY <1>2, <1>5, FailedLaunchOwnsNothing
  <2>3. LegalMove(PhaseOf(st[i], mode[i], FALSE, i \in held, boot = "up"),
                  PhaseOf("gone", mode[i], FALSE, i \in held', boot = "up"))
    BY <1>1 DEF LegalMove, PhaseOf
  <2> QED
    BY <1>2, <1>3, <2>1, <2>2, <2>3, IdleRowMoves
<1> QED
  BY <1>4, <1>5 DEF DrainSteerInput

LEMMA DrainQueuedIsPromised ==
  ASSUME OwnershipInv, OwnershipInv', boot = "up", boot' = boot, NEW i \in Ids,
         DrainQueuedInput(i)
  PROVE  Promised
<1>1. /\ DrainGate /\ st[i] = "pending" /\ mode[i] = "queue" /\ i \notin held
      /\ \A j \in Ids : ~IsNextSteer(j)
  BY DEF DrainQueuedInput, CanStartQueued, IsNextQueued, IsHead, IsWaiting
<1>2. turn.pc = "off" /\ NoSteerWaits /\ \A j \in Ids : ~TurnOwns(j)
  BY <1>1, DrainFinds
<1>3. UNCHANGED <<mode, held>>
  BY DEF DrainQueuedInput, ClaimInput, RestateInput
<1>4. CASE ClaimInput(i) /\ LaunchTurn(i, "queue")
  <2>1. Phase(i) = "waiting"
    BY <1>1, <1>2, PhaseNow DEF PhaseOf
  <2>2. st' = [st EXCEPT ![i] = "claimed"]
    BY <1>4 DEF ClaimInput
  <2> QED
    BY <1>1, <1>2, <1>3, <1>4, <2>1, <2>2, LaunchIsStart
<1>5. CASE RestateInput(i, "retry") /\ LaunchFails(i, "queue")
  <2>1. st' = [st EXCEPT ![i] = "retry"]
    BY <1>5 DEF RestateInput
  <2>2. \A j \in Ids : TurnOwns(j)' <=> TurnOwns(j)
    BY <1>2, <1>5, FailedLaunchOwnsNothing
  <2>3. LegalMove(PhaseOf(st[i], mode[i], FALSE, i \in held, boot = "up"),
                  PhaseOf("retry", mode[i], FALSE, i \in held', boot = "up"))
    BY <1>1 DEF LegalMove, PhaseOf
  <2> QED
    BY <1>2, <1>3, <2>1, <2>2, <2>3, IdleRowMoves
<1> QED
  BY <1>4, <1>5 DEF DrainQueuedInput

LEMMA PumpStepIsPromised ==
  ASSUME OwnershipInv, OwnershipInv', boot = "up", PumpStep
  PROVE  Promised
<1>1. boot' = boot
  BY DEF PumpStep, admission
<1>2. CASE \E i \in Ids : DrainSteerInput(i) \/ DrainQueuedInput(i)
  BY <1>1, <1>2, DrainSteerIsPromised, DrainQueuedIsPromised
<1>3. CASE DrainStartsNothing \/ ScheduleNextIfReady
  <2>1. UNCHANGED <<st, mode, held, turn>>
    BY <1>3 DEF DrainStartsNothing, ScheduleNextIfReady, rowVars
  <2>2. \A j \in Ids : TurnOwns(j)' <=> TurnOwns(j)
    BY <2>1 DEF TurnOwns, Unsettled
  <2> QED
    BY <1>1, <2>1, <2>2, QuietStep
<1>4. CASE Finalize
  <2>1. UNCHANGED <<st, mode, held>> /\ turn.pc = "closing" /\ turn'.pc = "off"
    BY <1>4 DEF Finalize, rowVars, NoTurn
  <2>2. \A j \in Ids : TurnOwns(j)' <=> TurnOwns(j)
    BY <2>1 DEF TurnOwns, OwnershipInv, TurnHasClaim
  <2> QED
    BY <1>1, <2>1, <2>2, QuietStep
<1> QED
  BY <1>2, <1>3, <1>4 DEF PumpStep

-----------------------------------------------------------------------------
(* The steps of a turn.                                                    *)

\* A turn that goes on without writing its row keeps it.
LEMMA TurnGoesOn ==
  ASSUME OwnershipInv, OwnershipInv', boot' = boot, UNCHANGED <<st, mode, held>>,
         turn'.input = turn.input, turn'.disp = turn.disp,
         turn.pc # "off", turn'.pc # "off"
  PROVE  Promised
<1>1. \A j \in Ids : TurnOwns(j)' <=> TurnOwns(j)
  BY DEF TurnOwns, Unsettled
<1> QED
  BY <1>1, QuietStep

LEMMA TurnConsumesIsPromised ==
  ASSUME OwnershipInv, OwnershipInv', boot' = boot, held' = held,
         turn.pc # "off", NEW s, TurnConsumes(s)
  PROVE  Promised
<1>1. turn'.disp = "consumed" /\ mode' = mode
  BY DEF TurnConsumes, TurnCloses, ConsumeInput, rowVars, NoTurn
<1>2. CASE Unsettled
  <2>1. st' = [st EXCEPT ![turn.input] = "gone"]
    BY <1>2 DEF TurnConsumes, ConsumeInput
  <2> QED
    BY <1>1, <1>2, <2>1, TurnSettles DEF Unsettled
<1>3. CASE ~Unsettled
  <2>1. UNCHANGED st
    BY <1>3 DEF TurnConsumes, rowVars
  <2>2. \A j \in Ids : TurnOwns(j)' <=> TurnOwns(j)
    BY <1>1, <1>3 DEF TurnOwns, Unsettled
  <2> QED
    BY <1>1, <2>1, <2>2, QuietStep
<1> QED
  BY <1>2, <1>3

LEMMA TurnReleasesIsPromised ==
  ASSUME OwnershipInv, OwnershipInv', boot' = boot, held' = held,
         turn.pc # "off", Unsettled, NEW s, TurnReleasesForRetry(s)
  PROVE  Promised
<1>1. /\ turn'.disp = "released" /\ mode' = mode
      /\ st' = [st EXCEPT ![turn.input] = "retry"]
  BY DEF TurnReleasesForRetry, TurnCloses, RestateInput, NoTurn
<1> QED
  BY <1>1, TurnSettles DEF Unsettled

LEMMA TurnRollsBackIsPromised ==
  ASSUME OwnershipInv, OwnershipInv', boot' = boot, held' = held,
         turn.pc # "off", NEW s, TurnRollsBack(s)
  PROVE  Promised
<1>1. /\ turn'.pc = "rolled" /\ turn'.input = turn.input /\ turn'.disp = turn.disp
      /\ UNCHANGED <<st, mode>>
  BY DEF TurnRollsBack, rowVars, OwnershipInv, TypeOK, Turns
<1> QED
  BY <1>1, TurnGoesOn

LEMMA TurnStepIsPromised ==
  ASSUME OwnershipInv, OwnershipInv', boot = "up", TurnStep
  PROVE  Promised
<1>1. boot' = boot /\ TypeOK
  BY DEF TurnStep, admission, OwnershipInv
<1>2. CASE AttachReady \/ RegisterRun
  <2>1. /\ UNCHANGED <<st, mode, held>> /\ turn'.pc # "off" /\ turn.pc # "off"
        /\ turn'.input = turn.input /\ turn'.disp = turn.disp
    BY <1>1, <1>2
    DEF AttachReady, RegisterRun, rowVars, turnRest, pumpVars, TypeOK, Turns
  <2> QED
    BY <1>1, <2>1, TurnGoesOn
<1>3. CASE AppendUserFact
  <2>1. /\ UNCHANGED <<st, mode, held>> /\ turn.pc # "off" /\ turn'.pc # "off"
        /\ turn'.input = turn.input /\ turn'.disp = turn.disp
    BY <1>1, <1>3 DEF AppendUserFact, rowVars, turnRest, pumpVars, TypeOK, Turns
  <2> QED
    BY <1>1, <2>1, TurnGoesOn
<1>4. CASE AttachNeedsUserAction
  <2>1. /\ UNCHANGED <<mode, held>> /\ turn.pc = "attach" /\ turn'.disp = "blocked"
        /\ st' = [st EXCEPT ![turn.input] = "blocked"]
    BY <1>4
    DEF AttachNeedsUserAction, RestateInput, TurnCloses, turnRest, pumpVars, NoTurn
  <2>2. Unsettled /\ ~Unsettled'
    BY <2>1 DEF OwnershipInv, TurnHasClaim, Unsettled
  <2> QED
    BY <1>1, <2>1, <2>2, TurnSettles
<1>5. CASE CreateAssistantMessage
  <2>1. turn.pc = "answer" /\ turn'.pc = "entering" /\ UNCHANGED <<mode, held>>
    BY <1>1, <1>5
    DEF CreateAssistantMessage, ConsumeInput, rowVars, turnRest, pumpVars, TypeOK, Turns
  <2>2. CASE turn.src = "send"
    <3>1. turn'.disp = "consumed" /\ st' = [st EXCEPT ![turn.input] = "gone"]
      BY <1>1, <1>5, <2>2 DEF CreateAssistantMessage, ConsumeInput, TypeOK, Turns
    <3>2. Unsettled /\ ~Unsettled'
      BY <2>1, <3>1 DEF OwnershipInv, TurnHasClaim, Unsettled
    <3> QED
      BY <1>1, <2>1, <3>1, <3>2, TurnSettles
  <2>3. CASE turn.src # "send"
    <3>1. turn'.disp = turn.disp /\ turn'.input = turn.input /\ UNCHANGED st
      BY <1>1, <1>5, <2>3 DEF CreateAssistantMessage, rowVars, TypeOK, Turns
    <3> QED
      BY <1>1, <2>1, <3>1, TurnGoesOn
  <2> QED
    BY <2>2, <2>3
<1>6. CASE CrossPreStreamBoundary
  <2>1. turn.pc = "registered" /\ turn'.pc = "stream" /\ UNCHANGED <<mode, held>>
    BY <1>1, <1>6
    DEF CrossPreStreamBoundary, ConsumeInput, rowVars, turnRest, pumpVars, TypeOK, Turns
  <2>2. CASE turn.early /\ Unsettled
    <3>1. turn'.disp = "consumed" /\ st' = [st EXCEPT ![turn.input] = "gone"]
      BY <1>1, <1>6, <2>2 DEF CrossPreStreamBoundary, ConsumeInput, TypeOK, Turns
    <3>2. ~Unsettled'
      BY <3>1 DEF Unsettled
    <3> QED
      BY <1>1, <2>1, <2>2, <3>1, <3>2, TurnSettles
  <2>3. CASE ~(turn.early /\ Unsettled)
    <3>1. turn'.disp = turn.disp /\ turn'.input = turn.input /\ UNCHANGED st
      BY <1>1, <1>6, <2>3 DEF CrossPreStreamBoundary, rowVars, TypeOK, Turns
    <3> QED
      BY <1>1, <2>1, <3>1, TurnGoesOn
  <2> QED
    BY <2>2, <2>3
<1>7. CASE RunCompletes \/ RunPauses \/ RunAborted
  <2>1. turn.pc # "off" /\ held' = held
    BY <1>7 DEF RunCompletes, RunPauses, RunAborted, InRun, turnRest, pumpVars
  <2>2. PICK s : TurnConsumes(s)
    BY <1>7 DEF RunCompletes, RunPauses, RunAborted
  <2> QED
    BY <1>1, <2>1, <2>2, TurnConsumesIsPromised
<1>8. CASE TurnAborted \/ RunReturnsError \/ TurnJournalFails \/ TurnFails
  <2>1. turn.pc # "off" /\ held' = held
    BY <1>8
    DEF TurnAborted, RunReturnsError, TurnJournalFails, TurnFails, InRun, PreRun, turnRest,
        pumpVars
  <2>2. \/ \E s \in Statuses : TurnConsumes(s)
        \/ Unsettled /\ \E s \in Statuses : TurnReleasesForRetry(s)
        \/ \E s \in Statuses : TurnRollsBack(s)
    <3>1. "idle" \in Statuses /\ "error" \in Statuses
      BY DEF Statuses
    <3> QED
      BY <1>8, <3>1 DEF TurnAborted, RunReturnsError, TurnJournalFails, TurnFails
  <2> QED
    BY <1>1, <2>1, <2>2, TurnConsumesIsPromised, TurnReleasesIsPromised,
       TurnRollsBackIsPromised
<1> QED
  BY <1>2, <1>3, <1>4, <1>5, <1>6, <1>7, <1>8 DEF TurnStep, TurnProgress

LEMMA SettleIsPromised ==
  ASSUME OwnershipInv, OwnershipInv', SettleRolledBack, UNCHANGED admission
  PROVE  Promised
<1>1. turn.pc = "rolled" /\ Unsettled /\ UNCHANGED <<held, boot>>
  BY DEF SettleRolledBack, OwnershipInv, TurnHasClaim, turnRest, pumpVars, admission
<1> QED
  BY <1>1, TurnReleasesIsPromised DEF SettleRolledBack

\* The response to an interaction and the run it resumes touch no row and no turn.
LEMMA ResponsesArePromised ==
  ASSUME OwnershipInv, OwnershipInv', ResumeStep \/ RespondStep
  PROVE  Promised
<1>1. UNCHANGED <<st, mode, held, boot, turn>>
  <2>1. CASE ResumeStep
    BY <2>1
    DEF ResumeStep, ResumeProgress, RespondAborted, AbortSettles, ResumeStreams, ResumeSettles,
        ResumePauses, ResumeFails, resRest, rowVars, admission
  <2>2. CASE RespondStep
    BY <2>2
    DEF RespondStep, RespondKeepsWaiting, RespondAwaitsFollowUp, RespondResumes, resRest,
        rowVars, pumpVars, admission
  <2> QED
    BY <2>1, <2>2
<1>2. \A j \in Ids : TurnOwns(j)' <=> TurnOwns(j)
  BY <1>1 DEF TurnOwns, Unsettled
<1> QED
  BY <1>1, <1>2, QuietStep

-----------------------------------------------------------------------------
(* Steer messages and promotions.                                          *)

LEMMA SteerMessageKeepsOwner ==
  ASSUME TypeOK, NEW i, SteerMessageAppended(i)
  PROVE  \A j \in Ids : TurnOwns(j)' <=> TurnOwns(j)
BY SteerMessageTurn DEF TurnOwns, Unsettled

LEMMA AcceptSteerIsPromised ==
  ASSUME OwnershipInv, OwnershipInv', boot = "up", NEW i \in Ids, NEW s, AcceptSteer(i, s)
  PROVE  Promised
<1>1. TypeOK /\ boot' = boot /\ held' = held
  BY DEF OwnershipInv, AcceptSteer
<1>2. \A j \in Ids : TurnOwns(j)' <=> TurnOwns(j)
  BY <1>1, SteerMessageKeepsOwner DEF AcceptSteer, AcceptVisibleSteerInput
<1>3. CASE OpenSteer
  <2>1. UNCHANGED <<st, mode>>
    BY <1>3 DEF AcceptSteer, AcceptVisibleSteerInput, rowVars
  <2> QED
    BY <1>1, <1>2, <2>1, QuietStep
<1>4. CASE ~OpenSteer
  <2>1. /\ st[i] = "unused" /\ mode' = [mode EXCEPT ![i] = "steer"]
        /\ st' = [st EXCEPT ![i] = "pending"]
    BY <1>4 DEF AcceptSteer, AcceptVisibleSteerInput, CreateSteerInput, IsFresh
  <2>2. st'[i] = "pending" /\ mode'[i] = "steer"
    BY <1>1, <2>1 DEF TypeOK
  <2>3. ~TurnOwns(i)'
    BY <1>2, <2>1, OwnedIsClaimed
  <2>4. Phase(i)' = "waiting"
    BY <1>1, <2>2, <2>3, PhaseNext DEF PhaseOf
  <2> QED
    BY <1>1, <1>2, <2>1, <2>4, AcceptIsPromised
<1> QED
  BY <1>3, <1>4

\* A promotion that ends without a steer message leaves a queue row.
LEMMA PromotionEndsIsPromised ==
  ASSUME OwnershipInv, OwnershipInv', lane.kind = "prep",
         NEW s \in {"pending", "blocked", "retry"}, RestateInput(lane.input, s),
         UNCHANGED promotionRest
  PROVE  Promised
<1>1. PICK i \in Ids : i = lane.input
  BY LaneHoldsRow
<1>2. boot = "up" /\ st[i] = "claimed" /\ mode[i] = "queue" /\ ~TurnOwns(i)
  BY <1>1, LaneHoldsRow DEF OwnershipInv, ClaimOwnership
<1>3. UNCHANGED <<mode, held, boot, turn>> /\ st' = [st EXCEPT ![i] = s]
  BY <1>1 DEF RestateInput, promotionRest, pumpVars
<1>4. \A j \in Ids : TurnOwns(j)' <=> TurnOwns(j)
  BY <1>3 DEF TurnOwns, Unsettled
<1>5. LegalMove(PhaseOf(st[i], mode[i], FALSE, i \in held, boot = "up"),
                PhaseOf(s, mode[i], FALSE, i \in held', boot = "up"))
  BY <1>2 DEF LegalMove, PhaseOf
<1> QED
  BY <1>2, <1>3, <1>4, <1>5, IdleRowMoves

LEMMA PromotionCommitsIsPromised ==
  ASSUME OwnershipInv, OwnershipInv', PromotionCommits
  PROVE  Promised
<1>1. PICK i \in Ids : i = lane.input /\ lane.kind = "prep"
  BY LaneHoldsRow DEF PromotionCommits
<1>2. boot = "up" /\ st[i] = "claimed" /\ mode[i] = "queue" /\ ~TurnOwns(i) /\ TypeOK
  BY <1>1, LaneHoldsRow DEF OwnershipInv, ClaimOwnership
<1>3. /\ boot' = boot /\ held' = held \ {i}
      /\ st' = [st EXCEPT ![i] = "pending"] /\ mode' = [mode EXCEPT ![i] = "steer"]
  BY <1>1 DEF PromotionCommits, ConvertQueueInputToSteer
<1>4. st'[i] = "pending" /\ mode'[i] = "steer"
  BY <1>2, <1>3 DEF TypeOK
<1>5. \A j \in Ids : TurnOwns(j)' <=> TurnOwns(j)
  BY <1>2, SteerMessageKeepsOwner DEF PromotionCommits
<1>6. OnlyTouches(i)
  BY <1>2, <1>3, <1>5 DEF OnlyTouches, TypeOK
<1>7. Phase(i) = "waiting"
  BY <1>2, PhaseNow DEF PhaseOf
<1>8. Phase(i)' = "waiting"
  BY <1>2, <1>3, <1>4, <1>5, PhaseNext DEF PhaseOf
<1>9. Phases' = Phases
  <2>1. Phases' = [Phases EXCEPT ![i] = "waiting"]
    BY <1>3, <1>6, <1>8, OneMessageMoves
  <2> QED
    BY <1>7, <2>1 DEF Phases
<1>10. Delivery!Promote(i)
  BY <1>2, <1>3, <1>7, <1>9 DEF Delivery!Promote, Phases
<1> QED
  BY <1>10 DEF Promised, Delivery!Next

\* Steps that change neither rows nor what the turn owns.
LEMMA NothingMoves ==
  ASSUME OwnershipInv, OwnershipInv', UNCHANGED <<st, mode, held, boot, turn>>
  PROVE  Promised
<1>1. \A j \in Ids : TurnOwns(j)' <=> TurnOwns(j)
  BY DEF TurnOwns, Unsettled
<1> QED
  BY <1>1, QuietStep

LEMMA PreparationStepIsPromised ==
  ASSUME OwnershipInv, OwnershipInv', boot = "up", PreparationStep
  PROVE  Promised
<1>1. CASE \E i \in Ids : SteerWithFilesCommits(i)
  BY <1>1, AcceptSteerIsPromised DEF SteerWithFilesCommits
<1>2. CASE SteerWithFilesEnds
  BY <1>2, NothingMoves DEF SteerWithFilesEnds, rowVars, pumpVars
<1>3. CASE PromotionCommits
  BY <1>3, PromotionCommitsIsPromised
<1>4. CASE PromotionRejected \/ PromotionNeedsUserAction \/ PromotionFails
  BY <1>4, PromotionEndsIsPromised
  DEF PromotionRejected, PromotionNeedsUserAction, PromotionFails
<1> QED
  BY <1>1, <1>2, <1>3, <1>4 DEF PreparationStep, PreparationProgress

-----------------------------------------------------------------------------
(* The user's steps.                                                       *)

LEMMA StartAcceptedIsPromised ==
  ASSUME OwnershipInv, OwnershipInv', FreshIsQueue, boot = "up", NEW i \in Ids,
         NEW src \in {"send", "queue"}, StartAcceptedInput(i, src)
  PROVE  Promised
<1>1. TypeOK /\ UNCHANGED <<held, boot>> /\ st[i] = "unused"
  BY DEF OwnershipInv, StartAcceptedInput, admission, CreateQueueInput, IsFresh
<1>2. mode[i] = "queue" /\ mode' = mode /\ mode' = [mode EXCEPT ![i] = "queue"]
  BY <1>1 DEF FreshIsQueue, StartAcceptedInput, CreateQueueInput, TypeOK
<1>3. turn.pc = "off" /\ \A j \in Ids : ~TurnOwns(j)
  <2>1. pump.lease = "free"
    BY DEF StartAcceptedInput, ClaimsImmediately, CanDrain
  <2>2. turn.pc = "off"
    BY <2>1 DEF OwnershipInv, TurnHoldsLease
  <2> QED
    BY <2>2 DEF TurnOwns
<1>4. asked \/ NoSteerWaits
  <2>1. SUFFICES ASSUME ~asked PROVE NoSteerWaits
    OBVIOUS
  <2>2. ~HasBlockingInput /\ ~HasClaimedInput /\ \A j \in Ids : ~IsNextSteer(j)
    BY <2>1 DEF StartAcceptedInput, ClaimsImmediately, Executable, HasPendingTurnInput
  <2> QED
    BY <2>2, SteerIsNext
<1>5. Phase(i) = "new"
  BY <1>1, PhaseNow DEF PhaseOf
<1>6. CASE CreateQueueInput(i, "claimed") /\ LaunchTurn(i, src)
  <2>1. st' = [st EXCEPT ![i] = "claimed"]
    BY <1>6 DEF CreateQueueInput
  <2> QED
    BY <1>1, <1>2, <1>3, <1>4, <1>5, <1>6, <2>1, LaunchIsStart
<1>7. CASE CreateQueueInput(i, "retry") /\ LaunchFails(i, src)
  <2>1. st' = [st EXCEPT ![i] = "retry"] /\ st'[i] = "retry"
    BY <1>1, <1>7 DEF CreateQueueInput, TypeOK
  <2>2. \A j \in Ids : ~TurnOwns(j)'
    BY <1>7, FailedLaunchOwnsNothing
  <2>3. Phase(i)' = "withheld"
    BY <2>1, <2>2, PhaseNext DEF PhaseOf
  <2> QED
    BY <1>1, <1>2, <1>3, <2>1, <2>2, <2>3, AcceptIsPromised
<1> QED
  BY <1>6, <1>7 DEF StartAcceptedInput

LEMMA QueueAcceptedIsPromised ==
  ASSUME OwnershipInv, OwnershipInv', boot = "up", NEW i \in Ids,
         NEW src \in {"send", "queue"}, QueueAcceptedInput(i, src)
  PROVE  Promised
<1>1. TypeOK /\ UNCHANGED <<held, boot, turn>> /\ st[i] = "unused"
  BY DEF OwnershipInv, QueueAcceptedInput, admission, CreateQueueInput, IsFresh
<1>2. mode' = [mode EXCEPT ![i] = "queue"] /\ st' = [st EXCEPT ![i] = "pending"]
  BY DEF QueueAcceptedInput, CreateQueueInput
<1>3. \A j \in Ids : TurnOwns(j)' <=> TurnOwns(j)
  BY <1>1 DEF TurnOwns, Unsettled
<1>4. ~TurnOwns(i)' /\ st'[i] = "pending" /\ mode'[i] = "queue"
  BY <1>1, <1>2, <1>3, OwnedIsClaimed DEF TypeOK
<1>5. Phase(i)' \in {"waiting", "withheld"}
  BY <1>1, <1>4, PhaseNext DEF PhaseOf
<1> QED
  BY <1>1, <1>2, <1>3, <1>5, AcceptIsPromised

\* One waiting row is claimed for promotion, edited, unblocked, retried or deleted.
LEMMA EditIsPromised ==
  ASSUME OwnershipInv, OwnershipInv', boot = "up", NEW i \in Ids,
         \/ PromotionBegins(i) \/ UpdateQueuedInput(i) \/ ResolveBlockedPendingInput(i)
         \/ RetryPendingQueueInput(i) \/ DeletePendingInput(i)
  PROVE  Promised
<1>1. /\ UNCHANGED <<mode, boot, turn>>
      /\ held' = held \/ held' = held \ {i}
      /\ st[i] \in {"pending", "blocked", "retry"}
  BY DEF PromotionBegins, UpdateQueuedInput, ResolveBlockedPendingInput,
         RetryPendingQueueInput, DeletePendingInput, ClaimInput, RestateInput, ConsumeInput,
         IsWaiting, laneRest, pumpVars, admission
<1>2. \A j \in Ids : TurnOwns(j)' <=> TurnOwns(j)
  BY <1>1 DEF TurnOwns, Unsettled
<1>3. ~TurnOwns(i)
  BY <1>1, OwnedIsClaimed
<1>4. PICK s \in {"claimed", "pending", "gone"} : st' = [st EXCEPT ![i] = s]
  BY DEF PromotionBegins, UpdateQueuedInput, ResolveBlockedPendingInput,
         RetryPendingQueueInput, DeletePendingInput, ClaimInput, RestateInput, ConsumeInput
<1>5. LegalMove(PhaseOf(st[i], mode[i], FALSE, i \in held, boot = "up"),
                PhaseOf(s, mode[i], FALSE, i \in held', boot = "up"))
  <2>1. CASE s = "pending" /\ held' = held
    BY <1>1, <2>1 DEF LegalMove, PhaseOf
  <2>2. CASE s = "claimed"
    BY <1>1, <2>2 DEF LegalMove, PhaseOf
  <2>3. CASE s = "gone"
    BY <1>1, <2>3 DEF LegalMove, PhaseOf
  <2>4. CASE s = "pending" /\ held' = held \ {i}
    BY <1>1, <2>4 DEF LegalMove, PhaseOf
  <2> QED
    BY <1>1, <1>4, <2>1, <2>2, <2>3, <2>4
<1> QED
  BY <1>1, <1>2, <1>3, <1>4, <1>5, IdleRowMoves

LEMMA ResumeQueueIsPromised ==
  ASSUME OwnershipInv, OwnershipInv', boot = "up", NEW i \in Ids, ResumePendingQueue(i)
  PROVE  Promised
<1> DEFINE I == {j \in held : IsWaiting(j) /\ st[j] = "pending"}
<1>1. TypeOK /\ UNCHANGED <<st, mode, boot, turn>>
  BY DEF OwnershipInv, ResumePendingQueue, laneRest, admission, rowVars
<1>2. held' = held \ {j \in held : IsWaiting(j)} /\ I \in SUBSET Ids
  BY <1>1 DEF ResumePendingQueue, TypeOK
<1>3. \A j \in Ids : TurnOwns(j)' <=> TurnOwns(j)
  BY <1>1 DEF TurnOwns, Unsettled
<1>4. ASSUME NEW j \in I PROVE Phase(j) = "withheld" /\ Phase(j)' = "waiting"
  <2>1. /\ j \in Ids /\ j \in held /\ j \notin held' /\ ~TurnOwns(j)
        /\ st[j] = "pending" /\ mode[j] = "queue"
    BY <1>2, <1>4, OwnedIsClaimed DEF IsWaiting
  <2> QED
    BY <1>1, <1>3, <2>1, PhaseNow, PhaseNext DEF PhaseOf
<1>5. ASSUME NEW j \in Ids \ I PROVE Phase(j)' = Phase(j)
  <2>1. CASE j \in held' <=> j \in held
    BY <1>1, <1>3, <2>1, MessageSeesNothing
  <2>2. CASE IsWaiting(j) /\ st[j] # "pending"
    <3>1. st[j] \in {"blocked", "retry"}
      BY <2>2 DEF IsWaiting
    <3> QED
      BY <1>1, <1>3, <3>1, PhaseNow, PhaseNext DEF PhaseOf
  <2> QED
    BY <1>2, <1>5, <2>1, <2>2
<1> HIDE DEF I
<1>6. Phases' = [j \in Ids |-> IF j \in I THEN "waiting" ELSE Phases[j]]
  BY <1>2, <1>4, <1>5 DEF Phases
<1>7. Delivery!Release(I)
  <2>1. \A j \in I : Phases[j] = "withheld"
    BY <1>2, <1>4 DEF Phases
  <2> QED
    BY <1>1, <1>6, <2>1 DEF Delivery!Release, Phases
<1> QED
  BY <1>2, <1>7 DEF Promised, Delivery!Next

LEMMA UserStepIsPromised ==
  ASSUME OwnershipInv, OwnershipInv', FreshIsQueue, boot = "up", UserStep
  PROVE  Promised
<1>1. CASE \E i \in Ids, src \in {"send", "queue"} :
             StartAcceptedInput(i, src) \/ QueueAcceptedInput(i, src)
  BY <1>1, StartAcceptedIsPromised, QueueAcceptedIsPromised
<1>2. CASE \E i \in Ids : SteerActiveTurn(i)
  BY <1>2, AcceptSteerIsPromised DEF SteerActiveTurn
<1>3. CASE \E i \in Ids : \/ PromotionBegins(i) \/ UpdateQueuedInput(i)
                          \/ DeletePendingInput(i) \/ ResolveBlockedPendingInput(i)
                          \/ RetryPendingQueueInput(i)
  BY <1>3, EditIsPromised
<1>4. CASE \E i \in Ids : ResumePendingQueue(i)
  BY <1>4, ResumeQueueIsPromised
<1>5. CASE \E i \in Ids : \E to \in 1..Len(queue) : MoveQueuedInput(i, to)
  BY <1>5, NothingMoves DEF MoveQueuedInput, MoveQueueInput, laneRest, admission
<1>6. CASE SteerWithFilesBegins \/ (RespondBegins /\ UNCHANGED admission)
  BY <1>6, NothingMoves
  DEF SteerWithFilesBegins, RespondBegins, resRest, rowVars, pumpVars, admission
<1>7. CASE StopPaused /\ UNCHANGED admission
  BY <1>7, NothingMoves DEF StopPaused, resRest, rowVars, admission
<1>8. CASE StopRunning /\ UNCHANGED admission
  <2>1. UNCHANGED <<st, mode, held, boot>>
    BY <1>8 DEF StopRunning, rowVars, pumpVars, admission
  <2>2. turn'.pc = turn.pc /\ turn'.input = turn.input /\ turn'.disp = turn.disp
    BY <1>8 DEF StopRunning, OwnershipInv, TypeOK, Turns
  <2>3. \A j \in Ids : TurnOwns(j)' <=> TurnOwns(j)
    BY <2>2 DEF TurnOwns, Unsettled
  <2> QED
    BY <2>1, <2>3, QuietStep
<1> QED
  BY <1>1, <1>2, <1>3, <1>4, <1>5, <1>6, <1>7, <1>8 DEF UserStep

-----------------------------------------------------------------------------
(* A crash, and the theorem.                                               *)

LEMMA RestartIsPromised ==
  ASSUME OwnershipInv, OwnershipInv', Restart
  PROVE  Promised
<1>1. TypeOK /\ TypeOK' /\ mode' = mode
  BY DEF OwnershipInv, Restart, RecoverInputsAfterRestart, rowVars
<1>2. \A j \in Ids : ~TurnOwns(j)'
  BY DEF Restart, NoTurn, TurnOwns
<1>3. ASSUME NEW j \in Ids
      PROVE  \/ Phase(j) \in {"new", "over"} /\ Phase(j)' = Phase(j)
             \/ Phase(j) \in {"waiting", "running", "withheld"}
                  /\ Phase(j)' \in {"withheld", "over"}
  <2>1. CASE RecoveryThrows
    <3>1. boot' # "up" /\ st'[j] = st[j]
      BY <2>1 DEF Restart, rowVars
    <3> QED
      BY <1>2, <3>1, PhaseNow, PhaseNext, OwnedIsClaimed DEF PhaseOf
  <2>2. CASE ~RecoveryThrows
    <3>1. /\ st'[j] = IF ReleasedByRestart(j) THEN "pending"
                      ELSE IF ConsumedByRestart(j) THEN "gone" ELSE st[j]
          /\ j \in held' <=> ReleasedByRestart(j) \/ (IsWaiting(j) /\ st[j] # "retry")
      BY <2>2 DEF Restart, RecoverInputsAfterRestart
    <3>2. st[j] \in RowStates /\ mode[j] \in {"queue", "steer"}
      BY <1>1 DEF TypeOK
    <3>3. CASE st[j] \in {"unused", "gone"}
      <4>1. st'[j] = st[j]
        BY <3>1, <3>3 DEF ReleasedByRestart, ConsumedByRestart, Live
      <4> QED
        BY <3>3, <4>1, PhaseNow, PhaseNext DEF PhaseOf
    <3>4. CASE st[j] \in Live
      <4>1. st[j] \notin {"unused", "gone"}
        BY <3>4 DEF Live
      <4>2. Phase(j) \in {"waiting", "running", "withheld"}
        BY <4>1, PhaseNow DEF PhaseOf
      <4>3. \/ st'[j] \in {"gone", "blocked", "retry"}
            \/ st'[j] = "pending" /\ mode[j] = "queue" /\ j \in held'
        BY <3>1, <3>2, <3>4 DEF ReleasedByRestart, ConsumedByRestart, IsWaiting, Live
      <4>4. Phase(j)' \in {"withheld", "over"}
        BY <1>1, <1>2, <4>3, PhaseNext DEF PhaseOf
      <4> QED
        BY <4>2, <4>4
    <3> QED
      BY <3>2, <3>3, <3>4 DEF RowStates, Live
  <2> QED
    BY <2>1, <2>2
<1>4. /\ \A j \in Ids : Phases[j] = Phase(j) /\ Phases'[j] = Phase(j)'
      /\ Phases' = [j \in Ids |-> Phases'[j]]
  BY DEF Phases
<1>5. Phases' \in [Ids -> {"new", "withheld", "over"}]
  <2>1. \A j \in Ids : Phases'[j] \in {"new", "withheld", "over"}
    <3>1. \A j \in Ids : Phase(j)' \in {"new", "withheld", "over"}
      BY <1>3
    <3> QED
      BY <1>4, <3>1
  <2> QED
    BY <1>4, <2>1
<1>6. Delivery!Crash
  <2>1. \A j \in Ids :
          \/ Phases[j] \in {"new", "over"} /\ Phases'[j] = Phases[j]
          \/ Phases[j] \in {"waiting", "running"}
               /\ Phases'[j] \in {"withheld", "over"}
          \/ Phases[j] = "withheld" /\ Phases'[j] \in {"withheld", "over"}
    BY <1>3, <1>4
  <2> QED
    BY <1>1, <1>5, <2>1 DEF Delivery!Crash, Phases
<1> QED
  BY <1>6 DEF Promised, Delivery!Next

\* Rows change their kind only while they live.
LEMMA FreshStaysQueue ==
  ASSUME OwnershipInv, FreshIsQueue, [Next]_vars
  PROVE  FreshIsQueue'
<1>1. TypeOK
  BY DEF OwnershipInv
<1>2. CASE Restart
  BY <1>1, <1>2
  DEF Restart, RecoverInputsAfterRestart, rowVars, FreshIsQueue, TypeOK, Live,
      ReleasedByRestart, ConsumedByRestart
<1>3. CASE RowStep
  <2>1. CASE UNCHANGED rowVars
    BY <2>1 DEF rowVars, FreshIsQueue
  <2>2. ASSUME NEW i \in Ids, WritesRow(i) PROVE FreshIsQueue'
    <3>1. \A j \in Ids : j # i => st'[j] = st[j] /\ mode'[j] = mode[j]
      BY <1>1, <2>2
      DEF WritesRow, CreateQueueInput, CreateSteerInput, RestateInput, ConsumeInput,
          ConvertQueueInputToSteer, MoveQueueInput, TypeOK
    <3>2. st'[i] = "unused" => mode'[i] = "queue"
      BY <1>1, <2>2
      DEF WritesRow, CreateQueueInput, CreateSteerInput, RestateInput, ConsumeInput,
          ConvertQueueInputToSteer, MoveQueueInput, TypeOK, FreshIsQueue, Live
    <3> QED
      BY <3>1, <3>2 DEF FreshIsQueue
  <2> QED
    BY <1>3, <2>1, <2>2 DEF RowStep
<1> QED
  BY <1>2, <1>3, StepWritesRows

LEMMA StepIsPromised ==
  ASSUME OwnershipInv, OwnershipInv', FreshIsQueue, [Next]_vars
  PROVE  Promised
<1>1. CASE Running /\ PumpStep
  BY <1>1, PumpStepIsPromised DEF Running
<1>2. CASE Running /\ TurnStep
  BY <1>2, TurnStepIsPromised DEF Running
<1>3. CASE ResumeStep \/ RespondStep
  BY <1>3, ResponsesArePromised
<1>4. CASE Running /\ PreparationStep
  BY <1>4, PreparationStepIsPromised DEF Running
<1>5. CASE Running /\ UserStep
  BY <1>5, UserStepIsPromised DEF Running
<1>6. CASE SettleRolledBack /\ UNCHANGED admission
  BY <1>6, SettleIsPromised
<1>7. CASE Restart
  BY <1>7, RestartIsPromised
<1>8. CASE UNCHANGED vars
  BY <1>8, NothingMoves DEF vars, rowVars, pumpVars
<1> QED
  BY <1>1, <1>2, <1>3, <1>4, <1>5, <1>6, <1>7, <1>8 DEF Next

LEMMA FreshAlways == Spec => [](OwnershipInv /\ FreshIsQueue)
<1>1. Init => FreshIsQueue
  BY DEF Init, RowsInit, FreshIsQueue
<1>2. FreshIsQueue /\ OwnershipInv /\ [Next]_vars => FreshIsQueue'
  BY FreshStaysQueue
<1> QED
  BY <1>1, <1>2, OwnershipAlways, PTL DEF Spec

\* The waiting lane keeps what MessageDelivery promises for each message, whatever the number
\* of rows: one message runs at a time, steer messages go first, a message that has run is
\* over or withheld, and what a failure or a crash withheld waits for the user.
THEOREM LaneKeepsPromise == Spec => DeliveryPromise
<1>1. Init => Delivery!Init
  <2> SUFFICES ASSUME Init PROVE Delivery!Init
    OBVIOUS
  <2>1. \A i \in Ids : st[i] = "unused" /\ ~TurnOwns(i) /\ ~Withheld(i)
    BY DEF Init, RowsInit, PumpInit, NoTurn, TurnOwns, Withheld, Live
  <2>2. \A i \in Ids : Phase(i) = "new"
    BY <2>1 DEF Phase
  <2>3. Phases = [i \in Ids |-> "new"] /\ mode = [i \in Ids |-> "queue"]
    BY <2>2 DEF Phases, Init, RowsInit
  <2> QED
    BY <2>3 DEF Delivery!Init
<1>2. /\ OwnershipInv /\ FreshIsQueue /\ (OwnershipInv /\ FreshIsQueue)' /\ [Next]_vars
      => [Delivery!Next]_(Delivery!vars)
  BY StepIsPromised DEF Promised, Phases, Delivery!vars
<1> QED
  BY <1>1, <1>2, FreshAlways, PTL DEF Spec, DeliveryPromise, Delivery!Spec


-----------------------------------------------------------------------------
(* The order of the queue in the table.                                    *)

\* The rows of R that precede row i.
Ahead(R, q, i) == {j \in R : Precedes(q, j, i)}

\* Rows are compared by their order and then by their age.
LEMMA PrecedesIsOrder ==
  ASSUME NEW q \in [Ids -> Nat]
  PROVE  /\ \A i \in Ids : ~Precedes(q, i, i)
         /\ \A i, j, k \in Ids : Precedes(q, i, j) /\ Precedes(q, j, k) => Precedes(q, i, k)
         /\ \A i, j \in Ids : i = j \/ Precedes(q, i, j) \/ Precedes(q, j, i)
<1>1. \A i \in Ids : q[i] \in Nat /\ i \in Nat
  BY IdsAssumption
<1> QED
  BY <1>1 DEF Precedes

\* Every place of a finite set of rows belongs to one row.
LEMMA RanksFill ==
  ASSUME NEW R \in SUBSET Ids, IsFiniteSet(R), NEW q \in [Ids -> Nat]
  PROVE  /\ Cardinality(R) \in Nat
         /\ \A i \in R : Cardinality(Ahead(R, q, i)) \in 0..(Cardinality(R) - 1)
         /\ \A i, j \in R :
              Precedes(q, i, j) => Cardinality(Ahead(R, q, i)) < Cardinality(Ahead(R, q, j))
         /\ \A i, j \in R :
              Cardinality(Ahead(R, q, i)) = Cardinality(Ahead(R, q, j)) => i = j
         /\ \A n \in 1..Cardinality(R) : \E i \in R : Cardinality(Ahead(R, q, i)) = n - 1
<1> DEFINE N == Cardinality(R)
           A(i) == Ahead(R, q, i)
<1>0. N \in Nat
  BY FS_CardinalityType
<1>1. \A i \in R : i \notin A(i) /\ A(i) \subseteq R
  BY PrecedesIsOrder DEF Ahead
<1>2. \A i \in R : IsFiniteSet(A(i)) /\ Cardinality(A(i)) \in Nat
  BY <1>1, FS_Subset, FS_CardinalityType
<1>3. ASSUME NEW i \in R PROVE Cardinality(A(i)) \in 0..(N - 1)
  <2>1. A(i) \cup {i} \subseteq R
    BY <1>1, <1>3
  <2>2. Cardinality(A(i) \cup {i}) = Cardinality(A(i)) + 1
    BY <1>1, <1>2, <1>3, FS_AddElement
  <2>3. Cardinality(A(i) \cup {i}) <= N
    BY <2>1, FS_Subset
  <2> QED
    BY <1>0, <1>2, <2>2, <2>3
<1>4. ASSUME NEW i \in R, NEW j \in R, Precedes(q, i, j)
      PROVE  Cardinality(A(i)) < Cardinality(A(j))
  <2>1. A(i) \cup {i} \subseteq A(j)
    BY <1>4, PrecedesIsOrder DEF Ahead
  <2>2. Cardinality(A(i) \cup {i}) = Cardinality(A(i)) + 1
    BY <1>1, <1>2, <1>4, FS_AddElement
  <2>3. Cardinality(A(i) \cup {i}) <= Cardinality(A(j))
    BY <1>2, <2>1, FS_Subset
  <2> QED
    BY <1>2, <2>2, <2>3
<1> HIDE DEF A
<1>5. ASSUME NEW i \in R, NEW j \in R, Cardinality(A(i)) = Cardinality(A(j)) PROVE i = j
  <2>1. i = j \/ Precedes(q, i, j) \/ Precedes(q, j, i)
    BY PrecedesIsOrder
  <2> QED
    BY <1>2, <1>4, <1>5, <2>1
<1>6. \A n \in 1..N : \E i \in R : Cardinality(A(i)) = n - 1
  <2> DEFINE rank == [i \in R |-> Cardinality(A(i))]
             T == 0..(N - 1)
  <2>1. rank \in Injection(R, T)
    BY <1>3, <1>5 DEF Injection, IsInjective
  <2>2. IsFiniteSet(T) /\ Cardinality(T) = N
    <3>1. 0 \in Int /\ N - 1 \in Int
      BY <1>0
    <3>2. IsFiniteSet(T) /\ Cardinality(T) = IF 0 > N - 1 THEN 0 ELSE (N - 1) - 0 + 1
      BY <3>1, FS_Interval
    <3> QED
      BY <1>0, <3>2
  <2>3. rank \in Surjection(R, T)
    BY <2>1, <2>2, FS_Injection
  <2>4. \A n \in T : \E i \in R : rank[i] = n
    BY <2>3 DEF Surjection
  <2>5. \A n \in 1..N : n - 1 \in T
    BY <1>0
  <2> QED
    BY <2>4, <2>5
<1> QED
  BY <1>0, <1>3, <1>4, <1>5, <1>6 DEF A

\* f lists the rows R by their order.
Sorts(f, R, q) ==
  IsOrder(f, R) /\ \A m, n \in DOMAIN f : m < n => Precedes(q, f[m], f[n])

\* The sorted rows.
LEMMA InOrderSorts ==
  ASSUME NEW R \in SUBSET Ids, IsFiniteSet(R), NEW q \in [Ids -> Nat]
  PROVE  /\ Cardinality(R) \in Nat /\ DOMAIN InOrder(R, q) = 1..Cardinality(R)
         /\ Len(InOrder(R, q)) = Cardinality(R)
         /\ \A n \in 1..Cardinality(R) :
              InOrder(R, q)[n] \in R /\ Cardinality(Ahead(R, q, InOrder(R, q)[n])) = n - 1
         /\ Sorts(InOrder(R, q), R, q)
<1> DEFINE N == Cardinality(R)
           A(i) == Cardinality(Ahead(R, q, i))
           f == InOrder(R, q)
<1>1. /\ N \in Nat
      /\ \A i \in R : A(i) \in 0..(N - 1)
      /\ \A i, j \in R : Precedes(q, i, j) => A(i) < A(j)
      /\ \A i, j \in R : A(i) = A(j) => i = j
      /\ \A n \in 1..N : \E i \in R : A(i) = n - 1
  BY RanksFill
<1>2. f = [n \in 1..N |-> CHOOSE i \in R : A(i) = n - 1]
  BY DEF InOrder, Ahead
<1> HIDE DEF A, f
<1>3. \A n \in 1..N : f[n] \in R /\ A(f[n]) = n - 1
  BY <1>1, <1>2
<1>4. f \in Seq(Ids) /\ DOMAIN f = 1..N /\ Len(f) = N
  <2>1. \A n \in 1..N : f[n] \in Ids
    BY <1>3
  <2>2. f \in [1..N -> Ids]
    BY <1>2, <2>1
  <2> QED
    BY <1>1, <2>2, SeqDef, LenProperties, SMTT(60)
<1>5. \A m, n \in 1..N : f[m] = f[n] => m = n
  BY <1>3
<1>6. ASSUME NEW i \in R PROVE \E n \in 1..N : f[n] = i
  <2>1. A(i) + 1 \in 1..N /\ (A(i) + 1) - 1 = A(i)
    BY <1>1
  <2>2. A(f[A(i) + 1]) = A(i) /\ f[A(i) + 1] \in R
    BY <1>3, <2>1
  <2> QED
    BY <1>1, <2>1, <2>2
<1>7. IsOrder(f, R)
  <2>1. \A i \in Ids : (\E n \in DOMAIN f : f[n] = i) <=> i \in R
    BY <1>3, <1>4, <1>6
  <2>2. \A m, n \in DOMAIN f : f[m] = f[n] => m = n
    BY <1>4, <1>5
  <2> QED
    BY <1>4, <2>1, <2>2 DEF IsOrder
<1>8. ASSUME NEW m \in 1..N, NEW n \in 1..N, m < n PROVE Precedes(q, f[m], f[n])
  <2>1. f[m] \in R /\ f[n] \in R /\ A(f[m]) = m - 1 /\ A(f[n]) = n - 1
    BY <1>3
  <2>2. f[m] = f[n] \/ Precedes(q, f[m], f[n]) \/ Precedes(q, f[n], f[m])
    BY <2>1, PrecedesIsOrder
  <2> QED
    BY <1>1, <1>8, <2>1, <2>2
<1> QED
  BY <1>1, <1>3, <1>4, <1>7, <1>8 DEF Sorts, A, f

\* What a sequence lists up to place k.
Upto(f, k) == {f[n] : n \in 1..k}

\* What an order lists up to one of its places is as large as the place.
LEMMA OrderCounts ==
  ASSUME NEW R, NEW f, IsOrder(f, R), NEW k \in 0..Len(f)
  PROVE  IsFiniteSet(Upto(f, k)) /\ Cardinality(Upto(f, k)) = k
<1> DEFINE T == Upto(f, k)
           b == [n \in 1..k |-> f[n]]
<1>1. Len(f) \in Nat /\ DOMAIN f = 1..Len(f)
  BY DEF IsOrder
<1>2. k \in Nat /\ 1..k \subseteq DOMAIN f
  BY <1>1
<1>3. \A m, n \in 1..k : f[m] = f[n] => m = n
  BY <1>2 DEF IsOrder
<1>4. b \in Bijection(1..k, T)
  BY <1>3 DEF Bijection, Injection, Surjection, IsInjective, Upto
<1>5. ExistsBijection(1..k, T)
  BY <1>4 DEF ExistsBijection
<1>6. IsFiniteSet(1..k)
  BY <1>2, FS_Interval
<1> QED
  BY <1>2, <1>5, <1>6, FS_CountingElements, FS_Bijection

\* There is one way to sort.
LEMMA SortedIsInOrder ==
  ASSUME NEW R \in SUBSET Ids, NEW q \in [Ids -> Nat], NEW f, Sorts(f, R, q)
  PROVE  IsFiniteSet(R) /\ Cardinality(R) = Len(f) /\ f = InOrder(R, q)
<1>1. /\ f \in Seq(Ids) /\ Len(f) \in Nat /\ DOMAIN f = 1..Len(f)
      /\ \A n \in DOMAIN f : f[n] \in R
      /\ \A i \in R : \E n \in DOMAIN f : f[n] = i
  BY DEF Sorts, IsOrder
<1>2. R = Upto(f, Len(f))
  BY <1>1 DEF Upto
<1>3. IsFiniteSet(R) /\ Cardinality(R) = Len(f)
  <2>1. IsOrder(f, R) /\ Len(f) \in 0..Len(f)
    BY <1>1 DEF Sorts
  <2> QED
    BY <1>2, <2>1, OrderCounts
<1>4. ASSUME NEW n \in 1..Len(f) PROVE f[n] = InOrder(R, q)[n]
  <2>1. Ahead(R, q, f[n]) = Upto(f, n - 1)
    <3>1. ASSUME NEW k \in 1..(n - 1) PROVE f[k] \in Ahead(R, q, f[n])
      <4>1. k \in DOMAIN f /\ k < n
        BY <1>1
      <4> QED
        BY <1>1, <4>1 DEF Sorts, Ahead
    <3>2. ASSUME NEW i \in Ahead(R, q, f[n]) PROVE \E k \in 1..(n - 1) : f[k] = i
      <4>1. PICK k \in 1..Len(f) : f[k] = i
        BY <1>1 DEF Ahead
      <4>2. Precedes(q, f[k], f[n])
        BY <4>1 DEF Ahead
      <4>3. ~(n < k) /\ n # k
        <5>1. n < k => Precedes(q, f[n], f[k])
          BY <1>1 DEF Sorts
        <5> QED
          BY <1>1, <4>2, <5>1, PrecedesIsOrder
      <4>4. k \in 1..(n - 1)
        BY <1>1, <4>3
      <4> QED
        BY <4>1, <4>4
    <3> QED
      BY <3>1, <3>2 DEF Upto
  <2>2. n - 1 \in 0..Len(f)
    BY <1>1
  <2>3. Cardinality(Ahead(R, q, f[n])) = n - 1
    <3>1. IsOrder(f, R)
      BY DEF Sorts
    <3> QED
      BY <2>1, <2>2, <3>1, OrderCounts
  <2>4. InOrder(R, q)[n] \in R /\ Cardinality(Ahead(R, q, InOrder(R, q)[n])) = n - 1
    BY <1>3, InOrderSorts
  <2> QED
    <3>1. f[n] \in R /\ InOrder(R, q)[n] \in R
      BY <1>1, <2>4
    <3>2. Cardinality(Ahead(R, q, f[n])) = Cardinality(Ahead(R, q, InOrder(R, q)[n]))
      BY <2>3, <2>4
    <3> QED
      BY <1>3, <3>1, <3>2, RanksFill
<1>5. InOrder(R, q) \in Seq(Ids) /\ Len(InOrder(R, q)) = Len(f)
  BY <1>3, InOrderSorts DEF Sorts, IsOrder
<1> QED
  BY <1>1, <1>3, <1>4, <1>5, SeqEqual

-----------------------------------------------------------------------------
(* The waiting rows among the queue rows, and renumbering.                 *)

\* The places up to n of the rows of f in W.
Counted(f, W, n) == {k \in 1..n : f[k] \in W}

\* Counting the rows in W up to a place of the whole order gives the place in the order of W.
LEMMA SubsetRank ==
  ASSUME NEW R \in SUBSET Ids, NEW q \in [Ids -> Nat], NEW f, Sorts(f, R, q),
         NEW W \in SUBSET R, NEW n \in 1..Len(f), f[n] \in W
  PROVE  /\ Cardinality(Counted(f, W, n)) \in 1..Cardinality(W)
         /\ InOrder(W, q)[Cardinality(Counted(f, W, n))] = f[n]
<1>1. /\ f \in Seq(Ids) /\ Len(f) \in Nat /\ DOMAIN f = 1..Len(f)
      /\ \A k \in DOMAIN f : f[k] \in R
      /\ \A i \in R : \E k \in DOMAIN f : f[k] = i
      /\ \A m, k \in DOMAIN f : f[m] = f[k] => m = k
  BY DEF Sorts, IsOrder
<1>2. IsFiniteSet(R)
  BY SortedIsInOrder
<1>3. IsFiniteSet(W) /\ Cardinality(W) \in Nat
  BY <1>2, FS_Subset, FS_CardinalityType
<1>4. /\ Cardinality(Counted(f, W, n)) \in 1..Cardinality(W)
      /\ InOrder(W, q)[Cardinality(Counted(f, W, n))] = f[n]
  <2> DEFINE before == Counted(f, W, n - 1)
             A == Ahead(W, q, f[n])
             c == Cardinality(before)
  <2>1. IsFiniteSet(before) /\ c \in Nat
    <3>1. before \subseteq 1..(n - 1) /\ IsFiniteSet(1..(n - 1))
      <4>1. 1 \in Int /\ n - 1 \in Int
        BY <1>1
      <4> QED
        BY <4>1, FS_Interval DEF Counted
    <3> QED
      BY <3>1, FS_Subset, FS_CardinalityType
  <2>2. Counted(f, W, n) = before \cup {n} /\ n \notin before
    BY <1>1 DEF Counted
  <2>3. Cardinality(Counted(f, W, n)) = c + 1
    BY <2>1, <2>2, FS_AddElement
  <2>4. \A k \in before : f[k] \in A
    <3>1. ASSUME NEW k \in before PROVE f[k] \in A
      <4>1. k \in DOMAIN f /\ n \in DOMAIN f /\ k < n /\ f[k] \in W
        BY <1>1, <3>1 DEF Counted
      <4> QED
        BY <4>1 DEF Sorts, Ahead
    <3> QED
      BY <3>1
  <2>5. \A j \in A : \E k \in before : f[k] = j
    <3>1. ASSUME NEW j \in A PROVE \E k \in before : f[k] = j
      <4>1. j \in W /\ Precedes(q, j, f[n])
        BY DEF Ahead
      <4>2. PICK k \in 1..Len(f) : f[k] = j
        BY <1>1, <4>1
      <4>3. ~(n < k) /\ n # k
        <5>1. n < k => Precedes(q, f[n], f[k])
          BY <1>1 DEF Sorts
        <5>2. f[k] \in Ids /\ f[n] \in Ids
          BY <1>1
        <5> QED
          BY <4>1, <4>2, <5>1, <5>2, PrecedesIsOrder
      <4>4. k \in before
        BY <1>1, <4>1, <4>2, <4>3 DEF Counted
      <4> QED
        BY <4>2, <4>4
    <3> QED
      BY <3>1
  <2>6. \A j, k \in before : f[j] = f[k] => j = k
    BY <1>1, SMTT(60) DEF Counted
  <2> HIDE DEF before, A
  <2>7. Cardinality(A) = c
    <3> DEFINE b == [k \in before |-> f[k]]
    <3>1. b \in Bijection(before, A)
      BY <2>4, <2>5, <2>6 DEF Bijection, Injection, Surjection, IsInjective
    <3>2. ExistsBijection(before, A)
      BY <3>1 DEF ExistsBijection
    <3> QED
      BY <2>1, <3>2, FS_Bijection
  <2>8. c \in 0..(Cardinality(W) - 1)
    BY <1>3, <2>7, RanksFill DEF A
  <2>9. c + 1 \in 1..Cardinality(W) /\ (c + 1) - 1 = c
    BY <1>3, <2>8
  <2>10. InOrder(W, q)[c + 1] \in W /\ Cardinality(Ahead(W, q, InOrder(W, q)[c + 1])) = c
    BY <1>3, <2>9, InOrderSorts
  <2>11. InOrder(W, q)[c + 1] = f[n]
    BY <1>3, <2>7, <2>10, RanksFill DEF A
  <2> QED
    BY <2>3, <2>9, <2>11
<1> QED
  BY <1>4

\* Numbering the rows of an order by their places leaves that order.
Numbered(f, q) ==
  [i \in Ids |-> IF \E n \in DOMAIN f : f[n] = i
                 THEN CHOOSE n \in DOMAIN f : f[n] = i
                 ELSE q[i]]

\* Renumbering: the new numbers are the slots, they sort as asked, and no other row is touched.
LEMMA NumberedSorts ==
  ASSUME NEW R \in SUBSET Ids, NEW q \in [Ids -> Nat], NEW f, IsOrder(f, R)
  PROVE  /\ Numbered(f, q) \in [Ids -> Nat]
         /\ Sorts(f, R, Numbered(f, q))
         /\ {Numbered(f, q)[i] : i \in R} = 1..Cardinality(R)
         /\ \A i \in Ids \ R : Numbered(f, q)[i] = q[i]
         /\ InOrder(R, Numbered(f, q)) = f
<1> DEFINE z == Numbered(f, q)
<1>1. /\ f \in Seq(Ids) /\ Len(f) \in Nat /\ DOMAIN f = 1..Len(f)
      /\ \A n \in DOMAIN f : f[n] \in R
      /\ \A i \in R : \E n \in DOMAIN f : f[n] = i
      /\ \A m, n \in DOMAIN f : f[m] = f[n] => m = n
  BY DEF IsOrder
<1>2. \A n \in DOMAIN f : z[f[n]] = n
  BY <1>1 DEF Numbered
<1>3. \A i \in Ids \ R : z[i] = q[i]
  BY <1>1 DEF Numbered
<1>4. z \in [Ids -> Nat]
  <2>1. \A i \in Ids : z[i] \in Nat
    BY <1>1, <1>2, <1>3
  <2> QED
    BY <2>1 DEF Numbered
<1> HIDE DEF z
<1>5. Sorts(f, R, z)
  BY <1>1, <1>2 DEF Sorts, Precedes
<1>6. f = InOrder(R, z) /\ Cardinality(R) = Len(f)
  BY <1>4, <1>5, SortedIsInOrder
<1>7. {z[i] : i \in R} = 1..Len(f)
  BY <1>1, <1>2
<1> QED
  BY <1>3, <1>4, <1>5, <1>6, <1>7 DEF z

\* Only the numbers of the rows that are listed count.
LEMMA SameNumbersSort ==
  ASSUME NEW R \in SUBSET Ids, NEW q, NEW z, NEW f, Sorts(f, R, q),
         \A i \in R : z[i] = q[i]
  PROVE  Sorts(f, R, z)
<1>1. \A n \in DOMAIN f : f[n] \in R
  BY DEF Sorts, IsOrder
<1> QED
  BY <1>1 DEF Sorts, Precedes

\* A row with the greatest number goes to the end.
LEMMA SortedAppends ==
  ASSUME NEW R \in SUBSET Ids, NEW q \in [Ids -> Nat], NEW f, Sorts(f, R, q),
         NEW i \in Ids, i \notin R, \A j \in R : q[j] < q[i]
  PROVE  Sorts(Append(f, i), R \cup {i}, q)
<1> DEFINE a == Append(f, i)
<1>1. /\ f \in Seq(Ids) /\ Len(f) \in Nat /\ DOMAIN f = 1..Len(f)
      /\ \A n \in DOMAIN f : f[n] \in R
  BY DEF Sorts, IsOrder
<1>2. IsOrder(a, R \cup {i})
  BY OrderAppends DEF Sorts
<1>3. /\ DOMAIN a = 1..(Len(f) + 1) /\ a[Len(f) + 1] = i
      /\ \A n \in 1..Len(f) : a[n] = f[n]
  BY <1>1, AppendProperties
<1> HIDE DEF a
<1>4. ASSUME NEW m \in DOMAIN a, NEW n \in DOMAIN a, m < n PROVE Precedes(q, a[m], a[n])
  <2>1. m \in 1..Len(f) /\ a[m] = f[m] /\ f[m] \in R
    BY <1>1, <1>3, <1>4
  <2>2. CASE n = Len(f) + 1
    BY <1>3, <2>1, <2>2 DEF Precedes
  <2>3. CASE n \in 1..Len(f)
    <3>1. a[n] = f[n] /\ Precedes(q, f[m], f[n])
      BY <1>1, <1>3, <1>4, <2>1, <2>3 DEF Sorts
    <3> QED
      BY <2>1, <3>1
  <2> QED
    BY <1>1, <1>3, <2>2, <2>3
<1> QED
  BY <1>2, <1>4 DEF Sorts, a

\* A row leaves, the others keep their order.
LEMMA SortedRemoves ==
  ASSUME NEW R \in SUBSET Ids, NEW q \in [Ids -> Nat], NEW f, Sorts(f, R, q), NEW i \in R
  PROVE  Sorts(RemoveFirst(f, i), R \ {i}, q)
<1> DEFINE r == RemoveFirst(f, i)
<1>1. f \in Seq(Ids) /\ Len(f) \in Nat /\ DOMAIN f = 1..Len(f) /\ IsOrder(f, R)
  BY DEF Sorts, IsOrder
<1>2. PICK k \in 1..Len(f) : f[k] = i
  BY <1>1 DEF IsOrder
<1>3. r = RemoveAt(f, k)
  BY <1>1, <1>2, RemovedFirst
<1>4. IsOrder(r, R \ {i})
  BY <1>1, OrderRemoves
<1>5. /\ DOMAIN r = 1..(Len(f) - 1)
      /\ \A n \in 1..(Len(f) - 1) : r[n] = IF n < k THEN f[n] ELSE f[n + 1]
  BY <1>1, <1>3, RemovedAt
<1> HIDE DEF r
<1>6. ASSUME NEW m \in DOMAIN r, NEW n \in DOMAIN r, m < n PROVE Precedes(q, r[m], r[n])
  <2>1. /\ m \in 1..(Len(f) - 1) /\ n \in 1..(Len(f) - 1) /\ m < n /\ k \in Nat
        /\ m \in Nat /\ n \in Nat /\ m + 1 <= Len(f) /\ n + 1 <= Len(f)
    BY <1>1, <1>5, <1>6
  <2>2. PICK x \in 1..Len(f) : r[m] = f[x] /\ (x = IF m < k THEN m ELSE m + 1)
    <3>1. m \in 1..Len(f) /\ m + 1 \in 1..Len(f)
      BY <1>1, <2>1
    <3>2. r[m] = IF m < k THEN f[m] ELSE f[m + 1]
      BY <1>5, <2>1
    <3> QED
      BY <3>1, <3>2
  <2>3. PICK y \in 1..Len(f) : r[n] = f[y] /\ (y = IF n < k THEN n ELSE n + 1)
    <3>1. n \in 1..Len(f) /\ n + 1 \in 1..Len(f)
      BY <1>1, <2>1, SMTT(60)
    <3>2. r[n] = IF n < k THEN f[n] ELSE f[n + 1]
      BY <1>5, <2>1
    <3> QED
      BY <3>1, <3>2
  <2>4. x < y
    BY <2>1, <2>2, <2>3
  <2> QED
    BY <1>1, <2>2, <2>3, <2>4 DEF Sorts
<1> QED
  BY <1>4, <1>6 DEF Sorts, r

\* An element in front of place k.
LEMMA InsertedAt ==
  ASSUME NEW S, NEW q \in Seq(S), NEW k \in 1..(Len(q) + 1), NEW e \in S
  PROVE  /\ InsertAt(q, k, e) \in Seq(S)
         /\ DOMAIN InsertAt(q, k, e) = 1..(Len(q) + 1)
         /\ \A n \in 1..(Len(q) + 1) :
              InsertAt(q, k, e)[n] = IF n < k THEN q[n] ELSE IF n = k THEN e ELSE q[n - 1]
<1> DEFINE front == SubSeq(q, 1, k - 1)
           mid   == <<e>>
           back  == SubSeq(q, k, Len(q))
           whole == InsertAt(q, k, e)
<1>1. Len(q) \in Nat /\ k \in Nat /\ \A n \in 1..Len(q) : q[n] \in S
  OBVIOUS
<1>2. /\ front \in Seq(S) /\ Len(front) = k - 1
      /\ \A n \in 1..(k - 1) : front[n] = q[n]
  BY <1>1, SubSeqProperties
<1>3. /\ back \in Seq(S) /\ Len(back) = Len(q) - k + 1
      /\ \A n \in 1..(Len(q) - k + 1) : back[n] = q[k + n - 1]
  BY <1>1, SubSeqProperties
<1>4. mid \in Seq(S) /\ Len(mid) = 1 /\ mid[1] = e
  OBVIOUS
<1>5. whole = (front \o mid) \o back
  BY DEF InsertAt
<1> HIDE DEF front, mid, back, whole
<1> DEFINE some == front \o mid
<1>6. /\ some \in Seq(S) /\ Len(some) = k
      /\ \A n \in 1..k : some[n] = IF n <= k - 1 THEN front[n] ELSE mid[n - (k - 1)]
  <2>1. /\ some \in Seq(S) /\ Len(some) = Len(front) + Len(mid)
        /\ \A n \in 1..(Len(front) + Len(mid)) : some[n] =
             IF n <= Len(front) THEN front[n] ELSE mid[n - Len(front)]
    BY <1>2, <1>4, ConcatProperties
  <2>2. Len(front) + Len(mid) = k
    BY <1>1, <1>2, <1>4
  <2> QED
    BY <1>2, <2>1, <2>2
<1>7. whole = some \o back
  BY <1>5
<1> HIDE DEF some
<1>8. /\ whole \in Seq(S) /\ Len(whole) = Len(q) + 1
      /\ \A n \in 1..(Len(q) + 1) : whole[n] = IF n <= k THEN some[n] ELSE back[n - k]
  <2>1. k + (Len(q) - k + 1) = Len(q) + 1
    BY <1>1
  <2>2. /\ some \o back \in Seq(S) /\ Len(some \o back) = Len(some) + Len(back)
        /\ \A n \in 1..(Len(some) + Len(back)) :
             (some \o back)[n] = IF n <= Len(some) THEN some[n] ELSE back[n - Len(some)]
    BY <1>3, <1>6, ConcatProperties
  <2> QED
    BY <1>3, <1>6, <1>7, <2>1, <2>2
<1>9. ASSUME NEW n \in 1..(Len(q) + 1)
      PROVE  whole[n] = IF n < k THEN q[n] ELSE IF n = k THEN e ELSE q[n - 1]
  <2>1. CASE n < k
    <3>1. n \in 1..k /\ n <= k - 1 /\ n \in 1..(k - 1) /\ n <= k
      BY <1>1, <2>1
    <3> QED
      BY <1>2, <1>6, <1>8, <2>1, <3>1
  <2>2. CASE n = k
    <3>1. n \in 1..k /\ ~(n <= k - 1) /\ n - (k - 1) = 1 /\ n <= k /\ ~(n < k)
      BY <1>1, <2>2
    <3> QED
      BY <1>4, <1>6, <1>8, <2>2, <3>1
  <2>3. CASE n > k
    <3>1. n - k \in 1..(Len(q) - k + 1) /\ k + (n - k) - 1 = n - 1 /\ ~(n <= k) /\ ~(n < k)
          /\ n # k
      BY <1>1, <2>3
    <3> QED
      BY <1>3, <1>8, <3>1
  <2> QED
    BY <1>1, <2>1, <2>2, <2>3
<1> QED
  BY <1>8, <1>9 DEF whole

\* The slots of the rows in W, and the place of such a slot among them.
SlotsOf(f, W) == {n \in DOMAIN f : f[n] \in W}
Nth(f, W, n) == Cardinality(Counted(f, W, n))

\* The slots of W in f and the places of g correspond, in order.
Corresponds(f, W, g) ==
  /\ SlotsOf(f, W) \in SUBSET (1..Len(f))
  /\ Cardinality(W) \in Nat
  /\ \A n \in SlotsOf(f, W) : Nth(f, W, n) \in 1..Cardinality(W) /\ g[Nth(f, W, n)] = f[n]
  /\ \A m, n \in SlotsOf(f, W) : m < n => Nth(f, W, m) < Nth(f, W, n)
  /\ \A p \in 1..Cardinality(W) : \E n \in SlotsOf(f, W) : Nth(f, W, n) = p

\* The order of W lists the rows in W as the whole order does.
LEMMA NthCorresponds ==
  ASSUME NEW R \in SUBSET Ids, NEW q \in [Ids -> Nat], NEW f, Sorts(f, R, q),
         NEW W \in SUBSET R
  PROVE  Corresponds(f, W, InOrder(W, q))
<1>1. /\ f \in Seq(Ids) /\ Len(f) \in Nat /\ DOMAIN f = 1..Len(f)
      /\ \A i \in R : \E n \in DOMAIN f : f[n] = i
      /\ \A m, n \in DOMAIN f : f[m] = f[n] => m = n
  BY DEF Sorts, IsOrder
<1>2. SlotsOf(f, W) \in SUBSET (1..Len(f))
  BY <1>1 DEF SlotsOf
<1>3. /\ IsFiniteSet(W) /\ Cardinality(W) \in Nat
      /\ \A n \in 1..Len(f) : f[n] \in W =>
           Nth(f, W, n) \in 1..Cardinality(W) /\ InOrder(W, q)[Nth(f, W, n)] = f[n]
  <2>1. IsFiniteSet(W) /\ Cardinality(W) \in Nat
    <3>1. IsFiniteSet(R)
      BY SortedIsInOrder
    <3> QED
      BY <3>1, FS_Subset, FS_CardinalityType
  <2>2. ASSUME NEW n \in 1..Len(f), f[n] \in W
        PROVE  /\ Cardinality(Counted(f, W, n)) \in 1..Cardinality(W)
               /\ InOrder(W, q)[Cardinality(Counted(f, W, n))] = f[n]
    BY <2>2, SubsetRank, ZenonT(60)
  <2> QED
    BY <2>1, <2>2 DEF Nth
<1>4. \A n \in SlotsOf(f, W) :
        Nth(f, W, n) \in 1..Cardinality(W) /\ InOrder(W, q)[Nth(f, W, n)] = f[n]
  BY <1>1, <1>3 DEF SlotsOf
<1>5. ASSUME NEW m \in SlotsOf(f, W), NEW n \in SlotsOf(f, W), m < n
      PROVE  Nth(f, W, m) < Nth(f, W, n)
  <2>1. m \in 1..Len(f) /\ n \in 1..Len(f) /\ f[n] \in W
    BY <1>1 DEF SlotsOf
  <2>2. IsFiniteSet(Counted(f, W, n)) /\ IsFiniteSet(Counted(f, W, m))
    <3>1. IsFiniteSet(1..m) /\ IsFiniteSet(1..n)
      BY <1>1, <2>1, FS_Interval
    <3>2. Counted(f, W, n) \subseteq 1..n /\ Counted(f, W, m) \subseteq 1..m
      BY DEF Counted
    <3> QED
      BY <3>1, <3>2, FS_Subset
  <2>3. Counted(f, W, m) \cup {n} \subseteq Counted(f, W, n) /\ n \notin Counted(f, W, m)
    BY <1>1, <1>5, <2>1 DEF Counted
  <2>4. Cardinality(Counted(f, W, m) \cup {n}) = Nth(f, W, m) + 1
    BY <2>2, <2>3, FS_AddElement DEF Nth
  <2>5. Nth(f, W, m) + 1 <= Nth(f, W, n)
    BY <2>2, <2>3, <2>4, FS_Subset DEF Nth
  <2>6. Nth(f, W, m) \in Nat /\ Nth(f, W, n) \in Nat
    BY <2>2, FS_CardinalityType DEF Nth
  <2> QED
    BY <2>5, <2>6
<1>6. ASSUME NEW p \in 1..Cardinality(W) PROVE \E n \in SlotsOf(f, W) : Nth(f, W, n) = p
  <2> DEFINE g == InOrder(W, q)
  <2>1. DOMAIN g = 1..Cardinality(W) /\ g[p] \in W /\ Sorts(g, W, q)
    BY <1>3, InOrderSorts
  <2>2. PICK n \in DOMAIN f : f[n] = g[p]
    BY <1>1, <2>1
  <2>3. n \in SlotsOf(f, W)
    BY <2>1, <2>2 DEF SlotsOf
  <2>4. Nth(f, W, n) \in DOMAIN g /\ g[Nth(f, W, n)] = g[p]
    BY <1>4, <2>1, <2>2, <2>3
  <2>5. Nth(f, W, n) = p
    BY <2>1, <2>4 DEF Sorts, IsOrder
  <2> QED
    BY <2>3, <2>5
<1> QED
  BY <1>2, <1>3, <1>4, <1>5, <1>6 DEF Corresponds

\* What the store puts into slot n: the rows in W as they are reordered, any other row in place.
Replaced(f, W, h, n) == IF f[n] \in W THEN h[Nth(f, W, n)] ELSE f[n]

\* Taking a row out of the order of W and putting it back elsewhere moves each row of the whole
\* order to the slot a move says.
LEMMA ReplacedBySource ==
  ASSUME NEW R \in SUBSET Ids, NEW q \in [Ids -> Nat], NEW f, Sorts(f, R, q),
         NEW W \in SUBSET R, NEW from \in SlotsOf(f, W), NEW to \in SlotsOf(f, W), to # from,
         NEW h,
         h = InsertAt(RemoveFirst(InOrder(W, q), f[from]), Nth(f, W, to), f[from]),
         NEW n \in 1..Len(f)
  PROVE  Replaced(f, W, h, n) = f[Source(SlotsOf(f, W), from, to, n)]
<1> DEFINE g == InOrder(W, q)
           slots == SlotsOf(f, W)
           C(k) == Nth(f, W, k)
           N == Cardinality(W)
           i == f[from]
           r == RemoveFirst(g, i)
<1>1. /\ slots \in SUBSET (1..Len(f)) /\ N \in Nat
      /\ \A k \in slots : C(k) \in 1..N /\ g[C(k)] = f[k]
      /\ \A m, k \in slots : m < k => C(m) < C(k)
      /\ \A p \in 1..N : \E k \in slots : C(k) = p
  <2>1. Corresponds(f, W, g)
    BY NthCorresponds
  <2> QED
    BY <2>1 DEF Corresponds
<1>2. IsFiniteSet(W)
  <2>1. IsFiniteSet(R)
    BY SortedIsInOrder
  <2> QED
    BY <2>1, FS_Subset
<1>3. g \in Seq(Ids) /\ Len(g) = N /\ DOMAIN g = 1..N /\ IsOrder(g, W)
  BY <1>2, InOrderSorts DEF Sorts, IsOrder
<1>4. f[n] \in W <=> n \in slots
  <2>1. DOMAIN f = 1..Len(f)
    BY DEF Sorts, IsOrder
  <2> QED
    BY <2>1 DEF SlotsOf
<1>5. Len(f) \in Nat
  BY DEF Sorts, IsOrder
<1> DEFINE a == C(from)
           t == C(to)
<1> HIDE DEF g, C, N
<1>6. r = RemoveAt(g, a)
  <2>1. a \in DOMAIN g /\ g[a] = i
    BY <1>1, <1>3
  <2> QED
    BY <1>3, <2>1, RemovedFirst
<1>7. /\ r \in Seq(Ids) /\ DOMAIN r = 1..(N - 1)
      /\ \A p \in 1..(N - 1) : r[p] = IF p < a THEN g[p] ELSE g[p + 1]
  <2>1. a \in 1..Len(g)
    BY <1>1, <1>3
  <2> QED
    <3>1. RemoveAt(g, a) \in Seq(Ids) /\ DOMAIN RemoveAt(g, a) = 1..(Len(g) - 1)
      BY <1>3, <2>1, RemovedAt
    <3>2. ASSUME NEW p \in 1..(Len(g) - 1)
          PROVE  RemoveAt(g, a)[p] = IF p < a THEN g[p] ELSE g[p + 1]
      BY <1>3, <2>1, RemovedAt
    <3> HIDE DEF r, a, i
    <3> QED
      BY <1>3, <1>6, <3>1, <3>2
<1>8. a \in 1..N /\ t \in 1..N /\ a \in Nat /\ t \in Nat
  BY <1>1
<1>9. Len(r) + 1 = N
  <2>1. N - 1 \in Nat /\ (N - 1) + 1 = N
    BY <1>1, <1>8
  <2>2. Len(r) = N - 1
    <3> HIDE DEF r
    <3> QED
      BY <1>7, <2>1
  <2> QED
    BY <2>1, <2>2
<1> HIDE DEF r
<1>10. \A p \in 1..N : h[p] = IF p < t THEN r[p] ELSE IF p = t THEN i ELSE r[p - 1]
  <2>1. i \in Ids
    BY <1>1, <1>3, <1>8, SMTT(60)
  <2>2. h = InsertAt(r, t, i)
    BY DEF r, g, C
  <2> QED
    <3>1. t \in 1..(Len(r) + 1)
      BY <1>8, <1>9
    <3>2. r \in Seq(Ids)
      BY <1>7
    <3>3. ASSUME NEW p \in 1..(Len(r) + 1)
          PROVE  InsertAt(r, t, i)[p] =
                   IF p < t THEN r[p] ELSE IF p = t THEN i ELSE r[p - 1]
      <4> HIDE DEF t, i
      <4> QED
        BY <2>1, <3>1, <3>2, InsertedAt
    <3> QED
      BY <1>9, <2>2, <3>3
<1>11. /\ N \in Nat
       /\ \A k \in slots : C(k) \in Nat
       /\ \A m, k \in slots : m < k => C(m) < C(k)
  BY <1>1
<1> DEFINE S == Source(slots, from, to, n)
<1>12. from \in 1..Len(f) /\ to \in 1..Len(f) /\ slots \subseteq Nat
  BY <1>1
<1>13. CASE n \notin slots
  <2>1. S = n
    BY <1>13 DEF Source, Shifted
  <2> QED
    BY <1>4, <1>13, <2>1 DEF Replaced
<1>14. CASE n = to
  <2>1. S = from
    BY <1>14 DEF Source
  <2>2. h[C(n)] = i
    BY <1>8, <1>10, <1>14
  <2> QED
    BY <1>4, <1>14, <2>1, <2>2 DEF Replaced, C
<1>15. CASE n \in Shifted(slots, from, to) /\ n # to
  <2>1. n \in slots /\ C(n) \in 1..N
    BY <1>1, <1>15 DEF Shifted
  <2>2. CASE to < from
    <3>1. /\ S \in slots /\ S < n /\ n <= from /\ to < n
          /\ \A k \in slots : k < n => k <= S
      BY <1>1, <1>5, <1>15, <2>2, SourceAbove
    <3> HIDE DEF S
    <3>2. t < C(n) /\ C(n) <= a /\ C(S) < C(n)
      <4>1. n = from \/ n < from
        BY <1>12, <3>1
      <4> QED
        BY <1>8, <1>11, <2>1, <3>1, <4>1
    <3>3. C(S) \in 1..N /\ g[C(S)] = f[S]
      BY <1>1, <3>1
    <3>4. PICK k \in slots : C(k) = C(n) - 1
      <4>1. C(n) - 1 \in 1..N
        BY <1>8, <1>11, <2>1, <3>2
      <4> QED
        BY <1>1, <4>1
    <3>5. k < n
      <4>1. n < k => C(n) < C(k)
        BY <1>1, <2>1
      <4>2. n # k
        BY <2>1, <3>4
      <4> QED
        BY <1>12, <2>1, <3>4, <4>1, <4>2
    <3>6. C(S) = C(n) - 1
      <4>1. k <= S
        BY <3>1, <3>5
      <4>2. k = S \/ C(k) < C(S)
        BY <1>1, <1>12, <3>1, <4>1
      <4> QED
        BY <2>1, <3>2, <3>3, <3>4, <4>2
    <3>7. h[C(n)] = f[S]
      <4>1. h[C(n)] = r[C(n) - 1]
        BY <1>8, <1>10, <2>1, <3>2
      <4>2. C(n) - 1 \in 1..(N - 1) /\ C(n) - 1 < a
        BY <1>8, <1>11, <2>1, <3>2
      <4> QED
        BY <1>7, <3>3, <3>6, <4>1, <4>2
    <3> QED
      BY <1>4, <2>1, <3>7 DEF Replaced, C, S
  <2>3. CASE from < to
    <3>1. /\ S \in slots /\ n < S /\ from <= n /\ n < to
          /\ \A k \in slots : n < k => S <= k
      BY <1>1, <1>5, <1>15, <2>3, SourceBelow
    <3> HIDE DEF S
    <3>2. a <= C(n) /\ C(n) < t /\ C(n) < C(S)
      <4>1. n = from \/ from < n
        BY <1>12, <3>1
      <4> QED
        BY <1>8, <1>11, <2>1, <3>1, <4>1
    <3>3. C(S) \in 1..N /\ g[C(S)] = f[S]
      BY <1>1, <3>1
    <3>4. PICK k \in slots : C(k) = C(n) + 1
      <4>1. C(n) + 1 \in 1..N
        BY <1>8, <1>11, <2>1, <3>2
      <4> QED
        BY <1>1, <4>1
    <3>5. n < k
      <4>1. k < n => C(k) < C(n)
        BY <1>1, <2>1
      <4>2. n # k
        BY <2>1, <3>4
      <4> QED
        BY <1>12, <2>1, <3>4, <4>1, <4>2
    <3>6. C(S) = C(n) + 1
      <4>1. S <= k
        BY <3>1, <3>5
      <4>2. k = S \/ C(S) < C(k)
        BY <1>1, <1>12, <3>1, <4>1
      <4> QED
        BY <2>1, <3>2, <3>3, <3>4, <4>2
    <3>7. h[C(n)] = f[S]
      <4>1. h[C(n)] = r[C(n)]
        BY <1>8, <1>10, <2>1, <3>2
      <4>2. C(n) \in 1..(N - 1) /\ ~(C(n) < a)
        BY <1>8, <1>11, <2>1, <3>2
      <4> QED
        BY <1>7, <3>3, <3>6, <4>1, <4>2
    <3> QED
      BY <1>4, <2>1, <3>7 DEF Replaced, C, S
  <2> QED
    BY <1>12, <2>2, <2>3
<1>16. CASE n \in slots /\ n \notin Shifted(slots, from, to) /\ n # to
  <2>1. S = n
    BY <1>16 DEF Source
  <2>2. /\ C(n) \in 1..N /\ g[C(n)] = f[n] /\ n # from
        /\ to < from => n < to \/ n > from
        /\ from < to => n > to \/ n < from
    <3>1. C(n) \in 1..N /\ g[C(n)] = f[n]
      BY <1>1, <1>16
    <3>2. n \in Nat /\ from \in Nat /\ to \in Nat
      BY <1>12
    <3>3. /\ n \in slots /\ n # to
          /\ ~(to < n /\ n <= from) /\ ~(from <= n /\ n < to)
      BY <1>16 DEF Shifted
    <3> HIDE DEF C, slots, i
    <3>4. n # from
      BY <3>2, <3>3
    <3> QED
      BY <3>1, <3>2, <3>3, <3>4
  <2>3. /\ to < from => (C(n) < t /\ t < a) \/ C(n) > a
        /\ from < to => (C(n) > t /\ t > a) \/ C(n) < a
    BY <1>1, <1>12, <1>16, <2>2
  <2>4. to < from => t < a
    BY <1>1
  <2>5. from < to => a < t
    BY <1>1
  <2>6. h[C(n)] = g[C(n)]
    <3>1. CASE C(n) < t /\ C(n) < a
      <4>1. C(n) \in 1..(N - 1)
        BY <1>1, <1>8, <2>2, <3>1
      <4> QED
        BY <1>7, <1>10, <2>2, <3>1, <4>1
    <3>2. CASE C(n) > t /\ C(n) > a
      <4>1. C(n) - 1 \in 1..(N - 1) /\ ~(C(n) - 1 < a) /\ (C(n) - 1) + 1 = C(n)
            /\ ~(C(n) < t) /\ C(n) # t
        BY <1>8, <1>11, <2>2, <3>2
      <4> QED
        BY <1>7, <1>10, <2>2, <4>1
    <3> QED
      BY <1>8, <1>12, <2>2, <2>3, <2>4, <2>5, <3>1, <3>2
  <2> QED
    BY <1>4, <1>16, <2>1, <2>2, <2>6 DEF Replaced, C
<1> QED
  BY <1>13, <1>14, <1>15, <1>16

\* The rows of R are numbered 1, 2, ...
Slotted(R, q) == {q[i] : i \in R} = 1..Cardinality(R)

\* The next number goes to a row behind all others.
LEMMA AppendTakesSlot ==
  ASSUME NEW R \in SUBSET Ids, IsFiniteSet(R), NEW q \in [Ids -> Nat], Slotted(R, q),
         NEW i \in Ids, i \notin R, NEW z \in [Ids -> Nat], z[i] = Cardinality(R) + 1,
         \A j \in R : z[j] = q[j]
  PROVE  /\ IsFiniteSet(R \cup {i}) /\ Slotted(R \cup {i}, z)
         /\ InOrder(R \cup {i}, z) = Append(InOrder(R, q), i)
<1> DEFINE N == Cardinality(R)
<1>1. N \in Nat /\ Sorts(InOrder(R, q), R, q)
  BY InOrderSorts
<1>2. IsFiniteSet(R \cup {i}) /\ Cardinality(R \cup {i}) = N + 1
  BY FS_AddElement
<1>3. {z[j] : j \in R} = 1..N
  BY DEF Slotted
<1>4. \A j \in R : z[j] < z[i]
  BY <1>1, <1>3
<1>5. Sorts(InOrder(R, q), R, z)
  BY <1>1, SameNumbersSort
<1>6. Sorts(Append(InOrder(R, q), i), R \cup {i}, z)
  BY <1>4, <1>5, SortedAppends
<1>7. {z[j] : j \in R \cup {i}} = {z[j] : j \in R} \cup {N + 1}
  OBVIOUS
<1>8. (1..N) \cup {N + 1} = 1..(N + 1)
  BY <1>1
<1>9. R \cup {i} \in SUBSET Ids
  OBVIOUS
<1>10. InOrder(R \cup {i}, z) = Append(InOrder(R, q), i)
  BY <1>6, <1>9, SortedIsInOrder
<1> QED
  BY <1>2, <1>3, <1>7, <1>8, <1>10 DEF Slotted

\* A row without a number leaves the order of the others.
LEMMA RemovalKeepsOrder ==
  ASSUME NEW R \in SUBSET Ids, IsFiniteSet(R), NEW q \in [Ids -> Nat], NEW i \in R,
         NEW z \in [Ids -> Nat], \A j \in R \ {i} : z[j] = q[j]
  PROVE  /\ IsFiniteSet(R \ {i})
         /\ InOrder(R \ {i}, z) = RemoveFirst(InOrder(R, q), i)
<1>1. Sorts(InOrder(R, q), R, q)
  BY InOrderSorts
<1>2. R \ {i} \in SUBSET Ids
  OBVIOUS
<1>3. Sorts(RemoveFirst(InOrder(R, q), i), R \ {i}, q)
  BY <1>1, SortedRemoves
<1>4. Sorts(RemoveFirst(InOrder(R, q), i), R \ {i}, z)
  BY <1>2, <1>3, SameNumbersSort
<1>5. InOrder(R \ {i}, z) = RemoveFirst(InOrder(R, q), i) /\ IsFiniteSet(R \ {i})
  BY <1>2, <1>4, SortedIsInOrder
<1> QED
  BY <1>5

\* The waiting ones among the queue rows.
WaitingOf(s, m) == {i \in QueueRowsOf(s, m) : s[i] \in WaitingStates}

\* Renumbering with the waiting rows as h lists them.
LEMMA ResequencedIsNumbered ==
  ASSUME NEW s \in [Ids -> RowStates], NEW m, NEW q \in [Ids -> Nat],
         IsFiniteSet(QueueRowsOf(s, m)), NEW h, NEW f, f = InOrder(QueueRowsOf(s, m), q)
  PROVE  Resequenced(s, m, q, h) =
           Numbered([x \in DOMAIN f |-> Replaced(f, WaitingOf(s, m), h, x)], q)
<1> DEFINE R == QueueRowsOf(s, m)
           W == WaitingOf(s, m)
<1>1. R \in SUBSET Ids
  BY DEF QueueRowsOf
<1>2. /\ f \in Seq(Ids) /\ Len(f) \in Nat /\ DOMAIN f = 1..Len(f)
      /\ \A x \in DOMAIN f : f[x] \in R
  BY <1>1, InOrderSorts DEF Sorts, IsOrder
<1>3. \A x \in DOMAIN f : s[f[x]] \in WaitingStates <=> f[x] \in W
  BY <1>2 DEF WaitingOf
<1>4. ASSUME NEW x \in DOMAIN f
      PROVE  {k \in 1..x : s[f[k]] \in WaitingStates} = Counted(f, W, x)
  <2>1. \A k \in 1..x : k \in DOMAIN f
    BY <1>2
  <2> QED
    BY <1>3, <2>1 DEF Counted
<1> DEFINE placed == [x \in DOMAIN f |->
                        IF s[f[x]] \in WaitingStates
                        THEN h[Cardinality({k \in 1..x : s[f[k]] \in WaitingStates})]
                        ELSE f[x]]
<1>5. placed = [x \in DOMAIN f |-> Replaced(f, W, h, x)]
  <2> HIDE DEF W
  <2> QED
    BY <1>3, <1>4 DEF Replaced, Nth
<1>6. Resequenced(s, m, q, h) = Numbered(placed, q)
  BY DEF Resequenced, Numbered
<1> QED
  BY <1>5, <1>6

\* Without a move, renumbering only numbers the rows as they already stand.
LEMMA ResequenceNumbers ==
  ASSUME NEW s \in [Ids -> RowStates], NEW m, NEW q \in [Ids -> Nat],
         NEW R, R = QueueRowsOf(s, m), IsFiniteSet(R)
  PROVE  /\ ResequenceQueue(s, m, q) \in [Ids -> Nat]
         /\ Slotted(R, ResequenceQueue(s, m, q))
         /\ InOrder(R, ResequenceQueue(s, m, q)) = InOrder(R, q)
<1> DEFINE f == InOrder(R, q)
           W == WaitingOf(s, m)
           h == InOrder(W, q)
<1>1. R \in SUBSET Ids /\ W \in SUBSET R
  BY DEF QueueRowsOf, WaitingOf
<1>2. Sorts(f, R, q) /\ IsOrder(f, R)
  BY <1>1, InOrderSorts DEF Sorts
<1>3. f \in Seq(Ids) /\ Len(f) \in Nat /\ DOMAIN f = 1..Len(f)
  BY <1>2 DEF IsOrder
<1>4. Corresponds(f, W, h)
  BY <1>1, <1>2, NthCorresponds
<1> HIDE DEF f, W, h
<1>5. \A x \in DOMAIN f : Replaced(f, W, h, x) = f[x]
  BY <1>4 DEF Corresponds, Replaced, SlotsOf
<1>6. [x \in DOMAIN f |-> Replaced(f, W, h, x)] = f
  BY <1>3, <1>5
<1>7. ResequenceQueue(s, m, q) = Resequenced(s, m, q, h)
  BY DEF ResequenceQueue, WaitingOf, W, h
<1>8. ResequenceQueue(s, m, q) = Numbered(f, q)
  BY <1>6, <1>7, ResequencedIsNumbered DEF f, W
<1>9. /\ Numbered(f, q) \in [Ids -> Nat]
      /\ {Numbered(f, q)[i] : i \in R} = 1..Cardinality(R)
      /\ InOrder(R, Numbered(f, q)) = f
  BY <1>1, <1>2, NumberedSorts
<1> QED
  BY <1>8, <1>9 DEF Slotted, f

-----------------------------------------------------------------------------
(* The transactions of the store.                                          *)

\* The type of the table, finitely many live queue rows and their slots.
StoreInv == StoreTypeOK /\ IsFiniteSet(QueueRows) /\ OrdersAreSlots

\* What it says of the rows and of their order.
LEMMA StoreInvRows ==
  ASSUME StoreInv
  PROVE  /\ QueueRows \in SUBSET Ids /\ IsFiniteSet(QueueRows)
         /\ Cardinality(QueueRows) \in Nat
         /\ Slotted(QueueRows, queue_order)
         /\ Sorts(GetQueueRows, QueueRows, queue_order)
         /\ Len(GetQueueRows) = Cardinality(QueueRows)
<1>1. QueueRows \in SUBSET Ids /\ IsFiniteSet(QueueRows) /\ queue_order \in [Ids -> Nat]
  BY DEF StoreInv, StoreTypeOK, QueueRows, QueueRowsOf
<1>2. Slotted(QueueRows, queue_order)
  BY DEF StoreInv, OrdersAreSlots, Slotted
<1> QED
  BY <1>1, <1>2, InOrderSorts DEF GetQueueRows

\* What a step has to show.
LEMMA StoreInvNext ==
  ASSUME StoreTypeOK', IsFiniteSet(QueueRows'), Slotted(QueueRows', queue_order')
  PROVE  StoreInv'
BY DEF StoreInv, OrdersAreSlots, Slotted

\* A new row gets the number behind the last slot.
LEMMA NextOrder ==
  ASSUME StoreInv
  PROVE  GetNextQueueOrder = Cardinality(QueueRows) + 1
<1> DEFINE N == Cardinality(QueueRows)
           S == {queue_order[i] : i \in QueueRows}
<1>1. N \in Nat /\ S = 1..N /\ IsFiniteSet(QueueRows)
  BY StoreInvRows DEF Slotted
<1>2. CASE QueueRows = {}
  BY <1>2, FS_EmptySet DEF GetNextQueueOrder
<1>3. CASE QueueRows # {}
  <2>1. S # {}
    BY <1>3
  <2> HIDE DEF S
  <2>2. N \in S /\ \A y \in S : N >= y
    BY <1>1, <2>1
  <2>3. Max(S) \in S /\ \A y \in S : Max(S) >= y
    BY <1>1, <2>1, GreatestExists
  <2>4. Max(S) = N
    BY <1>1, <2>2, <2>3
  <2> QED
    BY <1>3, <2>4 DEF GetNextQueueOrder, S
<1> QED
  BY <1>2, <1>3

\* A step that leaves the queue alone.
LEMMA QueueStays ==
  ASSUME StoreInv, StoreTypeOK', QueueRows' = QueueRows, queue_order' = queue_order
  PROVE  StoreInv' /\ GetQueueRows' = GetQueueRows
BY StoreInvRows, StoreInvNext DEF GetQueueRows

\* A new queue row.
LEMMA StoreCreates ==
  ASSUME StoreInv, NEW i \in Ids, NEW s \in {"pending", "claimed", "retry"},
         CreateQueueInputWithState(i, s)
  PROVE  StoreInv' /\ Rows!CreateQueueInput(i, s)
<1>1. /\ st' = [st EXCEPT ![i] = s] /\ mode' = [mode EXCEPT ![i] = "queue"]
      /\ queue_order' = [queue_order EXCEPT ![i] = Cardinality(QueueRows) + 1]
      /\ st[i] = "unused"
  BY NextOrder DEF CreateQueueInputWithState, IsFresh
<1>2. StoreTypeOK'
  BY <1>1, StoreInvRows DEF StoreInv, StoreTypeOK, RowStates
<1>3. i \notin QueueRows /\ QueueRows' = QueueRows \cup {i}
  BY <1>1 DEF QueueRows, QueueRowsOf, Live, StoreInv, StoreTypeOK
<1>4. /\ queue_order \in [Ids -> Nat] /\ queue_order' \in [Ids -> Nat]
      /\ queue_order'[i] = Cardinality(QueueRows) + 1
      /\ \A j \in QueueRows : queue_order'[j] = queue_order[j]
  <2>1. queue_order \in [Ids -> Nat] /\ queue_order' \in [Ids -> Nat]
    BY <1>2 DEF StoreInv, StoreTypeOK
  <2>2. QueueRows \subseteq Ids
    BY StoreInvRows
  <2> QED
    BY <1>1, <1>3, <2>1, <2>2
<1>5. /\ IsFiniteSet(QueueRows') /\ Slotted(QueueRows', queue_order')
      /\ GetQueueRows' = Append(GetQueueRows, i)
  <2> DEFINE R == QueueRows
             q == queue_order
             z == queue_order'
  <2>1. /\ R \in SUBSET Ids /\ IsFiniteSet(R) /\ Slotted(R, q) /\ i \notin R
        /\ q \in [Ids -> Nat] /\ z \in [Ids -> Nat] /\ z[i] = Cardinality(R) + 1
        /\ \A j \in R : z[j] = q[j]
    BY <1>3, <1>4, StoreInvRows
  <2>2. QueueRows' = R \cup {i}
    BY <1>3
  <2> HIDE DEF R, q, z
  <2>3. /\ IsFiniteSet(R \cup {i}) /\ Slotted(R \cup {i}, z)
        /\ InOrder(R \cup {i}, z) = Append(InOrder(R, q), i)
    BY <2>1, AppendTakesSlot, ZenonT(60)
  <2> QED
    BY <2>2, <2>3 DEF GetQueueRows, R, q, z
<1>6. Rows!IsFresh(i)
  BY DEF CreateQueueInputWithState, IsFresh, Rows!IsFresh
<1> QED
  BY <1>1, <1>2, <1>5, <1>6, StoreInvNext DEF Rows!CreateQueueInput

\* Both modules take the removal from the same library.
LEMMA RowsRemoveFirst == ASSUME NEW f, NEW i PROVE Rows!RemoveFirst(f, i) = RemoveFirst(f, i)
BY DEF Rows!RemoveFirst, RemoveFirst, Rows!RemoveAt, RemoveAt, Rows!SelectInSeq, SelectInSeq,
       Rows!Min, Min

\* A row leaves the queue and the others are renumbered.
LEMMA RowLeaves ==
  ASSUME StoreInv, NEW i \in QueueRows, QueueRows' = QueueRows \ {i},
         st' \in [Ids -> RowStates], NEW z \in [Ids -> Nat],
         \A j \in QueueRows \ {i} : z[j] = queue_order[j],
         queue_order' = ResequenceQueue(st', mode', z)
  PROVE  /\ queue_order' \in [Ids -> Nat] /\ IsFiniteSet(QueueRows')
         /\ Slotted(QueueRows', queue_order')
         /\ GetQueueRows' = Rows!RemoveFirst(GetQueueRows, i)
<1> DEFINE R == QueueRows
           q == queue_order
<1>1. R \in SUBSET Ids /\ IsFiniteSet(R) /\ i \in R /\ q \in [Ids -> Nat]
  BY StoreInvRows DEF StoreInv, StoreTypeOK
<1>2. \A j \in R \ {i} : z[j] = q[j]
  OBVIOUS
<1> HIDE DEF R, q
<1>3. IsFiniteSet(R \ {i})
  BY <1>1, <1>2, RemovalKeepsOrder
<1>4. InOrder(R \ {i}, z) = RemoveFirst(InOrder(R, q), i)
  BY <1>1, <1>2, RemovalKeepsOrder
<1>5. QueueRows' = R \ {i} /\ QueueRows' = QueueRowsOf(st', mode')
  BY DEF R, QueueRows
<1>6. /\ ResequenceQueue(st', mode', z) \in [Ids -> Nat]
      /\ Slotted(QueueRows', ResequenceQueue(st', mode', z))
      /\ InOrder(QueueRows', ResequenceQueue(st', mode', z)) = InOrder(QueueRows', z)
  <2> DEFINE left == QueueRows'
  <2>1. left = QueueRowsOf(st', mode') /\ IsFiniteSet(left)
    BY <1>3, <1>5
  <2> HIDE DEF left
  <2>2. /\ ResequenceQueue(st', mode', z) \in [Ids -> Nat]
        /\ Slotted(left, ResequenceQueue(st', mode', z))
        /\ InOrder(left, ResequenceQueue(st', mode', z)) = InOrder(left, z)
    BY <2>1, ResequenceNumbers
  <2> QED
    BY <2>2 DEF left
<1>7. GetQueueRows' = RemoveFirst(GetQueueRows, i)
  BY <1>4, <1>5, <1>6 DEF GetQueueRows, R, q
<1> QED
  BY <1>3, <1>5, <1>6, <1>7, RowsRemoveFirst

\* A queue row becomes a steer row.
LEMMA StoreConverts ==
  ASSUME StoreInv, NEW i \in Ids, StoreConvertQueueInputToSteer(i)
  PROVE  StoreInv' /\ Rows!ConvertQueueInputToSteer(i)
<1> DEFINE z == [queue_order EXCEPT ![i] = Null]
<1>1. /\ mode[i] = "queue" /\ st[i] = "pending" /\ mode' = [mode EXCEPT ![i] = "steer"]
      /\ queue_order' = ResequenceQueue(st', mode', z) /\ st' = st
  BY DEF StoreConvertQueueInputToSteer
<1>2. /\ st \in [Ids -> RowStates] /\ mode \in [Ids -> {"queue", "steer"}]
      /\ queue_order \in [Ids -> Nat] /\ z \in [Ids -> Nat]
  BY DEF StoreInv, StoreTypeOK, Null
<1>3. i \in QueueRows /\ QueueRows' = QueueRows \ {i}
  BY <1>1, <1>2 DEF QueueRows, QueueRowsOf, Live
<1>4. \A j \in QueueRows \ {i} : z[j] = queue_order[j]
  BY <1>2, StoreInvRows
<1> HIDE DEF z
<1>5. /\ queue_order' \in [Ids -> Nat] /\ IsFiniteSet(QueueRows')
      /\ Slotted(QueueRows', queue_order')
      /\ GetQueueRows' = Rows!RemoveFirst(GetQueueRows, i)
  BY <1>1, <1>2, <1>3, <1>4, RowLeaves
<1>6. StoreTypeOK' /\ st' = [st EXCEPT ![i] = "pending"]
  BY <1>1, <1>2, <1>5 DEF StoreTypeOK
<1> QED
  BY <1>1, <1>5, <1>6, StoreInvNext DEF Rows!ConvertQueueInputToSteer

\* A queue row is consumed or deleted.
LEMMA StoreDeletes ==
  ASSUME StoreInv, NEW i \in Ids, DeleteInput(i)
  PROVE  StoreInv' /\ st[i] \in Rows!Live /\ Rows!ConsumeInput(i)
<1>1. /\ mode[i] = "queue" /\ st[i] \in Live /\ st' = [st EXCEPT ![i] = "gone"]
      /\ queue_order' = ResequenceQueue(st', mode', queue_order) /\ mode' = mode
  BY DEF DeleteInput
<1>2. /\ st \in [Ids -> RowStates] /\ mode \in [Ids -> {"queue", "steer"}]
      /\ queue_order \in [Ids -> Nat] /\ st' \in [Ids -> RowStates]
  BY <1>1 DEF StoreInv, StoreTypeOK, RowStates
<1>3. i \in QueueRows /\ QueueRows' = QueueRows \ {i}
  BY <1>1, <1>2 DEF QueueRows, QueueRowsOf, Live
<1>4. /\ queue_order' \in [Ids -> Nat] /\ IsFiniteSet(QueueRows')
      /\ Slotted(QueueRows', queue_order')
      /\ GetQueueRows' = Rows!RemoveFirst(GetQueueRows, i)
  BY <1>1, <1>2, <1>3, RowLeaves
<1>5. StoreTypeOK'
  BY <1>1, <1>2, <1>4 DEF StoreTypeOK
<1> QED
  BY <1>1, <1>4, <1>5, StoreInvNext DEF Rows!ConsumeInput, Rows!Live, Live

\* A steer row goes back behind the queue.
LEMMA StoreQueues ==
  ASSUME StoreInv, NEW i \in Ids, StoreConvertSteerInputToQueue(i)
  PROVE  /\ StoreInv' /\ mode[i] = "steer" /\ st[i] \in Rows!Live
         /\ Rows!ConvertSteerInputToQueue(i)
<1> DEFINE z == [queue_order EXCEPT ![i] = Cardinality(QueueRows) + 1]
           R == QueueRows
           q == queue_order
<1>1. /\ mode[i] = "steer" /\ st[i] \in Live /\ mode' = [mode EXCEPT ![i] = "queue"]
      /\ queue_order' = ResequenceQueue(st, mode', z) /\ st' = st
  BY NextOrder DEF StoreConvertSteerInputToQueue
<1>2. /\ st \in [Ids -> RowStates] /\ mode \in [Ids -> {"queue", "steer"}]
      /\ q \in [Ids -> Nat] /\ z \in [Ids -> Nat] /\ z[i] = Cardinality(R) + 1
  BY StoreInvRows DEF StoreInv, StoreTypeOK
<1>3. /\ i \notin R /\ QueueRows' = R \cup {i}
      /\ QueueRowsOf(st, mode') = R \cup {i}
  BY <1>1, <1>2 DEF QueueRows, QueueRowsOf
<1>4. \A j \in R : z[j] = q[j]
  BY <1>2, <1>3, StoreInvRows
<1>5. R \in SUBSET Ids /\ IsFiniteSet(R) /\ Slotted(R, q)
  BY StoreInvRows
<1> HIDE DEF z, R, q
<1>6. IsFiniteSet(R \cup {i}) /\ InOrder(R \cup {i}, z) = Append(InOrder(R, q), i)
  <2>1. /\ R \in SUBSET Ids /\ IsFiniteSet(R) /\ Slotted(R, q) /\ i \notin R
        /\ q \in [Ids -> Nat] /\ z \in [Ids -> Nat] /\ z[i] = Cardinality(R) + 1
        /\ \A j \in R : z[j] = q[j]
    BY <1>2, <1>3, <1>4, <1>5
  <2> QED
    BY <2>1, AppendTakesSlot, ZenonT(60)
<1>7. /\ ResequenceQueue(st, mode', z) \in [Ids -> Nat]
      /\ Slotted(R \cup {i}, ResequenceQueue(st, mode', z))
      /\ InOrder(R \cup {i}, ResequenceQueue(st, mode', z)) = InOrder(R \cup {i}, z)
  <2> DEFINE more == R \cup {i}
  <2>1. more = QueueRowsOf(st, mode') /\ IsFiniteSet(more)
    BY <1>3, <1>6
  <2> HIDE DEF more
  <2>2. /\ ResequenceQueue(st, mode', z) \in [Ids -> Nat]
        /\ Slotted(more, ResequenceQueue(st, mode', z))
        /\ InOrder(more, ResequenceQueue(st, mode', z)) = InOrder(more, z)
    BY <1>2, <2>1, ResequenceNumbers
  <2> QED
    BY <2>2 DEF more
<1>8. GetQueueRows' = Append(GetQueueRows, i)
  BY <1>1, <1>3, <1>6, <1>7 DEF GetQueueRows, R, q
<1>9. StoreTypeOK' /\ IsFiniteSet(QueueRows') /\ Slotted(QueueRows', queue_order')
  BY <1>1, <1>2, <1>3, <1>6, <1>7 DEF StoreTypeOK
<1> QED
  BY <1>1, <1>8, <1>9, StoreInvNext DEF Rows!ConvertSteerInputToQueue, Rows!Live, Live

\* The steps that move no row.
LEMMA StoreRestates ==
  ASSUME StoreInv, NEW i \in Ids
  PROVE  /\ StoreCreateSteerInput(i) => StoreInv' /\ Rows!CreateSteerInput(i)
         /\ Claim(i) => StoreInv' /\ Rows!ClaimInput(i)
         /\ \A s \in {"pending", "retry"} : ReleaseClaimed(i, s) =>
              /\ StoreInv' /\ st[i] \in Rows!Live /\ (mode[i] = "steer" => s # "retry")
              /\ Rows!RestateInput(i, s)
         /\ BlockClaimedInput(i) =>
              StoreInv' /\ st[i] \in Rows!Live /\ Rows!RestateInput(i, "blocked")
         /\ WaitAgain(i) =>
              StoreInv' /\ st[i] \in Rows!Live /\ Rows!RestateInput(i, "pending")
         /\ ConsumeSteerInput(i) =>
              StoreInv' /\ st[i] \in Rows!Live /\ Rows!ConsumeInput(i)
<1>1. /\ st \in [Ids -> RowStates] /\ mode \in [Ids -> {"queue", "steer"}]
      /\ queue_order \in [Ids -> Nat]
  BY DEF StoreInv, StoreTypeOK
<1>2. ASSUME StoreCreateSteerInput(i) PROVE StoreInv' /\ Rows!CreateSteerInput(i)
  <2>1. StoreTypeOK' /\ queue_order' = queue_order
    BY <1>1, <1>2 DEF StoreCreateSteerInput, StoreTypeOK, RowStates
  <2>2. QueueRows' = QueueRows
    BY <1>1, <1>2 DEF StoreCreateSteerInput, IsFresh, QueueRows, QueueRowsOf, Live
  <2>3. Rows!IsFresh(i)
    BY <1>2 DEF StoreCreateSteerInput, IsFresh, Rows!IsFresh
  <2> QED
    BY <1>2, <2>1, <2>2, <2>3, QueueStays DEF StoreCreateSteerInput, Rows!CreateSteerInput
<1>3. ASSUME NEW s \in RowStates, st[i] \in Live, s \in Live,
             st' = [st EXCEPT ![i] = s], UNCHANGED <<mode, queue_order>>
      PROVE  StoreInv' /\ GetQueueRows' = GetQueueRows
  <2>1. StoreTypeOK'
    BY <1>1, <1>3 DEF StoreTypeOK
  <2>2. QueueRows' = QueueRows
    BY <1>1, <1>3 DEF QueueRows, QueueRowsOf
  <2> QED
    BY <1>3, <2>1, <2>2, QueueStays
<1>4. Rows!Live = Live /\ Live \subseteq RowStates /\ WaitingStates \subseteq Live
  BY DEF Rows!Live, Live, RowStates, WaitingStates
<1>5. Claim(i) => StoreInv' /\ Rows!ClaimInput(i)
  BY <1>3, <1>4 DEF Claim, Rows!ClaimInput, Live
<1>6. ASSUME NEW s \in {"pending", "retry"}, ReleaseClaimed(i, s)
      PROVE  /\ StoreInv' /\ st[i] \in Rows!Live /\ (mode[i] = "steer" => s # "retry")
             /\ Rows!RestateInput(i, s)
  BY <1>3, <1>4, <1>6 DEF ReleaseClaimed, Rows!RestateInput, Live
<1>7. BlockClaimedInput(i) =>
        StoreInv' /\ st[i] \in Rows!Live /\ Rows!RestateInput(i, "blocked")
  BY <1>3, <1>4 DEF BlockClaimedInput, Rows!RestateInput, Live
<1>8. WaitAgain(i) => StoreInv' /\ st[i] \in Rows!Live /\ Rows!RestateInput(i, "pending")
  BY <1>3, <1>4 DEF WaitAgain, Rows!RestateInput, Live
<1>9. ASSUME ConsumeSteerInput(i)
      PROVE  StoreInv' /\ st[i] \in Rows!Live /\ Rows!ConsumeInput(i)
  <2>1. StoreTypeOK'
    BY <1>1, <1>9 DEF ConsumeSteerInput, StoreTypeOK, RowStates
  <2>2. QueueRows' = QueueRows
    BY <1>1, <1>9 DEF ConsumeSteerInput, QueueRows, QueueRowsOf
  <2> QED
    BY <1>4, <1>9, <2>1, <2>2, QueueStays DEF ConsumeSteerInput, Rows!ConsumeInput
<1> QED
  BY <1>2, <1>5, <1>6, <1>7, <1>8, <1>9

\* The session is deleted.
LEMMA StoreEmpties ==
  ASSUME StoreInv, StoreDeleteBySession
  PROVE  StoreInv' /\ Rows!DeleteBySession
<1>1. /\ st \in [Ids -> RowStates] /\ mode \in [Ids -> {"queue", "steer"}]
      /\ queue_order \in [Ids -> Nat]
  BY DEF StoreInv, StoreTypeOK
<1>2. StoreTypeOK' /\ queue_order' = queue_order /\ mode' = mode
  BY <1>1 DEF StoreDeleteBySession, StoreTypeOK, RowStates
<1>3. QueueRows' = {}
  BY <1>1 DEF StoreDeleteBySession, QueueRows, QueueRowsOf, Live
<1>4. Sorts(<<>>, {}, queue_order)
  BY DEF Sorts, IsOrder
<1>5. InOrder({}, queue_order) = <<>>
  BY <1>1, <1>4, SortedIsInOrder
<1>6. IsFiniteSet({}) /\ Cardinality({}) = 0
  BY FS_EmptySet
<1>7. Slotted(QueueRows', queue_order')
  BY <1>3, <1>6 DEF Slotted
<1>8. GetQueueRows' = <<>>
  BY <1>2, <1>3, <1>5 DEF GetQueueRows
<1> QED
  BY <1>2, <1>3, <1>6, <1>7, <1>8, StoreInvNext
  DEF StoreDeleteBySession, Rows!DeleteBySession, Rows!Live, Live

\* Both modules take the nearest slot from the same library.
LEMMA RowsMaxMin == ASSUME NEW S PROVE Rows!Max(S) = Max(S) /\ Rows!Min(S) = Min(S)
BY DEF Rows!Max, Max, Rows!Min, Min

\* A move: the row taken out of the waiting rows and put back is the row that trades slots.
LEMMA StoreMoves ==
  ASSUME StoreInv, NEW i \in Ids, NEW toIndex \in 0..Cardinality(QueueRows),
         StoreMoveQueueInput(i, toIndex)
  PROVE  StoreInv' /\ \E to \in 1..Len(GetQueueRows) : Rows!MoveQueueInput(i, to)
<1> DEFINE R == QueueRows
           q == queue_order
           f == GetQueueRows
           W == WaitingOf(st, mode)
           g == InOrder(W, q)
           M == Cardinality(W)
           slots == SlotsOf(f, W)
           clamped == IF toIndex < M THEN toIndex ELSE M - 1
           h == InsertAt(RemoveFirst(g, i), clamped + 1, i)
<1>1. R \in SUBSET Ids /\ IsFiniteSet(R) /\ Sorts(f, R, q) /\ Slotted(R, q)
  BY StoreInvRows
<1>2. /\ st \in [Ids -> RowStates] /\ mode \in [Ids -> {"queue", "steer"}]
      /\ q \in [Ids -> Nat]
  BY DEF StoreInv, StoreTypeOK
<1>3. W \in SUBSET R /\ IsFiniteSet(W) /\ M \in Nat /\ i \in W
  <2>1. W \in SUBSET R
    BY DEF WaitingOf, QueueRows
  <2>2. i \in W
    BY DEF StoreMoveQueueInput, WaitingOf, QueueRows
  <2> QED
    BY <1>1, <2>1, <2>2, FS_Subset, FS_CardinalityType
<1>4. GetWaitingQueueRows = g
  BY DEF GetWaitingQueueRows, WaitingOf, QueueRows
<1>5. W \in SUBSET Ids /\ Len(g) = M
  BY <1>1, <1>2, <1>3, InOrderSorts
<1>6. /\ st[g[1]] # "retry" /\ g[clamped + 1] # i
      /\ queue_order' = Resequenced(st, mode, q, h)
      /\ st' = st /\ mode' = mode
  BY <1>4, <1>5 DEF StoreMoveQueueInput
<1>7. Corresponds(f, W, g)
  BY <1>1, <1>2, <1>3, NthCorresponds
<1>8. /\ IsOrder(f, R) /\ f \in Seq(Ids) /\ Len(f) \in Nat /\ DOMAIN f = 1..Len(f)
      /\ \A j \in R : \E n \in DOMAIN f : f[n] = j
      /\ \A m, n \in DOMAIN f : f[m] = f[n] => m = n
      /\ \A n \in DOMAIN f : f[n] \in R
  BY <1>1 DEF Sorts, IsOrder
<1>9. clamped + 1 \in 1..M
  <2>1. M # 0
    BY <1>3, FS_EmptySet
  <2>2. toIndex \in Nat
    BY StoreInvRows
  <2> QED
    BY <1>3, <2>1, <2>2
<1> HIDE DEF f, W, g, M, slots, clamped, h, R, q
<1>10. PICK from \in slots : f[from] = i
  <2>1. PICK n \in DOMAIN f : f[n] = i
    BY <1>3, <1>8
  <2> QED
    BY <1>3, <2>1 DEF slots, SlotsOf
<1>11. PICK to \in slots : Nth(f, W, to) = clamped + 1
  BY <1>7, <1>9 DEF Corresponds, slots, M
<1>12. f[to] = g[clamped + 1] /\ to # from
  <2>1. f[to] = g[clamped + 1]
    BY <1>7, <1>11 DEF Corresponds, slots
  <2> QED
    BY <1>6, <1>10, <2>1
<1>13. slots \in SUBSET (1..Len(f))
  BY <1>7 DEF Corresponds, slots
<1> DEFINE p == [x \in DOMAIN f |-> f[Source(slots, from, to, x)]]
<1>14. ASSUME NEW x \in DOMAIN f PROVE Replaced(f, W, h, x) = f[Source(slots, from, to, x)]
  <2>1. h = InsertAt(RemoveFirst(InOrder(W, q), f[from]), Nth(f, W, to), f[from])
    BY <1>10, <1>11 DEF h, g
  <2>2. x \in 1..Len(f) /\ from \in SlotsOf(f, W) /\ to \in SlotsOf(f, W)
    BY <1>8 DEF slots
  <2> QED
    BY <1>1, <1>2, <1>3, <1>12, <2>1, <2>2, ReplacedBySource DEF slots
<1>15. queue_order' = Numbered(p, q)
  <2>1. Resequenced(st, mode, q, h) =
          Numbered([x \in DOMAIN f |-> Replaced(f, WaitingOf(st, mode), h, x)], q)
    <3>1. IsFiniteSet(QueueRowsOf(st, mode)) /\ f = InOrder(QueueRowsOf(st, mode), q)
      BY <1>1 DEF f, GetQueueRows, QueueRows, R, q
    <3> QED
      BY <1>2, <3>1, ResequencedIsNumbered
  <2>2. [x \in DOMAIN f |-> Replaced(f, W, h, x)] = p
    BY <1>14
  <2> QED
    BY <1>6, <2>1, <2>2 DEF W
<1>16. IsOrder(p, R)
  BY <1>8, <1>10, <1>11, <1>12, <1>13, MovedIsOrder
<1> HIDE DEF p
<1>17. /\ queue_order' \in [Ids -> Nat]
       /\ {queue_order'[j] : j \in R} = 1..Cardinality(R)
       /\ InOrder(R, queue_order') = p
  <2>1. /\ Numbered(p, q) \in [Ids -> Nat]
        /\ {Numbered(p, q)[j] : j \in R} = 1..Cardinality(R)
        /\ InOrder(R, Numbered(p, q)) = p
    BY <1>1, <1>2, <1>16, NumberedSorts
  <2> QED
    BY <1>15, <2>1
<1>18. QueueRows' = R
  BY <1>6 DEF QueueRows, R
<1>19. StoreInv' /\ GetQueueRows' = p
  <2>1. StoreTypeOK'
    BY <1>2, <1>6, <1>17 DEF StoreTypeOK
  <2>2. Slotted(QueueRows', queue_order')
    BY <1>17, <1>18 DEF Slotted
  <2> QED
    BY <1>1, <1>17, <1>18, <2>1, <2>2, StoreInvNext DEF GetQueueRows
<1>20. \A j \in Ids : j \in W <=> Rows!IsWaiting(j)
  BY <1>2 DEF W, WaitingOf, QueueRowsOf, Rows!IsWaiting, WaitingStates, Live
<1>21. slots = {n \in DOMAIN f : Rows!IsWaiting(f[n])}
  <2>1. \A n \in DOMAIN f : f[n] \in Ids
    BY <1>1, <1>8
  <2> QED
    BY <1>20, <2>1 DEF slots, SlotsOf
<1>22. ASSUME NEW j \in Ids, Rows!IsHead(j) PROVE st[j] # "retry"
  <2>1. PICK n \in DOMAIN f : /\ f[n] = j /\ Rows!IsWaiting(j)
                              /\ \A k \in 1..(n - 1) : ~Rows!IsWaiting(f[k])
    BY <1>22 DEF Rows!IsHead, f
  <2>2. n \in slots
    BY <2>1, <1>21
  <2>3. Counted(f, W, n) = {n}
    <3>1. \A k \in 1..n : k \in DOMAIN f /\ f[k] \in Ids
      BY <1>1, <1>8
    <3>2. \A k \in 1..n : f[k] \in W <=> k = n
      BY <1>8, <1>20, <2>1, <3>1
    <3>3. n \in 1..n
      BY <1>8
    <3> QED
      BY <3>2, <3>3 DEF Counted
  <2>4. Nth(f, W, n) = 1
    BY <2>3, FS_Singleton DEF Nth
  <2>5. g[1] = j
    BY <1>7, <2>1, <2>2, <2>4 DEF Corresponds, slots
  <2> QED
    BY <1>6, <2>5
<1>23. Rows!MoveQueueInput(i, to)
  <2>1. (CHOOSE n \in DOMAIN f : f[n] = i) = from
    BY <1>8, <1>10, <1>13
  <2>2. p = [n \in DOMAIN f |->
               IF n = to THEN i
               ELSE IF n \in Shifted(slots, from, to) THEN f[NextSlot(slots, from, to, n)]
               ELSE f[n]]
    BY <1>10 DEF p, Source
  <2>3. f[to] # i /\ Rows!IsWaiting(i)
    BY <1>3, <1>6, <1>12, <1>20
  <2>4. GetQueueRows' = [n \in DOMAIN GetQueueRows |->
               IF n = to THEN i
               ELSE IF n \in Shifted(slots, from, to)
                    THEN GetQueueRows[NextSlot(slots, from, to, n)]
               ELSE GetQueueRows[n]]
    BY <1>19, <2>2 DEF f
  <2> QED
    BY <1>6, <1>21, <1>22, <2>1, <2>3, <2>4, RowsMaxMin
    DEF Rows!MoveQueueInput, f, Shifted, NextSlot
<1>24. to \in 1..Len(GetQueueRows)
  BY <1>13 DEF f
<1> QED
  BY <1>19, <1>23, <1>24

\* The empty table is the empty lane.
LEMMA StoreStarts == StoreInit => StoreInv /\ Rows!RowsInit
<1> SUFFICES ASSUME StoreInit PROVE StoreInv /\ Rows!RowsInit
  OBVIOUS
<1>1. StoreTypeOK
  BY DEF StoreInit, StoreTypeOK, RowStates, Null
<1>2. QueueRows = {}
  BY DEF StoreInit, QueueRows, QueueRowsOf, Live
<1>3. IsFiniteSet({}) /\ Cardinality({}) = 0
  BY FS_EmptySet
<1>4. StoreInv
  BY <1>1, <1>2, <1>3 DEF StoreInv, OrdersAreSlots
<1>5. Sorts(<<>>, {}, queue_order)
  BY DEF Sorts, IsOrder
<1>6. InOrder({}, queue_order) = <<>>
  BY <1>1, <1>5, SortedIsInOrder DEF StoreTypeOK
<1>7. GetQueueRows = <<>>
  BY <1>2, <1>6 DEF GetQueueRows
<1> QED
  BY <1>4, <1>7 DEF StoreInit, Rows!RowsInit

\* Every transaction of the store is one of the lane's.
LEMMA StoreSteps ==
  StoreInv /\ [StoreNext]_storeVars => StoreInv' /\ [Rows!RowsNext]_(Rows!rowVars)
<1> SUFFICES ASSUME StoreInv, [StoreNext]_storeVars
             PROVE  StoreInv' /\ [Rows!RowsNext]_(Rows!rowVars)
  OBVIOUS
<1>1. CASE UNCHANGED storeVars
  <2>1. st' = st /\ mode' = mode /\ queue_order' = queue_order
    BY <1>1 DEF storeVars
  <2>2. StoreTypeOK' /\ QueueRows' = QueueRows
    BY <2>1 DEF StoreInv, StoreTypeOK, QueueRows
  <2>3. StoreInv' /\ GetQueueRows' = GetQueueRows
    BY <2>1, <2>2, QueueStays
  <2> QED
    BY <2>1, <2>3 DEF Rows!rowVars
<1>2. CASE StoreDeleteBySession
  BY <1>2, StoreEmpties DEF Rows!RowsNext
<1>3. ASSUME NEW i \in Ids, NEW s \in {"pending", "claimed", "retry"},
             CreateQueueInputWithState(i, s)
      PROVE  StoreInv' /\ Rows!RowsNext
  BY <1>3, StoreCreates DEF Rows!RowsNext
<1>4. ASSUME NEW i \in Ids, StoreCreateSteerInput(i) \/ Claim(i)
      PROVE  StoreInv' /\ Rows!RowsNext
  BY <1>4, StoreRestates DEF Rows!RowsNext
<1>5. ASSUME NEW i \in Ids, NEW s \in {"pending", "retry"}, ReleaseClaimed(i, s)
      PROVE  StoreInv' /\ Rows!RowsNext
  BY <1>5, StoreRestates DEF Rows!RowsNext
<1>6. ASSUME NEW i \in Ids, BlockClaimedInput(i) \/ WaitAgain(i)
      PROVE  StoreInv' /\ Rows!RowsNext
  BY <1>6, StoreRestates DEF Rows!RowsNext
<1>7. ASSUME NEW i \in Ids, NEW toIndex \in 0..Cardinality(QueueRows),
             StoreMoveQueueInput(i, toIndex)
      PROVE  StoreInv' /\ Rows!RowsNext
  BY <1>7, StoreMoves DEF Rows!RowsNext
<1>8. ASSUME NEW i \in Ids, StoreConvertQueueInputToSteer(i)
      PROVE  StoreInv' /\ Rows!RowsNext
  <2>1. mode[i] = "queue" /\ st[i] = "pending"
    BY <1>8 DEF StoreConvertQueueInputToSteer
  <2> QED
    BY <1>8, <2>1, StoreConverts DEF Rows!RowsNext
<1>9. ASSUME NEW i \in Ids, StoreConvertSteerInputToQueue(i)
      PROVE  StoreInv' /\ Rows!RowsNext
  BY <1>9, StoreQueues DEF Rows!RowsNext
<1>10. ASSUME NEW i \in Ids, DeleteInput(i) \/ ConsumeSteerInput(i)
       PROVE  StoreInv' /\ Rows!RowsNext
  BY <1>10, StoreDeletes, StoreRestates DEF Rows!RowsNext
<1> QED
  BY <1>1, <1>2, <1>3, <1>4, <1>5, <1>6, <1>7, <1>8, <1>9, <1>10 DEF StoreNext

\* The inductive invariant holds.
LEMMA StoreInvAlways == StoreSpec => []StoreInv
<1>1. StoreInit => StoreInv
  BY StoreStarts
<1>2. StoreInv /\ [StoreNext]_storeVars => StoreInv'
  BY StoreSteps
<1> QED
  BY <1>1, <1>2, PTL DEF StoreSpec

\* The live queue rows are always numbered 1, 2, ... without gap or duplicate: a deletion, a
\* conversion and a move of pendingInputStore.ts renumber what they leave.
THEOREM StoreIsConsistent == StoreSpec => []StoreConsistent
<1>1. StoreInv => StoreConsistent
  BY DEF StoreInv, StoreConsistent
<1> QED
  BY <1>1, StoreInvAlways, PTL

\* Sorting the table by queue_order gives the sequence the other modules work with: every
\* transaction of pendingInputStore.ts does to the sorted rows what PendingInputRows says.
THEOREM StoreKeepsRows == StoreSpec => RowsRefined
<1>1. StoreInit => Rows!RowsInit
  BY StoreStarts
<1>2. StoreInv /\ [StoreNext]_storeVars => [Rows!RowsNext]_(Rows!rowVars)
  BY StoreSteps
<1> QED
  BY <1>1, <1>2, StoreInvAlways, PTL DEF StoreSpec, RowsRefined, Rows!RowsSpec

=============================================================================
