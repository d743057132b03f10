--------------------------- MODULE LiveDelegation ---------------------------
(* One delegation of a parent session: its turns (src/main/orchestration),   *)
(* the child session that works on them, and the calls that run, interrupt,  *)
(* settle and, after a restart, reconcile a turn.  An action is the code     *)
(* between two awaits.  Other delegations share with this one only the       *)
(* permits, which are granted here by choice (see InvocationAdmission).      *)
(* Every turn has a task contract.                                           *)
EXTENDS Naturals, Sequences, FiniteSets
CONSTANTS
  MaxTurns,   \* bound on the turns of the delegation: the first and follow-ups
  Fails,      \* whether safety checks, creation, sending and storing may fail
  Crashes,    \* whether the process may crash
  Overtakes   \* whether a follow-up may begin before an interruption, the
              \* reconciliation or the hand-off of an earlier turn has ended
ASSUME TurnsAssumption == MaxTurns \in Nat \ {0}
ASSUME SwitchAssumption == {Fails, Crashes, Overtakes} \subseteq BOOLEAN

VARIABLES
  row,          \* status of each turn in live_delegation_turns
  begun,        \* turns with started_at, the intent to hand over
  bound,        \* child_session_id of the delegation is set
  child,        \* state of the child session
  job,          \* turn whose hand-off the child runs or ran last, or 0
  lane,         \* hand-offs the child accepted and has not begun
  held,         \* hand-offs that wait in the child for its user since a restart
  answered,     \* turn the child's last answer since the intent belongs to, or 0
  act,          \* activeTurns and the call that runs each turn
  map,          \* childToTurn of the child, or 0
  quarantined,  \* quarantinedTurns
  kill,         \* interruptions of each turn that are under way
  boundary,     \* prepareChildBoundary: its await and its turn
  recon,        \* reconcileActiveTurn: its await, its turn, what it read
  up,           \* the service is started
  events,       \* history: terminal mailbox events of each turn
  sent,         \* history: how often the child accepted each hand-off
  author,       \* history: turn whose hand-off a completed turn's answer is for
  parked        \* history: turns left recoverable after their contract failed
durable == <<row, begun, bound, events>>
session == <<child, job, lane, held, answered>>
service == <<act, map, quarantined, kill, boundary, recon, up>>
history == <<sent, author, parked>>
vars == <<durable, session, service, history>>

Turns == 1..MaxTurns
AtBoundary == {"resuming", "calling"}  \* a response or a tool call waits for the service
Works == {"generating", "asking"} \cup AtBoundary
Busy == Works \cup {"preparing", "stopping", "dropping"}
Awaits == {"off", "resume", "readmit", "safety", "find", "create", "bind", "sync", "send", "sent"}
Admission == {"resume", "readmit"}          \* the lease waits for its permit
Acquiring == {"find", "create", "bind"}     \* childAcquisition is pending
HandingOff == {"send", "sent"}              \* childHandoff is pending
Outcomes == {"completed", "failed", "interrupted"}
ActiveStatuses == {"queued", "running", "waiting"}
Active(t) == row[t] \in ActiveStatuses

(* The status the session of the child reports. *)
ChildStatus == IF child \in Busy THEN "generating" ELSE child

Blank == [in |-> FALSE, pc |-> "off", lease |-> "idle", aborted |-> FALSE, knows |-> FALSE,
          handed |-> FALSE, status |-> "none", idle |-> FALSE, ends |-> "no"]
Quiet == [pc |-> "off", turn |-> 0]
NoRecon == [pc |-> "off", turn |-> 0, knew |-> FALSE, saw |-> "none"]

Init ==
  /\ row = [t \in Turns |-> "none"] /\ begun = {} /\ bound = FALSE
  /\ events = [t \in Turns |-> 0]
  /\ child = "none" /\ job = 0 /\ lane = <<>> /\ held = <<>> /\ answered = 0
  /\ act = [t \in Turns |-> Blank] /\ map = 0 /\ quarantined = {}
  /\ kill = [t \in Turns |-> {}] /\ boundary = Quiet /\ recon = NoRecon /\ up = TRUE
  /\ sent = [t \in Turns |-> 0] /\ author = [t \in Turns |-> 0] /\ parked = {}

----------------------------------------------------------------------------
(* Parts of the handlers. *)

(* The runner of a turn returns; what is left of a turn out of activeTurns. *)
Rest(a) == IF a.in THEN [a EXCEPT !.pc = "off"] ELSE Blank
Left(a) == IF a.pc = "off" THEN Blank
           ELSE [Blank EXCEPT !.pc = a.pc, !.aborted = a.aborted, !.knows = a.knows]

(* settle, up to its first await: the permit goes back at once. *)
Settle(a, outcome) ==
  IF a.in /\ a.ends = "no" THEN [a EXCEPT !.ends = outcome, !.lease = "released"] ELSE a

(* The permit arrives at the lease: whoever awaits it goes on. *)
Grant(a) ==
  [a EXCEPT !.lease = "active",
            !.pc = IF @ = "resume" THEN "safety" ELSE IF @ = "readmit" THEN "off" ELSE @]

(* The catch of runWithAdmission for an error that is not of the contract.  A  *)
(* rejected acquisition leaves its lease suspended, and then, unless the turn  *)
(* is aborted or ending, the runner returns and the turn stays in activeTurns. *)
Throw(a) ==
  IF a.in /\ a.lease \in {"idle", "suspended"} /\ ~a.aborted /\ a.ends = "no"
  THEN [a EXCEPT !.lease = "suspended", !.pc = "off"]
  ELSE Settle(Rest(a), IF a.aborted THEN "interrupted" ELSE "failed")

(* applyRuntimeStatus, up to its await; idle is checked for safety first. *)
Apply(a) ==
  IF ~a.in \/ ~a.handed \/ a.ends # "no" THEN a
  ELSE IF a.aborted THEN Settle(a, "interrupted")
  ELSE IF a.status = "error" THEN Settle(a, "failed")
  ELSE [a EXCEPT !.idle = @ \/ a.status = "idle"]

(* handleRuntimeUpdate of a status: only the turn the child is mapped to hears it. *)
Heard(status) ==
  act' = IF map # 0 /\ act[map].in /\ act[map].ends = "no"
         THEN [act EXCEPT ![map] = Apply([@ EXCEPT !.status = status])] ELSE act

(* cancelConversation: the run of the child stops; a message it accepted and has *)
(* not begun to answer is dropped.                                               *)
CancelChild ==
  /\ child' = IF child \in Works THEN "stopping"
              ELSE IF child = "preparing" \/ (child \notin Busy /\ lane # <<>>) THEN "dropping"
              ELSE child
  /\ lane' = IF child \in Busy THEN lane ELSE <<>>

(* Mutant of Finish: a turn that has already ended is ended once more. *)
FinishAgain(t, outcome) ==
  /\ row' = [row EXCEPT ![t] = outcome]
  /\ events' = [events EXCEPT ![t] = @ + 1]
  /\ author' = IF outcome = "completed" THEN [author EXCEPT ![t] = answered] ELSE author

(* finishTurn: status and mailbox event in one transaction, once. *)
Finish(t, outcome) ==
  IF Active(t)
  THEN /\ row' = [row EXCEPT ![t] = outcome]
       /\ events' = [events EXCEPT ![t] = @ + 1]
       /\ author' = IF outcome = "completed" THEN [author EXCEPT ![t] = answered] ELSE author
  ELSE UNCHANGED <<row, events, author>>

(* Mutant of Mark: an answer of an earlier turn counts for this one. *)
MarkStale(t, status) ==
  /\ row' = [row EXCEPT ![t] = status] /\ begun' = begun \cup {t} /\ UNCHANGED answered

(* updateActiveTurn: the first status after queued records started_at. *)
Mark(t, status) ==
  /\ row' = [row EXCEPT ![t] = status]
  /\ begun' = begun \cup {t}
  /\ answered' = IF t \in begun THEN answered ELSE 0

(* interruptUnverifiedTurn, up to the end of its cancellation. *)
Unverified(t, a) ==
  IF ~a.in \/ a.ends # "no"
  THEN act' = [act EXCEPT ![t] = a] /\ UNCHANGED <<kill, child, lane>>
  ELSE /\ act' = [act EXCEPT ![t] = [a EXCEPT !.aborted = TRUE]]
       /\ kill' = [kill EXCEPT ![t] = @ \cup {"unverified"}]
       /\ IF a.knows THEN CancelChild ELSE UNCHANGED <<child, lane>>

----------------------------------------------------------------------------
(* Calls of the parent. *)

Begin(t, knows) ==
  /\ row' = [row EXCEPT ![t] = "queued"]
  /\ act' = [act EXCEPT ![t] = [Blank EXCEPT !.in = TRUE, !.pc = "resume", !.knows = knows]]
  /\ map' = IF knows THEN t ELSE map

Spawn ==
  /\ up /\ row[1] = "none"
  /\ Begin(1, FALSE)
  /\ UNCHANGED <<begun, bound, events, session, quarantined, kill, boundary, recon, up, history>>

(* A follow-up needs an idle child and a delegation without an active turn. *)
FollowUp(t) ==
  /\ up /\ t > 1 /\ row[t] = "none" /\ row[t - 1] # "none"
  /\ \A s \in Turns : ~Active(s)
  /\ child # "none" /\ ChildStatus # "generating"
  /\ Overtakes \/ (recon.pc = "off" /\ lane = <<>> /\ \A s \in Turns : kill[s] = {})
  /\ Begin(t, bound)
  /\ UNCHANGED <<begun, bound, events, session, quarantined, kill, boundary, recon, up, history>>

(* interruptDelegation of a turn in activeTurns: it waits for the creation of *)
(* the child, the hand-off and the cancellation that are under way.           *)
Interrupt(t) ==
  /\ up /\ act[t].in /\ "drain" \notin kill[t]
  /\ act' = [act EXCEPT ![t].aborted = TRUE]
  /\ kill' = [kill EXCEPT ![t] = @ \cup {"drain"}]
  /\ IF act[t].knows THEN CancelChild ELSE UNCHANGED <<child, lane>>
  /\ UNCHANGED <<durable, job, held, answered, map, quarantined, boundary, recon, up, history>>

(* interruptDelegation of a turn nobody runs: it waits to be reconciled, is    *)
(* quarantined or was left recoverable.                                        *)
InterruptUnowned(t) ==
  /\ up /\ Active(t) /\ \A s \in Turns : ~act[s].in
  /\ Finish(t, "interrupted")
  /\ IF bound THEN kill' = [kill EXCEPT ![t] = @ \cup {"unowned"}] /\ CancelChild
     ELSE UNCHANGED <<kill, child, lane>>
  /\ quarantined' = IF bound THEN quarantined ELSE quarantined \ {t}
  /\ UNCHANGED <<begun, bound, job, held, answered, act, map, boundary, recon, up, sent, parked>>

Interrupted(t) ==
  \/ /\ "drain" \in kill[t] /\ act[t].pc \notin Acquiring \cup HandingOff
     /\ act' = [act EXCEPT ![t] = Settle(@, "interrupted")]
     /\ kill' = [kill EXCEPT ![t] = @ \ {"drain"}]
     /\ UNCHANGED <<map, quarantined>>
  \/ /\ "unverified" \in kill[t]
     /\ act' = [act EXCEPT ![t] = Settle(@, "interrupted")]
     /\ kill' = [kill EXCEPT ![t] = @ \ {"unverified"}]
     /\ UNCHANGED <<map, quarantined>>
  \/ /\ "unowned" \in kill[t]
     /\ map' = 0 /\ quarantined' = quarantined \ {t}
     /\ kill' = [kill EXCEPT ![t] = @ \ {"unowned"}]
     /\ UNCHANGED act

InterruptEnds(t) ==
  /\ Interrupted(t)
  /\ UNCHANGED <<durable, session, boundary, recon, up, history>>

----------------------------------------------------------------------------
(* runWithAdmission and executeTurn. *)

Admitted(t) ==
  /\ act[t].pc \in Admission /\ ~act[t].aborted /\ act[t].in /\ act[t].ends = "no"
  /\ act' = [act EXCEPT ![t] = Grant(@)]
  /\ UNCHANGED <<durable, session, map, quarantined, kill, boundary, recon, up, history>>

(* The queue is full, admission is closed, or the turn was aborted or let go.  *)
NotAdmitted(t) ==
  /\ act[t].pc \in Admission
  /\ act[t].aborted \/ ~act[t].in \/ act[t].ends # "no" \/ Fails
  /\ act' = [act EXCEPT ![t] = Throw(@)]
  /\ UNCHANGED <<durable, session, map, quarantined, kill, boundary, recon, up, history>>

(* The safety of the parent was resolved; then the child is looked for. *)
Checked(t) ==
  /\ act[t].pc = "safety"
  /\ \/ ~act[t].aborted /\ act' = [act EXCEPT ![t].pc = "find"]
     \/ (act[t].aborted \/ Fails) /\ act' = [act EXCEPT ![t] = Throw(@)]
  /\ UNCHANGED <<durable, session, map, quarantined, kill, boundary, recon, up, history>>

(* The child is known: bindChild, which may fail, or an end if the turn was    *)
(* aborted meanwhile; either end cancels the child.                            *)
Bind(t) ==
  IF t > 1 /\ ChildStatus = "generating"
  THEN act' = [act EXCEPT ![t] = Throw(@)] /\ UNCHANGED <<bound, child, lane>>
  ELSE \/ /\ ~act[t].aborted /\ bound' = TRUE
          /\ act' = [act EXCEPT ![t].knows = TRUE, ![t].pc = "sync"]
          /\ UNCHANGED <<child, lane>>
       \/ /\ \/ act[t].aborted /\ bound' = TRUE
             \/ Fails /\ UNCHANGED bound
          /\ CancelChild /\ act' = [act EXCEPT ![t] = Throw([@ EXCEPT !.knows = TRUE])]

(* acquireAndBindChild: a child that an earlier attempt created is found again. *)
Acquire(t) ==
  /\ \/ /\ act[t].pc = "find" /\ child # "none" /\ Bind(t)
     \/ /\ act[t].pc = "find" /\ child = "none"
        /\ act' = [act EXCEPT ![t] = IF @.aborted THEN Throw(@) ELSE [@ EXCEPT !.pc = "create"]]
        /\ UNCHANGED <<bound, child, lane>>
     \/ /\ act[t].pc = "create"
        /\ child' = "idle"
        /\ act' = [act EXCEPT ![t].pc = "bind"]
        /\ UNCHANGED <<bound, lane>>
     \/ act[t].pc = "bind" /\ Bind(t)
  /\ UNCHANGED <<row, begun, events, job, held, answered, map, quarantined, kill, boundary, recon, up,
                 history>>

AcquireFails(t) ==
  /\ Fails /\ act[t].pc \in {"find", "create"}
  /\ act' = [act EXCEPT ![t] = Throw(@)]
  /\ UNCHANGED <<durable, session, map, quarantined, kill, boundary, recon, up, history>>

(* Mutant of HandOff: the message is sent before the intent is written. *)
HandOffFirst(t) ==
  /\ act[t].pc = "sync" /\ Active(t) /\ ~act[t].aborted
  /\ map' = t /\ act' = [act EXCEPT ![t].pc = "send"]
  /\ UNCHANGED <<durable, session, quarantined, kill, boundary, recon, up, history>>

(* After the safety of the child: the contract is inherited, the child is       *)
(* mapped, the intent is written, and the message is on its way.                *)
HandOff(t) ==
  /\ act[t].pc = "sync" /\ Active(t) /\ ~act[t].aborted
  /\ map' = t
  /\ Mark(t, "running")
  /\ act' = [act EXCEPT ![t].pc = "send"]
  /\ UNCHANGED <<bound, events, child, job, held, lane, quarantined, kill, boundary, recon, up, history>>

HandOffFails(t) ==
  /\ act[t].pc = "sync" /\ (act[t].aborted \/ Fails)
  /\ act' = [act EXCEPT ![t] = Throw(@)]
  /\ UNCHANGED <<durable, session, map, quarantined, kill, boundary, recon, up, history>>

(* parkTaskContractBoundary: the contract could not be inherited. *)
Park(t) ==
  /\ act[t].pc = "sync" /\ act[t].in /\ (Fails \/ ~Active(t))
  /\ act' = [act EXCEPT ![t] = Blank]
  /\ map' = 0
  /\ parked' = parked \cup {t}
  /\ UNCHANGED <<durable, session, quarantined, kill, boundary, recon, up, sent, author>>

(* sendConversationMessage: the child accepts, and later the call returns. *)
Accepted(t) ==
  /\ act[t].pc = "send"
  /\ lane' = Append(lane, t)
  /\ sent' = [sent EXCEPT ![t] = @ + 1]
  /\ act' = [act EXCEPT ![t].pc = "sent"]
  /\ UNCHANGED <<durable, child, job, held, answered, map, quarantined, kill, boundary, recon, up,
                 author, parked>>

SendFails(t) ==
  /\ Fails /\ act[t].pc = "send"
  /\ act' = [act EXCEPT ![t] = Throw(@)]
  /\ UNCHANGED <<durable, session, map, quarantined, kill, boundary, recon, up, history>>

(* Mutant of SendReturns: what the child reported before the call returned is lost. *)
SendReturnsDeaf(t) ==
  /\ act[t].pc = "sent"
  /\ act' = [act EXCEPT ![t] = Rest([@ EXCEPT !.handed = TRUE])]
  /\ UNCHANGED <<durable, session, map, quarantined, kill, boundary, recon, up, history>>

SendReturns(t) ==
  /\ act[t].pc = "sent"
  /\ IF act[t].aborted
     THEN /\ act' = [act EXCEPT ![t] = Settle(Rest([@ EXCEPT !.handed = TRUE]), "interrupted")]
          /\ CancelChild
     ELSE /\ act' = [act EXCEPT ![t] = Apply(Rest([@ EXCEPT !.handed = TRUE]))]
          /\ UNCHANGED <<child, lane>>
  /\ UNCHANGED <<durable, job, held, answered, map, quarantined, kill, boundary, recon, up, history>>

Run(t) == Admitted(t) \/ Checked(t) \/ Acquire(t) \/ HandOff(t) \/ Accepted(t) \/ SendReturns(t)
RunFails(t) == NotAdmitted(t) \/ AcquireFails(t) \/ HandOffFails(t) \/ Park(t) \/ SendFails(t)

----------------------------------------------------------------------------
(* The end of a turn. *)

(* The child reported idle; its safety is checked before the turn completes. *)
IdleChecked(t) ==
  /\ act[t].idle
  /\ \/ /\ ~act[t].aborted
        /\ act' = [act EXCEPT ![t] = Settle([@ EXCEPT !.idle = FALSE], "completed")]
        /\ UNCHANGED <<kill, child, lane>>
     \/ (act[t].aborted \/ Fails) /\ Unverified(t, [act[t] EXCEPT !.idle = FALSE])
  /\ UNCHANGED <<durable, job, held, answered, map, quarantined, boundary, recon, up, history>>

(* settle, after the answer of the child was looked up and its tape linked: a  *)
(* turn without an answer of its own time did not complete.                    *)
Outcome(a) ==
  IF a.aborted THEN "interrupted"
  ELSE IF a.ends = "completed" /\ answered = 0 THEN "failed" ELSE a.ends

Settled(t) ==
  /\ act[t].in /\ act[t].ends # "no"
  /\ \/ Finish(t, Outcome(act[t])) /\ UNCHANGED parked
     \/ Fails /\ act[t].knows /\ act[t].handed /\ Finish(t, "failed") /\ UNCHANGED parked
     \/ Fails /\ parked' = parked \cup {t} /\ UNCHANGED <<row, events, author>>
  /\ map' = IF act[t].knows THEN 0 ELSE map
  /\ act' = [act EXCEPT ![t] = Left(@)]
  /\ UNCHANGED <<begun, bound, session, quarantined, kill, boundary, recon, up, sent>>

----------------------------------------------------------------------------
(* The child session: it runs what it accepted, reports its status at once,   *)
(* may ask for a permission or an answer, and calls the service at its        *)
(* boundaries.                                                                *)

ChildStarts ==
  /\ up /\ lane # <<>> /\ child \in {"idle", "error"}
  /\ child' = "preparing" /\ job' = Head(lane) /\ lane' = Tail(lane)
  /\ Heard("generating")
  /\ UNCHANGED <<durable, held, answered, map, quarantined, kill, boundary, recon, up, history>>

(* prepareTaskContractContext: the child runs only for the turn it is mapped   *)
(* to, or for none.                                                            *)
MayRun == /\ map \notin quarantined
          /\ IF \E t \in Turns : Active(t) THEN map # 0 /\ Active(map) ELSE map = 0

ChildPrepares ==
  /\ child = "preparing"
  /\ \/ MayRun /\ child' = "generating" /\ UNCHANGED act
     \/ (~MayRun \/ Fails) /\ child' = "error" /\ Heard("error")
  /\ UNCHANGED <<durable, job, held, lane, answered, map, quarantined, kill, boundary, recon, up, history>>

(* Mutant of ChildAsks: an admission under way goes on. *)
ChildAsksInTurn ==
  /\ child = "generating" /\ child' = "asking"
  /\ IF map # 0 /\ act[map].in /\ act[map].ends = "no"
     THEN /\ act' = [act EXCEPT ![map].lease = "suspended"] /\ Mark(map, "waiting")
     ELSE UNCHANGED <<act, row, begun, answered>>
  /\ UNCHANGED <<bound, events, job, held, lane, map, quarantined, kill, boundary, recon, up, history>>

(* The permit is given back, also by a turn that waits for one. *)
Suspend(a) ==
  IF a.pc \in Admission /\ a.aborted THEN Throw(a)
  ELSE [a EXCEPT !.lease = "suspended", !.pc = IF @ \in Admission THEN "off" ELSE @]

(* An interaction. *)
ChildAsks ==
  /\ child = "generating"
  /\ child' = "asking"
  /\ IF map # 0 /\ act[map].in /\ act[map].ends = "no"
     THEN /\ act' = [act EXCEPT ![map] = Suspend(@)]
          /\ Mark(map, "waiting")
     ELSE UNCHANGED <<act, row, begun, answered>>
  /\ UNCHANGED <<bound, events, job, held, lane, map, quarantined, kill, boundary, recon, up, history>>

(* The child writes again after an interaction. *)
ChildProgresses ==
  /\ child = "generating" /\ map # 0
  /\ act[map].in /\ act[map].ends = "no" /\ act[map].handed
  /\ act[map].status = "generating" /\ act[map].lease = "active" /\ row[map] = "waiting"
  /\ Mark(map, "running")
  /\ UNCHANGED <<bound, events, child, job, held, lane, service, history>>

ChildEnds ==
  /\ \/ /\ child = "generating" /\ child' = "idle" /\ answered' \in {job, answered}
     \/ /\ child = "generating" /\ child' = "error" /\ UNCHANGED answered
     \/ /\ child = "stopping" /\ child' = "idle" /\ answered' \in {job, answered}
     \/ /\ child = "dropping" /\ child' = "idle" /\ UNCHANGED answered
  /\ Heard(child')
  /\ UNCHANGED <<durable, job, held, lane, map, quarantined, kill, boundary, recon, up, history>>

(* The user resumes the lane of the child while its hand-off is still awaited. *)
UserResumes ==
  /\ up /\ held # <<>> /\ child \in {"idle", "error"} /\ lane = <<>>
  /\ Active(Head(held))
  /\ lane' = held /\ held' = <<>>
  /\ UNCHANGED <<durable, child, job, answered, service, history>>

(* The user stops the child from its own window. *)
UserStops ==
  /\ up /\ child \notin {"stopping", "dropping"} /\ (child \in Busy \/ lane # <<>>)
  /\ CancelChild
  /\ UNCHANGED <<durable, job, held, answered, service, history>>

(* prepareChildBoundary: the user responds, or a tool is called without a permit. *)
EnterBoundary ==
  /\ up /\ child \in {"asking", "generating"} /\ map # 0 /\ map \notin quarantined
  /\ act[map].in /\ act[map].ends = "no" /\ ~act[map].aborted
  /\ child = "generating" => act[map].lease # "active"
  /\ child' = IF child = "asking" THEN "resuming" ELSE "calling"
  /\ boundary' = [pc |-> IF act[map].lease = "active" THEN "resume" ELSE "sync", turn |-> map]
  /\ UNCHANGED <<durable, job, held, lane, answered, act, map, quarantined, kill, recon, up, history>>

(* A response while the child is mapped to no turn asks for no permit. *)
RespondUnmapped ==
  /\ up /\ child = "asking" /\ map = 0
  /\ child' = "generating"
  /\ UNCHANGED <<durable, job, held, lane, answered, service, history>>

Goes == /\ boundary.pc # "off" /\ child \in AtBoundary /\ ~act[boundary.turn].aborted
        /\ act[boundary.turn].in /\ act[boundary.turn].ends = "no"

(* Safety, the permit, safety again; a further interaction gives the permit back. *)
PassBoundary ==
  /\ Goes
  /\ \/ /\ boundary.pc = "sync"
        /\ boundary' = [boundary EXCEPT !.pc = "resume"] /\ UNCHANGED <<act, child>>
     \/ /\ boundary.pc = "resume"
        /\ boundary' = [boundary EXCEPT !.pc = "check"]
        /\ act' = [act EXCEPT ![boundary.turn] = Grant(@)] /\ UNCHANGED child
     \/ /\ boundary.pc = "check"
        /\ boundary' = Quiet /\ child' = "generating" /\ UNCHANGED act
     \/ /\ boundary.pc = "check" /\ child = "resuming"
        /\ boundary' = Quiet /\ child' = "asking"
        /\ act' = IF row[boundary.turn] = "waiting"
                  THEN [act EXCEPT ![boundary.turn].lease = "suspended"] ELSE act
  /\ UNCHANGED <<durable, job, held, lane, answered, map, quarantined, kill, recon, up, history>>

(* A boundary that fails interrupts its turn.  If the turn ends by itself, the  *)
(* boundary fails after it: a response leaves the interaction, a call the run. *)
FailBoundary ==
  /\ boundary.pc # "off" /\ (~Goes \/ Fails)
  /\ boundary' = Quiet
  /\ \/ /\ act[boundary.turn].in /\ act[boundary.turn].ends = "no"
        /\ Unverified(boundary.turn, act[boundary.turn])
     \/ /\ ~act[boundary.turn].in
        /\ child' = IF child \in AtBoundary
                    THEN IF child = "resuming" THEN "asking" ELSE "generating" ELSE child
        /\ UNCHANGED <<act, kill, lane>>
  /\ UNCHANGED <<durable, job, held, answered, map, quarantined, recon, up, history>>

(* beforeToolExecution with a permit: the safety of the parent changed. *)
ToolRefused ==
  /\ Fails /\ child = "generating" /\ map # 0 /\ map \notin quarantined
  /\ act[map].in /\ act[map].ends = "no"
  /\ Unverified(map, act[map])
  /\ UNCHANGED <<durable, job, held, answered, map, quarantined, boundary, recon, up, history>>

----------------------------------------------------------------------------
(* Crash and restart. *)

(* Messages the child has not begun to answer wait for its user; an interaction *)
(* survives, a run and a message that is being dropped do not.                  *)
Crash ==
  /\ Crashes /\ up
  /\ up' = FALSE
  /\ child' = IF child \in {"asking", "resuming"} THEN "asking"
              ELSE IF child \in Busy THEN "idle" ELSE child
  /\ held' = held \o (IF child = "preparing" THEN <<job>> ELSE <<>>) \o lane
  /\ lane' = <<>>
  /\ act' = [t \in Turns |-> Blank] /\ map' = 0 /\ quarantined' = {}
  /\ kill' = [t \in Turns |-> {}] /\ boundary' = Quiet /\ recon' = NoRecon
  /\ parked' = {}
  /\ UNCHANGED <<durable, job, answered, sent, author>>

(* start: children of active turns are mapped before anything is awaited. *)
Start ==
  /\ ~up
  /\ up' = TRUE
  /\ IF \E t \in Turns : Active(t)
     THEN LET t == CHOOSE u \in Turns : Active(u) IN
          /\ map' = IF bound THEN t ELSE 0
          /\ recon' = [pc |-> "look", turn |-> t, knew |-> bound, saw |-> "none"]
     ELSE UNCHANGED <<map, recon>>
  /\ UNCHANGED <<durable, session, act, quarantined, kill, boundary, history>>

(* The lookup reads the status of the child some awaits before it returns. *)
Look ==
  /\ recon.pc = "look"
  /\ recon' = [recon EXCEPT !.pc = "found", !.saw = ChildStatus]
  /\ UNCHANGED <<durable, session, act, map, quarantined, kill, boundary, up, history>>

(* failReconciliation for an error that is not of the contract. *)
LookFails ==
  /\ Fails /\ recon.pc # "off"
  /\ Finish(recon.turn, "interrupted")
  /\ map' = IF recon.knew THEN 0 ELSE map
  /\ recon' = NoRecon
  /\ UNCHANGED <<begun, bound, session, act, quarantined, kill, boundary, up, sent, parked>>

(* A turn that ended while the child was looked up is left alone. *)
ReconcileOver ==
  /\ recon.pc = "found" /\ ~Active(recon.turn)
  /\ map' = IF recon.knew THEN 0 ELSE map
  /\ recon' = NoRecon
  /\ UNCHANGED <<durable, session, act, quarantined, kill, boundary, up, history>>

ReconcileLost ==
  /\ recon.pc = "found" /\ Active(recon.turn) /\ recon.saw = "none"
  /\ Finish(recon.turn, "interrupted")
  /\ map' = IF bound THEN 0 ELSE map
  /\ recon' = NoRecon
  /\ UNCHANGED <<begun, bound, session, act, quarantined, kill, boundary, up, sent, parked>>

(* failReconciliation for an error of the contract: the turn is quarantined. *)
Quarantine ==
  /\ Fails /\ recon.pc = "found" /\ Active(recon.turn) /\ recon.saw # "none"
  /\ recon.saw = "generating" \/ recon.turn \in begun
  /\ bound' = TRUE
  /\ quarantined' = quarantined \cup {recon.turn}
  /\ map' = recon.turn
  /\ CancelChild
  /\ recon' = NoRecon
  /\ UNCHANGED <<row, begun, events, job, held, answered, act, kill, boundary, up, history>>

(* A turn is adopted: a child that runs keeps its turn, one that waits keeps it *)
(* without a permit, an intent never written is carried out, and an idle child  *)
(* has ended its turn.                                                          *)
Adopt ==
  /\ recon.pc = "found" /\ Active(recon.turn) /\ recon.saw # "none"
  /\ LET t == recon.turn
         runs == recon.saw = "generating"
         new == [Blank EXCEPT !.in = TRUE, !.knows = TRUE, !.status = recon.saw,
                              !.handed = runs \/ t \in begun]
     IN  /\ act' = [act EXCEPT ![t] =
                      IF runs THEN [new EXCEPT !.pc = IF row[t] = "waiting" THEN "off" ELSE "readmit"]
                      ELSE IF t \notin begun THEN [new EXCEPT !.pc = "resume", !.status = "none"]
                      ELSE Settle(new, IF recon.saw = "error" THEN "failed" ELSE "completed")]
         /\ IF runs /\ t \notin begun THEN Mark(t, "running") ELSE UNCHANGED <<row, begun, answered>>
         /\ map' = t
  /\ bound' = TRUE
  /\ recon' = NoRecon
  /\ UNCHANGED <<events, child, job, held, lane, quarantined, kill, boundary, up, history>>

Reconcile == ReconcileOver \/ ReconcileLost \/ Adopt

----------------------------------------------------------------------------
Child == ChildStarts \/ ChildPrepares \/ ChildAsks \/ ChildProgresses \/ ChildEnds
Bounds == PassBoundary \/ FailBoundary
Next ==
  \/ Spawn \/ UserResumes \/ UserStops \/ EnterBoundary \/ RespondUnmapped \/ ToolRefused
  \/ Child \/ Bounds \/ Look \/ LookFails \/ Reconcile \/ Quarantine \/ Crash \/ Start
  \/ \E t \in Turns :
       FollowUp(t) \/ Interrupt(t) \/ InterruptUnowned(t) \/ InterruptEnds(t) \/ Run(t)
         \/ RunFails(t) \/ IdleChecked(t) \/ Settled(t)

Spec == Init /\ [][Next]_vars

(* Calls that were made end, permits are granted in turn, and the child works; *)
(* nobody has to answer it, and nothing has to fail.                           *)
FairSpec ==
  /\ Spec
  /\ \A t \in Turns : WF_vars(Run(t)) /\ WF_vars(RunFails(t) /\ act[t].aborted)
                      /\ WF_vars(InterruptEnds(t)) /\ WF_vars(IdleChecked(t)) /\ WF_vars(Settled(t))
  /\ WF_vars(ChildStarts) /\ WF_vars(ChildPrepares) /\ WF_vars(ChildEnds)
  /\ WF_vars(Bounds) /\ WF_vars(Look) /\ WF_vars(Reconcile)

----------------------------------------------------------------------------
ActiveTurn ==
  [in : BOOLEAN, pc : Awaits, lease : {"idle", "active", "suspended", "released"},
   aborted : BOOLEAN, knows : BOOLEAN, handed : BOOLEAN,
   status : {"none", "idle", "generating", "error"}, idle : BOOLEAN, ends : {"no"} \cup Outcomes]

TypeOK ==
  /\ row \in [Turns -> {"none"} \cup ActiveStatuses \cup Outcomes]
  /\ begun \subseteq Turns /\ bound \in BOOLEAN /\ events \in [Turns -> Nat]
  /\ child \in {"none", "idle", "error"} \cup Busy
  /\ job \in 0..MaxTurns /\ lane \in Seq(Turns) /\ held \in Seq(Turns) /\ answered \in 0..MaxTurns
  /\ act \in [Turns -> ActiveTurn]
  /\ map \in 0..MaxTurns /\ quarantined \subseteq Turns
  /\ kill \in [Turns -> SUBSET {"drain", "unverified", "unowned"}]
  /\ boundary \in [pc : {"off", "sync", "resume", "check"}, turn : 0..MaxTurns]
  /\ recon \in [pc : {"off", "look", "found"}, turn : 0..MaxTurns, knew : BOOLEAN,
                saw : {"none", "idle", "generating", "error"}]
  /\ up \in BOOLEAN /\ sent \in [Turns -> Nat] /\ author \in [Turns -> 0..MaxTurns]
  /\ parked \subseteq Turns

(* A turn in activeTurns has an active row, and there is one such turn at most. *)
OneLiveTurn ==
  /\ \A t \in Turns : act[t].in => Active(t)
  /\ \A s, t \in Turns : Active(s) /\ Active(t) => s = t

(* An active row is in activeTurns, is reconciled, or was left recoverable.  *)
ActiveRowIsOwned ==
  up => \A t \in Turns :
          Active(t) => \/ act[t].in \/ t \in parked \/ t \in quarantined
                       \/ recon.pc # "off" /\ recon.turn = t

(* Every turn that ended put one event in the mailbox of its parent. *)
OneEventPerEnd == \A t \in Turns : events[t] = IF row[t] \in Outcomes THEN 1 ELSE 0

(* Through failures, interruptions and restarts at any await, a delegation    *)
(* has one live turn, each active turn is in activeTurns, awaits its          *)
(* reconciliation or was left to be recovered, and each turn that ended told  *)
(* its parent once.                                                           *)
Consistent == TypeOK /\ OneLiveTurn /\ ActiveRowIsOwned /\ OneEventPerEnd

(* The hand-off of a turn reaches the child once, although the call may crash *)
(* before or after the child accepts it: the intent is written before sending.*)
(* (sendChildHandoff, reconcileActiveTurn)                                    *)
HandedOverOnce == \A t \in Turns : sent[t] <= 1

(* A turn recorded as waiting holds no permit while its child waits for the   *)
(* user, although admissions, boundaries and adoption grant permits at their  *)
(* own time.  (handleRuntimeUpdate, prepareChildBoundary)                     *)
WaitingHoldsNoPermit ==
  \A t \in Turns :
    act[t].in /\ map = t /\ child = "asking" /\ row[t] = "waiting" => act[t].lease # "active"

(* A turn completes with the answer to its own hand-off, never with one that  *)
(* an earlier turn left in the child.  (resolvePersistedResult)               *)
CompletedByItsAnswer == \A t \in Turns : row[t] = "completed" => author[t] = t

(* What the service did not hear: the child changed while it was looked up,   *)
(* or it is mapped to no turn.                                                *)
Deaf(t) == /\ act[t].in /\ act[t].handed /\ act[t].ends = "no"
           /\ \/ map # t
              \/ child \in {"idle", "error"} /\ lane = <<>> /\ act[t].status # child

(* A turn without a permit whose runner returned before the hand-off: it stays *)
(* in activeTurns until it is interrupted or the process restarts.             *)
Stranded(t) == /\ act[t].in /\ act[t].pc = "off" /\ act[t].lease = "suspended"
               /\ ~act[t].handed /\ act[t].ends = "no"

(* An active turn ends, unless its contract parked or quarantined it, its      *)
(* child waits for the user, a report was not heard, its permit was refused    *)
(* before the hand-off or the process is down.  A turn that is refused a       *)
(* permit while its child works for it ends with its child.                    *)
(* (runWithAdmission, executeTurn, applyRuntimeStatus, settle)                 *)
TurnsEnd ==
  \A t \in Turns : Active(t) ~> \/ ~Active(t) \/ t \in parked \cup quarantined \/ ~up
                                \/ child = "asking" \/ Deaf(t) \/ Stranded(t)
=============================================================================
