----------------------- MODULE LiveDelegationProofs ------------------------
(***************************************************************************)
(* Theorems about the turns of a delegation, for any number of turns and   *)
(* any combination of failures and crashes, also when a follow-up begins   *)
(* before an earlier turn is let go: types are kept, the hand-off of a     *)
(* turn reaches the child once at most, one turn of a delegation is live,  *)
(* an active turn is in activeTurns, awaits its reconciliation or was left *)
(* to be recovered, a turn that ended told its parent once, and a turn     *)
(* that waits holds no permit.  When a follow-up waits until earlier turns *)
(* are let go, a turn completes with the answer to its own hand-off.       *)
(***************************************************************************)
EXTENDS LiveDelegation, TLAPS, SequenceTheorems

Kills == {"drain", "unverified", "unowned"}
Statuses == {"none", "idle", "generating", "error"}

\* Awaits at which the hand-off of a turn is still to come.
ToSend == {"resume", "safety", "find", "create", "bind", "sync", "send"}

\* A call that is under way has a turn, and so has a child that begins to run.
CallsHaveTurns ==
  /\ boundary.pc # "off" => boundary.turn \in Turns
  /\ recon.pc # "off" => recon.turn \in Turns
  /\ child = "preparing" => job \in Turns

TypeInv == TypeOK /\ CallsHaveTurns

\* A hand-off is written down before it is made, and made from one await only.
IntentComesFirst ==
  \A t \in Turns :
    /\ row[t] = "none" => t \notin begun
    /\ t \notin begun => sent[t] = 0
    /\ act[t].pc \in ToSend => sent[t] = 0
    /\ act[t].pc = "send" => t \in begun

HandOffInv == TypeInv /\ IntentComesFirst /\ HandedOverOnce

(***************************************************************************)
(* What the parts of the handlers make of a turn.                          *)
(***************************************************************************)

\* A permit moves a turn from an admission to the await behind it, and no other turn.
LEMMA GrantForms ==
  ASSUME NEW a \in ActiveTurn
  PROVE  \E pc \in Awaits \ Admission :
           /\ Grant(a) = [a EXCEPT !.lease = "active", !.pc = pc]
           /\ \/ pc = a.pc
              \/ a.pc = "resume" /\ pc = "safety"
              \/ a.pc = "readmit" /\ pc = "off"
<1>1. /\ a.pc \in Awaits /\ {"safety", "off"} \subseteq Awaits \ Admission
      /\ Admission = {"resume", "readmit"}
  BY DEF ActiveTurn, Awaits, Admission
<1>2. CASE a.pc = "resume"
  BY <1>1, <1>2 DEF Grant
<1>3. CASE a.pc = "readmit"
  BY <1>1, <1>3 DEF Grant
<1>4. CASE a.pc \notin Admission
  BY <1>1, <1>4 DEF Grant
<1> QED
  BY <1>1, <1>2, <1>3, <1>4

\* The catch leaves a turn without a permit where it is, and ends any other; a turn that is
\* aborted ends.
LEMMA ThrowForms ==
  ASSUME NEW a \in ActiveTurn
  PROVE  \/ /\ Throw(a) = [a EXCEPT !.lease = "suspended", !.pc = "off"]
            /\ a.in /\ ~a.aborted
         \/ \E outcome \in {"interrupted", "failed"} : Throw(a) = Settle(Rest(a), outcome)
BY DEF Throw

\* Settling, in each of its forms, leaves the record of a turn at the await it was, or at none.
LEMMA PartsKeepTurns ==
  /\ Blank \in ActiveTurn /\ Blank.pc = "off"
  /\ \A a \in ActiveTurn :
       /\ Rest(a) \in ActiveTurn /\ Rest(a).pc = "off"
       /\ Left(a) \in ActiveTurn /\ Left(a).pc = a.pc
       /\ Throw(a) \in ActiveTurn /\ Throw(a).pc = "off"
       /\ Suspend(a) \in ActiveTurn /\ Suspend(a).pc \in {a.pc, "off"}
       /\ Apply(a) \in ActiveTurn /\ Apply(a).pc = a.pc
       /\ Outcome(a) \in Outcomes \cup {"no"}
       /\ \A outcome \in Outcomes :
            Settle(a, outcome) \in ActiveTurn /\ Settle(a, outcome).pc = a.pc
<1> USE DEF ActiveTurn
<1>0. "off" \in Awaits /\ "none" \in Statuses /\ "no" \notin Outcomes
      /\ {"completed", "failed", "interrupted"} = Outcomes
  BY DEF Awaits, Statuses, Outcomes
<1>1. Blank \in ActiveTurn /\ Blank.pc = "off"
  BY <1>0 DEF Blank, Statuses
<1>2. ASSUME NEW a \in ActiveTurn PROVE Rest(a) \in ActiveTurn /\ Rest(a).pc = "off"
  BY <1>0, <1>1 DEF Rest
<1>3. ASSUME NEW a \in ActiveTurn PROVE Left(a) \in ActiveTurn /\ Left(a).pc = a.pc
  BY <1>0, <1>1, ZenonT(30) DEF Left, Blank
<1>4. ASSUME NEW a \in ActiveTurn, NEW outcome \in Outcomes
      PROVE  Settle(a, outcome) \in ActiveTurn /\ Settle(a, outcome).pc = a.pc
  BY DEF Settle
<1>5. ASSUME NEW a \in ActiveTurn PROVE Throw(a) \in ActiveTurn /\ Throw(a).pc = "off"
  <2>1. CASE Throw(a) = [a EXCEPT !.lease = "suspended", !.pc = "off"]
    BY <1>0, <2>1
  <2>2. CASE \E outcome \in {"interrupted", "failed"} : Throw(a) = Settle(Rest(a), outcome)
    BY <1>0, <1>2, <1>4, <2>2
  <2> QED
    BY <2>1, <2>2, ThrowForms
<1>6. ASSUME NEW a \in ActiveTurn PROVE Apply(a) \in ActiveTurn /\ Apply(a).pc = a.pc
  BY <1>0, <1>4 DEF Apply
<1>7. ASSUME NEW a \in ActiveTurn PROVE Outcome(a) \in Outcomes \cup {"no"}
  BY <1>0 DEF Outcome
<1>8. ASSUME NEW a \in ActiveTurn
      PROVE  Suspend(a) \in ActiveTurn /\ Suspend(a).pc \in {a.pc, "off"}
  <2>1. CASE a.pc \in Admission /\ a.aborted
    BY <1>5, <2>1 DEF Suspend
  <2>2. CASE ~(a.pc \in Admission /\ a.aborted)
    <3>1. PICK pc \in {a.pc, "off"} : Suspend(a) = [a EXCEPT !.lease = "suspended", !.pc = pc]
      BY <2>2 DEF Suspend
    <3>2. pc \in Awaits
      BY <1>0
    <3> QED
      BY <3>1, <3>2
  <2> QED
    BY <2>1, <2>2
<1> QED
  BY <1>1, <1>2, <1>3, <1>4, <1>5, <1>6, <1>7, <1>8

\* A status that is heard moves no turn to another await.
LEMMA HeardKeepsAwaits ==
  ASSUME TypeOK, NEW status \in Statuses, Heard(status)
  PROVE  /\ act' \in [Turns -> ActiveTurn]
         /\ \A t \in Turns : act'[t].pc = act[t].pc
<1> DEFINE a == [act[map] EXCEPT !.status = status]
<1>1. CASE map \in Turns /\ act[map].in /\ act[map].ends = "no"
  <2>1. a \in ActiveTurn /\ a.pc = act[map].pc
    <3>1. act[map] \in ActiveTurn
      BY <1>1 DEF TypeOK
    <3> QED
      BY <3>1 DEF ActiveTurn, Statuses
  <2>2. act' = [act EXCEPT ![map] = Apply(a)]
    BY <1>1, TurnsAssumption DEF Heard, Turns
  <2>3. Apply(a) \in ActiveTurn /\ Apply(a).pc = act[map].pc
    BY <2>1, PartsKeepTurns
  <2> QED
    BY <1>1, <2>2, <2>3 DEF TypeOK
<1>2. CASE ~(map \in Turns /\ act[map].in /\ act[map].ends = "no")
  <2>1. act' = act
    BY <1>2, TurnsAssumption DEF Heard, Turns, TypeOK
  <2> QED
    BY <2>1 DEF TypeOK
<1> QED
  BY <1>1, <1>2

\* The child is stopped.
LEMMA CancelKeepsTypes ==
  ASSUME TypeOK, CancelChild
  PROVE  /\ child' \in {"none", "idle", "error"} \cup Busy /\ lane' \in Seq(Turns)
         /\ child' # "preparing"
BY DEF CancelChild, TypeOK, Busy, Works, AtBoundary

\* The child is stopped, or is left as it is.
LEMMA CancelOrNot ==
  ASSUME TypeInv, CancelChild \/ UNCHANGED <<child, lane>>
  PROVE  /\ child' \in {"none", "idle", "error"} \cup Busy /\ lane' \in Seq(Turns)
         /\ child' = "preparing" => job \in Turns
<1>1. CASE CancelChild
  BY <1>1, CancelKeepsTypes DEF TypeInv
<1>2. CASE UNCHANGED <<child, lane>>
  BY <1>2 DEF TypeInv, TypeOK, CallsHaveTurns
<1> QED
  BY <1>1, <1>2

\* One field of a turn, or its whole record, is written.
LEMMA FieldsKeepTurns ==
  \A a \in ActiveTurn :
    /\ \A pc \in Awaits : [a EXCEPT !.pc = pc] \in ActiveTurn
    /\ \A pc \in Awaits : [a EXCEPT !.lease = "active", !.pc = pc] \in ActiveTurn
    /\ \A pc \in Awaits : [a EXCEPT !.lease = "suspended", !.pc = pc] \in ActiveTurn
    /\ \A pc \in Awaits : [a EXCEPT !.knows = TRUE, !.pc = pc] \in ActiveTurn
    /\ [a EXCEPT !.lease = "active"] \in ActiveTurn
    /\ [a EXCEPT !.lease = "suspended"] \in ActiveTurn
    /\ [a EXCEPT !.aborted = TRUE] \in ActiveTurn
    /\ [a EXCEPT !.knows = TRUE] \in ActiveTurn
    /\ [a EXCEPT !.handed = TRUE] \in ActiveTurn
    /\ [a EXCEPT !.idle = FALSE] \in ActiveTurn
    /\ [a EXCEPT !.idle = FALSE].pc = a.pc
BY ZenonT(30) DEF ActiveTurn

\* A permit arrives.
LEMMA GrantKeepsTurns ==
  ASSUME NEW a \in ActiveTurn
  PROVE  Grant(a) \in ActiveTurn
<1>1. PICK pc \in Awaits \ Admission : Grant(a) = [a EXCEPT !.lease = "active", !.pc = pc]
  BY GrantForms
<1>2. [a EXCEPT !.lease = "active", !.pc = pc] \in ActiveTurn
  BY FieldsKeepTurns
<1> QED
  BY <1>1, <1>2

\* A turn is recorded, and recorded as ended.
LEMMA FinishKeepsTypes ==
  ASSUME TypeOK, NEW t \in Turns, NEW outcome \in Outcomes, Finish(t, outcome)
  PROVE  /\ row' \in [Turns -> {"none"} \cup ActiveStatuses \cup Outcomes]
         /\ events' \in [Turns -> Nat] /\ author' \in [Turns -> 0..MaxTurns]
         /\ \A s \in Turns : row'[s] = "none" => row[s] = "none"
<1>1. CASE Active(t)
  <2>1. /\ row' = [row EXCEPT ![t] = outcome]
        /\ events' = [events EXCEPT ![t] = @ + 1]
        /\ author' \in {author, [author EXCEPT ![t] = answered]}
    BY <1>1 DEF Finish
  <2>2. outcome # "none"
    BY DEF Outcomes
  <2>3. /\ row \in [Turns -> {"none"} \cup ActiveStatuses \cup Outcomes]
        /\ events \in [Turns -> Nat] /\ author \in [Turns -> 0..MaxTurns]
        /\ answered \in 0..MaxTurns
    BY DEF TypeOK
  <2> QED
    BY <2>1, <2>2, <2>3
<1>2. CASE ~Active(t)
  BY <1>2 DEF Finish, TypeOK
<1> QED
  BY <1>1, <1>2

\* A turn becomes active, and its intent is written down.
LEMMA MarkKeepsTypes ==
  ASSUME TypeOK, NEW t \in Turns, NEW status \in ActiveStatuses, Mark(t, status)
  PROVE  /\ row' \in [Turns -> {"none"} \cup ActiveStatuses \cup Outcomes]
         /\ begun' \in SUBSET Turns /\ answered' \in 0..MaxTurns
         /\ \A s \in Turns : row'[s] = "none" => row[s] = "none" /\ s # t
         /\ begun' = begun \cup {t}
<1>1. /\ row \in [Turns -> {"none"} \cup ActiveStatuses \cup Outcomes]
      /\ begun \in SUBSET Turns /\ answered \in 0..MaxTurns
  BY DEF TypeOK
<1>2. status # "none" /\ 0 \in 0..MaxTurns
  BY TurnsAssumption DEF ActiveStatuses
<1> QED
  BY <1>1, <1>2 DEF Mark

\* A turn whose safety could not be verified.
LEMMA UnverifiedKeepsTypes ==
  ASSUME TypeInv, NEW t \in Turns, NEW a \in ActiveTurn, a.pc = act[t].pc, Unverified(t, a)
  PROVE  /\ act' \in [Turns -> ActiveTurn] /\ kill' \in [Turns -> SUBSET Kills]
         /\ child' \in {"none", "idle", "error"} \cup Busy /\ lane' \in Seq(Turns)
         /\ child' = "preparing" => job \in Turns
         /\ \A s \in Turns : act'[s].pc = act[s].pc
<1> DEFINE b == [a EXCEPT !.aborted = TRUE]
<1>1. b \in ActiveTurn /\ b.pc = a.pc
  BY DEF ActiveTurn
<1>2. act \in [Turns -> ActiveTurn] /\ kill \in [Turns -> SUBSET Kills]
  BY DEF TypeInv, TypeOK, Kills
<1>3. act' \in [Turns -> ActiveTurn] /\ \A s \in Turns : act'[s].pc = act[s].pc
  <2>1. PICK c \in {a, b} : act' = [act EXCEPT ![t] = c]
    BY DEF Unverified
  <2>2. c \in ActiveTurn /\ c.pc = act[t].pc
    BY <1>1
  <2> QED
    BY <1>2, <2>1, <2>2
<1>4. kill' \in {kill, [kill EXCEPT ![t] = @ \cup {"unverified"}]}
  BY DEF Unverified
<1>5. kill' \in [Turns -> SUBSET Kills]
  BY <1>2, <1>4 DEF Kills
<1>6. CancelChild \/ UNCHANGED <<child, lane>>
  BY DEF Unverified
<1> QED
  BY <1>3, <1>5, <1>6, CancelOrNot

(***************************************************************************)
(* Types: one lemma per group of steps, one step per action.               *)
(***************************************************************************)

\* Calls of the parent.
LEMMA ParentKeepsTypes ==
  ASSUME TypeInv,
         \/ Spawn
         \/ \E t \in Turns : FollowUp(t) \/ Interrupt(t) \/ InterruptUnowned(t) \/ InterruptEnds(t)
  PROVE  TypeInv'
<1>0. /\ act \in [Turns -> ActiveTurn] /\ kill \in [Turns -> SUBSET Kills]
      /\ map \in 0..MaxTurns /\ quarantined \subseteq Turns /\ bound \in BOOLEAN
      /\ row \in [Turns -> {"none"} \cup ActiveStatuses \cup Outcomes]
      /\ 1 \in Turns /\ Turns \subseteq 0..MaxTurns /\ 0 \in 0..MaxTurns
  BY TurnsAssumption DEF TypeInv, TypeOK, Kills, Turns
<1>1. ASSUME NEW t \in Turns, NEW knows \in BOOLEAN, Begin(t, knows)
      PROVE  /\ row' \in [Turns -> {"none"} \cup ActiveStatuses \cup Outcomes]
             /\ act' \in [Turns -> ActiveTurn] /\ map' \in 0..MaxTurns
  <2>1. [Blank EXCEPT !.in = TRUE, !.pc = "resume", !.knows = knows] \in ActiveTurn
    BY DEF Blank, ActiveTurn, Awaits
  <2>2. "queued" \in ActiveStatuses
    BY DEF ActiveStatuses
  <2> QED
    BY <1>0, <1>1, <2>1, <2>2 DEF Begin
<1>2. CASE Spawn
  <2>1. /\ row' \in [Turns -> {"none"} \cup ActiveStatuses \cup Outcomes]
        /\ act' \in [Turns -> ActiveTurn] /\ map' \in 0..MaxTurns
    BY <1>0, <1>1, <1>2 DEF Spawn
  <2> QED
    BY <1>2, <2>1, SMTT(30) DEF Spawn, TypeInv, TypeOK, CallsHaveTurns, session, history
<1>3. ASSUME NEW t \in Turns, FollowUp(t) PROVE TypeInv'
  <2>1. /\ row' \in [Turns -> {"none"} \cup ActiveStatuses \cup Outcomes]
        /\ act' \in [Turns -> ActiveTurn] /\ map' \in 0..MaxTurns
    BY <1>0, <1>1, <1>3 DEF FollowUp
  <2> QED
    BY <1>3, <2>1, SMTT(30) DEF FollowUp, TypeInv, TypeOK, CallsHaveTurns, session, history
<1>4. ASSUME NEW t \in Turns, Interrupt(t) PROVE TypeInv'
  <2>1. act' \in [Turns -> ActiveTurn]
    <3>1. act' = [act EXCEPT ![t] = [act[t] EXCEPT !.aborted = TRUE]]
      BY <1>4 DEF Interrupt
    <3> QED
      BY <1>0, <3>1, FieldsKeepTurns
  <2>2. kill' = [kill EXCEPT ![t] = @ \cup {"drain"}]
    BY <1>4 DEF Interrupt
  <2>3. kill' \in [Turns -> SUBSET Kills]
    BY <1>0, <2>2 DEF Kills
  <2>4. /\ child' \in {"none", "idle", "error"} \cup Busy /\ lane' \in Seq(Turns)
        /\ child' = "preparing" => job \in Turns
    BY <1>4, CancelOrNot DEF Interrupt
  <2> QED
    BY <1>4, <2>1, <2>3, <2>4
       DEF Interrupt, TypeInv, TypeOK, CallsHaveTurns, Kills, durable, history
<1>5. ASSUME NEW t \in Turns, InterruptUnowned(t) PROVE TypeInv'
  <2>1. /\ row' \in [Turns -> {"none"} \cup ActiveStatuses \cup Outcomes]
        /\ events' \in [Turns -> Nat] /\ author' \in [Turns -> 0..MaxTurns]
    BY <1>5, FinishKeepsTypes DEF InterruptUnowned, Outcomes, TypeInv
  <2>2. kill' \in {kill, [kill EXCEPT ![t] = @ \cup {"unowned"}]}
    BY <1>5 DEF InterruptUnowned
  <2>3. kill' \in [Turns -> SUBSET Kills]
    BY <1>0, <2>2 DEF Kills
  <2>4. /\ child' \in {"none", "idle", "error"} \cup Busy /\ lane' \in Seq(Turns)
        /\ child' = "preparing" => job \in Turns
    BY <1>5, CancelOrNot DEF InterruptUnowned
  <2>5. quarantined' \subseteq Turns
    BY <1>0, <1>5 DEF InterruptUnowned
  <2> QED
    BY <1>5, <2>1, <2>3, <2>4, <2>5 DEF InterruptUnowned, TypeInv, TypeOK, CallsHaveTurns, Kills
<1>6. ASSUME NEW t \in Turns, InterruptEnds(t) PROVE TypeInv'
  <2>1. Settle(act[t], "interrupted") \in ActiveTurn
    BY <1>0, PartsKeepTurns DEF Outcomes
  <2>2. act' \in {act, [act EXCEPT ![t] = Settle(act[t], "interrupted")]}
    BY <1>6 DEF InterruptEnds, Interrupted
  <2>3. act' \in [Turns -> ActiveTurn]
    BY <1>0, <2>1, <2>2
  <2>4. \E done \in Kills : kill' = [kill EXCEPT ![t] = @ \ {done}]
    BY <1>6 DEF InterruptEnds, Interrupted, Kills
  <2>5. kill' \in [Turns -> SUBSET Kills]
    BY <1>0, <2>4
  <2>6. map' \in 0..MaxTurns /\ quarantined' \subseteq Turns
    BY <1>0, <1>6 DEF InterruptEnds, Interrupted
  <2> QED
    BY <1>6, <2>3, <2>5, <2>6, SMTT(30)
       DEF InterruptEnds, TypeInv, TypeOK, CallsHaveTurns, Kills, durable, session, history
<1> QED
  BY <1>2, <1>3, <1>4, <1>5, <1>6

\* The call that runs a turn.
LEMMA RunKeepsTypes ==
  ASSUME TypeInv, NEW t \in Turns, Run(t) \/ RunFails(t)
  PROVE  TypeInv'
<1>1. act \in [Turns -> ActiveTurn] /\ act[t] \in ActiveTurn /\ Throw(act[t]) \in ActiveTurn
  BY PartsKeepTurns DEF TypeInv, TypeOK
<1>2. {"off", "safety", "find", "create", "bind", "sync", "send", "sent"} \subseteq Awaits
  BY DEF Awaits
<1>3. \A pc \in Awaits : [act EXCEPT ![t].pc = pc] \in [Turns -> ActiveTurn]
  BY <1>1, FieldsKeepTurns
<1>4. CASE Admitted(t)
  <2>1. PICK pc \in Awaits :
          act' = [act EXCEPT ![t] = [act[t] EXCEPT !.lease = "active", !.pc = pc]]
    BY <1>1, <1>4, GrantForms DEF Admitted
  <2>2. act' \in [Turns -> ActiveTurn]
    <3>1. [act[t] EXCEPT !.lease = "active", !.pc = pc] \in ActiveTurn
      BY <1>1, FieldsKeepTurns
    <3> QED
      BY <1>1, <2>1, <3>1
  <2> QED
    BY <1>4, <2>2 DEF Admitted, TypeInv, TypeOK, CallsHaveTurns, durable, session, service, history
<1>5. CASE NotAdmitted(t) \/ AcquireFails(t) \/ HandOffFails(t) \/ SendFails(t)
  <2>1. /\ act' = [act EXCEPT ![t] = Throw(act[t])]
        /\ UNCHANGED <<durable, session, map, quarantined, kill, boundary, recon, up, history>>
    BY <1>5 DEF NotAdmitted, AcquireFails, HandOffFails, SendFails
  <2>2. act' \in [Turns -> ActiveTurn]
    BY <1>1, <2>1
  <2> QED
    BY <2>1, <2>2 DEF TypeInv, TypeOK, CallsHaveTurns, durable, session, service, history
<1>6. CASE Checked(t)
  <2>1. act' \in [Turns -> ActiveTurn]
    BY <1>1, <1>2, <1>3, <1>6 DEF Checked
  <2> QED
    BY <1>6, <2>1 DEF Checked, TypeInv, TypeOK, CallsHaveTurns, durable, session, service, history
<1>7. CASE Acquire(t)
  <2>1. ASSUME Bind(t)
        PROVE  /\ bound' \in {bound, TRUE} /\ act' \in [Turns -> ActiveTurn]
               /\ CancelChild \/ UNCHANGED <<child, lane>>
    <3>1. Throw([act[t] EXCEPT !.knows = TRUE]) \in ActiveTurn
      BY <1>1, FieldsKeepTurns, PartsKeepTurns
    <3>2. [act[t] EXCEPT !.knows = TRUE, !.pc = "sync"] \in ActiveTurn
      BY <1>1, <1>2, FieldsKeepTurns
    <3>3. \E a \in {Throw(act[t]), Throw([act[t] EXCEPT !.knows = TRUE]),
                    [act[t] EXCEPT !.knows = TRUE, !.pc = "sync"]} : act' = [act EXCEPT ![t] = a]
      BY <2>1 DEF Bind
    <3>4. act' \in [Turns -> ActiveTurn]
      BY <1>1, <3>1, <3>2, <3>3
    <3> QED
      BY <2>1, <3>4 DEF Bind
  <2>2. CASE Bind(t)
    <3>1. /\ child' \in {"none", "idle", "error"} \cup Busy /\ lane' \in Seq(Turns)
          /\ child' = "preparing" => job \in Turns
      BY <2>1, <2>2, CancelOrNot
    <3> QED
      BY <1>7, <2>1, <2>2, <3>1, ZenonT(30) DEF Acquire, TypeInv, TypeOK, CallsHaveTurns, history
  <2>3. CASE ~Bind(t)
    <3>1. act' \in [Turns -> ActiveTurn]
      BY <1>1, <1>2, <1>3, <1>7, <2>3 DEF Acquire
    <3>2. child' \in {child, "idle"} /\ UNCHANGED <<bound, lane>>
      BY <1>7, <2>3 DEF Acquire
    <3> QED
      BY <1>7, <3>1, <3>2 DEF Acquire, TypeInv, TypeOK, CallsHaveTurns, history
  <2> QED
    BY <2>2, <2>3
<1>8. CASE HandOff(t)
  <2>1. act' \in [Turns -> ActiveTurn]
    BY <1>2, <1>3, <1>8 DEF HandOff
  <2>2. map' \in 0..MaxTurns
    BY <1>8, TurnsAssumption DEF HandOff, Turns
  <2>3. /\ row' \in [Turns -> {"none"} \cup ActiveStatuses \cup Outcomes]
        /\ begun' \in SUBSET Turns /\ answered' \in 0..MaxTurns
    BY <1>8, MarkKeepsTypes DEF HandOff, ActiveStatuses, TypeInv
  <2> QED
    BY <1>8, <2>1, <2>2, <2>3, SMTT(30) DEF HandOff, TypeInv, TypeOK, CallsHaveTurns, history
<1>9. CASE Park(t)
  <2>1. act' \in [Turns -> ActiveTurn]
    BY <1>1, <1>9, PartsKeepTurns DEF Park
  <2>2. map' \in 0..MaxTurns
    BY <1>9, TurnsAssumption DEF Park
  <2> QED
    BY <1>9, <2>1, <2>2
       DEF Park, TypeInv, TypeOK, CallsHaveTurns, durable, session, service, history
<1>10. CASE Accepted(t)
  <2>1. act' \in [Turns -> ActiveTurn]
    BY <1>2, <1>3, <1>10 DEF Accepted
  <2>2. lane' \in Seq(Turns) /\ sent' \in [Turns -> Nat]
    BY <1>10 DEF Accepted, TypeInv, TypeOK
  <2> QED
    BY <1>10, <2>1, <2>2, SMTT(30) DEF Accepted, TypeInv, TypeOK, CallsHaveTurns, durable
<1>11. CASE SendReturns(t)
  <2> DEFINE a == [act[t] EXCEPT !.handed = TRUE]
  <2>1. a \in ActiveTurn
    BY <1>1, FieldsKeepTurns
  <2>2. Settle(Rest(a), "interrupted") \in ActiveTurn /\ Apply(Rest(a)) \in ActiveTurn
    BY <2>1, PartsKeepTurns DEF Outcomes
  <2>3. \E b \in {Settle(Rest(a), "interrupted"), Apply(Rest(a))} : act' = [act EXCEPT ![t] = b]
    BY <1>11 DEF SendReturns
  <2>4. act' \in [Turns -> ActiveTurn]
    BY <1>1, <2>2, <2>3
  <2>5. CancelChild \/ UNCHANGED <<child, lane>>
    BY <1>11 DEF SendReturns
  <2> QED
    BY <1>11, <2>4, <2>5, CancelOrNot, SMTT(30)
       DEF SendReturns, TypeInv, TypeOK, CallsHaveTurns, durable, history
<1> QED
  BY <1>4, <1>5, <1>6, <1>7, <1>8, <1>9, <1>10, <1>11 DEF Run, RunFails

\* The end of a turn.
LEMMA EndKeepsTypes ==
  ASSUME TypeInv, NEW t \in Turns, IdleChecked(t) \/ Settled(t)
  PROVE  TypeInv'
<1>1. act \in [Turns -> ActiveTurn] /\ act[t] \in ActiveTurn
  BY DEF TypeInv, TypeOK
<1>2. CASE IdleChecked(t)
  <2> DEFINE a == [act[t] EXCEPT !.idle = FALSE]
  <2>1. a \in ActiveTurn /\ a.pc = act[t].pc
    BY <1>1, FieldsKeepTurns
  <2>2. CASE /\ act' = [act EXCEPT ![t] = Settle(a, "completed")]
             /\ UNCHANGED <<kill, child, lane>>
    <3>1. Settle(a, "completed") \in ActiveTurn
      BY <2>1, PartsKeepTurns DEF Outcomes
    <3>2. act' \in [Turns -> ActiveTurn]
      BY <1>1, <2>2, <3>1
    <3> QED
      BY <1>2, <2>2, <3>2 DEF IdleChecked, TypeInv, TypeOK, CallsHaveTurns, durable, history
  <2>3. CASE Unverified(t, a)
    <3>1. /\ act' \in [Turns -> ActiveTurn] /\ kill' \in [Turns -> SUBSET Kills]
          /\ child' \in {"none", "idle", "error"} \cup Busy /\ lane' \in Seq(Turns)
          /\ child' = "preparing" => job \in Turns
      BY <2>1, <2>3, UnverifiedKeepsTypes
    <3> QED
      BY <1>2, <3>1, SMTT(30)
      DEF IdleChecked, TypeInv, TypeOK, CallsHaveTurns, Kills, durable, history
  <2> QED
    BY <1>2, <2>2, <2>3 DEF IdleChecked
<1>3. CASE Settled(t)
  <2>1. Left(act[t]) \in ActiveTurn
    BY <1>1, PartsKeepTurns
  <2>2. act' \in [Turns -> ActiveTurn]
    BY <1>1, <1>3, <2>1 DEF Settled
  <2>3. Outcome(act[t]) \in Outcomes
    BY <1>1, <1>3 DEF Settled, Outcome, Outcomes, ActiveTurn
  <2>4. (\E outcome \in Outcomes : Finish(t, outcome)) \/ UNCHANGED <<row, events, author>>
    BY <1>3, <2>3 DEF Settled, Outcomes
  <2>5. /\ row' \in [Turns -> {"none"} \cup ActiveStatuses \cup Outcomes]
        /\ events' \in [Turns -> Nat] /\ author' \in [Turns -> 0..MaxTurns]
    BY <2>4, FinishKeepsTypes DEF TypeInv, TypeOK
  <2>6. map' \in 0..MaxTurns /\ parked' \subseteq Turns
    BY <1>3, TurnsAssumption DEF Settled, TypeInv, TypeOK
  <2> QED
    BY <1>3, <2>2, <2>5, <2>6, SMTT(60) DEF Settled, TypeInv, TypeOK, CallsHaveTurns, session
<1> QED
  BY <1>2, <1>3

\* The child session and its user.
LEMMA ChildKeepsTypes ==
  ASSUME TypeInv, Child \/ UserResumes \/ UserStops \/ EnterBoundary \/ RespondUnmapped
  PROVE  TypeInv'
<1>1. /\ act \in [Turns -> ActiveTurn] /\ map \in 0..MaxTurns
      /\ child \in {"none", "idle", "error"} \cup Busy /\ job \in 0..MaxTurns
      /\ lane \in Seq(Turns) /\ held \in Seq(Turns) /\ answered \in 0..MaxTurns
      /\ Turns \subseteq 0..MaxTurns
      /\ map # 0 => map \in Turns
  BY TurnsAssumption DEF TypeInv, TypeOK, Turns
<1>2. CASE ChildStarts
  <2>1. act' \in [Turns -> ActiveTurn]
    BY <1>2, HeardKeepsAwaits DEF ChildStarts, TypeInv, Statuses
  <2>2. job' \in Turns /\ lane' \in Seq(Turns)
    BY <1>1, <1>2 DEF ChildStarts
  <2>3. child' \in Busy
    BY <1>2 DEF ChildStarts, Busy
  <2> QED
    BY <1>1, <1>2, <2>1, <2>2, <2>3
       DEF ChildStarts, TypeInv, TypeOK, CallsHaveTurns, durable, history
<1>3. CASE ChildPrepares
  <2>1. act' \in [Turns -> ActiveTurn]
    BY <1>1, <1>3, HeardKeepsAwaits DEF ChildPrepares, TypeInv, Statuses
  <2>2. child' \in {"generating", "error"}
    BY <1>3 DEF ChildPrepares
  <2>3. child' \in {"none", "idle", "error"} \cup Busy /\ child' # "preparing"
    BY <2>2 DEF Busy, Works
  <2> QED
    BY <1>3, <2>1, <2>3 DEF ChildPrepares, TypeInv, TypeOK, CallsHaveTurns, durable, history
<1>4. CASE ChildAsks
  <2>1. CASE map # 0 /\ act[map].in /\ act[map].ends = "no"
    <3>1. act[map] \in ActiveTurn
      BY <1>1, <2>1
    <3>2. act' = [act EXCEPT ![map] = Suspend(act[map])]
      BY <1>4, <2>1 DEF ChildAsks
    <3>3. Suspend(act[map]) \in ActiveTurn
      BY <3>1, PartsKeepTurns
    <3>4. act' \in [Turns -> ActiveTurn]
      BY <1>1, <3>2, <3>3
    <3>5. /\ row' \in [Turns -> {"none"} \cup ActiveStatuses \cup Outcomes]
          /\ begun' \in SUBSET Turns /\ answered' \in 0..MaxTurns
      BY <1>1, <1>4, <2>1, MarkKeepsTypes DEF ChildAsks, ActiveStatuses, TypeInv
    <3>6. child' \in Busy /\ child' # "preparing"
      BY <1>4 DEF ChildAsks, Busy, Works
    <3> QED
      BY <1>4, <3>4, <3>5, <3>6 DEF ChildAsks, TypeInv, TypeOK, CallsHaveTurns, history
  <2>2. CASE ~(map # 0 /\ act[map].in /\ act[map].ends = "no")
    <3>1. UNCHANGED <<act, row, begun, answered>>
      BY <1>4, <2>2 DEF ChildAsks
    <3>2. child' \in Busy /\ child' # "preparing"
      BY <1>4 DEF ChildAsks, Busy, Works
    <3> QED
      BY <1>4, <3>1, <3>2 DEF ChildAsks, TypeInv, TypeOK, CallsHaveTurns, history
  <2> QED
    BY <2>1, <2>2
<1>5. CASE ChildProgresses
  <2>1. /\ row' \in [Turns -> {"none"} \cup ActiveStatuses \cup Outcomes]
        /\ begun' \in SUBSET Turns /\ answered' \in 0..MaxTurns
    BY <1>1, <1>5, MarkKeepsTypes DEF ChildProgresses, ActiveStatuses, TypeInv
  <2> QED
    BY <1>5, <2>1 DEF ChildProgresses, TypeInv, TypeOK, CallsHaveTurns, service, history
<1>6. CASE ChildEnds
  <2>1. child' \in {"idle", "error"} /\ answered' \in {job, answered}
    BY <1>6 DEF ChildEnds
  <2>2. act' \in [Turns -> ActiveTurn]
    BY <1>6, <2>1, HeardKeepsAwaits DEF ChildEnds, TypeInv, Statuses
  <2> QED
    BY <1>1, <1>6, <2>1, <2>2, SMTT(30)
    DEF ChildEnds, TypeInv, TypeOK, CallsHaveTurns, durable, history
<1>7. CASE UserResumes
  <2>1. lane' = held /\ held' = <<>>
    BY <1>7 DEF UserResumes
  <2>2. <<>> \in Seq(Turns)
    OBVIOUS
  <2> QED
    BY <1>1, <1>7, <2>1, <2>2
       DEF UserResumes, TypeInv, TypeOK, CallsHaveTurns, durable, service, history
<1>8. CASE UserStops
  <2>1. /\ child' \in {"none", "idle", "error"} \cup Busy /\ lane' \in Seq(Turns)
        /\ child' = "preparing" => job \in Turns
    BY <1>8, CancelOrNot DEF UserStops
  <2> QED
    BY <1>8, <2>1 DEF UserStops, TypeInv, TypeOK, CallsHaveTurns, durable, service, history
<1>9. CASE EnterBoundary
  <2>1. child' \in {"resuming", "calling"}
    BY <1>9 DEF EnterBoundary
  <2>2. child' \in Busy /\ child' # "preparing"
    BY <2>1 DEF Busy, Works, AtBoundary
  <2>3. /\ boundary' \in [pc : {"off", "sync", "resume", "check"}, turn : 0..MaxTurns]
        /\ boundary'.turn \in Turns
    BY <1>1, <1>9 DEF EnterBoundary
  <2> QED
    BY <1>9, <2>2, <2>3 DEF EnterBoundary, TypeInv, TypeOK, CallsHaveTurns, durable, history
<1>10. CASE RespondUnmapped
  <2>1. child' \in Busy /\ child' # "preparing"
    BY <1>10 DEF RespondUnmapped, Busy, Works
  <2> QED
    BY <1>10, <2>1 DEF RespondUnmapped, TypeInv, TypeOK, CallsHaveTurns, durable, service, history
<1> QED
  BY <1>2, <1>3, <1>4, <1>5, <1>6, <1>7, <1>8, <1>9, <1>10 DEF Child

\* The boundaries.
LEMMA BoundsKeepTypes ==
  ASSUME TypeInv, Bounds \/ ToolRefused
  PROVE  TypeInv'
<1>1. /\ act \in [Turns -> ActiveTurn]
      /\ map # 0 => map \in Turns
      /\ boundary \in [pc : {"off", "sync", "resume", "check"}, turn : 0..MaxTurns]
      /\ boundary.pc # "off" => boundary.turn \in Turns
  BY TurnsAssumption DEF TypeInv, TypeOK, CallsHaveTurns, Turns
<1>2. Quiet \in [pc : {"off", "sync", "resume", "check"}, turn : 0..MaxTurns] /\ Quiet.pc = "off"
  BY TurnsAssumption DEF Quiet
<1>3. CASE PassBoundary
  <2>1. act[boundary.turn] \in ActiveTurn
    BY <1>1, <1>3 DEF PassBoundary, Goes
  <2>2. PICK a \in {act[boundary.turn], Grant(act[boundary.turn]),
                  [act[boundary.turn] EXCEPT !.lease = "suspended"]} :
          act' = [act EXCEPT ![boundary.turn] = a]
    BY <1>1, <1>3 DEF PassBoundary, Goes
  <2>3. act' \in [Turns -> ActiveTurn]
    <3>1. a \in ActiveTurn
      BY <2>1, <2>2, FieldsKeepTurns, GrantKeepsTurns
    <3> QED
      BY <1>1, <2>2, <3>1
  <2>4. /\ boundary' \in [pc : {"off", "sync", "resume", "check"}, turn : 0..MaxTurns]
        /\ boundary'.pc # "off" => boundary'.turn \in Turns
    BY <1>1, <1>2, <1>3 DEF PassBoundary, Goes
  <2>5. child' \in {child, "generating", "asking"}
    BY <1>3 DEF PassBoundary
  <2>6. /\ child' \in {"none", "idle", "error"} \cup Busy
        /\ child' = "preparing" => child = "preparing"
    BY <2>5 DEF TypeInv, TypeOK, Busy, Works
  <2> QED
    BY <1>3, <2>3, <2>4, <2>6 DEF PassBoundary, TypeInv, TypeOK, CallsHaveTurns, durable, history
<1>4. CASE FailBoundary
  <2>1. act[boundary.turn] \in ActiveTurn /\ boundary.turn \in Turns
    BY <1>1, <1>4 DEF FailBoundary
  <2>2. /\ act' \in [Turns -> ActiveTurn] /\ kill' \in [Turns -> SUBSET Kills]
        /\ child' \in {"none", "idle", "error"} \cup Busy /\ lane' \in Seq(Turns)
        /\ child' = "preparing" => job \in Turns
    <3>1. CASE Unverified(boundary.turn, act[boundary.turn])
      BY <2>1, <3>1, UnverifiedKeepsTypes
    <3>2. CASE /\ UNCHANGED <<act, kill, lane>>
               /\ child' \in {child, "asking", "generating"}
      BY <3>2 DEF TypeInv, TypeOK, CallsHaveTurns, Kills, Busy, Works
    <3> QED
      BY <1>4, <3>1, <3>2 DEF FailBoundary
  <2>3. boundary' = Quiet
    BY <1>4 DEF FailBoundary
  <2> QED
    BY <1>2, <1>4, <2>2, <2>3
       DEF FailBoundary, TypeInv, TypeOK, CallsHaveTurns, Kills, durable, history
<1>5. CASE ToolRefused
  <2>1. act[map] \in ActiveTurn /\ map \in Turns
    BY <1>1, <1>5 DEF ToolRefused
  <2>2. /\ act' \in [Turns -> ActiveTurn] /\ kill' \in [Turns -> SUBSET Kills]
        /\ child' \in {"none", "idle", "error"} \cup Busy /\ lane' \in Seq(Turns)
        /\ child' = "preparing" => job \in Turns
    BY <1>5, <2>1, UnverifiedKeepsTypes DEF ToolRefused
  <2> QED
    BY <1>5, <2>2, SMTT(30)
    DEF ToolRefused, TypeInv, TypeOK, CallsHaveTurns, Kills, durable, history
<1> QED
  BY <1>3, <1>4, <1>5 DEF Bounds

\* A crash, the restart, and the reconciliation of the turn that was active.
LEMMA RestartKeepsTypes ==
  ASSUME TypeInv, Crash \/ Start \/ Look \/ LookFails \/ Reconcile \/ Quarantine
  PROVE  TypeInv'
<1>1. /\ act \in [Turns -> ActiveTurn]
      /\ recon \in [pc : {"off", "look", "found"}, turn : 0..MaxTurns, knew : BOOLEAN,
                    saw : Statuses]
      /\ recon.pc # "off" => recon.turn \in Turns
      /\ map \in 0..MaxTurns /\ bound \in BOOLEAN /\ quarantined \subseteq Turns
      /\ Turns \subseteq 0..MaxTurns /\ 0 \in 0..MaxTurns
      /\ child \in {"none", "idle", "error"} \cup Busy
      /\ lane \in Seq(Turns) /\ held \in Seq(Turns)
      /\ child = "preparing" => job \in Turns
  BY TurnsAssumption DEF TypeInv, TypeOK, CallsHaveTurns, Turns, Statuses
<1>2. /\ NoRecon \in [pc : {"off", "look", "found"}, turn : 0..MaxTurns, knew : BOOLEAN,
                      saw : Statuses]
      /\ NoRecon.pc = "off"
      /\ Quiet \in [pc : {"off", "sync", "resume", "check"}, turn : 0..MaxTurns]
      /\ Quiet.pc = "off"
  BY <1>1 DEF NoRecon, Quiet, Statuses
<1>3. CASE Crash
  <2>1. act' \in [Turns -> ActiveTurn]
    BY <1>3, PartsKeepTurns DEF Crash
  <2>2. kill' \in [Turns -> SUBSET Kills]
    BY <1>3 DEF Crash, Kills
  <2>3. held' \in Seq(Turns) /\ lane' \in Seq(Turns)
    <3>1. (IF child = "preparing" THEN <<job>> ELSE <<>>) \in Seq(Turns)
      BY <1>1
    <3> QED
      BY <1>1, <1>3, <3>1 DEF Crash
  <2>4. child' \in {"none", "idle", "error"} \cup Busy /\ child' # "preparing"
    BY <1>1, <1>3 DEF Crash, Busy, Works
  <2>5. map' \in 0..MaxTurns /\ boundary' = Quiet /\ recon' = NoRecon
    BY <1>1, <1>3 DEF Crash
  <2> QED
    BY <1>2, <1>3, <2>1, <2>2, <2>3, <2>4, <2>5
       DEF Crash, TypeInv, TypeOK, CallsHaveTurns, Kills, Statuses, durable
<1>4. CASE Start
  <2>1. CASE \E t \in Turns : Active(t)
    <3>1. PICK t \in Turns : /\ map' = IF bound THEN t ELSE 0
                             /\ recon' = [pc |-> "look", turn |-> t, knew |-> bound,
                                          saw |-> "none"]
      BY <1>4, <2>1 DEF Start
    <3>2. /\ map' \in 0..MaxTurns /\ recon'.turn \in Turns
          /\ recon' \in [pc : {"off", "look", "found"}, turn : 0..MaxTurns, knew : BOOLEAN,
                         saw : Statuses]
      BY <1>1, <3>1 DEF Statuses
    <3> QED
      BY <1>4, <3>2
         DEF Start, TypeInv, TypeOK, CallsHaveTurns, Statuses, durable, session, service, history
  <2>2. CASE ~\E t \in Turns : Active(t)
    BY <1>4, <2>2 DEF Start, TypeInv, TypeOK, CallsHaveTurns, durable, session, service, history
  <2> QED
    BY <2>1, <2>2
<1>5. CASE Look
  <2>1. ChildStatus \in Statuses
    BY <1>1 DEF ChildStatus, Statuses
  <2>2. /\ recon'.turn \in Turns
        /\ recon' \in [pc : {"off", "look", "found"}, turn : 0..MaxTurns, knew : BOOLEAN,
                       saw : Statuses]
    BY <1>1, <1>5, <2>1 DEF Look
  <2> QED
    BY <1>5, <2>2
       DEF Look, TypeInv, TypeOK, CallsHaveTurns, Statuses, durable, session, service, history
<1>6. CASE LookFails \/ ReconcileLost
  <2>1. recon.turn \in Turns /\ Finish(recon.turn, "interrupted")
    BY <1>1, <1>6 DEF LookFails, ReconcileLost
  <2>2. /\ row' \in [Turns -> {"none"} \cup ActiveStatuses \cup Outcomes]
        /\ events' \in [Turns -> Nat] /\ author' \in [Turns -> 0..MaxTurns]
    BY <2>1, FinishKeepsTypes DEF Outcomes, TypeInv
  <2>3. map' \in 0..MaxTurns /\ recon' = NoRecon
    BY <1>1, <1>6 DEF LookFails, ReconcileLost
  <2>4. UNCHANGED <<begun, bound, session, act, quarantined, kill, boundary, up, sent, parked>>
    BY <1>6 DEF LookFails, ReconcileLost
  <2> QED
    BY <1>2, <2>2, <2>3, <2>4 DEF TypeInv, TypeOK, CallsHaveTurns, Statuses, session
<1>7. CASE ReconcileOver
  <2>1. map' \in 0..MaxTurns /\ recon' = NoRecon
    BY <1>1, <1>7 DEF ReconcileOver
  <2> QED
    BY <1>2, <1>7, <2>1
       DEF ReconcileOver, TypeInv, TypeOK, CallsHaveTurns, Statuses, durable, session, service,
           history
<1>8. CASE Quarantine
  <2>1. /\ child' \in {"none", "idle", "error"} \cup Busy /\ lane' \in Seq(Turns)
        /\ child' = "preparing" => job \in Turns
    BY <1>8, CancelOrNot DEF Quarantine
  <2>2. /\ map' \in 0..MaxTurns /\ quarantined' \subseteq Turns /\ bound' \in BOOLEAN
        /\ recon' = NoRecon
    BY <1>1, <1>8 DEF Quarantine
  <2> QED
    BY <1>2, <1>8, <2>1, <2>2 DEF Quarantine, TypeInv, TypeOK, CallsHaveTurns, Statuses, history
<1>9. CASE Adopt
  <2>1. recon.turn \in Turns
    BY <1>1, <1>9 DEF Adopt
  <2>2. act' \in [Turns -> ActiveTurn]
    <3>1. PICK new : /\ new \in {[Blank EXCEPT !.in = TRUE, !.knows = TRUE, !.status = recon.saw,
                                               !.handed = h] : h \in BOOLEAN}
                     /\ act' \in {[act EXCEPT ![recon.turn] = a] : a \in
                           {[new EXCEPT !.pc = "off"], [new EXCEPT !.pc = "readmit"],
                            [new EXCEPT !.pc = "resume", !.status = "none"],
                            Settle(new, "failed"), Settle(new, "completed")}}
      <4> DEFINE new == [Blank EXCEPT !.in = TRUE, !.knows = TRUE, !.status = recon.saw,
                                      !.handed = recon.saw = "generating" \/ recon.turn \in begun]
      <4>1. (recon.saw = "generating" \/ recon.turn \in begun) \in BOOLEAN
        OBVIOUS
      <4>2. act' \in {[act EXCEPT ![recon.turn] = a] : a \in
                           {[new EXCEPT !.pc = "off"], [new EXCEPT !.pc = "readmit"],
                            [new EXCEPT !.pc = "resume", !.status = "none"],
                            Settle(new, "failed"), Settle(new, "completed")}}
        BY <1>9 DEF Adopt
      <4> QED
        BY <4>1, <4>2
    <3>2. new \in ActiveTurn
      <4>1. ASSUME NEW saw \in Statuses, NEW h \in BOOLEAN
            PROVE  [Blank EXCEPT !.in = TRUE, !.knows = TRUE, !.status = saw, !.handed = h]
                     \in ActiveTurn
        BY DEF Blank, ActiveTurn, Awaits, Statuses
      <4> QED
        BY <1>1, <3>1, <4>1
    <3>3. /\ [new EXCEPT !.pc = "off"] \in ActiveTurn
          /\ [new EXCEPT !.pc = "readmit"] \in ActiveTurn
          /\ [new EXCEPT !.pc = "resume", !.status = "none"] \in ActiveTurn
      BY <3>2 DEF ActiveTurn, Awaits
    <3>4. Settle(new, "failed") \in ActiveTurn /\ Settle(new, "completed") \in ActiveTurn
      BY <3>2, PartsKeepTurns DEF Outcomes
    <3> QED
      BY <1>1, <3>1, <3>3, <3>4
  <2>3. /\ row' \in [Turns -> {"none"} \cup ActiveStatuses \cup Outcomes]
        /\ begun' \in SUBSET Turns /\ answered' \in 0..MaxTurns
    <3>1. Mark(recon.turn, "running") \/ UNCHANGED <<row, begun, answered>>
      BY <1>9 DEF Adopt
    <3> QED
      BY <2>1, <3>1, MarkKeepsTypes DEF ActiveStatuses, TypeInv, TypeOK
  <2>4. map' \in 0..MaxTurns /\ bound' \in BOOLEAN /\ recon' = NoRecon
    BY <1>1, <1>9, <2>1 DEF Adopt
  <2> QED
    BY <1>2, <1>9, <2>2, <2>3, <2>4 DEF Adopt, TypeInv, TypeOK, CallsHaveTurns, Statuses, history
<1> QED
  BY <1>3, <1>4, <1>5, <1>6, <1>7, <1>8, <1>9 DEF Reconcile

\* Every variable keeps its type through every step.
LEMMA TypeInductive == ASSUME TypeInv, [Next]_vars PROVE TypeInv'
<1>1. CASE UNCHANGED vars
  BY <1>1 DEF TypeInv, TypeOK, CallsHaveTurns, vars, durable, session, service, history
<1>2. CASE Next
  BY <1>2, ParentKeepsTypes, RunKeepsTypes, EndKeepsTypes, ChildKeepsTypes, BoundsKeepTypes,
     RestartKeepsTypes DEF Next
<1> QED
  BY <1>1, <1>2

LEMMA TypeInit == Init => TypeInv
<1> SUFFICES ASSUME Init PROVE TypeInv
  OBVIOUS
<1>1. act \in [Turns -> ActiveTurn]
  BY PartsKeepTurns DEF Init
<1>2. <<>> \in Seq(Turns) /\ 0 \in 0..MaxTurns /\ 0 \in Nat
  BY TurnsAssumption
<1> QED
  BY <1>1, <1>2 DEF Init, TypeInv, TypeOK, CallsHaveTurns, Quiet, NoRecon

(***************************************************************************)
(* The hand-off.                                                           *)
(***************************************************************************)

\* A step that sends nothing, begins no turn, and brings no turn nearer to its hand-off.
Calm ==
  /\ sent' = sent /\ begun \subseteq begun'
  /\ \A t \in Turns :
       /\ row'[t] = "none" => row[t] = "none" /\ (t \in begun' => t \in begun)
       /\ \/ act'[t].pc \in {act[t].pc, "off", "readmit"}
          \/ act[t].pc = "resume" /\ act'[t].pc = "safety"

LEMMA CalmIsSafe ==
  ASSUME IntentComesFirst, HandedOverOnce, Calm
  PROVE  IntentComesFirst' /\ HandedOverOnce'
BY DEF IntentComesFirst, HandedOverOnce, Calm, ToSend

\* Steps of the parent, of the end of a turn and of an interruption.
LEMMA ParentIsSafe ==
  ASSUME HandOffInv,
         \/ Spawn
         \/ \E t \in Turns : \/ FollowUp(t) \/ Interrupt(t) \/ InterruptUnowned(t)
                             \/ InterruptEnds(t) \/ IdleChecked(t) \/ Settled(t)
  PROVE  IntentComesFirst' /\ HandedOverOnce'
<1>1. act \in [Turns -> ActiveTurn] /\ 1 \in Turns
      /\ row \in [Turns -> {"none"} \cup ActiveStatuses \cup Outcomes]
  BY TurnsAssumption DEF HandOffInv, TypeInv, TypeOK, Turns
<1>2. ASSUME NEW t \in Turns, NEW knows \in BOOLEAN, row[t] = "none", Begin(t, knows),
             UNCHANGED <<begun, history>>
      PROVE  IntentComesFirst' /\ HandedOverOnce'
  <2>1. /\ act' = [act EXCEPT ![t] = [Blank EXCEPT !.in = TRUE, !.pc = "resume", !.knows = knows]]
        /\ row' = [row EXCEPT ![t] = "queued"] /\ sent' = sent /\ begun' = begun
    BY <1>2 DEF Begin, history
  <2>2. act'[t].pc = "resume" /\ \A s \in Turns \ {t} : act'[s] = act[s]
    BY <1>1, <2>1 DEF Blank
  <2>3. sent[t] = 0
    BY <1>2 DEF HandOffInv, IntentComesFirst
  <2> QED
    BY <1>1, <1>2, <2>1, <2>2, <2>3 DEF HandOffInv, IntentComesFirst, HandedOverOnce
<1>3. CASE Spawn
  BY <1>1, <1>2, <1>3 DEF Spawn
<1>4. ASSUME NEW t \in Turns, FollowUp(t) PROVE IntentComesFirst' /\ HandedOverOnce'
  <2>1. bound \in BOOLEAN
    BY DEF HandOffInv, TypeInv, TypeOK
  <2> QED
    BY <1>2, <1>4, <2>1 DEF FollowUp
<1>5. ASSUME NEW t \in Turns, Interrupt(t) PROVE Calm
  BY <1>1, <1>5 DEF Interrupt, Calm, durable, history
<1>6. ASSUME NEW t \in Turns, InterruptUnowned(t) PROVE Calm
  <2>1. \A s \in Turns : row'[s] = "none" => row[s] = "none"
    BY <1>6, FinishKeepsTypes DEF InterruptUnowned, Outcomes, HandOffInv, TypeInv
  <2> QED
    BY <1>6, <2>1 DEF InterruptUnowned, Calm
<1>7. ASSUME NEW t \in Turns, InterruptEnds(t) PROVE Calm
  <2>1. act' \in {act, [act EXCEPT ![t] = Settle(act[t], "interrupted")]}
    BY <1>7 DEF InterruptEnds, Interrupted
  <2>2. \A s \in Turns : act'[s].pc = act[s].pc
    BY <1>1, <2>1, PartsKeepTurns DEF Outcomes
  <2> QED
    BY <1>7, <2>2 DEF InterruptEnds, Calm, durable, history
<1>8. ASSUME NEW t \in Turns, IdleChecked(t) PROVE Calm
  <2> DEFINE a == [act[t] EXCEPT !.idle = FALSE]
  <2>1. a \in ActiveTurn /\ a.pc = act[t].pc
    BY <1>1, FieldsKeepTurns
  <2>2. \A s \in Turns : act'[s].pc = act[s].pc
    <3>1. CASE act' = [act EXCEPT ![t] = Settle(a, "completed")]
      <4>1. Settle(a, "completed").pc = act[t].pc
        BY <2>1, PartsKeepTurns DEF Outcomes
      <4> QED
        BY <1>1, <3>1, <4>1
    <3>2. CASE Unverified(t, a)
      BY <2>1, <3>2, UnverifiedKeepsTypes DEF HandOffInv
    <3> QED
      BY <1>8, <3>1, <3>2 DEF IdleChecked
  <2> QED
    BY <1>8, <2>2 DEF IdleChecked, Calm, durable, history
<1>9. ASSUME NEW t \in Turns, Settled(t) PROVE Calm
  <2>1. Outcome(act[t]) \in Outcomes /\ "failed" \in Outcomes
    BY <1>1, <1>9 DEF Settled, Outcome, Outcomes, ActiveTurn
  <2>2. (\E outcome \in Outcomes : Finish(t, outcome)) \/ UNCHANGED row
    BY <1>9, <2>1 DEF Settled
  <2>3. \A s \in Turns : row'[s] = "none" => row[s] = "none"
    BY <2>2, FinishKeepsTypes DEF HandOffInv, TypeInv
  <2>4. act' = [act EXCEPT ![t] = Left(act[t])]
    BY <1>9 DEF Settled
  <2>5. \A s \in Turns : act'[s].pc = act[s].pc
    BY <1>1, <2>4, PartsKeepTurns
  <2> QED
    BY <1>9, <2>3, <2>5 DEF Settled, Calm
<1> QED
  BY <1>3, <1>4, <1>5, <1>6, <1>7, <1>8, <1>9, CalmIsSafe DEF HandOffInv

\* Steps of the call that runs a turn.
LEMMA RunIsSafe ==
  ASSUME HandOffInv, NEW t \in Turns, Run(t) \/ RunFails(t)
  PROVE  IntentComesFirst' /\ HandedOverOnce'
<1>1. /\ act \in [Turns -> ActiveTurn] /\ act[t] \in ActiveTurn
      /\ sent \in [Turns -> Nat] /\ Throw(act[t]).pc = "off"
      /\ row \in [Turns -> {"none"} \cup ActiveStatuses \cup Outcomes]
      /\ Throw([act[t] EXCEPT !.knows = TRUE]).pc = "off"
  BY PartsKeepTurns, FieldsKeepTurns DEF HandOffInv, TypeInv, TypeOK
\* A turn that is still to be handed over goes from await to await.
<1>2. ASSUME act[t].pc \in ToSend, act'[t].pc \in (ToSend \ {"send"}) \cup {"off"},
             \A s \in Turns \ {t} : act'[s] = act[s], UNCHANGED <<row, begun, sent>>
      PROVE  IntentComesFirst' /\ HandedOverOnce'
  BY <1>2 DEF HandOffInv, IntentComesFirst, HandedOverOnce, ToSend
<1>3. CASE Admitted(t)
  <2>1. /\ act[t].pc = "resume" => act'[t].pc = "safety"
        /\ act[t].pc # "resume" => act'[t].pc = "off"
        /\ \A s \in Turns \ {t} : act'[s] = act[s]
    <3>1. PICK pc \in Awaits \ Admission :
            /\ Grant(act[t]) = [act[t] EXCEPT !.lease = "active", !.pc = pc]
            /\ \/ pc = act[t].pc
               \/ act[t].pc = "resume" /\ pc = "safety"
               \/ act[t].pc = "readmit" /\ pc = "off"
      BY <1>1, GrantForms
    <3>2. act[t].pc \in {"resume", "readmit"} /\ act' = [act EXCEPT ![t] = Grant(act[t])]
      BY <1>3 DEF Admitted, Admission
    <3>3. act'[t] = Grant(act[t]) /\ Grant(act[t]).pc = pc
      BY <1>1, <3>1, <3>2 DEF ActiveTurn
    <3> QED
      BY <1>1, <3>1, <3>2, <3>3 DEF Admission
  <2>2. UNCHANGED <<row, begun, sent>>
    BY <1>3 DEF Admitted, durable, history
  <2> QED
    BY <1>2, <2>1, <2>2, CalmIsSafe DEF HandOffInv, ToSend, Calm
<1>4. CASE NotAdmitted(t) \/ AcquireFails(t) \/ HandOffFails(t) \/ SendFails(t)
  <2>1. act' = [act EXCEPT ![t] = Throw(act[t])] /\ UNCHANGED <<durable, history>>
    BY <1>4 DEF NotAdmitted, AcquireFails, HandOffFails, SendFails
  <2>2. Calm
    BY <1>1, <2>1 DEF Calm, durable, history
  <2> QED
    BY <2>2, CalmIsSafe DEF HandOffInv
<1>5. CASE Checked(t)
  <2>1. act'[t].pc \in {"find", "off"} /\ \A s \in Turns \ {t} : act'[s] = act[s]
    BY <1>1, <1>5 DEF Checked, ActiveTurn
  <2>2. UNCHANGED <<row, begun, sent>> /\ act[t].pc = "safety"
    BY <1>5 DEF Checked, durable, history
  <2> QED
    BY <1>2, <2>1, <2>2 DEF ToSend
<1>6. CASE Acquire(t)
  <2>1. act'[t].pc \in {"create", "bind", "sync", "off"} /\ \A s \in Turns \ {t} : act'[s] = act[s]
    <3>1. CASE Bind(t)
      BY <1>1, <3>1 DEF Bind, ActiveTurn
    <3>2. CASE ~Bind(t)
      BY <1>1, <1>6, <3>2 DEF Acquire, ActiveTurn
    <3> QED
      BY <3>1, <3>2
  <2>2. UNCHANGED <<row, begun, sent>> /\ act[t].pc \in {"find", "create", "bind"}
    BY <1>6 DEF Acquire, history
  <2> QED
    BY <1>2, <2>1, <2>2 DEF ToSend
<1>7. CASE HandOff(t)
  <2>1. act'[t].pc = "send" /\ act[t].pc = "sync" /\ \A s \in Turns \ {t} : act'[s] = act[s]
    BY <1>1, <1>7 DEF HandOff, ActiveTurn
  <2>2. /\ \A s \in Turns : row'[s] = "none" => row[s] = "none" /\ s # t
        /\ begun' = begun \cup {t} /\ sent' = sent
    BY <1>7, MarkKeepsTypes DEF HandOff, HandOffInv, TypeInv, ActiveStatuses, history
  <2> QED
    BY <2>1, <2>2 DEF HandOffInv, IntentComesFirst, HandedOverOnce, ToSend
<1>8. CASE Park(t)
  <2>1. Calm
    BY <1>1, <1>8, PartsKeepTurns DEF Park, Calm, durable
  <2> QED
    BY <2>1, CalmIsSafe DEF HandOffInv
<1>9. CASE Accepted(t)
  <2>1. /\ act[t].pc = "send" /\ act'[t].pc = "sent"
        /\ \A s \in Turns \ {t} : act'[s] = act[s]
    BY <1>1, <1>9 DEF Accepted, ActiveTurn
  <2>2. /\ UNCHANGED <<row, begun>> /\ sent'[t] = sent[t] + 1
        /\ \A s \in Turns \ {t} : sent'[s] = sent[s]
    BY <1>1, <1>9 DEF Accepted, durable
  <2>3. sent[t] = 0 /\ t \in begun
    BY <2>1 DEF HandOffInv, IntentComesFirst, ToSend
  <2> QED
    BY <2>1, <2>2, <2>3 DEF HandOffInv, IntentComesFirst, HandedOverOnce, ToSend
<1>10. CASE SendReturns(t)
  <2> DEFINE a == [act[t] EXCEPT !.handed = TRUE]
  <2>1. a \in ActiveTurn /\ Rest(a) \in ActiveTurn /\ Rest(a).pc = "off"
    BY <1>1, FieldsKeepTurns, PartsKeepTurns
  <2>2. Settle(Rest(a), "interrupted").pc = "off" /\ Apply(Rest(a)).pc = "off"
    BY <2>1, PartsKeepTurns DEF Outcomes
  <2>3. act' \in {[act EXCEPT ![t] = Settle(Rest(a), "interrupted")],
                 [act EXCEPT ![t] = Apply(Rest(a))]}
    BY <1>10 DEF SendReturns
  <2>4. \A s \in Turns : act'[s].pc \in {act[s].pc, "off"}
    BY <1>1, <2>2, <2>3
  <2>5. Calm
    BY <1>10, <2>4 DEF SendReturns, Calm, durable, history
  <2> QED
    BY <2>5, CalmIsSafe DEF HandOffInv
<1> QED
  BY <1>3, <1>4, <1>5, <1>6, <1>7, <1>8, <1>9, <1>10 DEF Run, RunFails

\* Steps of the child, of its user and of the boundaries.
LEMMA ChildIsSafe ==
  ASSUME HandOffInv,
         \/ Child \/ UserResumes \/ UserStops \/ EnterBoundary \/ RespondUnmapped
         \/ Bounds \/ ToolRefused
  PROVE  Calm
<1>1. /\ act \in [Turns -> ActiveTurn]
      /\ map # 0 => map \in Turns
  BY TurnsAssumption DEF HandOffInv, TypeInv, TypeOK, Turns
<1>2. CASE ChildStarts \/ ChildPrepares \/ ChildEnds
  <2>1. UNCHANGED act \/ \E status \in Statuses : Heard(status)
    BY <1>2 DEF ChildStarts, ChildPrepares, ChildEnds, Statuses
  <2>2. \A t \in Turns : act'[t].pc = act[t].pc
    BY <2>1, HeardKeepsAwaits DEF HandOffInv, TypeInv
  <2>3. UNCHANGED <<row, begun, sent>>
    BY <1>2 DEF ChildStarts, ChildPrepares, ChildEnds, durable, history
  <2> QED
    BY <2>2, <2>3 DEF Calm
<1>3. CASE ChildAsks
  <2>1. CASE map # 0 /\ act[map].in /\ act[map].ends = "no"
    <3>1. act' = [act EXCEPT ![map] = Suspend(act[map])] /\ Mark(map, "waiting") /\ sent' = sent
      BY <1>3, <2>1 DEF ChildAsks, history
    <3>2. Suspend(act[map]).pc \in {act[map].pc, "off"}
      BY <1>1, <2>1, PartsKeepTurns
    <3>3. \A t \in Turns : act'[t].pc \in {act[t].pc, "off"}
      BY <1>1, <2>1, <3>1, <3>2
    <3>4. /\ \A s \in Turns : row'[s] = "none" => row[s] = "none" /\ s # map
          /\ begun' = begun \cup {map}
      BY <1>1, <2>1, <3>1, MarkKeepsTypes DEF HandOffInv, TypeInv, ActiveStatuses
    <3> QED
      BY <3>1, <3>3, <3>4 DEF Calm
  <2>2. CASE ~(map # 0 /\ act[map].in /\ act[map].ends = "no")
    BY <1>3, <2>2 DEF ChildAsks, Calm, history
  <2> QED
    BY <2>1, <2>2
<1>4. CASE ChildProgresses
  <2>1. /\ \A s \in Turns : row'[s] = "none" => row[s] = "none" /\ s # map
        /\ begun' = begun \cup {map}
    BY <1>1, <1>4, MarkKeepsTypes DEF ChildProgresses, HandOffInv, TypeInv, ActiveStatuses
  <2> QED
    BY <1>4, <2>1 DEF ChildProgresses, Calm, service, history
<1>5. CASE UserResumes \/ UserStops \/ EnterBoundary \/ RespondUnmapped
  BY <1>5 DEF UserResumes, UserStops, EnterBoundary, RespondUnmapped, Calm, durable,
              service, history
<1>6. CASE PassBoundary
  <2>1. act' \in {act, [act EXCEPT ![boundary.turn] = Grant(@)],
                 [act EXCEPT ![boundary.turn].lease = "suspended"]}
    BY <1>6 DEF PassBoundary
  <2>2. ASSUME NEW t \in Turns
        PROVE  \/ act'[t].pc \in {act[t].pc, "off"}
               \/ act[t].pc = "resume" /\ act'[t].pc = "safety"
    <3>1. act[t] \in ActiveTurn /\ act'[t] \in {act[t], Grant(act[t]),
                                               [act[t] EXCEPT !.lease = "suspended"]}
      BY <1>1, <2>1
    <3>2. PICK pc \in Awaits \ Admission :
            /\ Grant(act[t]) = [act[t] EXCEPT !.lease = "active", !.pc = pc]
            /\ pc \in {act[t].pc, "off"} \/ (act[t].pc = "resume" /\ pc = "safety")
      BY <3>1, GrantForms
    <3> QED
      BY <3>1, <3>2 DEF ActiveTurn
  <2> QED
    BY <1>6, <2>2 DEF PassBoundary, Calm, durable, history
<1>7. CASE FailBoundary
  <2>1. boundary.turn \in Turns
    BY <1>7 DEF FailBoundary, HandOffInv, TypeInv, CallsHaveTurns
  <2>2. \A t \in Turns : act'[t].pc = act[t].pc
    <3>1. CASE Unverified(boundary.turn, act[boundary.turn])
      BY <1>1, <2>1, <3>1, UnverifiedKeepsTypes DEF HandOffInv
    <3> QED
      BY <1>7, <3>1 DEF FailBoundary
  <2> QED
    BY <1>7, <2>2 DEF FailBoundary, Calm, durable, history
<1>8. CASE ToolRefused
  <2>1. \A t \in Turns : act'[t].pc = act[t].pc
    BY <1>1, <1>8, UnverifiedKeepsTypes DEF ToolRefused, HandOffInv
  <2> QED
    BY <1>8, <2>1 DEF ToolRefused, Calm, durable, history
<1> QED
  BY <1>2, <1>3, <1>4, <1>5, <1>6, <1>7, <1>8 DEF Child, Bounds

\* A crash forgets the calls; a turn is adopted for its hand-off only without an intent.
LEMMA RestartIsSafe ==
  ASSUME HandOffInv, Crash \/ Start \/ Look \/ LookFails \/ Reconcile \/ Quarantine
  PROVE  IntentComesFirst' /\ HandedOverOnce'
<1>1. /\ act \in [Turns -> ActiveTurn]
      /\ recon.pc # "off" => recon.turn \in Turns
  BY DEF HandOffInv, TypeInv, TypeOK, CallsHaveTurns
<1>2. CASE Crash \/ Start \/ Look \/ ReconcileOver \/ Quarantine
  <2>1. Calm
    BY <1>2, PartsKeepTurns DEF Crash, Start, Look, ReconcileOver, Quarantine, Calm, durable,
                                history
  <2> QED
    BY <2>1, CalmIsSafe DEF HandOffInv
<1>3. CASE LookFails \/ ReconcileLost
  <2>1. Finish(recon.turn, "interrupted") /\ recon.turn \in Turns
        /\ UNCHANGED <<begun, act, sent>>
    BY <1>1, <1>3 DEF LookFails, ReconcileLost
  <2>2. Calm
    BY <2>1, FinishKeepsTypes DEF Outcomes, Calm, HandOffInv, TypeInv
  <2> QED
    BY <2>2, CalmIsSafe DEF HandOffInv
<1>4. CASE Adopt
  <2> DEFINE t == recon.turn
             runs == recon.saw = "generating"
             new == [Blank EXCEPT !.in = TRUE, !.knows = TRUE, !.status = recon.saw,
                                  !.handed = runs \/ t \in begun]
  <2>1. t \in Turns /\ sent' = sent /\ row[t] # "none"
    BY <1>1, <1>4 DEF Adopt, Active, ActiveStatuses, history
  <2>2. CASE ~runs /\ t \notin begun
    <3>1. act' = [act EXCEPT ![t] = [new EXCEPT !.pc = "resume", !.status = "none"]]
          /\ UNCHANGED <<row, begun>>
      BY <1>4, <2>2 DEF Adopt
    <3>2. act'[t].pc = "resume" /\ \A s \in Turns \ {t} : act'[s] = act[s]
      BY <1>1, <2>1, <3>1 DEF Blank
    <3> QED
      BY <2>1, <2>2, <3>1, <3>2 DEF HandOffInv, IntentComesFirst, HandedOverOnce
  <2>3. CASE runs \/ t \in begun
    <3>1. new \in ActiveTurn /\ new.pc = "off"
      <4>1. recon.saw \in Statuses /\ (runs \/ t \in begun) \in BOOLEAN
        BY DEF HandOffInv, TypeInv, TypeOK, Statuses
      <4> QED
        BY <4>1 DEF Blank, ActiveTurn, Awaits, Statuses
    <3>2. act' \in {[act EXCEPT ![t] = a] : a \in {[new EXCEPT !.pc = "off"],
            [new EXCEPT !.pc = "readmit"], Settle(new, "failed"), Settle(new, "completed")}}
      BY <1>4, <2>3 DEF Adopt
    <3>3. \A a \in {[new EXCEPT !.pc = "off"], [new EXCEPT !.pc = "readmit"],
                    Settle(new, "failed"), Settle(new, "completed")} : a.pc \in {"off", "readmit"}
      <4>1. [new EXCEPT !.pc = "off"].pc = "off" /\ [new EXCEPT !.pc = "readmit"].pc = "readmit"
        BY DEF Blank
      <4>2. Settle(new, "failed").pc = "off" /\ Settle(new, "completed").pc = "off"
        BY <3>1, PartsKeepTurns DEF Outcomes
      <4> QED
        BY <4>1, <4>2
    <3>4. \A s \in Turns : act'[s].pc \in {act[s].pc, "off", "readmit"}
      BY <1>1, <2>1, <3>2, <3>3
    <3>5. Mark(t, "running") \/ UNCHANGED <<row, begun>>
      BY <1>4 DEF Adopt
    <3>6. /\ begun \subseteq begun'
          /\ \A s \in Turns : row'[s] = "none" => row[s] = "none" /\ (s \in begun' => s \in begun)
      BY <2>1, <3>5, MarkKeepsTypes DEF HandOffInv, TypeInv, ActiveStatuses
    <3>7. Calm
      BY <2>1, <3>4, <3>6 DEF Calm
    <3> QED
      BY <3>7, CalmIsSafe DEF HandOffInv
  <2> QED
    BY <2>2, <2>3
<1> QED
  BY <1>2, <1>3, <1>4 DEF Reconcile

LEMMA HandOffInductive == ASSUME HandOffInv, [Next]_vars PROVE HandOffInv'
<1>1. TypeInv'
  BY TypeInductive DEF HandOffInv
<1>2. CASE UNCHANGED vars
  <2>1. Calm
    BY <1>2 DEF vars, durable, session, service, history, Calm
  <2> QED
    BY <1>1, <2>1, CalmIsSafe DEF HandOffInv
<1>3. CASE Next
  <2>1. IntentComesFirst' /\ HandedOverOnce'
    BY <1>3, ParentIsSafe, RunIsSafe, ChildIsSafe, RestartIsSafe, CalmIsSafe DEF Next, HandOffInv
  <2> QED
    BY <1>1, <2>1 DEF HandOffInv
<1> QED
  BY <1>2, <1>3

LEMMA HandOffInit == Init => HandOffInv
<1>1. Init => IntentComesFirst /\ HandedOverOnce
  BY DEF Init, IntentComesFirst, HandedOverOnce, Blank, ToSend
<1> QED
  BY <1>1, TypeInit DEF HandOffInv

LEMMA HandOffAlways == Spec => []HandOffInv
BY HandOffInit, HandOffInductive, PTL DEF Spec

(***************************************************************************)
(* The theorems.                                                           *)
(***************************************************************************)

\* The rows, the child, the service's maps and its calls keep their types.
THEOREM DelegationTypeCorrect == Spec => []TypeOK
<1>1. HandOffInv => TypeOK
  BY DEF HandOffInv, TypeInv
<1> QED
  BY <1>1, HandOffAlways, PTL

\* However the parent, its user, failures and restarts interrupt a turn, its hand-off is
\* accepted by the child once at most: sendChildHandoff is reached only by a turn whose
\* intent was not written before, and a restart sends nothing that has an intent.
THEOREM HandOffsAreNotRepeated == Spec => []HandedOverOnce
<1>1. HandOffInv => HandedOverOnce
  BY DEF HandOffInv
<1> QED
  BY <1>1, HandOffAlways, PTL

-----------------------------------------------------------------------------
(* The owners of a turn.                                                   *)

\* A turn that is looked up after a restart existed, and no call runs one while it is active.
ReconIsAlone ==
  recon.pc # "off" =>
    /\ row[recon.turn] # "none"
    /\ Active(recon.turn) => \A t \in Turns : ~act[t].in

\* A follow-up needs an earlier turn, so nothing exists before the first one.
FirstTurnFirst == \A t \in Turns : row[t] # "none" => row[1] # "none"

\* A process that is down runs nothing.
DownIsQuiet == ~up => recon.pc = "off" /\ \A t \in Turns : ~act[t].in

\* The cancellation for a turn without owner goes on after the turn has ended.
UnownedHasEnded == \A t \in Turns : "unowned" \in kill[t] => row[t] \in Outcomes

TurnsAreOwned ==
  /\ OneLiveTurn /\ ActiveRowIsOwned /\ OneEventPerEnd
  /\ ReconIsAlone /\ FirstTurnFirst /\ DownIsQuiet /\ UnownedHasEnded

OwnersInv == TypeInv /\ TurnsAreOwned



(***************************************************************************)
(* Steps that leave the owners of the turns alone.                         *)
(***************************************************************************)

\* No turn begins, ends or changes hands.
SameOwners ==
  /\ \A t \in Turns : /\ act'[t].in = act[t].in
                      /\ row'[t] = row[t] \/ (Active(t) /\ row'[t] \in ActiveStatuses)
                      /\ "unowned" \in kill'[t] => "unowned" \in kill[t]
                      /\ t \in quarantined /\ Active(t) => t \in quarantined'
  /\ UNCHANGED <<events, up, parked>>
  /\ recon'.pc = "off" <=> recon.pc = "off"
  /\ recon'.turn = recon.turn

LEMMA SameOwnersIsSafe ==
  ASSUME OwnersInv, SameOwners
  PROVE  TurnsAreOwned'
<1> USE DEF OwnersInv, TurnsAreOwned
<1>1. /\ 1 \in Turns /\ "none" \notin ActiveStatuses
      /\ ActiveStatuses \cap Outcomes = {}
      /\ recon.pc # "off" => recon.turn \in Turns
  BY TurnsAssumption DEF Turns, ActiveStatuses, Outcomes, OwnersInv, TypeInv, CallsHaveTurns
<1>2. \A t \in Turns : /\ Active(t)' <=> Active(t)
                       /\ row'[t] = "none" <=> row[t] = "none"
                       /\ row'[t] \in Outcomes <=> row[t] \in Outcomes
  BY <1>1 DEF SameOwners, Active
<1>3. OneLiveTurn'
  BY <1>2 DEF SameOwners, OwnersInv, OneLiveTurn
<1>4. ActiveRowIsOwned'
  BY <1>2 DEF SameOwners, OwnersInv, ActiveRowIsOwned
<1>5. OneEventPerEnd'
  BY <1>2 DEF SameOwners, OwnersInv, OneEventPerEnd
<1>6. ReconIsAlone'
  BY <1>1, <1>2 DEF SameOwners, OwnersInv, ReconIsAlone
<1>7. FirstTurnFirst' /\ DownIsQuiet'
  BY <1>1, <1>2 DEF SameOwners, OwnersInv, FirstTurnFirst, DownIsQuiet
<1>8. UnownedHasEnded'
  BY <1>2 DEF SameOwners, OwnersInv, UnownedHasEnded
<1> QED
  BY <1>3, <1>4, <1>5, <1>6, <1>7, <1>8

\* What the parts of the handlers make of the place of a turn in activeTurns.
LEMMA PartsKeepOwners ==
  /\ Blank.in = FALSE
  /\ \A a \in ActiveTurn :
       /\ Rest(a).in = a.in /\ Left(a).in = FALSE /\ Throw(a).in = a.in
       /\ Suspend(a).in = a.in /\ Apply(a).in = a.in
       /\ \A outcome \in Outcomes : Settle(a, outcome).in = a.in
<1>1. Blank.in = FALSE
  BY DEF Blank
<1>2. ASSUME NEW a \in ActiveTurn PROVE Rest(a).in = a.in /\ Left(a).in = FALSE
  BY DEF Rest, Left, Blank, ActiveTurn
<1>3. ASSUME NEW a \in ActiveTurn, NEW outcome \in Outcomes PROVE Settle(a, outcome).in = a.in
  BY DEF Settle, ActiveTurn
<1>4. {"completed", "failed", "interrupted"} = Outcomes
  BY DEF Outcomes
<1>5. ASSUME NEW a \in ActiveTurn PROVE Throw(a).in = a.in
  <2>1. Rest(a) \in ActiveTurn
    BY PartsKeepTurns
  <2> QED
    <3>1. CASE Throw(a) = [a EXCEPT !.lease = "suspended", !.pc = "off"]
      BY <3>1 DEF ActiveTurn
    <3>2. CASE \E outcome \in {"interrupted", "failed"} : Throw(a) = Settle(Rest(a), outcome)
      <4>1. PICK outcome \in Outcomes : Throw(a) = Settle(Rest(a), outcome)
        BY <1>4, <3>2
      <4>2. Settle(Rest(a), outcome).in = Rest(a).in
        BY <1>3, <2>1
      <4> QED
        BY <1>2, <4>1, <4>2
    <3> QED
      BY <3>1, <3>2, ThrowForms
<1>6. ASSUME NEW a \in ActiveTurn PROVE Suspend(a).in = a.in
  <2>1. CASE a.pc \in Admission /\ a.aborted
    BY <1>5, <2>1 DEF Suspend
  <2>2. CASE ~(a.pc \in Admission /\ a.aborted)
    <3>1. PICK pc \in {a.pc, "off"} : Suspend(a) = [a EXCEPT !.lease = "suspended", !.pc = pc]
      BY <2>2 DEF Suspend
    <3> QED
      BY <3>1 DEF ActiveTurn
  <2> QED
    BY <2>1, <2>2
<1>7. ASSUME NEW a \in ActiveTurn PROVE Apply(a).in = a.in
  BY <1>3, <1>4 DEF Apply, ActiveTurn
<1> QED
  BY <1>1, <1>2, <1>3, <1>5, <1>6, <1>7

LEMMA HeardKeepsOwners ==
  ASSUME TypeOK, NEW status \in Statuses, Heard(status)
  PROVE  \A t \in Turns : act'[t].in = act[t].in
<1> DEFINE a == [act[map] EXCEPT !.status = status]
<1>1. CASE map \in Turns /\ act[map].in /\ act[map].ends = "no"
  <2>1. act[map] \in ActiveTurn /\ act \in [Turns -> ActiveTurn]
    BY <1>1 DEF TypeOK
  <2>2. a \in ActiveTurn /\ a.in = act[map].in
    BY <2>1 DEF ActiveTurn, Statuses
  <2>3. act' = [act EXCEPT ![map] = Apply(a)]
    BY <1>1, TurnsAssumption DEF Heard, Turns
  <2>4. Apply(a).in = act[map].in
    BY <2>2, PartsKeepOwners
  <2> QED
    BY <2>1, <2>3, <2>4
<1>2. CASE ~(map \in Turns /\ act[map].in /\ act[map].ends = "no")
  BY <1>2, TurnsAssumption DEF Heard, Turns, TypeOK
<1> QED
  BY <1>1, <1>2

LEMMA UnverifiedKeepsOwners ==
  ASSUME TypeInv, NEW t \in Turns, NEW a \in ActiveTurn, a.in = act[t].in, Unverified(t, a)
  PROVE  /\ \A s \in Turns : act'[s].in = act[s].in
         /\ \A s \in Turns : "unowned" \in kill'[s] => "unowned" \in kill[s]
<1>1. act \in [Turns -> ActiveTurn] /\ kill \in [Turns -> SUBSET Kills]
  BY DEF TypeInv, TypeOK, Kills
<1>2. PICK c \in {a, [a EXCEPT !.aborted = TRUE]} : act' = [act EXCEPT ![t] = c]
  BY DEF Unverified
<1>3. c.in = act[t].in
  BY <1>2 DEF ActiveTurn
<1>4. kill' \in {kill, [kill EXCEPT ![t] = @ \cup {"unverified"}]}
  BY DEF Unverified
<1> QED
  BY <1>1, <1>2, <1>3, <1>4

\* Only an active turn is marked, and it stays active.
LEMMA MarkKeepsOwners ==
  ASSUME TypeOK, NEW t \in Turns, Active(t), NEW status \in ActiveStatuses, Mark(t, status)
  PROVE  \A s \in Turns : row'[s] = row[s] \/ (Active(s) /\ row'[s] \in ActiveStatuses)
BY DEF Mark, TypeOK

(***************************************************************************)
(* Steps by which a turn begins, ends or changes hands.                    *)
(***************************************************************************)

\* What holds of the rows in every state with the invariant.
LEMMA RowFacts ==
  ASSUME OwnersInv
  PROVE  /\ 1 \in Turns
         /\ "none" \notin ActiveStatuses /\ "none" \notin Outcomes
         /\ \A s \in ActiveStatuses : s \notin Outcomes
         /\ row \in [Turns -> {"none"} \cup ActiveStatuses \cup Outcomes]
         /\ events \in [Turns -> Nat] /\ act \in [Turns -> ActiveTurn]
         /\ recon.pc # "off" => recon.turn \in Turns
BY TurnsAssumption DEF Turns, ActiveStatuses, Outcomes, OwnersInv, TypeInv, TypeOK, CallsHaveTurns

\* A turn begins: none is active, and it is the first or follows the first.
LEMMA BeginIsSafe ==
  ASSUME OwnersInv, NEW t \in Turns, NEW knows \in BOOLEAN, up,
         row[t] = "none", \A s \in Turns : ~Active(s), t = 1 \/ row[1] # "none",
         Begin(t, knows), UNCHANGED <<events, kill, recon, up, parked>>
  PROVE  TurnsAreOwned'
<1> USE DEF OwnersInv, TurnsAreOwned
<1>1. /\ row' = [row EXCEPT ![t] = "queued"] /\ row'[t] = "queued"
      /\ act' = [act EXCEPT ![t] = [Blank EXCEPT !.in = TRUE, !.pc = "resume", !.knows = knows]]
      /\ act'[t].in = TRUE
      /\ \A s \in Turns \ {t} : row'[s] = row[s] /\ act'[s] = act[s]
  BY RowFacts DEF Begin, Blank
<1>2. "queued" \in ActiveStatuses
  BY DEF ActiveStatuses
<1>3. Active(t)' /\ \A s \in Turns \ {t} : ~Active(s)'
  BY <1>1, <1>2 DEF Active
<1>4. OneLiveTurn' /\ ActiveRowIsOwned'
  BY <1>1, <1>3 DEF OneLiveTurn, ActiveRowIsOwned
<1>5. OneEventPerEnd'
  BY <1>1, <1>2, RowFacts DEF OneEventPerEnd
<1>6. ReconIsAlone'
  BY <1>1, <1>3, RowFacts DEF ReconIsAlone
<1>7. FirstTurnFirst' /\ DownIsQuiet'
  BY <1>1, RowFacts DEF FirstTurnFirst, DownIsQuiet
<1>8. UnownedHasEnded'
  BY <1>1, RowFacts DEF UnownedHasEnded
<1> QED
  BY <1>4, <1>5, <1>6, <1>7, <1>8

\* The active turn ends, and nobody runs it any more.
LEMMA EndIsSafe ==
  ASSUME OwnersInv, NEW t \in Turns, NEW outcome \in Outcomes, Active(t), Finish(t, outcome), up,
         \A s \in Turns : act'[s].in => act[s].in /\ s # t,
         recon'.pc = "off" \/ recon' = recon, up' = up,
         \A s \in Turns \ {t} : "unowned" \in kill'[s] => "unowned" \in kill[s]
  PROVE  TurnsAreOwned'
<1> USE DEF OwnersInv, TurnsAreOwned
<1>1. /\ row' = [row EXCEPT ![t] = outcome] /\ events' = [events EXCEPT ![t] = @ + 1]
      /\ row'[t] = outcome /\ events'[t] = events[t] + 1
      /\ \A s \in Turns \ {t} : row'[s] = row[s] /\ events'[s] = events[s]
  BY RowFacts DEF Finish
<1>2. \A s \in Turns : ~Active(s)' /\ ~act'[s].in
  BY <1>1, RowFacts DEF OneLiveTurn, Active
<1>3. OneLiveTurn' /\ ActiveRowIsOwned'
  BY <1>2 DEF OneLiveTurn, ActiveRowIsOwned
<1>4. OneEventPerEnd'
  BY <1>1, RowFacts DEF OneEventPerEnd, Active
<1>5. ReconIsAlone' /\ FirstTurnFirst' /\ DownIsQuiet'
  BY <1>1, <1>2, RowFacts DEF ReconIsAlone, FirstTurnFirst, DownIsQuiet, Active
<1>6. UnownedHasEnded'
  BY <1>1 DEF UnownedHasEnded
<1> QED
  BY <1>3, <1>4, <1>5, <1>6

\* The active turn is left to be recovered.
LEMMA ParkIsSafe ==
  ASSUME OwnersInv, NEW t \in Turns, act[t].in, t \in parked', parked \subseteq parked',
         \A s \in Turns : act'[s].in => act[s].in /\ s # t,
         \A s \in Turns \ {t} : act'[s].in = act[s].in,
         UNCHANGED <<row, events, quarantined, kill, recon, up>>
  PROVE  TurnsAreOwned'
<1> USE DEF OwnersInv, TurnsAreOwned
<1>1. \A s \in Turns : Active(s)' <=> Active(s)
  BY DEF Active
<1>2. OneLiveTurn' /\ ActiveRowIsOwned'
  BY <1>1 DEF OneLiveTurn, ActiveRowIsOwned
<1>3. OneEventPerEnd' /\ FirstTurnFirst' /\ DownIsQuiet' /\ UnownedHasEnded'
  BY DEF OneEventPerEnd, FirstTurnFirst, DownIsQuiet, UnownedHasEnded
<1>4. ReconIsAlone'
  BY <1>1, RowFacts DEF ReconIsAlone
<1> QED
  BY <1>2, <1>3, <1>4

\* Reconciliation ends with a turn that was over, or with a quarantine.
LEMMA ReconEndIsSafe ==
  ASSUME OwnersInv, recon.pc # "off", recon' = NoRecon,
         ~Active(recon.turn) \/ recon.turn \in quarantined', quarantined \subseteq quarantined',
         \A s \in Turns : "unowned" \in kill'[s] => "unowned" \in kill[s],
         UNCHANGED <<row, events, act, up, parked>>
  PROVE  TurnsAreOwned'
<1> USE DEF OwnersInv, TurnsAreOwned
<1>1. recon'.pc = "off" /\ \A s \in Turns : Active(s)' <=> Active(s)
  BY DEF NoRecon, Active
<1>2. OneLiveTurn' /\ ActiveRowIsOwned'
  BY <1>1 DEF OneLiveTurn, ActiveRowIsOwned
<1>3. OneEventPerEnd' /\ FirstTurnFirst' /\ DownIsQuiet' /\ UnownedHasEnded' /\ ReconIsAlone'
  BY <1>1 DEF OneEventPerEnd, FirstTurnFirst, DownIsQuiet, UnownedHasEnded, ReconIsAlone
<1> QED
  BY <1>2, <1>3

(***************************************************************************)
(* One lemma per group of steps, one step per action.                      *)
(***************************************************************************)

\* Calls of the parent.
LEMMA ParentKeepsOwners ==
  ASSUME OwnersInv,
         \/ Spawn
         \/ \E t \in Turns : FollowUp(t) \/ Interrupt(t) \/ InterruptUnowned(t) \/ InterruptEnds(t)
  PROVE  TurnsAreOwned'
<1>1. /\ act \in [Turns -> ActiveTurn] /\ kill \in [Turns -> SUBSET Kills] /\ bound \in BOOLEAN
      /\ FALSE \in BOOLEAN
  BY DEF OwnersInv, TypeInv, TypeOK, Kills
<1>2. CASE Spawn
  <2>1. \A s \in Turns : ~Active(s)
    BY <1>2, RowFacts DEF Spawn, OwnersInv, TurnsAreOwned, FirstTurnFirst, Active
  <2> QED
    BY <1>1, <1>2, <2>1, RowFacts, BeginIsSafe DEF Spawn, history
<1>3. ASSUME NEW t \in Turns, FollowUp(t) PROVE TurnsAreOwned'
  <2>1. t - 1 \in Turns /\ row[t - 1] # "none"
    BY <1>3, TurnsAssumption DEF FollowUp, Turns
  <2>2. row[1] # "none"
    BY <2>1 DEF OwnersInv, TurnsAreOwned, FirstTurnFirst
  <2> QED
    BY <1>1, <1>3, <2>2, BeginIsSafe DEF FollowUp, history
<1>4. ASSUME NEW t \in Turns, Interrupt(t) PROVE SameOwners
  <2>1. act' = [act EXCEPT ![t].aborted = TRUE] /\ kill' = [kill EXCEPT ![t] = @ \cup {"drain"}]
    BY <1>4 DEF Interrupt
  <2>2. \A s \in Turns : act'[s].in = act[s].in
    BY <1>1, <2>1 DEF ActiveTurn
  <2>3. \A s \in Turns : "unowned" \in kill'[s] => "unowned" \in kill[s]
    BY <1>1, <2>1
  <2> QED
    BY <1>4, <2>2, <2>3 DEF Interrupt, SameOwners, durable, history
<1>5. ASSUME NEW t \in Turns, InterruptUnowned(t) PROVE TurnsAreOwned'
  <2>1. \A s \in Turns \ {t} : "unowned" \in kill'[s] => "unowned" \in kill[s]
    BY <1>1, <1>5 DEF InterruptUnowned
  <2>2. /\ Active(t) /\ Finish(t, "interrupted") /\ "interrupted" \in Outcomes /\ up
        /\ \A s \in Turns : ~act[s].in
        /\ UNCHANGED <<act, recon, up>>
    BY <1>5 DEF InterruptUnowned, Outcomes
  <2> QED
    BY <2>1, <2>2, EndIsSafe
<1>6. ASSUME NEW t \in Turns, InterruptEnds(t) PROVE SameOwners
  <2>1. act' \in {act, [act EXCEPT ![t] = Settle(act[t], "interrupted")]}
    BY <1>6 DEF InterruptEnds, Interrupted
  <2>2. \A s \in Turns : act'[s].in = act[s].in
    BY <1>1, <2>1, PartsKeepOwners DEF Outcomes
  <2>3. PICK done \in Kills : kill' = [kill EXCEPT ![t] = @ \ {done}]
    BY <1>6 DEF InterruptEnds, Interrupted, Kills
  <2>4. \A s \in Turns : "unowned" \in kill'[s] => "unowned" \in kill[s]
    BY <1>1, <2>3
  <2>5. \A s \in Turns : s \in quarantined /\ Active(s) => s \in quarantined'
    <3>1. UNCHANGED quarantined \/ ("unowned" \in kill[t] /\ quarantined' = quarantined \ {t})
      BY <1>6 DEF InterruptEnds, Interrupted
    <3>2. "unowned" \in kill[t] => ~Active(t)
      BY RowFacts DEF OwnersInv, TurnsAreOwned, UnownedHasEnded, Active
    <3> QED
      BY <3>1, <3>2
  <2> QED
    BY <1>6, <2>2, <2>4, <2>5 DEF InterruptEnds, SameOwners, durable, history
<1> QED
  BY <1>2, <1>3, <1>4, <1>5, <1>6, SameOwnersIsSafe

\* The call that runs a turn.
LEMMA RunKeepsOwners ==
  ASSUME OwnersInv, NEW t \in Turns, Run(t) \/ RunFails(t)
  PROVE  TurnsAreOwned'
<1>1. /\ act \in [Turns -> ActiveTurn] /\ act[t] \in ActiveTurn /\ Throw(act[t]).in = act[t].in
      /\ Throw([act[t] EXCEPT !.knows = TRUE]).in = act[t].in
  <2>1. act[t] \in ActiveTurn /\ act \in [Turns -> ActiveTurn]
    BY DEF OwnersInv, TypeInv, TypeOK
  <2>2. [act[t] EXCEPT !.knows = TRUE] \in ActiveTurn
    BY <2>1, FieldsKeepTurns
  <2>3. [act[t] EXCEPT !.knows = TRUE].in = act[t].in
    BY <2>1 DEF ActiveTurn
  <2> QED
    BY <2>1, <2>2, <2>3, PartsKeepOwners
<1>2. ASSUME \A s \in Turns : act'[s].in = act[s].in,
             UNCHANGED <<row, events, quarantined, kill, recon, up, parked>>
      PROVE  TurnsAreOwned'
  <2>1. SameOwners
    BY <1>2 DEF SameOwners
  <2> QED
    BY <2>1, SameOwnersIsSafe
<1>3. CASE Admitted(t)
  <2>1. \A s \in Turns : act'[s].in = act[s].in
    <3>1. act' = [act EXCEPT ![t] = Grant(act[t])]
      BY <1>3 DEF Admitted
    <3>2. Grant(act[t]).in = act[t].in
      BY <1>1, GrantForms DEF ActiveTurn
    <3> QED
      BY <1>1, <3>1, <3>2
  <2> QED
    BY <1>2, <1>3, <2>1 DEF Admitted, durable, history
<1>4. CASE NotAdmitted(t) \/ AcquireFails(t) \/ HandOffFails(t) \/ SendFails(t)
  <2>1. /\ act' = [act EXCEPT ![t] = Throw(act[t])]
        /\ UNCHANGED <<durable, session, map, quarantined, kill, boundary, recon, up, history>>
    BY <1>4 DEF NotAdmitted, AcquireFails, HandOffFails, SendFails
  <2>2. \A s \in Turns : act'[s].in = act[s].in
    BY <1>1, <2>1
  <2> QED
    BY <1>2, <2>1, <2>2 DEF durable, history
<1>5. CASE Checked(t)
  <2>1. \A s \in Turns : act'[s].in = act[s].in
    BY <1>1, <1>5 DEF Checked, ActiveTurn
  <2> QED
    BY <1>2, <1>5, <2>1 DEF Checked, durable, history
<1>6. CASE Acquire(t)
  <2>1. \A s \in Turns : act'[s].in = act[s].in
    <3>1. CASE Bind(t)
      BY <1>1, <3>1 DEF Bind, ActiveTurn
    <3>2. CASE ~Bind(t)
      BY <1>1, <1>6, <3>2 DEF Acquire, ActiveTurn
    <3> QED
      BY <3>1, <3>2
  <2> QED
    BY <1>2, <1>6, <2>1 DEF Acquire, history
<1>7. CASE HandOff(t)
  <2>1. \A s \in Turns : act'[s].in = act[s].in
    BY <1>1, <1>7 DEF HandOff, ActiveTurn
  <2>2. \A s \in Turns : row'[s] = row[s] \/ (Active(s) /\ row'[s] \in ActiveStatuses)
    BY <1>7, MarkKeepsOwners DEF HandOff, OwnersInv, TypeInv, ActiveStatuses
  <2>3. SameOwners
    BY <1>7, <2>1, <2>2 DEF HandOff, SameOwners, history
  <2> QED
    BY <2>3, SameOwnersIsSafe
<1>8. CASE Park(t)
  <2>1. act' = [act EXCEPT ![t] = Blank] /\ act[t].in /\ parked' = parked \cup {t}
    BY <1>8 DEF Park
  <2>2. /\ \A s \in Turns : act'[s].in => act[s].in /\ s # t
        /\ \A s \in Turns \ {t} : act'[s].in = act[s].in
    BY <1>1, <2>1, PartsKeepOwners
  <2> QED
    BY <1>8, <2>1, <2>2, ParkIsSafe DEF Park, durable
<1>9. CASE Accepted(t)
  <2>1. \A s \in Turns : act'[s].in = act[s].in
    BY <1>1, <1>9 DEF Accepted, ActiveTurn
  <2> QED
    BY <1>2, <1>9, <2>1 DEF Accepted, durable
<1>10. CASE SendReturns(t)
  <2> DEFINE a == [act[t] EXCEPT !.handed = TRUE]
  <2>1. a \in ActiveTurn /\ a.in = act[t].in /\ Rest(a) \in ActiveTurn
    <3>1. a \in ActiveTurn
      BY <1>1, FieldsKeepTurns
    <3>2. a.in = act[t].in
      BY <1>1 DEF ActiveTurn
    <3>3. Rest(a) \in ActiveTurn
      BY <3>1, PartsKeepTurns
    <3> QED
      BY <3>1, <3>2, <3>3
  <2>2. Settle(Rest(a), "interrupted").in = act[t].in /\ Apply(Rest(a)).in = act[t].in
    BY <2>1, PartsKeepOwners DEF Outcomes
  <2>3. act' \in {[act EXCEPT ![t] = Settle(Rest(a), "interrupted")],
                 [act EXCEPT ![t] = Apply(Rest(a))]}
    BY <1>10 DEF SendReturns
  <2>4. \A s \in Turns : act'[s].in = act[s].in
    BY <1>1, <2>2, <2>3
  <2> QED
    BY <1>2, <1>10, <2>4 DEF SendReturns, durable, history
<1> QED
  BY <1>3, <1>4, <1>5, <1>6, <1>7, <1>8, <1>9, <1>10 DEF Run, RunFails

\* The end of a turn.
LEMMA EndKeepsOwners ==
  ASSUME OwnersInv, NEW t \in Turns, IdleChecked(t) \/ Settled(t)
  PROVE  TurnsAreOwned'
<1>1. act \in [Turns -> ActiveTurn] /\ act[t] \in ActiveTurn
  BY DEF OwnersInv, TypeInv, TypeOK
<1>2. CASE IdleChecked(t)
  <2> DEFINE a == [act[t] EXCEPT !.idle = FALSE]
  <2>1. a \in ActiveTurn /\ a.in = act[t].in
    <3>1. a \in ActiveTurn
      BY <1>1, FieldsKeepTurns
    <3>2. a.in = act[t].in
      BY <1>1 DEF ActiveTurn
    <3> QED
      BY <3>1, <3>2
  <2>2. /\ \A s \in Turns : act'[s].in = act[s].in
        /\ \A s \in Turns : "unowned" \in kill'[s] => "unowned" \in kill[s]
    <3>1. CASE act' = [act EXCEPT ![t] = Settle(a, "completed")] /\ UNCHANGED <<kill, child, lane>>
      <4>1. Settle(a, "completed").in = act[t].in
        BY <2>1, PartsKeepOwners DEF Outcomes
      <4> QED
        BY <1>1, <3>1, <4>1
    <3>2. CASE Unverified(t, a)
      BY <2>1, <3>2, UnverifiedKeepsOwners DEF OwnersInv
    <3> QED
      BY <1>2, <3>1, <3>2 DEF IdleChecked
  <2>3. SameOwners
    BY <1>2, <2>2 DEF IdleChecked, SameOwners, durable, history
  <2> QED
    BY <2>3, SameOwnersIsSafe
<1>3. CASE Settled(t)
  <2>1. act[t].in /\ act' = [act EXCEPT ![t] = Left(act[t])]
    BY <1>3 DEF Settled
  <2>2. /\ \A s \in Turns : act'[s].in => act[s].in /\ s # t
        /\ \A s \in Turns \ {t} : act'[s].in = act[s].in
    BY <1>1, <2>1, PartsKeepOwners
  <2>3. Active(t)
    BY <2>1 DEF OwnersInv, TurnsAreOwned, OneLiveTurn
  <2>4. up
    BY <2>1 DEF OwnersInv, TurnsAreOwned, DownIsQuiet
  <2>5. Outcome(act[t]) \in Outcomes /\ "failed" \in Outcomes
    BY <1>1, <1>3 DEF Settled, Outcome, Outcomes, ActiveTurn
  <2>6. CASE \E outcome \in Outcomes : Finish(t, outcome)
    BY <1>3, <2>2, <2>3, <2>4, <2>6, EndIsSafe DEF Settled
  <2>7. CASE parked' = parked \cup {t} /\ UNCHANGED <<row, events, author>>
    BY <1>3, <2>1, <2>2, <2>7, ParkIsSafe DEF Settled
  <2> QED
    BY <1>3, <2>5, <2>6, <2>7 DEF Settled
<1> QED
  BY <1>2, <1>3

\* The child session, its user, and the boundaries.
LEMMA ChildKeepsOwners ==
  ASSUME OwnersInv,
         \/ Child \/ UserResumes \/ UserStops \/ EnterBoundary \/ RespondUnmapped
         \/ Bounds \/ ToolRefused
  PROVE  SameOwners
<1>1. /\ act \in [Turns -> ActiveTurn]
      /\ map # 0 => map \in Turns
      /\ boundary.pc # "off" => boundary.turn \in Turns
  BY TurnsAssumption DEF OwnersInv, TypeInv, TypeOK, CallsHaveTurns, Turns
<1>2. CASE ChildStarts \/ ChildPrepares \/ ChildEnds
  <2>1. UNCHANGED act \/ \E status \in Statuses : Heard(status)
    BY <1>2 DEF ChildStarts, ChildPrepares, ChildEnds, Statuses
  <2>2. \A t \in Turns : act'[t].in = act[t].in
    BY <2>1, HeardKeepsOwners DEF OwnersInv, TypeInv
  <2>3. UNCHANGED <<row, events, quarantined, kill, recon, up, parked>>
    BY <1>2 DEF ChildStarts, ChildPrepares, ChildEnds, durable, history
  <2> QED
    BY <2>2, <2>3 DEF SameOwners
<1>3. CASE ChildAsks
  <2>1. CASE map # 0 /\ act[map].in /\ act[map].ends = "no"
    <3>1. act' = [act EXCEPT ![map] = Suspend(act[map])] /\ Mark(map, "waiting")
      BY <1>3, <2>1 DEF ChildAsks
    <3>2. \A t \in Turns : act'[t].in = act[t].in
      BY <1>1, <2>1, <3>1, PartsKeepOwners
    <3>3. Active(map)
      BY <1>1, <2>1 DEF OwnersInv, TurnsAreOwned, OneLiveTurn
    <3>4. \A s \in Turns : row'[s] = row[s] \/ (Active(s) /\ row'[s] \in ActiveStatuses)
      BY <1>1, <2>1, <3>1, <3>3, MarkKeepsOwners DEF OwnersInv, TypeInv, ActiveStatuses
    <3> QED
      BY <1>3, <3>2, <3>4 DEF ChildAsks, SameOwners, history
  <2>2. CASE ~(map # 0 /\ act[map].in /\ act[map].ends = "no")
    BY <1>3, <2>2 DEF ChildAsks, SameOwners, history
  <2> QED
    BY <2>1, <2>2
<1>4. CASE ChildProgresses
  <2>1. Active(map) /\ map \in Turns
    BY <1>1, <1>4 DEF ChildProgresses, OwnersInv, TurnsAreOwned, OneLiveTurn
  <2>2. \A s \in Turns : row'[s] = row[s] \/ (Active(s) /\ row'[s] \in ActiveStatuses)
    BY <1>4, <2>1, MarkKeepsOwners DEF ChildProgresses, OwnersInv, TypeInv, ActiveStatuses
  <2> QED
    BY <1>4, <2>2 DEF ChildProgresses, SameOwners, service, history
<1>5. CASE UserResumes \/ UserStops \/ EnterBoundary \/ RespondUnmapped
  BY <1>5 DEF UserResumes, UserStops, EnterBoundary, RespondUnmapped, SameOwners, durable,
              service, history
<1>6. CASE PassBoundary
  <2>1. act' \in {act, [act EXCEPT ![boundary.turn] = Grant(@)],
                 [act EXCEPT ![boundary.turn].lease = "suspended"]}
    BY <1>6 DEF PassBoundary
  <2>2. ASSUME NEW t \in Turns PROVE act'[t].in = act[t].in
    <3>1. act[t] \in ActiveTurn /\ act'[t] \in {act[t], Grant(act[t]),
                                               [act[t] EXCEPT !.lease = "suspended"]}
      BY <1>1, <2>1
    <3>2. Grant(act[t]).in = act[t].in
      BY <3>1, GrantForms DEF ActiveTurn
    <3> QED
      BY <3>1, <3>2 DEF ActiveTurn
  <2> QED
    BY <1>6, <2>2 DEF PassBoundary, SameOwners, durable, history
<1>7. CASE FailBoundary
  <2>1. boundary.turn \in Turns
    BY <1>1, <1>7 DEF FailBoundary
  <2>2. /\ \A t \in Turns : act'[t].in = act[t].in
        /\ \A s \in Turns : "unowned" \in kill'[s] => "unowned" \in kill[s]
    <3>1. CASE Unverified(boundary.turn, act[boundary.turn])
      BY <1>1, <2>1, <3>1, UnverifiedKeepsOwners DEF OwnersInv
    <3> QED
      BY <1>7, <3>1 DEF FailBoundary
  <2> QED
    BY <1>7, <2>2 DEF FailBoundary, SameOwners, durable, history
<1>8. CASE ToolRefused
  <2>1. /\ \A t \in Turns : act'[t].in = act[t].in
        /\ \A s \in Turns : "unowned" \in kill'[s] => "unowned" \in kill[s]
    BY <1>1, <1>8, UnverifiedKeepsOwners DEF ToolRefused, OwnersInv
  <2> QED
    BY <1>8, <2>1 DEF ToolRefused, SameOwners, durable, history
<1> QED
  BY <1>2, <1>3, <1>4, <1>5, <1>6, <1>7, <1>8 DEF Child, Bounds

\* A crash, the restart, and the reconciliation of the turn that was active.
LEMMA RestartKeepsOwners ==
  ASSUME OwnersInv, Crash \/ Start \/ Look \/ LookFails \/ Reconcile \/ Quarantine
  PROVE  TurnsAreOwned'
<1> USE DEF OwnersInv, TurnsAreOwned
<1>1. /\ act \in [Turns -> ActiveTurn] /\ kill \in [Turns -> SUBSET Kills]
      /\ recon.pc # "off" => recon.turn \in Turns
      /\ recon.pc # "off" => up
  BY DEF TypeInv, TypeOK, CallsHaveTurns, Kills, DownIsQuiet
<1>2. CASE Crash
  <2>1. /\ UNCHANGED <<row, events>> /\ up' = FALSE /\ recon'.pc = "off"
        /\ \A t \in Turns : ~act'[t].in /\ kill'[t] = {}
    BY <1>2, PartsKeepOwners DEF Crash, durable, NoRecon
  <2>2. \A t \in Turns : Active(t)' <=> Active(t)
    BY <2>1 DEF Active
  <2> QED
    BY <2>1, <2>2 DEF OneLiveTurn, ActiveRowIsOwned, OneEventPerEnd, ReconIsAlone, FirstTurnFirst,
                      DownIsQuiet, UnownedHasEnded
<1>3. CASE Start
  <2>1. /\ UNCHANGED <<row, events, act, kill>> /\ up' = TRUE
        /\ recon.pc = "off" /\ \A t \in Turns : ~act[t].in
    BY <1>3 DEF Start, durable, DownIsQuiet
  <2>2. \A t \in Turns : Active(t)' <=> Active(t)
    BY <2>1 DEF Active
  <2>3. CASE \E t \in Turns : Active(t)
    <3>1. recon'.pc = "look" /\ Active(recon'.turn) /\ recon'.turn \in Turns
      BY <1>3, <2>3 DEF Start
    <3>2. row'[recon'.turn] # "none"
      BY <2>1, <3>1, RowFacts DEF Active
    <3> QED
      BY <2>1, <2>2, <3>1, <3>2 DEF OneLiveTurn, ActiveRowIsOwned, OneEventPerEnd, ReconIsAlone,
                                   FirstTurnFirst, DownIsQuiet, UnownedHasEnded
  <2>4. CASE \A t \in Turns : ~Active(t)
    <3>1. UNCHANGED recon
      BY <1>3, <2>4 DEF Start
    <3> QED
      BY <2>1, <2>2, <2>4, <3>1 DEF OneLiveTurn, ActiveRowIsOwned, OneEventPerEnd, ReconIsAlone,
                                   FirstTurnFirst, DownIsQuiet, UnownedHasEnded
  <2> QED
    BY <2>3, <2>4
<1>4. CASE Look
  <2>1. recon'.pc = "found" /\ recon.pc = "look" /\ recon'.turn = recon.turn
    BY <1>4 DEF Look, TypeInv, TypeOK
  <2>2. SameOwners
    BY <1>4, <2>1 DEF Look, SameOwners, durable, history
  <2> QED
    BY <2>2, SameOwnersIsSafe
<1>5. CASE LookFails \/ ReconcileLost
  <2>1. /\ recon.pc # "off" /\ Finish(recon.turn, "interrupted") /\ recon' = NoRecon
        /\ UNCHANGED <<act, quarantined, kill, up, parked>> /\ "interrupted" \in Outcomes
    BY <1>5 DEF LookFails, ReconcileLost, Outcomes
  <2>2. CASE Active(recon.turn)
    <3>1. \A s \in Turns : ~act'[s].in
      BY <2>1, <2>2 DEF ReconIsAlone
    <3>2. recon'.pc = "off"
      BY <2>1 DEF NoRecon
    <3> QED
      BY <1>1, <2>1, <2>2, <3>1, <3>2, EndIsSafe
  <2>3. CASE ~Active(recon.turn)
    BY <2>1, <2>3, ReconEndIsSafe DEF Finish
  <2> QED
    BY <2>2, <2>3
<1>6. CASE ReconcileOver
  BY <1>6, ReconEndIsSafe DEF ReconcileOver, durable, history
<1>7. CASE Quarantine
  BY <1>7, ReconEndIsSafe DEF Quarantine, history
<1>8. CASE Adopt
  <2> DEFINE t == recon.turn
  <2>1. /\ t \in Turns /\ Active(t) /\ up /\ \A s \in Turns : ~act[s].in
        /\ recon'.pc = "off" /\ UNCHANGED <<events, quarantined, kill, up, parked>>
    BY <1>1, <1>8 DEF Adopt, ReconIsAlone, NoRecon, history
  <2>2. \A s \in Turns \ {t} : act'[s].in = act[s].in
    BY <1>1, <1>8 DEF Adopt
  <2>3. Mark(t, "running") \/ UNCHANGED row
    BY <1>8 DEF Adopt
  <2>4. \A s \in Turns : row'[s] = row[s] \/ (Active(s) /\ row'[s] \in ActiveStatuses)
    BY <2>1, <2>3, MarkKeepsOwners DEF TypeInv, ActiveStatuses
  <2>5. \A s \in Turns : /\ Active(s)' <=> Active(s)
                         /\ row'[s] = "none" <=> row[s] = "none"
                         /\ row'[s] \in Outcomes <=> row[s] \in Outcomes
    BY <2>4, RowFacts DEF Active
  <2>6. act'[t].in
    <3> DEFINE new == [Blank EXCEPT !.in = TRUE, !.knows = TRUE, !.status = recon.saw,
                                    !.handed = recon.saw = "generating" \/ t \in begun]
    <3>1. new \in ActiveTurn /\ new.in
      <4>1. recon.saw \in Statuses /\ (recon.saw = "generating" \/ t \in begun) \in BOOLEAN
        BY DEF TypeInv, TypeOK, Statuses
      <4> QED
        BY <4>1 DEF Blank, ActiveTurn, Awaits, Statuses
    <3>2. act'[t] \in {[new EXCEPT !.pc = "off"], [new EXCEPT !.pc = "readmit"],
                      [new EXCEPT !.pc = "resume", !.status = "none"],
                      Settle(new, "failed"), Settle(new, "completed")}
      BY <1>1, <1>8, <2>1 DEF Adopt
    <3>3. /\ [new EXCEPT !.pc = "off"].in /\ [new EXCEPT !.pc = "readmit"].in
          /\ [new EXCEPT !.pc = "resume", !.status = "none"].in
      BY DEF Blank
    <3>4. Settle(new, "failed").in /\ Settle(new, "completed").in
      BY <3>1, PartsKeepOwners DEF Outcomes
    <3> QED
      BY <3>2, <3>3, <3>4
  <2>7. OneLiveTurn' /\ ActiveRowIsOwned'
    BY <2>1, <2>2, <2>5, <2>6 DEF OneLiveTurn, ActiveRowIsOwned
  <2>8. OneEventPerEnd' /\ FirstTurnFirst' /\ UnownedHasEnded'
    BY <2>1, <2>5, RowFacts DEF OneEventPerEnd, FirstTurnFirst, UnownedHasEnded
  <2>9. ReconIsAlone' /\ DownIsQuiet'
    BY <2>1 DEF ReconIsAlone, DownIsQuiet
  <2> QED
    BY <2>7, <2>8, <2>9
<1> QED
  BY <1>2, <1>3, <1>4, <1>5, <1>6, <1>7, <1>8 DEF Reconcile

LEMMA OwnersInductive == ASSUME OwnersInv, [Next]_vars PROVE OwnersInv'
<1>1. TypeInv'
  BY TypeInductive DEF OwnersInv
<1>2. CASE UNCHANGED vars
  <2>1. SameOwners
    BY <1>2 DEF vars, durable, service, history, SameOwners
  <2> QED
    BY <1>1, <2>1, SameOwnersIsSafe DEF OwnersInv
<1>3. CASE Next
  <2>1. TurnsAreOwned'
    BY <1>3, ParentKeepsOwners, RunKeepsOwners, EndKeepsOwners, ChildKeepsOwners,
       RestartKeepsOwners, SameOwnersIsSafe DEF Next
  <2> QED
    BY <1>1, <2>1 DEF OwnersInv
<1> QED
  BY <1>2, <1>3

LEMMA OwnersInit == Init => OwnersInv
<1>1. Init => TurnsAreOwned
  BY PartsKeepOwners DEF Init, TurnsAreOwned, OneLiveTurn, ActiveRowIsOwned, OneEventPerEnd,
     ReconIsAlone, FirstTurnFirst, DownIsQuiet, UnownedHasEnded, NoRecon, Active, ActiveStatuses,
     Outcomes
<1> QED
  BY <1>1, TypeInit DEF OwnersInv

LEMMA OwnersAlways == Spec => []OwnersInv
<1>1. Init => OwnersInv
  BY OwnersInit
<1>2. OwnersInv /\ [Next]_vars => OwnersInv'
  BY OwnersInductive
<1> QED
  BY <1>1, <1>2, PTL DEF Spec

\* Through failures, interruptions and restarts a delegation has one live turn, an active turn
\* has an owner, and a turn that ended put one event in the mailbox of its parent (settle,
\* interruptDelegation, reconcileActiveTurn).
THEOREM DelegationsAreConsistent == Spec => []Consistent
<1>1. OwnersInv => Consistent
  BY DEF OwnersInv, TurnsAreOwned, TypeInv, Consistent
<1> QED
  BY <1>1, OwnersAlways, PTL
-----------------------------------------------------------------------------
(* The permit of a waiting turn.                                           *)

\* Awaits of a call that knows its child.
Knowing == {"sync", "send", "sent"}

\* Why a turn that waits holds no permit: it is not at an admission, nothing gives it a permit
\* once it ends, and while a response goes on at the boundary it is its own.
PermitRules(t) ==
  /\ row[t] = "waiting" => t \in begun
  /\ map = t => row[t] # "none"
  /\ act[t].pc \in Knowing => act[t].knows
  /\ act[t].in /\ map = t => act[t].knows
  /\ act[t].in /\ row[t] = "waiting" => act[t].pc \notin Admission
  /\ act[t].in /\ row[t] = "waiting" /\ act[t].lease = "active" => act[t].ends = "no"
  /\ act[t].in /\ row[t] = "waiting" /\ act[t].lease = "active" /\ map = t
       => /\ child # "asking"
          /\ child = "resuming" => boundary.pc # "off" /\ boundary.turn = t

PermitInv == \A t \in Turns : PermitRules(t)

\* A turn may lose its permit, end, or go on to an await that is not an admission.
Tame(a, b) ==
  /\ b.in => a.in
  /\ b.in /\ a.knows => b.knows
  /\ b.pc \in Admission => a.pc \in Admission
  /\ b.pc \in Knowing /\ ~b.knows => a.pc \in Knowing /\ ~a.knows
  /\ b.lease # a.lease => b.lease # "active"
  /\ b.ends # a.ends => b.lease # "active"

LEMMA TameIsTransitive ==
  ASSUME NEW a, NEW b, NEW c, Tame(a, b), Tame(b, c), a.in \in BOOLEAN, b.in \in BOOLEAN
  PROVE  Tame(a, c)
BY DEF Tame

LEMMA PartsAreTame ==
  \A a \in ActiveTurn :
    /\ Tame(a, a) /\ Tame(a, Blank) /\ Tame(a, Rest(a)) /\ Tame(a, Left(a)) /\ Tame(a, Throw(a))
    /\ Tame(a, Suspend(a)) /\ Tame(a, Apply(a))
    /\ \A outcome \in Outcomes : Tame(a, Settle(a, outcome))
    /\ Tame(a, [a EXCEPT !.aborted = TRUE]) /\ Tame(a, [a EXCEPT !.idle = FALSE])
    /\ Tame(a, [a EXCEPT !.handed = TRUE]) /\ Tame(a, [a EXCEPT !.knows = TRUE])
    /\ Tame(a, [a EXCEPT !.lease = "suspended"])
    /\ \A status \in Statuses : Tame(a, [a EXCEPT !.status = status])
<1> SUFFICES ASSUME NEW a \in ActiveTurn
             PROVE  /\ Tame(a, a) /\ Tame(a, Blank) /\ Tame(a, Rest(a)) /\ Tame(a, Left(a))
                    /\ Tame(a, Throw(a)) /\ Tame(a, Suspend(a)) /\ Tame(a, Apply(a))
                    /\ \A outcome \in Outcomes : Tame(a, Settle(a, outcome))
                    /\ Tame(a, [a EXCEPT !.aborted = TRUE]) /\ Tame(a, [a EXCEPT !.idle = FALSE])
                    /\ Tame(a, [a EXCEPT !.handed = TRUE]) /\ Tame(a, [a EXCEPT !.knows = TRUE])
                    /\ Tame(a, [a EXCEPT !.lease = "suspended"])
                    /\ \A status \in Statuses : Tame(a, [a EXCEPT !.status = status])
  OBVIOUS
<1>0. /\ "off" \notin Admission /\ "off" \notin Knowing
      /\ {"completed", "failed", "interrupted"} = Outcomes
  BY DEF Admission, Knowing, Outcomes
<1>1. Tame(a, a) /\ Tame(a, Blank)
  BY <1>0 DEF Tame, Blank
<1>2. Tame(a, Rest(a)) /\ Rest(a) \in ActiveTurn
  <2>1. Tame(a, [a EXCEPT !.pc = "off"])
    BY <1>0 DEF Tame, ActiveTurn
  <2> QED
    BY <1>1, <2>1, PartsKeepTurns DEF Rest
<1>3. Tame(a, Left(a))
  BY <1>0, <1>1 DEF Tame, Left, Blank, ActiveTurn
<1>4. ASSUME NEW b \in ActiveTurn, NEW outcome \in Outcomes
      PROVE  Tame(b, Settle(b, outcome))
  <2>1. Tame(b, [b EXCEPT !.ends = outcome, !.lease = "released"])
    BY DEF Tame, ActiveTurn
  <2>2. Tame(b, b)
    BY DEF Tame
  <2> QED
    BY <2>1, <2>2 DEF Settle
<1>5. Tame(a, Throw(a))
  <2>1. CASE Throw(a) = [a EXCEPT !.lease = "suspended", !.pc = "off"]
    BY <1>0, <2>1 DEF Tame, ActiveTurn
  <2>2. CASE \E outcome \in {"interrupted", "failed"} : Throw(a) = Settle(Rest(a), outcome)
    <3>1. Tame(Rest(a), Throw(a))
      BY <1>0, <1>2, <1>4, <2>2
    <3>2. a.in \in BOOLEAN /\ Rest(a).in \in BOOLEAN
      BY <1>2 DEF ActiveTurn
    <3> QED
      BY <1>2, <3>1, <3>2, TameIsTransitive
  <2> QED
    BY <2>1, <2>2, ThrowForms
<1>6. Tame(a, Suspend(a))
  <2>1. ASSUME NEW pc \in {a.pc, "off"}
        PROVE  Tame(a, [a EXCEPT !.lease = "suspended", !.pc = pc])
    BY <1>0 DEF Tame, ActiveTurn
  <2>2. CASE a.pc \in Admission /\ a.aborted
    BY <1>5, <2>2 DEF Suspend
  <2>3. CASE ~(a.pc \in Admission /\ a.aborted)
    <3>1. \E pc \in {a.pc, "off"} : Suspend(a) = [a EXCEPT !.lease = "suspended", !.pc = pc]
      BY <2>3 DEF Suspend
    <3> QED
      BY <2>1, <3>1
  <2> QED
    BY <2>2, <2>3
<1>7. Tame(a, Apply(a))
  <2>1. Tame(a, [a EXCEPT !.idle = @ \/ a.status = "idle"])
    BY DEF Tame, ActiveTurn
  <2> QED
    BY <1>0, <1>1, <1>4, <2>1 DEF Apply
<1>8. /\ Tame(a, [a EXCEPT !.aborted = TRUE]) /\ Tame(a, [a EXCEPT !.idle = FALSE])
      /\ Tame(a, [a EXCEPT !.handed = TRUE])
      /\ Tame(a, [a EXCEPT !.knows = TRUE])
      /\ Tame(a, [a EXCEPT !.lease = "suspended"])
      /\ \A status \in Statuses : Tame(a, [a EXCEPT !.status = status])
  BY DEF Tame, ActiveTurn
<1> QED
  BY <1>1, <1>2, <1>3, <1>4, <1>5, <1>6, <1>7, <1>8

\* One turn is changed.
LEMMA OneIsTame ==
  ASSUME act \in [Turns -> ActiveTurn], NEW t \in Turns, NEW b, Tame(act[t], b),
         act' = [act EXCEPT ![t] = b]
  PROVE  \A s \in Turns : Tame(act[s], act'[s])
BY PartsAreTame

LEMMA HeardIsTame ==
  ASSUME TypeOK, NEW status \in Statuses, Heard(status)
  PROVE  \A t \in Turns : Tame(act[t], act'[t])
<1>0. act \in [Turns -> ActiveTurn]
  BY DEF TypeOK
<1>1. CASE map \in Turns /\ act[map].in /\ act[map].ends = "no"
  <2>1. PICK t \in Turns : t = map
    BY <1>1
  <2> DEFINE a == [act[t] EXCEPT !.status = status]
  <2>2. act[t] \in ActiveTurn /\ a \in ActiveTurn
    BY <1>0 DEF ActiveTurn, Statuses
  <2>3. act' = [act EXCEPT ![t] = Apply(a)]
    BY <1>1, <2>1, TurnsAssumption DEF Heard, Turns
  <2>4. Tame(act[t], a) /\ Tame(a, Apply(a)) /\ act[t].in \in BOOLEAN /\ a.in \in BOOLEAN
    BY <2>2, PartsAreTame DEF ActiveTurn
  <2>5. Tame(act[t], Apply(a))
    BY <2>4, TameIsTransitive
  <2> QED
    BY <1>0, <2>3, <2>5, OneIsTame
<1>2. CASE ~(map \in Turns /\ act[map].in /\ act[map].ends = "no")
  <2>1. act' = act
    BY <1>2, TurnsAssumption DEF Heard, Turns, TypeOK
  <2> QED
    BY <1>0, <2>1, PartsAreTame
<1> QED
  BY <1>1, <1>2

LEMMA UnverifiedIsTame ==
  ASSUME TypeOK, NEW t \in Turns, NEW a \in ActiveTurn, Tame(act[t], a), Unverified(t, a)
  PROVE  \A s \in Turns : Tame(act[s], act'[s])
<1>1. PICK b \in {a, [a EXCEPT !.aborted = TRUE]} : act' = [act EXCEPT ![t] = b]
  BY DEF Unverified
<1>2. act \in [Turns -> ActiveTurn] /\ act[t] \in ActiveTurn
  BY DEF TypeOK
<1>3. Tame(a, b) /\ a.in \in BOOLEAN /\ act[t].in \in BOOLEAN
  BY <1>1, <1>2, PartsAreTame DEF ActiveTurn
<1>4. Tame(act[t], b)
  BY <1>3, TameIsTransitive
<1> QED
  BY <1>1, <1>2, <1>4, OneIsTame

\* A turn gets no permit, its row does not begin to wait, and the child neither asks nor
\* resumes for it.
GivesNothing(t) ==
  /\ Tame(act[t], act'[t])
  /\ row'[t] = "none" => row[t] = "none"
  /\ row'[t] = "waiting" => row[t] = "waiting"
  /\ begun \subseteq begun'
  /\ map' = t => /\ map = t
                 /\ child' = "asking" => child = "asking"
                 /\ child' = "resuming" => child = "resuming" /\ boundary' = boundary

LEMMA GivesNothingIsSafe ==
  ASSUME TypeOK, NEW t \in Turns, PermitRules(t), GivesNothing(t)
  PROVE  PermitRules(t)'
<1>1. act[t].in \in BOOLEAN /\ act[t].knows \in BOOLEAN
  BY DEF TypeOK, ActiveTurn
<1>2. (row[t] = "waiting" => t \in begun)' /\ (map = t => row[t] # "none")'
  BY DEF PermitRules, GivesNothing
<1>3. (act[t].pc \in Knowing => act[t].knows)' /\ (act[t].in /\ map = t => act[t].knows)'
  BY <1>1 DEF PermitRules, GivesNothing, Tame
<1>4. act'[t].in /\ row'[t] = "waiting" =>
        /\ act'[t].pc \notin Admission
        /\ act'[t].lease = "active" => act'[t].ends = "no"
        /\ act'[t].lease = "active" /\ map' = t =>
             /\ child' # "asking"
             /\ child' = "resuming" => boundary'.pc # "off" /\ boundary'.turn = t
  BY DEF PermitRules, GivesNothing, Tame
<1> QED
  BY <1>2, <1>3, <1>4 DEF PermitRules

LEMMA PermitFacts ==
  ASSUME TypeOK
  PROVE  /\ act \in [Turns -> ActiveTurn] /\ bound \in BOOLEAN /\ FALSE \in BOOLEAN
         /\ 0 \notin Turns
         /\ row \in [Turns -> {"none"} \cup ActiveStatuses \cup Outcomes]
         /\ \A s \in Turns : Tame(act[s], act[s])
<1>1. act \in [Turns -> ActiveTurn] /\ bound \in BOOLEAN
      /\ row \in [Turns -> {"none"} \cup ActiveStatuses \cup Outcomes]
  BY DEF TypeOK
<1>2. 0 \notin Turns
  BY TurnsAssumption DEF Turns
<1> QED
  BY <1>1, <1>2, PartsAreTame

(***************************************************************************)
(* Permits: one lemma per group of steps, one step per action.             *)
(***************************************************************************)

\* Calls of the parent.
LEMMA ParentGivesNoPermit ==
  ASSUME OwnersInv, HandOffInv, PermitInv,
         \/ Spawn
         \/ \E t \in Turns : FollowUp(t) \/ Interrupt(t) \/ InterruptUnowned(t) \/ InterruptEnds(t)
  PROVE  PermitInv'
<1>1. /\ act \in [Turns -> ActiveTurn] /\ bound \in BOOLEAN /\ FALSE \in BOOLEAN /\ 0 \notin Turns
      /\ row \in [Turns -> {"none"} \cup ActiveStatuses \cup Outcomes] /\ TypeOK
      /\ \A s \in Turns : Tame(act[s], act[s])
  BY PermitFacts DEF HandOffInv, TypeInv
<1>2. ASSUME NEW t \in Turns, NEW knows \in BOOLEAN, row[t] = "none", Begin(t, knows),
             UNCHANGED <<begun, child, boundary>>
      PROVE  PermitInv'
  <2>1. /\ row' = [row EXCEPT ![t] = "queued"] /\ row'[t] = "queued"
        /\ act'[t].pc = "resume" /\ act'[t].knows = knows
        /\ \A s \in Turns \ {t} : row'[s] = row[s] /\ act'[s] = act[s]
        /\ map' = IF knows THEN t ELSE map
    BY <1>1, <1>2 DEF Begin, Blank
  <2>2. PermitRules(t)'
    <3>1. map # t
      BY <1>2 DEF PermitInv, PermitRules
    <3> QED
      BY <2>1, <3>1 DEF PermitRules, Knowing
  <2>3. ASSUME NEW s \in Turns \ {t} PROVE PermitRules(s)'
    <3>1. GivesNothing(s)
      BY <1>1, <1>2, <2>1 DEF GivesNothing
    <3> QED
      BY <1>1, <3>1, GivesNothingIsSafe DEF PermitInv
  <2> QED
    BY <2>2, <2>3 DEF PermitInv
<1>3. CASE Spawn
  BY <1>1, <1>2, <1>3, RowFacts DEF Spawn, session
<1>4. ASSUME NEW t \in Turns, FollowUp(t) PROVE PermitInv'
  BY <1>1, <1>2, <1>4 DEF FollowUp, session
<1>5. ASSUME NEW t \in Turns, Interrupt(t), NEW s \in Turns PROVE GivesNothing(s)
  <2>1. act' = [act EXCEPT ![t] = [act[t] EXCEPT !.aborted = TRUE]]
    BY <1>5 DEF Interrupt
  <2>2. Tame(act[s], act'[s])
    BY <1>1, <2>1, PartsAreTame, OneIsTame
  <2>3. child' = "asking" => child = "asking"
    BY <1>5 DEF Interrupt, CancelChild
  <2>4. child' = "resuming" => child = "resuming"
    BY <1>5 DEF Interrupt, CancelChild
  <2> QED
    BY <1>5, <2>2, <2>3, <2>4 DEF Interrupt, GivesNothing, durable
<1>6. ASSUME NEW t \in Turns, InterruptUnowned(t), NEW s \in Turns PROVE GivesNothing(s)
  <2>1. row' \in {row, [row EXCEPT ![t] = "interrupted"]}
    BY <1>6 DEF InterruptUnowned, Finish
  <2>2. (child' = "asking" => child = "asking") /\ (child' = "resuming" => child = "resuming")
    BY <1>6 DEF InterruptUnowned, CancelChild
  <2> QED
    BY <1>1, <1>6, <2>1, <2>2 DEF InterruptUnowned, GivesNothing
<1>7. ASSUME NEW t \in Turns, InterruptEnds(t), NEW s \in Turns PROVE GivesNothing(s)
  <2>1. act' \in {act, [act EXCEPT ![t] = Settle(act[t], "interrupted")]}
    BY <1>7 DEF InterruptEnds, Interrupted
  <2>2. Tame(act[s], act'[s])
    BY <1>1, <2>1, PartsAreTame, OneIsTame DEF Outcomes
  <2>3. map' \in {map, 0}
    BY <1>7 DEF InterruptEnds, Interrupted
  <2> QED
    BY <1>1, <1>7, <2>2, <2>3 DEF InterruptEnds, GivesNothing, durable, session
<1> QED
  BY <1>1, <1>3, <1>4, <1>5, <1>6, <1>7, GivesNothingIsSafe DEF PermitInv
\* The call that runs a turn.
LEMMA RunGivesNoPermit ==
  ASSUME HandOffInv, PermitInv, NEW t \in Turns, Run(t) \/ RunFails(t)
  PROVE  PermitInv'
<1>1. /\ act \in [Turns -> ActiveTurn] /\ 0 \notin Turns /\ TypeOK /\ act[t] \in ActiveTurn
      /\ \A s \in Turns : Tame(act[s], act[s])
  BY PermitFacts DEF HandOffInv, TypeInv
<1>2. ASSUME NEW pc \in Awaits \ Admission, pc \in Knowing => act[t].pc \in Knowing
      PROVE  Tame(act[t], [act[t] EXCEPT !.pc = pc])
  BY <1>1, <1>2 DEF Tame, ActiveTurn
<1>3. Tame(act[t], [act[t] EXCEPT !.knows = TRUE, !.pc = "sync"])
  BY <1>1 DEF Tame, ActiveTurn, Admission
<1>4. /\ {"find", "create", "bind"} \subseteq (Awaits \ Admission) \ Knowing
      /\ {"send", "sent"} \subseteq Awaits \ Admission
  BY DEF Awaits, Admission, Knowing
<1>5. Tame(act[t], Throw(act[t])) /\ Tame(act[t], Throw([act[t] EXCEPT !.knows = TRUE]))
  <2> DEFINE a == [act[t] EXCEPT !.knows = TRUE]
  <2>1. a \in ActiveTurn /\ Tame(act[t], a)
    BY <1>1, PartsAreTame, FieldsKeepTurns
  <2> HIDE DEF a
  <2>2. act[t].in \in BOOLEAN /\ a.in \in BOOLEAN
    BY <1>1, <2>1 DEF ActiveTurn
  <2>3. Tame(a, Throw(a)) /\ Tame(act[t], Throw(act[t]))
    BY <1>1, <2>1, PartsAreTame
  <2>4. Tame(act[t], Throw(a))
    BY <2>1, <2>2, <2>3, TameIsTransitive
  <2> QED
    BY <2>3, <2>4 DEF a
\* Steps that change the turn and nothing that its permit depends on.
<1>6. ASSUME NEW b, Tame(act[t], b), act' = [act EXCEPT ![t] = b],
             UNCHANGED <<row, begun>>, map' \in {map, 0},
             child' = "asking" => child = "asking",
             child' = "resuming" => child = "resuming", boundary' = boundary
      PROVE  PermitInv'
  <2>1. ASSUME NEW s \in Turns PROVE GivesNothing(s)
    BY <1>1, <1>6, OneIsTame DEF GivesNothing
  <2> QED
    BY <1>1, <2>1, GivesNothingIsSafe DEF PermitInv
<1> DEFINE Stays == UNCHANGED <<row, begun, boundary>>
           Hushed == /\ child' = "asking" => child = "asking"
                     /\ child' = "resuming" => child = "resuming"
<1>7. CASE Admitted(t)
  <2>1. /\ act[t].pc \in Admission /\ PermitRules(t)
        /\ act'[t].pc \in {"safety", "off"} /\ act'[t].knows = act[t].knows
        /\ act'[t].in = act[t].in
        /\ \A s \in Turns \ {t} : act'[s] = act[s]
    <3>1. PICK pc \in Awaits \ Admission :
            /\ Grant(act[t]) = [act[t] EXCEPT !.lease = "active", !.pc = pc]
            /\ pc \in {act[t].pc, "safety", "off"}
      BY <1>1, GrantForms
    <3>2. act[t].pc \in Admission /\ act' = [act EXCEPT ![t] = Grant(act[t])]
      BY <1>7 DEF Admitted
    <3>3. /\ act'[t] = Grant(act[t]) /\ Grant(act[t]).pc \in {"safety", "off"}
          /\ Grant(act[t]).knows = act[t].knows /\ Grant(act[t]).in = act[t].in
      BY <1>1, <3>1, <3>2 DEF ActiveTurn
    <3> QED
      BY <1>1, <3>2, <3>3 DEF PermitInv
  <2>2. UNCHANGED <<row, begun, map, child, boundary>>
    BY <1>7 DEF Admitted, durable, session
  <2>3. PermitRules(t)'
    BY <2>1, <2>2 DEF PermitRules, Knowing, Admission
  <2>4. ASSUME NEW s \in Turns \ {t} PROVE PermitRules(s)'
    BY <1>1, <2>1, <2>2, GivesNothingIsSafe DEF PermitInv, GivesNothing
  <2> QED
    BY <2>3, <2>4 DEF PermitInv
<1>8. CASE Checked(t) \/ NotAdmitted(t) \/ AcquireFails(t) \/ HandOffFails(t) \/ SendFails(t)
  <2>1. PICK b \in {[act[t] EXCEPT !.pc = "find"], Throw(act[t])} : act' = [act EXCEPT ![t] = b]
    BY <1>8 DEF Checked, NotAdmitted, AcquireFails, HandOffFails, SendFails
  <2>2. Tame(act[t], b)
    BY <1>2, <1>4, <1>5, <2>1
  <2>3. UNCHANGED <<row, begun, map, child, boundary>>
    BY <1>8
    DEF Checked, NotAdmitted, AcquireFails, HandOffFails, SendFails, durable, session
  <2> QED
    BY <1>6, <2>1, <2>2, <2>3
<1>9. CASE Acquire(t)
  <2>1. PICK b \in {[act[t] EXCEPT !.pc = "create"], [act[t] EXCEPT !.pc = "bind"],
                    [act[t] EXCEPT !.knows = TRUE, !.pc = "sync"], Throw(act[t]),
                    Throw([act[t] EXCEPT !.knows = TRUE])} : act' = [act EXCEPT ![t] = b]
    BY <1>1, <1>9 DEF Acquire, Bind
  <2>2. Tame(act[t], b)
    BY <1>2, <1>3, <1>4, <1>5, <2>1
  <2>3. UNCHANGED <<row, begun, map, boundary>> /\ Hushed
    BY <1>9 DEF Acquire, Bind, CancelChild
  <2> QED
    BY <1>6, <2>1, <2>2, <2>3
<1>10. CASE HandOff(t)
  <2>1. /\ act[t].pc = "sync" /\ PermitRules(t) /\ t \in begun'
        /\ row'[t] = "running" /\ act'[t].pc = "send" /\ act'[t].knows = act[t].knows
        /\ \A s \in Turns \ {t} : act'[s] = act[s] /\ row'[s] = row[s]
        /\ begun \subseteq begun' /\ map' = t
    BY <1>1, <1>10 DEF HandOff, Mark, PermitInv, ActiveTurn, TypeOK
  <2>2. PermitRules(t)'
    BY <2>1 DEF PermitRules, Knowing, Admission
  <2>3. ASSUME NEW s \in Turns \ {t} PROVE PermitRules(s)'
    BY <1>1, <2>1, GivesNothingIsSafe DEF PermitInv, GivesNothing
  <2> QED
    BY <2>2, <2>3 DEF PermitInv
<1>11. CASE Park(t)
  <2>1. act' = [act EXCEPT ![t] = Blank] /\ map' = 0 /\ UNCHANGED <<row, begun, child, boundary>>
    BY <1>11 DEF Park, durable, session
  <2>2. Tame(act[t], Blank)
    BY <1>1, PartsAreTame
  <2> QED
    BY <1>6, <2>1, <2>2
<1>12. CASE Accepted(t)
  <2>1. /\ act' = [act EXCEPT ![t] = [act[t] EXCEPT !.pc = "sent"]] /\ act[t].pc = "send"
        /\ UNCHANGED <<row, begun, map, child, boundary>>
    BY <1>12 DEF Accepted, durable
  <2>2. Tame(act[t], [act[t] EXCEPT !.pc = "sent"])
    BY <1>2, <1>4, <2>1 DEF Knowing
  <2> QED
    BY <1>6, <2>1, <2>2
<1>13. CASE SendReturns(t)
  <2> DEFINE a == [act[t] EXCEPT !.handed = TRUE]
  <2>1. PICK b \in {Settle(Rest(a), "interrupted"), Apply(Rest(a))} : act' = [act EXCEPT ![t] = b]
    BY <1>13 DEF SendReturns
  <2>2. a \in ActiveTurn /\ Tame(act[t], a)
    BY <1>1, PartsAreTame, FieldsKeepTurns
  <2>3. Rest(a) \in ActiveTurn /\ Tame(a, Rest(a)) /\ Tame(Rest(a), b)
    <3>1. Rest(a) \in ActiveTurn /\ Tame(a, Rest(a))
      BY <2>2, PartsAreTame, PartsKeepTurns
    <3>2. Tame(Rest(a), Settle(Rest(a), "interrupted")) /\ Tame(Rest(a), Apply(Rest(a)))
      BY <3>1, PartsAreTame DEF Outcomes
    <3> QED
      BY <2>1, <3>1, <3>2
  <2> HIDE DEF a
  <2>4. act[t].in \in BOOLEAN /\ a.in \in BOOLEAN /\ Rest(a).in \in BOOLEAN
    BY <1>1, <2>2, <2>3 DEF ActiveTurn
  <2>5. Tame(act[t], b)
    BY <2>2, <2>3, <2>4, TameIsTransitive
  <2>6. UNCHANGED <<row, begun, map, boundary>> /\ Hushed
    BY <1>13 DEF SendReturns, CancelChild, durable
  <2> QED
    BY <1>6, <2>1, <2>5, <2>6
<1> QED
  BY <1>7, <1>8, <1>9, <1>10, <1>11, <1>12, <1>13 DEF Run, RunFails

\* The end of a turn.
LEMMA EndGivesNoPermit ==
  ASSUME HandOffInv, PermitInv, NEW t \in Turns, IdleChecked(t) \/ Settled(t)
  PROVE  PermitInv'
<1>1. /\ act \in [Turns -> ActiveTurn] /\ 0 \notin Turns /\ TypeOK /\ act[t] \in ActiveTurn
      /\ \A s \in Turns : Tame(act[s], act[s])
      /\ row \in [Turns -> {"none"} \cup ActiveStatuses \cup Outcomes]
  BY PermitFacts DEF HandOffInv, TypeInv
<1>2. CASE IdleChecked(t)
  <2> DEFINE a == [act[t] EXCEPT !.idle = FALSE]
  <2>1. a \in ActiveTurn /\ Tame(act[t], a) /\ Tame(a, Settle(a, "completed"))
    <3>1. a \in ActiveTurn /\ Tame(act[t], a)
      BY <1>1, PartsAreTame, FieldsKeepTurns
    <3> QED
      BY <3>1, PartsAreTame DEF Outcomes
  <2>2. Tame(act[t], Settle(a, "completed"))
    <3>1. act[t].in \in BOOLEAN /\ a.in \in BOOLEAN
      BY <1>1, <2>1 DEF ActiveTurn
    <3> QED
      BY <2>1, <3>1, TameIsTransitive
  <2>3. \/ act' = [act EXCEPT ![t] = Settle(a, "completed")]
        \/ Unverified(t, a)
    BY <1>2 DEF IdleChecked
  <2>4. /\ UNCHANGED <<row, begun, map, boundary>>
        /\ child' = "asking" => child = "asking"
        /\ child' = "resuming" => child = "resuming"
    BY <1>2 DEF IdleChecked, Unverified, CancelChild, durable
  <2> HIDE DEF a
  <2>5. \A s \in Turns : Tame(act[s], act'[s])
    BY <1>1, <2>1, <2>2, <2>3, OneIsTame, UnverifiedIsTame
  <2> QED
    BY <1>1, <2>4, <2>5, GivesNothingIsSafe DEF PermitInv, GivesNothing
<1>3. CASE Settled(t)
  <2>1. row' \in {row, [row EXCEPT ![t] = Outcome(act[t])], [row EXCEPT ![t] = "failed"]}
    BY <1>3 DEF Settled, Finish
  <2>2. Outcome(act[t]) \in Outcomes
    <3>1. Outcome(act[t]) # "no"
      BY <1>3 DEF Settled, Outcome
    <3> QED
      BY <1>1, <3>1, PartsKeepTurns
  <2>3. \A s \in Turns : (row'[s] = "none" => row[s] = "none")
                         /\ (row'[s] = "waiting" => row[s] = "waiting")
    BY <1>1, <2>1, <2>2 DEF Outcomes
  <2>4. /\ act' = [act EXCEPT ![t] = Left(act[t])] /\ map' \in {map, 0}
        /\ UNCHANGED <<begun, child, boundary>>
    BY <1>3 DEF Settled, session
  <2>5. \A s \in Turns : Tame(act[s], act'[s])
    BY <1>1, <2>4, PartsAreTame, OneIsTame
  <2> QED
    BY <1>1, <2>3, <2>4, <2>5, GivesNothingIsSafe DEF PermitInv, GivesNothing
<1> QED
  BY <1>2, <1>3

\* The child session.
LEMMA ChildGivesNoPermit ==
  ASSUME OwnersInv, HandOffInv, PermitInv, Child \/ UserResumes \/ UserStops
  PROVE  PermitInv'
<1>1. /\ act \in [Turns -> ActiveTurn] /\ 0 \notin Turns /\ TypeOK /\ map \in 0..MaxTurns
      /\ \A s \in Turns : Tame(act[s], act[s])
      /\ row \in [Turns -> {"none"} \cup ActiveStatuses \cup Outcomes] /\ begun \subseteq Turns
  <2>1. TypeOK
    BY DEF HandOffInv, TypeInv
  <2> QED
    BY <2>1, PermitFacts DEF TypeOK
<1>2. map # 0 => map \in Turns
  BY <1>1, TurnsAssumption DEF Turns
\* Steps in which the child only reports a status.
<1>3. ASSUME \A s \in Turns : Tame(act[s], act'[s]), UNCHANGED <<row, begun, map, boundary>>,
             child' # "asking", child' # "resuming"
      PROVE  PermitInv'
  BY <1>1, <1>3, GivesNothingIsSafe DEF PermitInv, GivesNothing
<1>4. CASE ChildStarts
  <2>1. /\ Heard("generating") /\ "generating" \in Statuses
        /\ UNCHANGED <<row, begun, map, boundary>> /\ child' = "preparing"
    BY <1>4 DEF ChildStarts, Statuses, durable
  <2> QED
    BY <1>1, <1>3, <2>1, HeardIsTame
<1>5. CASE ChildPrepares
  <2>1. /\ Heard("error") \/ UNCHANGED act
        /\ "error" \in Statuses /\ UNCHANGED <<row, begun, map, boundary>>
        /\ child' \in {"generating", "error"}
    BY <1>5 DEF ChildPrepares, Statuses, durable
  <2> QED
    BY <1>1, <1>3, <2>1, HeardIsTame
<1>6. CASE ChildEnds
  <2>1. /\ Heard(child') /\ child' \in {"idle", "error"} /\ {"idle", "error"} \subseteq Statuses
        /\ UNCHANGED <<row, begun, map, boundary>>
    BY <1>6 DEF ChildEnds, Statuses, durable
  <2> QED
    BY <1>1, <1>3, <2>1, HeardIsTame
<1>7. CASE ChildAsks
  <2>1. UNCHANGED <<map, boundary>> /\ child' = "asking"
    BY <1>7 DEF ChildAsks
  <2>2. CASE map # 0 /\ act[map].in /\ act[map].ends = "no"
    <3>1. PICK t \in Turns : t = map
      BY <1>2, <2>2
    <3>2. act[t] \in ActiveTurn /\ act[t].in /\ act[t].ends = "no"
      BY <1>1, <2>2, <3>1
    <3>3. /\ act' = [act EXCEPT ![t] = Suspend(act[t])] /\ Mark(t, "waiting")
      BY <1>7, <2>2, <3>1 DEF ChildAsks
    <3>4. /\ row'[t] = "waiting" /\ t \in begun' /\ begun \subseteq begun'
          /\ act'[t] = Suspend(act[t])
          /\ \A s \in Turns \ {t} : row'[s] = row[s] /\ act'[s] = act[s]
      BY <1>1, <3>3 DEF Mark
    <3>5. Suspend(act[t]).lease # "active" /\ Suspend(act[t]).pc \notin Admission
      <4>1. CASE act[t].pc \in Admission /\ act[t].aborted
        <5>1. Throw(act[t]).pc = "off"
          BY <3>2, PartsKeepTurns
        <5>2. Rest(act[t]) = [act[t] EXCEPT !.pc = "off"]
          BY <3>2 DEF Rest
        <5>3. Throw(act[t]).lease = "released"
          BY <3>2, <4>1, <5>2 DEF Throw, Settle, ActiveTurn
        <5> QED
          BY <4>1, <5>1, <5>3 DEF Suspend, Admission
      <4>2. CASE ~(act[t].pc \in Admission /\ act[t].aborted)
        BY <3>2, <4>2 DEF Suspend, Admission, ActiveTurn
      <4> QED
        BY <4>1, <4>2
    <3>6. PermitRules(t)'
      <4>1. /\ PermitRules(t) /\ Tame(act[t], act'[t]) /\ act[t].knows \in BOOLEAN
            /\ act[t].in \in BOOLEAN
        BY <3>2, <3>4, PartsAreTame DEF PermitInv, ActiveTurn
      <4>2. act'[t].knows = act[t].knows
        <5>1. Rest(act[t]) = [act[t] EXCEPT !.pc = "off"]
          BY <3>2 DEF Rest
        <5> QED
          BY <3>2, <3>4, <5>1 DEF Suspend, Throw, Settle, ActiveTurn
      <4>3. act[t].knows
        BY <3>1, <3>2, <4>1 DEF PermitRules
      <4> QED
        BY <2>1, <3>4, <3>5, <4>2, <4>3 DEF PermitRules
    <3>7. ASSUME NEW s \in Turns \ {t} PROVE PermitRules(s)'
      <4>1. GivesNothing(s)
        BY <1>1, <2>1, <3>1, <3>4 DEF GivesNothing
      <4> QED
        BY <1>1, <4>1, GivesNothingIsSafe DEF PermitInv
    <3> QED
      BY <3>6, <3>7 DEF PermitInv
  <2>3. CASE ~(map # 0 /\ act[map].in /\ act[map].ends = "no")
    <3>1. UNCHANGED <<act, row, begun>>
      BY <1>7, <2>3 DEF ChildAsks
    <3>2. ASSUME NEW t \in Turns PROVE PermitRules(t)'
      <4>1. PermitRules(t) /\ (map = t /\ act[t].in => act[t].ends # "no")
        BY <1>1, <2>3 DEF PermitInv
      <4> QED
        BY <2>1, <3>1, <4>1 DEF PermitRules
    <3> QED
      BY <3>2 DEF PermitInv
  <2> QED
    BY <2>2, <2>3
<1>8. CASE ChildProgresses
  <2>1. PICK t \in Turns : t = map
    BY <1>2, <1>8 DEF ChildProgresses
  <2>2. /\ Mark(t, "running") /\ UNCHANGED <<act, map, child, boundary>>
    BY <1>8, <2>1 DEF ChildProgresses, service
  <2>3. ASSUME NEW s \in Turns PROVE GivesNothing(s)
    <3>1. row'[s] \in {row[s], "running"} /\ begun \subseteq begun'
      BY <1>1, <2>2 DEF Mark
    <3> QED
      BY <1>1, <2>2, <3>1 DEF GivesNothing
  <2> QED
    BY <1>1, <2>3, GivesNothingIsSafe DEF PermitInv
<1>9. CASE UserResumes
  <2>1. UNCHANGED <<act, row, begun, map, child, boundary>>
    BY <1>9 DEF UserResumes, durable, service
  <2> QED
    BY <1>1, <2>1, GivesNothingIsSafe DEF PermitInv, GivesNothing
<1>10. CASE UserStops
  <2>1. /\ UNCHANGED <<act, row, begun, map, boundary>>
        /\ child' = "asking" => child = "asking"
        /\ child' = "resuming" => child = "resuming"
    BY <1>10 DEF UserStops, CancelChild, durable, service
  <2> QED
    BY <1>1, <2>1, GivesNothingIsSafe DEF PermitInv, GivesNothing
<1> QED
  BY <1>4, <1>5, <1>6, <1>7, <1>8, <1>9, <1>10 DEF Child

\* The boundaries of the child.
LEMMA BoundsGiveNoPermit ==
  ASSUME OwnersInv, HandOffInv, PermitInv,
         Bounds \/ EnterBoundary \/ RespondUnmapped \/ ToolRefused
  PROVE  PermitInv'
<1>1. /\ act \in [Turns -> ActiveTurn] /\ 0 \notin Turns /\ TypeOK /\ map \in 0..MaxTurns
      /\ \A s \in Turns : Tame(act[s], act[s])
      /\ boundary.pc # "off" => boundary.turn \in Turns
      /\ boundary \in [pc : {"off", "sync", "resume", "check"}, turn : 0..MaxTurns]
  <2>1. TypeOK /\ CallsHaveTurns
    BY DEF HandOffInv, TypeInv
  <2> QED
    BY <2>1, PermitFacts DEF TypeOK, CallsHaveTurns
<1>2. map # 0 => map \in Turns
  BY <1>1, TurnsAssumption DEF Turns
<1>3. CASE EnterBoundary
  <2>1. /\ UNCHANGED <<row, begun, act, map>> /\ child' \in {"resuming", "calling"}
        /\ boundary'.pc # "off" /\ boundary'.turn = map
    BY <1>3 DEF EnterBoundary, durable
  <2> QED
    BY <2>1 DEF PermitInv, PermitRules
<1>4. CASE RespondUnmapped
  <2>1. UNCHANGED <<row, begun, act, map, boundary>> /\ child' = "generating"
    BY <1>4 DEF RespondUnmapped, durable, service
  <2> QED
    BY <1>1, <2>1, GivesNothingIsSafe DEF PermitInv, GivesNothing
<1>5. CASE ToolRefused
  <2>1. PICK t \in Turns : t = map
    BY <1>2, <1>5 DEF ToolRefused
  <2>2. /\ UNCHANGED <<row, begun, map, boundary>> /\ Unverified(t, act[t])
        /\ child' = "asking" => child = "asking"
        /\ child' = "resuming" => child = "resuming"
    BY <1>5, <2>1 DEF ToolRefused, Unverified, CancelChild, durable
  <2>3. \A s \in Turns : Tame(act[s], act'[s])
    BY <1>1, <2>2, UnverifiedIsTame
  <2> QED
    BY <1>1, <2>2, <2>3, GivesNothingIsSafe DEF PermitInv, GivesNothing
<1>6. CASE PassBoundary
  <2>1. PICK b \in Turns : b = boundary.turn
    BY <1>1, <1>6 DEF PassBoundary, Goes
  <2>2. /\ boundary.pc # "off" /\ child \in AtBoundary /\ act[b].in /\ act[b].ends = "no"
        /\ UNCHANGED <<row, begun, map>> /\ act[b] \in ActiveTurn
    BY <1>1, <1>6, <2>1 DEF PassBoundary, Goes, durable
  <2>3. \/ /\ boundary' = [boundary EXCEPT !.pc = "resume"] /\ UNCHANGED <<act, child>>
        \/ /\ boundary' = [boundary EXCEPT !.pc = "check"]
           /\ act' = [act EXCEPT ![b] = Grant(act[b])] /\ UNCHANGED child
        \/ child' = "generating" /\ UNCHANGED act
        \/ /\ child = "resuming" /\ child' = "asking"
           /\ act' = IF row[b] = "waiting" THEN [act EXCEPT ![b].lease = "suspended"] ELSE act
    BY <1>6, <2>1 DEF PassBoundary
  <2>4. CASE boundary' = [boundary EXCEPT !.pc = "resume"] /\ UNCHANGED <<act, child>>
    <3>1. boundary'.pc # "off" /\ boundary'.turn = boundary.turn
      BY <1>1, <2>4
    <3> QED
      BY <2>2, <2>4, <3>1 DEF PermitInv, PermitRules
  <2>5. CASE /\ boundary' = [boundary EXCEPT !.pc = "check"]
             /\ act' = [act EXCEPT ![b] = Grant(act[b])] /\ UNCHANGED child
    <3>1. boundary'.pc # "off" /\ boundary'.turn = b /\ child # "asking"
      BY <1>1, <2>1, <2>2, <2>5 DEF AtBoundary
    <3>2. /\ act'[b].in = act[b].in /\ act'[b].knows = act[b].knows
          /\ act'[b].pc \in {act[b].pc, "safety", "off"} /\ act'[b].ends = act[b].ends
          /\ \A s \in Turns \ {b} : act'[s] = act[s]
      <4>1. PICK pc \in Awaits \ Admission :
              /\ Grant(act[b]) = [act[b] EXCEPT !.lease = "active", !.pc = pc]
              /\ pc \in {act[b].pc, "safety", "off"}
        BY <2>2, GrantForms
      <4>2. /\ Grant(act[b]).in = act[b].in /\ Grant(act[b]).knows = act[b].knows
            /\ Grant(act[b]).pc = pc /\ Grant(act[b]).ends = act[b].ends
        BY <2>2, <4>1 DEF ActiveTurn
      <4> QED
        BY <1>1, <2>2, <2>5, <4>1, <4>2
    <3>3. PermitRules(b)'
      <4>1. {"safety", "off"} \cap (Knowing \cup Admission) = {}
        BY DEF Knowing, Admission
      <4> QED
        BY <2>2, <2>5, <3>1, <3>2, <4>1 DEF PermitInv, PermitRules
    <3>4. ASSUME NEW s \in Turns \ {b} PROVE PermitRules(s)'
      <4>1. PermitRules(s) /\ act'[s] = act[s]
        BY <3>2 DEF PermitInv
      <4> QED
        BY <2>1, <2>2, <2>5, <3>1, <4>1 DEF PermitRules
    <3> QED
      BY <3>3, <3>4 DEF PermitInv
  <2>6. CASE child' = "generating" /\ UNCHANGED act
    BY <1>1, <2>2, <2>6, GivesNothingIsSafe DEF PermitInv, GivesNothing
  <2>7. CASE /\ child = "resuming" /\ child' = "asking"
             /\ act' = IF row[b] = "waiting" THEN [act EXCEPT ![b].lease = "suspended"] ELSE act
    <3>1. /\ act'[b].in = act[b].in /\ act'[b].knows = act[b].knows
          /\ act'[b].pc = act[b].pc /\ act'[b].ends = act[b].ends
          /\ row[b] = "waiting" => act'[b].lease = "suspended"
          /\ \A s \in Turns \ {b} : act'[s] = act[s]
      BY <1>1, <2>2, <2>7 DEF ActiveTurn
    <3>2. PermitRules(b)'
      BY <2>2, <2>7, <3>1 DEF PermitInv, PermitRules
    <3>3. ASSUME NEW s \in Turns \ {b} PROVE PermitRules(s)'
      <4>1. PermitRules(s) /\ act'[s] = act[s] /\ s # boundary.turn
        BY <2>1, <3>1 DEF PermitInv
      <4> QED
        BY <2>2, <2>7, <4>1 DEF PermitRules
    <3> QED
      BY <3>2, <3>3 DEF PermitInv
  <2> QED
    BY <2>3, <2>4, <2>5, <2>6, <2>7
<1>7. CASE FailBoundary
  <2>1. PICK b \in Turns : b = boundary.turn
    BY <1>1, <1>7 DEF FailBoundary
  <2>2. UNCHANGED <<row, begun, map>>
    BY <1>7 DEF FailBoundary, durable
  <2>3. CASE act[b].in /\ act[b].ends = "no" /\ Unverified(b, act[b])
    <3>1. \A s \in Turns : Tame(act[s], act'[s])
      BY <1>1, <2>3, UnverifiedIsTame
    <3>2. /\ child' = "asking" => child = "asking"
          /\ child' = "resuming" => child = "resuming"
      BY <2>3 DEF Unverified, CancelChild
    <3>3. CASE child' # "resuming"
      BY <1>1, <2>2, <3>1, <3>2, <3>3, GivesNothingIsSafe DEF PermitInv, GivesNothing
    <3>4. CASE child' = "resuming"
      <4>1. ~act[b].knows /\ child = "resuming"
        BY <2>3, <3>2, <3>4 DEF Unverified, CancelChild, Works, AtBoundary
      <4>2. ASSUME NEW t \in Turns PROVE PermitRules(t)'
        <5>1. PermitRules(t) /\ Tame(act[t], act'[t])
          BY <3>1 DEF PermitInv
        <5>2. ~(act[t].in /\ row[t] = "waiting" /\ act[t].lease = "active" /\ map = t)
          BY <2>1, <2>3, <4>1, <5>1 DEF PermitRules
        <5>3. ~(act'[t].in /\ row'[t] = "waiting" /\ act'[t].lease = "active" /\ map' = t)
          BY <2>2, <5>1, <5>2 DEF Tame
        <5>4. act[t].in \in BOOLEAN /\ act[t].knows \in BOOLEAN
          BY <1>1 DEF ActiveTurn
        <5> QED
          BY <2>2, <5>1, <5>3, <5>4 DEF PermitRules, Tame
      <4> QED
        BY <4>2 DEF PermitInv
    <3> QED
      BY <3>3, <3>4
  \* The response of a turn that ended leaves the interaction to no turn that holds a permit.
  <2>4. CASE ~act[b].in /\ UNCHANGED act
    <3>1. child' \in {child, "asking", "generating"} /\ child' # "resuming"
          /\ (child' = "asking" => child \in {"asking", "resuming"})
      BY <1>7, <2>1, <2>4 DEF FailBoundary, Unverified, AtBoundary
    <3>2. ASSUME NEW t \in Turns PROVE PermitRules(t)'
      BY <2>1, <2>2, <2>4, <3>1, <3>2 DEF PermitInv, PermitRules
    <3> QED
      BY <3>2 DEF PermitInv
  <2> QED
    BY <1>7, <2>1, <2>3, <2>4 DEF FailBoundary
<1> QED
  BY <1>3, <1>4, <1>5, <1>6, <1>7 DEF Bounds

\* Crash and restart.
LEMMA RestartGivesNoPermit ==
  ASSUME OwnersInv, HandOffInv, PermitInv,
         Look \/ LookFails \/ Reconcile \/ Quarantine \/ Crash \/ Start
  PROVE  PermitInv'
<1>1. /\ act \in [Turns -> ActiveTurn] /\ 0 \notin Turns /\ TypeOK
      /\ \A s \in Turns : Tame(act[s], act[s])
      /\ recon.pc # "off" => recon.turn \in Turns
      /\ row \in [Turns -> {"none"} \cup ActiveStatuses \cup Outcomes] /\ begun \subseteq Turns
  <2>1. TypeOK /\ CallsHaveTurns
    BY DEF HandOffInv, TypeInv
  <2> QED
    BY <2>1, PermitFacts DEF TypeOK, CallsHaveTurns
<1>2. CASE Look
  <2>1. UNCHANGED <<row, begun, act, map, boundary, child>>
    BY <1>2 DEF Look, durable, session
  <2> QED
    BY <1>1, <2>1, GivesNothingIsSafe DEF PermitInv, GivesNothing
<1>3. CASE LookFails \/ ReconcileLost \/ ReconcileOver
  <2>1. PICK t \in Turns : t = recon.turn
    BY <1>1, <1>3 DEF LookFails, ReconcileLost, ReconcileOver
  <2>2. row' \in {row, [row EXCEPT ![t] = "interrupted"]}
    BY <1>3, <2>1 DEF LookFails, ReconcileLost, ReconcileOver, Finish, durable
  <2>3. UNCHANGED <<begun, act, boundary, child>> /\ map' \in {map, 0}
    BY <1>3 DEF LookFails, ReconcileLost, ReconcileOver, session, durable
  <2> QED
    BY <1>1, <2>2, <2>3, GivesNothingIsSafe DEF PermitInv, GivesNothing
<1>4. CASE Crash
  <2>1. act' = [s \in Turns |-> Blank] /\ map' = 0 /\ UNCHANGED <<row, begun>>
    BY <1>4 DEF Crash, durable
  <2>2. \A s \in Turns : Tame(act[s], act'[s])
    BY <1>1, <2>1, PartsAreTame
  <2> QED
    BY <1>1, <2>1, <2>2, GivesNothingIsSafe DEF PermitInv, GivesNothing
<1>5. CASE Start
  <2>1. /\ UNCHANGED <<row, begun, act, boundary, child>>
        /\ \A s \in Turns : ~act[s].in
    BY <1>5 DEF Start, durable, session, OwnersInv, TurnsAreOwned, DownIsQuiet
  <2>2. \A s \in Turns : map' = s => map = s \/ Active(s)
    <3>1. CASE \E t \in Turns : Active(t)
      <4> DEFINE t == CHOOSE u \in Turns : Active(u)
      <4>1. Active(t) /\ map' \in {t, 0}
        BY <1>5, <3>1 DEF Start
      <4> QED
        BY <1>1, <4>1
    <3>2. CASE ~(\E t \in Turns : Active(t))
      BY <1>5, <3>2 DEF Start
    <3> QED
      BY <3>1, <3>2
  <2>3. ASSUME NEW s \in Turns PROVE PermitRules(s)'
    <3>1. PermitRules(s) /\ (Active(s) => row[s] # "none")
      BY DEF PermitInv, Active, ActiveStatuses
    <3> QED
      BY <2>1, <2>2, <3>1 DEF PermitRules
  <2> QED
    BY <2>3 DEF PermitInv
<1>6. CASE Quarantine
  <2>1. PICK t \in Turns : t = recon.turn
    BY <1>1, <1>6 DEF Quarantine
  <2>2. /\ Active(t) /\ map' = t /\ UNCHANGED <<row, begun, act, boundary>>
        /\ child' = "asking" => child = "asking"
        /\ child' = "resuming" => child = "resuming"
    BY <1>6, <2>1 DEF Quarantine, CancelChild
  <2>3. ~act[t].in /\ row[t] # "none"
    BY <1>6, <2>1, <2>2
    DEF Quarantine, OwnersInv, TurnsAreOwned, ReconIsAlone, Active, ActiveStatuses
  <2>4. ASSUME NEW s \in Turns PROVE PermitRules(s)'
    BY <2>2, <2>3 DEF PermitInv, PermitRules
  <2> QED
    BY <2>4 DEF PermitInv
<1>7. CASE Adopt
  <2>1. PICK t \in Turns : t = recon.turn
    BY <1>1, <1>7 DEF Adopt
  <2> DEFINE runs == recon.saw = "generating"
             new == [Blank EXCEPT !.in = TRUE, !.knows = TRUE, !.status = recon.saw,
                                  !.handed = runs \/ t \in begun]
             adopted == IF runs
                        THEN [new EXCEPT !.pc = IF row[t] = "waiting" THEN "off" ELSE "readmit"]
                        ELSE IF t \notin begun
                             THEN [new EXCEPT !.pc = "resume", !.status = "none"]
                        ELSE Settle(new, IF recon.saw = "error" THEN "failed" ELSE "completed")
  <2>2. /\ Active(t) /\ act' = [act EXCEPT ![t] = adopted] /\ map' = t
        /\ UNCHANGED <<boundary, child>>
        /\ IF runs /\ t \notin begun THEN Mark(t, "running") ELSE UNCHANGED <<row, begun, answered>>
    BY <1>7, <2>1 DEF Adopt
  <2>3. adopted.knows = TRUE /\ adopted.lease # "active"
    BY DEF Blank, Settle
  <2>4. row[t] = "waiting" /\ adopted.pc \in Admission => ~runs /\ t \notin begun
    BY DEF Blank, Settle, Admission
  <2> HIDE DEF adopted, runs
  <2>5. /\ act'[t] = adopted /\ begun \subseteq begun'
        /\ row'[t] = row[t] \/ (row'[t] = "running" /\ t \in begun')
        /\ \A s \in Turns \ {t} : act'[s] = act[s] /\ row'[s] = row[s]
    BY <1>1, <2>2 DEF Mark
  <2>6. PermitRules(t)'
    <3>1. PermitRules(t) /\ row[t] # "none"
      BY <2>2 DEF PermitInv, Active, ActiveStatuses
    <3> QED
      BY <2>2, <2>3, <2>4, <2>5, <3>1 DEF PermitRules
  <2>7. ASSUME NEW s \in Turns \ {t} PROVE PermitRules(s)'
    <3>1. GivesNothing(s)
      BY <1>1, <2>2, <2>5 DEF GivesNothing
    <3> QED
      BY <1>1, <3>1, GivesNothingIsSafe DEF PermitInv
  <2> QED
    BY <2>6, <2>7 DEF PermitInv
<1> QED
  BY <1>2, <1>3, <1>4, <1>5, <1>6, <1>7 DEF Reconcile

LEMMA PermitInductive ==
  ASSUME OwnersInv, HandOffInv, PermitInv, [Next]_vars
  PROVE  PermitInv'
<1>1. CASE UNCHANGED vars
  <2>1. UNCHANGED <<row, begun, act, map, boundary, child>>
    BY <1>1 DEF vars, durable, session, service
  <2> QED
    BY <2>1 DEF PermitInv, PermitRules
<1>2. CASE Next
  BY <1>2, ParentGivesNoPermit, RunGivesNoPermit, EndGivesNoPermit, ChildGivesNoPermit,
     BoundsGiveNoPermit, RestartGivesNoPermit DEF Next
<1> QED
  BY <1>1, <1>2

LEMMA PermitInit == Init => PermitInv
BY TurnsAssumption DEF Init, PermitInv, PermitRules, Blank, Knowing, Admission, Turns

\* A turn recorded as waiting holds no permit while its child asks, for any number of turns,
\* whichever of response, tool call, adoption, failure and restart meets the question.
\* (handleRuntimeUpdate, prepareChildBoundary)
THEOREM WaitingTurnsHoldNoPermit == Spec => []WaitingHoldsNoPermit
<1>1. Init => PermitInv
  BY PermitInit
<1>2. OwnersInv /\ HandOffInv /\ PermitInv /\ [Next]_vars => PermitInv'
  BY PermitInductive
<1>3. PermitInv => WaitingHoldsNoPermit
  BY DEF PermitInv, PermitRules, WaitingHoldsNoPermit
<1> QED
  BY <1>1, <1>2, <1>3, OwnersAlways, HandOffAlways, PTL DEF Spec

(***************************************************************************)
(* Which turns an interruption reaches, and which turn is the last.        *)
(***************************************************************************)

\* Kinds of interruption that end a turn in activeTurns.
Stoppers == {"drain", "unverified"}

\* Only the last turn may be active: a follow-up needs the end of the turn before it.
EarlierHaveEnded == \A s, t \in Turns : row[s] # "none" /\ t < s => row[t] \in Outcomes

\* An interruption that is under way has aborted its turn; none meets a turn that is adopted.
KillsAbort ==
  /\ \A t \in Turns : /\ kill[t] # {} => up /\ row[t] # "none"
                      /\ kill[t] \cap Stoppers # {} => act[t].aborted \/ ~act[t].in
  /\ recon.pc # "off" /\ Active(recon.turn) => kill[recon.turn] = {}

LEMMA EarlierInductive ==
  ASSUME OwnersInv, EarlierHaveEnded, [Next]_vars
  PROVE  EarlierHaveEnded'
<1>1. /\ row \in [Turns -> {"none"} \cup ActiveStatuses \cup Outcomes] /\ 1 \in Turns
      /\ recon.pc # "off" => recon.turn \in Turns
      /\ "none" \notin ActiveStatuses \cup Outcomes /\ ActiveStatuses \cap Outcomes = {}
      /\ map \in 0..MaxTurns
  <2>1. map \in 0..MaxTurns
    BY DEF OwnersInv, TypeInv, TypeOK
  <2> QED
    BY <2>1, RowFacts DEF ActiveStatuses, Outcomes
<1>2. map # 0 => map \in Turns
  BY <1>1, TurnsAssumption DEF Turns
\* Rows that are active go on or end, and the others stay.
<1>3. ASSUME \A t \in Turns : \/ row'[t] = row[t]
                              \/ Active(t) /\ row'[t] \in ActiveStatuses \cup Outcomes
      PROVE  EarlierHaveEnded'
  BY <1>1, <1>3 DEF EarlierHaveEnded, Active
\* A turn begins when all before it have ended and none behind it exists.
<1>4. ASSUME NEW t \in Turns, row[t] = "none", row' = [row EXCEPT ![t] = "queued"],
             \A u \in Turns : u < t => row[u] \in Outcomes
      PROVE  EarlierHaveEnded'
  BY <1>1, <1>4 DEF EarlierHaveEnded
<1>5. CASE Spawn
  <2>1. row[1] = "none" /\ row' = [row EXCEPT ![1] = "queued"]
    BY <1>5 DEF Spawn, Begin
  <2>2. \A u \in Turns : ~(u < 1)
    BY TurnsAssumption DEF Turns
  <2> QED
    BY <1>1, <1>4, <2>1, <2>2
<1>6. ASSUME NEW t \in Turns, FollowUp(t) PROVE EarlierHaveEnded'
  <2>1. /\ row[t] = "none" /\ row' = [row EXCEPT ![t] = "queued"] /\ row[t - 1] # "none"
        /\ t - 1 \in Turns /\ \A s \in Turns : ~Active(s)
    BY <1>6, TurnsAssumption DEF FollowUp, Begin, Turns
  <2>2. row[t - 1] \in Outcomes
    BY <1>1, <2>1 DEF Active
  <2>3. ASSUME NEW u \in Turns, u < t PROVE row[u] \in Outcomes
    <3>1. u = t - 1 \/ u < t - 1
      BY <2>3, TurnsAssumption DEF Turns
    <3> QED
      BY <2>1, <2>2, <3>1 DEF EarlierHaveEnded
  <2> QED
    BY <1>4, <2>1, <2>3
<1>7. ASSUME NEW t \in Turns, NEW status \in ActiveStatuses, Active(t), Mark(t, status)
      PROVE  EarlierHaveEnded'
  BY <1>1, <1>3, <1>7 DEF Mark
<1>8. ASSUME NEW t \in Turns, NEW outcome \in Outcomes, Finish(t, outcome)
      PROVE  EarlierHaveEnded'
  BY <1>1, <1>3, <1>8 DEF Finish
<1>9. ASSUME UNCHANGED row PROVE EarlierHaveEnded'
  BY <1>3, <1>9
<1>10. /\ {"running", "waiting"} \subseteq ActiveStatuses
       /\ {"interrupted", "failed"} \subseteq Outcomes
  BY DEF ActiveStatuses, Outcomes
<1>11. ASSUME NEW t \in Turns, Run(t) \/ RunFails(t) PROVE EarlierHaveEnded'
  <2>1. HandOff(t) => Active(t) /\ Mark(t, "running")
    BY DEF HandOff
  <2>2. ~HandOff(t) => UNCHANGED row
    BY <1>11
    DEF Run, RunFails, Admitted, Checked, Acquire, Accepted, SendReturns, NotAdmitted,
        AcquireFails, HandOffFails, Park, SendFails, durable
  <2> QED
    BY <1>7, <1>9, <1>10, <2>1, <2>2
<1>12. ASSUME NEW t \in Turns, IdleChecked(t) \/ Settled(t) PROVE EarlierHaveEnded'
  <2>1. act[t] \in ActiveTurn
    BY RowFacts
  <2>2. act[t].ends # "no" => Outcome(act[t]) \in Outcomes
    <3>1. Outcome(act[t]) \in Outcomes \cup {"no"}
      BY <2>1, PartsKeepTurns
    <3>2. act[t].ends # "no" => Outcome(act[t]) # "no"
      BY DEF Outcome
    <3> QED
      BY <3>1, <3>2
  <2>3. IdleChecked(t) => UNCHANGED row
    BY DEF IdleChecked, durable
  <2>4. Settled(t) => \/ UNCHANGED row
                      \/ \E outcome \in Outcomes : Finish(t, outcome)
    BY <1>10, <2>2 DEF Settled
  <2> QED
    BY <1>8, <1>9, <1>12, <2>3, <2>4
<1>13. ASSUME NEW t \in Turns, Interrupt(t) \/ InterruptUnowned(t) \/ InterruptEnds(t)
       PROVE  EarlierHaveEnded'
  <2>1. InterruptUnowned(t) => Finish(t, "interrupted")
    BY DEF InterruptUnowned
  <2>2. ~InterruptUnowned(t) => UNCHANGED row
    BY <1>13 DEF Interrupt, InterruptEnds, durable
  <2> QED
    BY <1>8, <1>9, <1>10, <2>1, <2>2
<1>14. CASE Child
  <2>1. ASSUME ChildAsks PROVE EarlierHaveEnded'
    <3>1. CASE map # 0 /\ act[map].in /\ act[map].ends = "no"
      <4>1. Mark(map, "waiting")
        BY <2>1, <3>1 DEF ChildAsks
      <4>2. Active(map)
        BY <1>2, <3>1 DEF OwnersInv, TurnsAreOwned, OneLiveTurn
      <4> QED
        BY <1>2, <1>7, <1>10, <3>1, <4>1, <4>2
    <3>2. CASE ~(map # 0 /\ act[map].in /\ act[map].ends = "no")
      BY <1>9, <2>1, <3>2 DEF ChildAsks
    <3> QED
      BY <3>1, <3>2
  <2>2. ASSUME ChildProgresses PROVE EarlierHaveEnded'
    <3>1. map # 0 /\ act[map].in /\ Mark(map, "running")
      BY <2>2 DEF ChildProgresses
    <3>2. Active(map)
      BY <1>2, <3>1 DEF OwnersInv, TurnsAreOwned, OneLiveTurn
    <3> QED
      BY <1>2, <1>7, <1>10, <3>1, <3>2
  <2>3. ChildStarts \/ ChildPrepares \/ ChildEnds => UNCHANGED row
    BY DEF ChildStarts, ChildPrepares, ChildEnds, durable
  <2> QED
    BY <1>9, <1>14, <2>1, <2>2, <2>3 DEF Child
<1>15. CASE \/ UserResumes \/ UserStops \/ EnterBoundary \/ RespondUnmapped \/ ToolRefused
            \/ Bounds \/ Look \/ Quarantine \/ Crash \/ Start \/ ReconcileOver \/ UNCHANGED vars
  BY <1>9, <1>15
  DEF UserResumes, UserStops, EnterBoundary, RespondUnmapped, ToolRefused, Bounds, PassBoundary,
      FailBoundary, Look, Quarantine, Crash, Start, ReconcileOver, vars, durable
<1>16. CASE LookFails \/ ReconcileLost
  BY <1>1, <1>8, <1>10, <1>16 DEF LookFails, ReconcileLost
<1>17. CASE Adopt
  <2>1. Active(recon.turn) /\ recon.turn \in Turns
    BY <1>1, <1>17 DEF Adopt
  <2>2. Mark(recon.turn, "running") \/ UNCHANGED row
    BY <1>17 DEF Adopt
  <2> QED
    BY <1>7, <1>9, <1>10, <2>1, <2>2
<1> QED
  BY <1>5, <1>6, <1>11, <1>12, <1>13, <1>14, <1>15, <1>16, <1>17 DEF Next, Reconcile
\* A turn stays aborted, and does not come back, as long as it is in activeTurns.
Kept(a, b) == (b.in => a.in) /\ (b.in /\ a.aborted => b.aborted)

LEMMA PartsAreKept ==
  \A a \in ActiveTurn :
    /\ Kept(a, a) /\ Kept(a, Blank) /\ Kept(a, Rest(a)) /\ Kept(a, Left(a)) /\ Kept(a, Throw(a))
    /\ Kept(a, Suspend(a)) /\ Kept(a, Apply(a)) /\ Kept(a, Grant(a))
    /\ \A outcome \in Outcomes : Kept(a, Settle(a, outcome))
    /\ \A pc \in Awaits : Kept(a, [a EXCEPT !.pc = pc])
    /\ \A pc \in Awaits : Kept(a, [a EXCEPT !.lease = "active", !.pc = pc])
    /\ \A pc \in Awaits : Kept(a, [a EXCEPT !.knows = TRUE, !.pc = pc])
    /\ Kept(a, [a EXCEPT !.lease = "active"]) /\ Kept(a, [a EXCEPT !.lease = "suspended"])
    /\ Kept(a, [a EXCEPT !.aborted = TRUE]) /\ Kept(a, [a EXCEPT !.idle = FALSE])
    /\ Kept(a, [a EXCEPT !.handed = TRUE]) /\ Kept(a, [a EXCEPT !.knows = TRUE])
    /\ \A status \in Statuses : Kept(a, [a EXCEPT !.status = status])
<1>0. {"completed", "failed", "interrupted"} = Outcomes
  BY DEF Outcomes
<1>1. \A a \in ActiveTurn : Kept(a, a) /\ Kept(a, Blank) /\ Kept(a, Left(a))
  BY DEF Kept, Left, Blank
<1>2. \A a \in ActiveTurn : Kept(a, Rest(a)) /\ Rest(a) \in ActiveTurn
  <2>1. ASSUME NEW a \in ActiveTurn PROVE Kept(a, [a EXCEPT !.pc = "off"])
    BY DEF Kept, ActiveTurn
  <2> QED
    BY <1>1, <2>1, PartsKeepTurns DEF Rest
<1>3. ASSUME NEW a \in ActiveTurn, NEW outcome \in Outcomes PROVE Kept(a, Settle(a, outcome))
  <2>1. Kept(a, [a EXCEPT !.ends = outcome, !.lease = "released"])
    BY DEF Kept, ActiveTurn
  <2> QED
    BY <1>1, <2>1 DEF Settle
<1>4. ASSUME NEW a \in ActiveTurn PROVE Kept(a, Throw(a))
  <2>1. CASE Throw(a) = [a EXCEPT !.lease = "suspended", !.pc = "off"]
    BY <2>1 DEF Kept, ActiveTurn
  <2>2. CASE \E outcome \in {"interrupted", "failed"} : Throw(a) = Settle(Rest(a), outcome)
    <3>1. Kept(a, Rest(a)) /\ Kept(Rest(a), Throw(a))
      BY <1>0, <1>2, <1>3, <2>2
    <3> QED
      BY <3>1 DEF Kept
  <2> QED
    BY <2>1, <2>2, ThrowForms
<1>5. ASSUME NEW a \in ActiveTurn PROVE Kept(a, Suspend(a))
  <2>1. ASSUME NEW pc \in {a.pc, "off"}
        PROVE  Kept(a, [a EXCEPT !.lease = "suspended", !.pc = pc])
    BY DEF Kept, ActiveTurn
  <2>2. CASE a.pc \in Admission /\ a.aborted
    BY <1>4, <2>2 DEF Suspend
  <2>3. CASE ~(a.pc \in Admission /\ a.aborted)
    <3>1. \E pc \in {a.pc, "off"} : Suspend(a) = [a EXCEPT !.lease = "suspended", !.pc = pc]
      BY <2>3 DEF Suspend
    <3> QED
      BY <2>1, <3>1
  <2> QED
    BY <2>2, <2>3
<1>6. ASSUME NEW a \in ActiveTurn PROVE Kept(a, Apply(a))
  <2>1. Kept(a, [a EXCEPT !.idle = @ \/ a.status = "idle"])
    BY DEF Kept, ActiveTurn
  <2> QED
    BY <1>0, <1>1, <1>3, <2>1 DEF Apply
<1>7. ASSUME NEW a \in ActiveTurn
      PROVE  /\ \A pc \in Awaits : Kept(a, [a EXCEPT !.pc = pc])
             /\ \A pc \in Awaits : Kept(a, [a EXCEPT !.lease = "active", !.pc = pc])
             /\ \A pc \in Awaits : Kept(a, [a EXCEPT !.knows = TRUE, !.pc = pc])
             /\ Kept(a, [a EXCEPT !.lease = "active"])
             /\ Kept(a, [a EXCEPT !.lease = "suspended"])
  BY DEF Kept, ActiveTurn
<1>8. ASSUME NEW a \in ActiveTurn
      PROVE  /\ Kept(a, [a EXCEPT !.aborted = TRUE]) /\ Kept(a, [a EXCEPT !.idle = FALSE])
             /\ Kept(a, [a EXCEPT !.handed = TRUE]) /\ Kept(a, [a EXCEPT !.knows = TRUE])
             /\ \A status \in Statuses : Kept(a, [a EXCEPT !.status = status])
  BY DEF Kept, ActiveTurn
<1>9. ASSUME NEW a \in ActiveTurn PROVE Kept(a, Grant(a))
  <2>1. PICK pc \in Awaits \ Admission : Grant(a) = [a EXCEPT !.lease = "active", !.pc = pc]
    BY GrantForms
  <2>2. Kept(a, [a EXCEPT !.lease = "active", !.pc = pc])
    BY <1>7
  <2> QED
    BY <2>1, <2>2
<1> QED
  BY <1>1, <1>2, <1>3, <1>4, <1>5, <1>6, <1>7, <1>8, <1>9

LEMMA OneIsKept ==
  ASSUME act \in [Turns -> ActiveTurn], NEW t \in Turns, NEW b, Kept(act[t], b),
         act' = [act EXCEPT ![t] = b]
  PROVE  \A s \in Turns : Kept(act[s], act'[s])
BY PartsAreKept

LEMMA HeardIsKept ==
  ASSUME TypeOK, NEW status \in Statuses, Heard(status)
  PROVE  \A t \in Turns : Kept(act[t], act'[t])
<1>0. act \in [Turns -> ActiveTurn]
  BY DEF TypeOK
<1>1. CASE map \in Turns /\ act[map].in /\ act[map].ends = "no"
  <2>1. PICK t \in Turns : t = map
    BY <1>1
  <2> DEFINE a == [act[t] EXCEPT !.status = status]
  <2>2. act[t] \in ActiveTurn /\ a \in ActiveTurn
    BY <1>0 DEF ActiveTurn, Statuses
  <2>3. act' = [act EXCEPT ![t] = Apply(a)]
    BY <1>1, <2>1, TurnsAssumption DEF Heard, Turns
  <2>4. Kept(act[t], a) /\ Kept(a, Apply(a))
    BY <2>2, PartsAreKept
  <2>5. Kept(act[t], Apply(a))
    BY <2>4 DEF Kept
  <2> QED
    BY <1>0, <2>3, <2>5, OneIsKept
<1>2. CASE ~(map \in Turns /\ act[map].in /\ act[map].ends = "no")
  <2>1. act' = act
    BY <1>2, TurnsAssumption DEF Heard, Turns, TypeOK
  <2> QED
    BY <1>0, <2>1, PartsAreKept
<1> QED
  BY <1>1, <1>2

\* No interruption begins, and no turn is adopted.
InterruptsNothing ==
  /\ \A t \in Turns : /\ Kept(act[t], act'[t]) /\ kill'[t] \subseteq kill[t]
                      /\ row'[t] = "none" => row[t] = "none"
                      /\ Active(t)' => Active(t)
  /\ up' = up
  /\ recon'.pc # "off" => recon.pc # "off" /\ recon'.turn = recon.turn

LEMMA InterruptsNothingIsSafe ==
  ASSUME OwnersInv, KillsAbort, InterruptsNothing
  PROVE  KillsAbort'
<1>1. /\ act \in [Turns -> ActiveTurn] /\ kill \in [Turns -> SUBSET Kills]
      /\ recon.pc # "off" => recon.turn \in Turns
  BY DEF OwnersInv, TypeInv, TypeOK, CallsHaveTurns, Kills
<1>2. ASSUME NEW t \in Turns
      PROVE  /\ (kill[t] # {} => up /\ row[t] # "none")'
             /\ (kill[t] \cap Stoppers # {} => act[t].aborted \/ ~act[t].in)'
  <2>1. /\ Kept(act[t], act'[t]) /\ kill'[t] \subseteq kill[t] /\ up' = up
        /\ row'[t] = "none" => row[t] = "none"
        /\ kill[t] # {} => up /\ row[t] # "none"
        /\ kill[t] \cap Stoppers # {} => act[t].aborted \/ ~act[t].in
    BY DEF KillsAbort, InterruptsNothing
  <2>2. kill'[t] # {} => kill[t] # {}
    BY <2>1
  <2>3. kill'[t] \cap Stoppers # {} => kill[t] \cap Stoppers # {}
    BY <2>1
  <2> QED
    BY <2>1, <2>2, <2>3 DEF Kept
<1>3. recon'.pc # "off" /\ Active(recon.turn)' => kill'[recon'.turn] = {}
  <2>1. ASSUME recon'.pc # "off", Active(recon.turn)' PROVE kill'[recon'.turn] = {}
    <3>1. PICK t \in Turns : t = recon.turn
      BY <1>1, <2>1 DEF InterruptsNothing
    <3>2. recon'.turn = t /\ recon.pc # "off"
      BY <2>1, <3>1 DEF InterruptsNothing
    <3>3. Active(t)'
      BY <2>1, <3>2 DEF Active
    <3>4. kill[t] = {} /\ kill'[t] \subseteq kill[t]
      BY <3>1, <3>2, <3>3 DEF InterruptsNothing, KillsAbort
    <3> QED
      BY <3>2, <3>4
  <2> QED
    BY <2>1
<1> QED
  BY <1>2, <1>3 DEF KillsAbort

\* A turn in activeTurns is interrupted: nothing is looked up for it.
LEMMA InterruptIsSafe ==
  ASSUME OwnersInv, KillsAbort, NEW t \in Turns, act[t].in, act'[t].aborted, NEW k,
         kill' = [kill EXCEPT ![t] = @ \cup {k}],
         \A s \in Turns : Kept(act[s], act'[s]),
         UNCHANGED <<row, up>>, recon'.pc # "off" => recon' = recon
  PROVE  KillsAbort'
<1>1. /\ act \in [Turns -> ActiveTurn] /\ kill \in [Turns -> SUBSET Kills]
      /\ \A s \in Turns : act[s].in \in BOOLEAN
  BY DEF OwnersInv, TypeInv, TypeOK, Kills, ActiveTurn
<1>2. Active(t) /\ up
  BY DEF OwnersInv, TurnsAreOwned, OneLiveTurn, DownIsQuiet
<1>3. row[t] # "none" /\ \A s \in Turns \ {t} : kill'[s] = kill[s]
  BY <1>1, <1>2 DEF Active, ActiveStatuses
<1>4. ~(recon.pc # "off" /\ Active(recon.turn))
  BY DEF OwnersInv, TurnsAreOwned, ReconIsAlone
<1>5. ASSUME NEW s \in Turns
      PROVE  /\ (kill[s] # {} => up /\ row[s] # "none")'
             /\ (kill[s] \cap Stoppers # {} => act[s].aborted \/ ~act[s].in)'
  <2>1. CASE s = t
    BY <1>2, <1>3, <2>1
  <2>2. CASE s # t
    <3>1. /\ Kept(act[s], act'[s]) /\ kill'[s] = kill[s]
          /\ kill[s] # {} => up /\ row[s] # "none"
          /\ kill[s] \cap Stoppers # {} => act[s].aborted \/ ~act[s].in
      BY <1>3, <2>2 DEF KillsAbort
    <3> QED
      BY <3>1 DEF Kept
  <2> QED
    BY <2>1, <2>2
<1>6. ~(recon.pc # "off" /\ Active(recon.turn))'
  BY <1>4 DEF Active
<1> QED
  BY <1>5, <1>6 DEF KillsAbort

\* A turn whose safety could not be verified.
LEMMA UnverifiedIsKept ==
  ASSUME OwnersInv, KillsAbort, NEW t \in Turns, NEW a \in ActiveTurn, Kept(act[t], a),
         a.in = act[t].in, a.ends = act[t].ends, Unverified(t, a),
         UNCHANGED <<row, up>>, recon'.pc # "off" => recon' = recon
  PROVE  KillsAbort'
<1>1. act \in [Turns -> ActiveTurn]
  BY DEF OwnersInv, TypeInv, TypeOK
<1>2. CASE ~a.in \/ a.ends # "no"
  <2>1. act' = [act EXCEPT ![t] = a] /\ UNCHANGED kill
    BY <1>2 DEF Unverified
  <2>2. \A s \in Turns : Kept(act[s], act'[s])
    BY <1>1, <2>1, OneIsKept
  <2>3. \A s \in Turns : Active(s)' => Active(s)
    BY DEF Active
  <2> QED
    BY <2>1, <2>2, <2>3, InterruptsNothingIsSafe DEF InterruptsNothing
<1>3. CASE ~(~a.in \/ a.ends # "no")
  <2> DEFINE b == [a EXCEPT !.aborted = TRUE]
  <2>1. act' = [act EXCEPT ![t] = b] /\ kill' = [kill EXCEPT ![t] = @ \cup {"unverified"}]
    BY <1>3 DEF Unverified
  <2>2. Kept(act[t], b) /\ b.aborted
    BY DEF Kept, ActiveTurn
  <2> HIDE DEF b
  <2>3. \A s \in Turns : Kept(act[s], act'[s])
    BY <1>1, <2>1, <2>2, OneIsKept
  <2>4. act'[t].aborted /\ act[t].in
    BY <1>1, <1>3, <2>1, <2>2
  <2> QED
    BY <2>1, <2>3, <2>4, InterruptIsSafe
<1> QED
  BY <1>2, <1>3

LEMMA ParentKillsAbort ==
  ASSUME OwnersInv, KillsAbort,
         \/ Spawn
         \/ \E t \in Turns : FollowUp(t) \/ Interrupt(t) \/ InterruptUnowned(t) \/ InterruptEnds(t)
  PROVE  KillsAbort'
<1>1. /\ act \in [Turns -> ActiveTurn] /\ kill \in [Turns -> SUBSET Kills]
      /\ recon.pc # "off" => recon.turn \in Turns /\ row[recon.turn] # "none"
      /\ row \in [Turns -> {"none"} \cup ActiveStatuses \cup Outcomes] /\ 1 \in Turns
      /\ "none" \notin ActiveStatuses
      /\ \A s \in Turns : Kept(act[s], act[s])
  <2>1. act \in [Turns -> ActiveTurn] /\ kill \in [Turns -> SUBSET Kills]
    BY DEF OwnersInv, TypeInv, TypeOK, Kills
  <2>2. \A s \in Turns : Kept(act[s], act[s])
    BY <2>1, PartsAreKept
  <2> QED
    BY <2>1, <2>2, RowFacts DEF OwnersInv, TurnsAreOwned, ReconIsAlone
<1>2. ASSUME NEW t \in Turns, NEW knows, row[t] = "none", Begin(t, knows),
             UNCHANGED <<kill, recon, up>>
      PROVE  KillsAbort'
  <2>1. /\ kill[t] = {} /\ \A s \in Turns \ {t} : act'[s] = act[s] /\ row'[s] = row[s]
    BY <1>1, <1>2 DEF Begin, KillsAbort
  <2>2. \A s \in Turns : /\ (kill[s] # {} => up /\ row[s] # "none")'
                         /\ (kill[s] \cap Stoppers # {} => act[s].aborted \/ ~act[s].in)'
    BY <1>2, <2>1 DEF KillsAbort
  <2>3. recon.pc # "off" => recon.turn # t
    BY <1>1, <1>2
  <2>4. (recon.pc # "off" /\ Active(recon.turn) => kill[recon.turn] = {})'
    BY <1>1, <1>2, <2>1, <2>3 DEF KillsAbort, Active
  <2> QED
    BY <2>2, <2>4 DEF KillsAbort
<1>3. CASE Spawn
  BY <1>1, <1>2, <1>3 DEF Spawn
<1>4. ASSUME NEW t \in Turns, FollowUp(t) PROVE KillsAbort'
  BY <1>2, <1>4 DEF FollowUp
<1>5. ASSUME NEW t \in Turns, Interrupt(t) PROVE KillsAbort'
  <2> DEFINE b == [act[t] EXCEPT !.aborted = TRUE]
  <2>1. /\ act' = [act EXCEPT ![t] = b] /\ kill' = [kill EXCEPT ![t] = @ \cup {"drain"}]
        /\ act[t].in /\ UNCHANGED <<row, recon, up>>
    BY <1>5 DEF Interrupt, durable
  <2>2. Kept(act[t], b) /\ b.aborted
    BY <1>1, PartsAreKept DEF ActiveTurn
  <2> HIDE DEF b
  <2>3. \A s \in Turns : Kept(act[s], act'[s])
    BY <1>1, <2>1, <2>2, OneIsKept
  <2>4. act'[t].aborted
    BY <1>1, <2>1, <2>2
  <2> QED
    BY <2>1, <2>3, <2>4, InterruptIsSafe
<1>6. ASSUME NEW t \in Turns, InterruptUnowned(t) PROVE KillsAbort'
  <2>1. /\ row' = [row EXCEPT ![t] = "interrupted"] /\ Active(t) /\ up
        /\ kill' \in {kill, [kill EXCEPT ![t] = @ \cup {"unowned"}]}
        /\ UNCHANGED <<act, recon, up>>
    BY <1>6 DEF InterruptUnowned, Finish
  <2>2. \A s \in Turns : ~Active(s)'
    BY <1>1, <2>1 DEF OwnersInv, TurnsAreOwned, OneLiveTurn, Active, ActiveStatuses
  <2>3. row[t] # "none" /\ row'[t] # "none"
    BY <1>1, <2>1 DEF Active
  <2>4. \A s \in Turns : /\ (kill[s] # {} => up /\ row[s] # "none")'
                         /\ (kill[s] \cap Stoppers # {} => act[s].aborted \/ ~act[s].in)'
    BY <1>1, <2>1, <2>3 DEF KillsAbort, Stoppers
  <2>5. (recon.pc # "off" /\ Active(recon.turn) => kill[recon.turn] = {})'
    BY <1>1, <2>1, <2>2
  <2> QED
    BY <2>4, <2>5 DEF KillsAbort
<1>7. ASSUME NEW t \in Turns, InterruptEnds(t) PROVE KillsAbort'
  <2>1. act' \in {act, [act EXCEPT ![t] = Settle(act[t], "interrupted")]}
    BY <1>7 DEF InterruptEnds, Interrupted
  <2>2. \A s \in Turns : Kept(act[s], act'[s])
    BY <1>1, <2>1, PartsAreKept, OneIsKept DEF Outcomes
  <2>3. \E done \in Kills : kill' = [kill EXCEPT ![t] = @ \ {done}]
    BY <1>7 DEF InterruptEnds, Interrupted, Kills
  <2>4. \A s \in Turns : kill'[s] \subseteq kill[s]
    BY <1>1, <2>3
  <2>5. UNCHANGED <<row, recon, up>> /\ \A s \in Turns : Active(s)' => Active(s)
    BY <1>7 DEF InterruptEnds, durable, Active
  <2> QED
    BY <2>2, <2>4, <2>5, InterruptsNothingIsSafe DEF InterruptsNothing
<1> QED
  BY <1>3, <1>4, <1>5, <1>6, <1>7

\* The call that runs a turn.
LEMMA RunIsKept ==
  ASSUME TypeOK, NEW t \in Turns, Run(t) \/ RunFails(t)
  PROVE  \A s \in Turns : Kept(act[s], act'[s])
<1> DEFINE a == act[t]
           known == [a EXCEPT !.knows = TRUE]
           handed == [a EXCEPT !.handed = TRUE]
<1>1. act \in [Turns -> ActiveTurn] /\ a \in ActiveTurn
  BY DEF TypeOK
<1>2. known \in ActiveTurn /\ handed \in ActiveTurn /\ Kept(a, known) /\ Kept(a, handed)
  BY <1>1, FieldsKeepTurns, PartsAreKept
<1>3. {"safety", "off", "find", "create", "bind", "sync", "send", "sent"} \subseteq Awaits
  BY DEF Awaits
<1>4. Kept(a, Throw(a)) /\ Kept(a, Throw(known)) /\ Kept(a, Blank)
  <2>1. Kept(known, Throw(known)) /\ Kept(a, Throw(a)) /\ Kept(a, Blank)
    BY <1>1, <1>2, PartsAreKept
  <2> HIDE DEF known
  <2> QED
    BY <1>2, <2>1 DEF Kept
<1>5. \A pc \in Awaits : /\ Kept(a, [a EXCEPT !.pc = pc])
                         /\ Kept(a, [a EXCEPT !.lease = "active", !.pc = pc])
                         /\ Kept(a, [a EXCEPT !.knows = TRUE, !.pc = pc])
  BY <1>1, PartsAreKept
<1>6. ASSUME NEW b, Kept(a, b), act' = [act EXCEPT ![t] = b]
      PROVE  \A s \in Turns : Kept(act[s], act'[s])
  BY <1>1, <1>6, OneIsKept
<1>7. CASE Admitted(t)
  <2>1. act' = [act EXCEPT ![t] = Grant(a)]
    BY <1>7 DEF Admitted
  <2>2. Kept(a, Grant(a))
    BY <1>1, PartsAreKept
  <2> QED
    BY <1>6, <2>1, <2>2
<1>8. CASE Checked(t) \/ RunFails(t) \/ HandOff(t) \/ Accepted(t)
  <2>1. PICK b \in {[a EXCEPT !.pc = "find"], Throw(a), Blank, [a EXCEPT !.pc = "send"],
                    [a EXCEPT !.pc = "sent"]} : act' = [act EXCEPT ![t] = b]
    BY <1>1, <1>8
    DEF Checked, RunFails, NotAdmitted, AcquireFails, HandOffFails, SendFails, Park, HandOff,
        Accepted
  <2>2. Kept(a, b)
    BY <1>3, <1>4, <1>5, <2>1
  <2> QED
    BY <1>6, <2>1, <2>2
<1>9. CASE Acquire(t)
  <2>1. PICK b \in {[a EXCEPT !.pc = "create"], [a EXCEPT !.pc = "bind"],
                    [a EXCEPT !.knows = TRUE, !.pc = "sync"], Throw(a), Throw(known)} :
          act' = [act EXCEPT ![t] = b]
    BY <1>1, <1>9 DEF Acquire, Bind
  <2>2. Kept(a, b)
    BY <1>3, <1>4, <1>5, <2>1
  <2> QED
    BY <1>6, <2>1, <2>2
<1>10. CASE SendReturns(t)
  <2>1. PICK b \in {Settle(Rest(handed), "interrupted"), Apply(Rest(handed))} :
          act' = [act EXCEPT ![t] = b]
    BY <1>10 DEF SendReturns
  <2>2. Rest(handed) \in ActiveTurn /\ Kept(handed, Rest(handed))
    BY <1>2, PartsKeepTurns, PartsAreKept
  <2>3. Kept(Rest(handed), b)
    <3>1. /\ Kept(Rest(handed), Settle(Rest(handed), "interrupted"))
          /\ Kept(Rest(handed), Apply(Rest(handed)))
      BY <2>2, PartsAreKept DEF Outcomes
    <3> QED
      BY <2>1, <3>1
  <2> HIDE DEF handed
  <2>4. Kept(a, b)
    BY <1>2, <2>2, <2>3 DEF Kept
  <2> QED
    BY <1>6, <2>1, <2>4
<1> QED
  BY <1>7, <1>8, <1>9, <1>10 DEF Run

LEMMA RunKillsAbort ==
  ASSUME OwnersInv, KillsAbort, NEW t \in Turns, Run(t) \/ RunFails(t)
  PROVE  KillsAbort'
<1>1. TypeOK /\ row \in [Turns -> {"none"} \cup ActiveStatuses \cup Outcomes]
  BY DEF OwnersInv, TypeInv, TypeOK
<1>2. \A s \in Turns : Kept(act[s], act'[s])
  BY <1>1, RunIsKept
<1>3. kill' = kill /\ recon' = recon /\ up' = up
  BY DEF Run, RunFails, Admitted, Checked, Acquire, HandOff, Accepted, SendReturns, NotAdmitted,
         AcquireFails, HandOffFails, Park, SendFails
<1>4. row' = row \/ (Active(t) /\ row' = [row EXCEPT ![t] = "running"])
  BY DEF Run, RunFails, Admitted, Checked, Acquire, HandOff, Accepted, SendReturns, NotAdmitted,
         AcquireFails, HandOffFails, Park, SendFails, durable, Mark
<1>5. \A s \in Turns : (row'[s] = "none" => row[s] = "none") /\ (Active(s)' => Active(s))
  BY <1>1, <1>4 DEF Active
<1> QED
  BY <1>2, <1>3, <1>5, InterruptsNothingIsSafe DEF InterruptsNothing

\* The end of a turn.
LEMMA EndKillsAbort ==
  ASSUME OwnersInv, KillsAbort, NEW t \in Turns, IdleChecked(t) \/ Settled(t)
  PROVE  KillsAbort'
<1>1. /\ act \in [Turns -> ActiveTurn] /\ act[t] \in ActiveTurn
      /\ row \in [Turns -> {"none"} \cup ActiveStatuses \cup Outcomes]
  BY DEF OwnersInv, TypeInv, TypeOK
<1>2. CASE IdleChecked(t)
  <2> DEFINE a == [act[t] EXCEPT !.idle = FALSE]
  <2>1. a \in ActiveTurn /\ Kept(act[t], a) /\ a.in = act[t].in /\ a.ends = act[t].ends
    <3>1. a \in ActiveTurn /\ Kept(act[t], a)
      BY <1>1, FieldsKeepTurns, PartsAreKept
    <3> QED
      BY <1>1, <3>1 DEF ActiveTurn
  <2>2. UNCHANGED <<row, up, recon>>
    BY <1>2 DEF IdleChecked, durable
  <2>3. \/ act' = [act EXCEPT ![t] = Settle(a, "completed")] /\ UNCHANGED kill
        \/ Unverified(t, a)
    BY <1>2 DEF IdleChecked
  <2> HIDE DEF a
  <2>4. CASE Unverified(t, a)
    BY <2>1, <2>2, <2>4, UnverifiedIsKept
  <2>5. CASE act' = [act EXCEPT ![t] = Settle(a, "completed")] /\ UNCHANGED kill
    <3>1. Kept(a, Settle(a, "completed"))
      BY <2>1, PartsAreKept DEF Outcomes
    <3>2. Kept(act[t], Settle(a, "completed"))
      BY <2>1, <3>1 DEF Kept
    <3>3. \A s \in Turns : Kept(act[s], act'[s])
      BY <1>1, <2>5, <3>2, OneIsKept
    <3>4. \A s \in Turns : Active(s)' => Active(s)
      BY <2>2 DEF Active
    <3> QED
      BY <2>2, <2>5, <3>3, <3>4, InterruptsNothingIsSafe DEF InterruptsNothing
  <2> QED
    BY <2>3, <2>4, <2>5
<1>3. CASE Settled(t)
  <2>1. /\ act' = [act EXCEPT ![t] = Left(act[t])] /\ UNCHANGED <<kill, recon, up>>
        /\ act[t].ends # "no"
    BY <1>3 DEF Settled
  <2>2. \A s \in Turns : Kept(act[s], act'[s])
    BY <1>1, <2>1, PartsAreKept, OneIsKept
  <2>3. Outcome(act[t]) \in Outcomes /\ "failed" \in Outcomes
    <3>1. Outcome(act[t]) \in Outcomes \cup {"no"}
      BY <1>1, PartsKeepTurns
    <3>2. Outcome(act[t]) # "no"
      BY <2>1 DEF Outcome
    <3> QED
      BY <3>1, <3>2 DEF Outcomes
  <2>4. row' = row \/ \E outcome \in Outcomes : row' = [row EXCEPT ![t] = outcome]
    BY <1>3, <2>3 DEF Settled, Finish
  <2>5. \A s \in Turns : (row'[s] = "none" => row[s] = "none") /\ (Active(s)' => Active(s))
    BY <1>1, <2>4, RowFacts DEF Active
  <2> QED
    BY <2>1, <2>2, <2>5, InterruptsNothingIsSafe DEF InterruptsNothing
<1> QED
  BY <1>2, <1>3

\* The child session and its boundaries.
LEMMA ChildKillsAbort ==
  ASSUME OwnersInv, KillsAbort,
         \/ Child \/ Bounds \/ UserResumes \/ UserStops \/ EnterBoundary \/ RespondUnmapped
         \/ ToolRefused
  PROVE  KillsAbort'
<1>1. /\ act \in [Turns -> ActiveTurn] /\ TypeOK /\ map \in 0..MaxTurns
      /\ row \in [Turns -> {"none"} \cup ActiveStatuses \cup Outcomes]
      /\ boundary.pc # "off" => boundary.turn \in Turns
      /\ \A s \in Turns : Kept(act[s], act[s])
  <2>1. TypeOK /\ CallsHaveTurns
    BY DEF OwnersInv, TypeInv
  <2> QED
    BY <2>1, PartsAreKept DEF TypeOK, CallsHaveTurns
<1>2. map # 0 => map \in Turns
  BY <1>1, TurnsAssumption DEF Turns
<1>3. ASSUME \A s \in Turns : Kept(act[s], act'[s]), UNCHANGED <<row, kill, recon, up>>
      PROVE  KillsAbort'
  BY <1>3, InterruptsNothingIsSafe DEF InterruptsNothing, Active
<1>4. CASE ChildStarts \/ ChildPrepares \/ ChildEnds
  <2>1. UNCHANGED <<row, kill, recon, up>>
    BY <1>4 DEF ChildStarts, ChildPrepares, ChildEnds, durable
  <2>2. UNCHANGED act \/ \E status \in Statuses : Heard(status)
    BY <1>4 DEF ChildStarts, ChildPrepares, ChildEnds, Statuses
  <2>3. \A s \in Turns : Kept(act[s], act'[s])
    BY <1>1, <2>2, HeardIsKept
  <2> QED
    BY <1>3, <2>1, <2>3
<1>5. ASSUME NEW t \in Turns, NEW status \in {"running", "waiting"}, act[t].in, Mark(t, status),
             act' = act \/ act' = [act EXCEPT ![t] = Suspend(act[t])],
             UNCHANGED <<kill, recon, up>>
      PROVE  KillsAbort'
  <2>1. Active(t)
    BY <1>5 DEF OwnersInv, TurnsAreOwned, OneLiveTurn
  <2>2. \A s \in Turns : (row'[s] = "none" => row[s] = "none") /\ (Active(s)' => Active(s))
    BY <1>1, <1>5, <2>1 DEF Mark, Active
  <2>3. \A s \in Turns : Kept(act[s], act'[s])
    BY <1>1, <1>5, PartsAreKept, OneIsKept
  <2> QED
    BY <1>5, <2>2, <2>3, InterruptsNothingIsSafe DEF InterruptsNothing
<1>6. CASE ChildAsks
  <2>1. CASE map # 0 /\ act[map].in /\ act[map].ends = "no"
    <3>1. PICK t \in Turns : t = map
      BY <1>2, <2>1
    <3>2. /\ act' = [act EXCEPT ![t] = Suspend(act[t])] /\ Mark(t, "waiting") /\ act[t].in
          /\ UNCHANGED <<kill, recon, up>>
      BY <1>6, <2>1, <3>1 DEF ChildAsks
    <3> QED
      BY <1>5, <3>2
  <2>2. CASE ~(map # 0 /\ act[map].in /\ act[map].ends = "no")
    <3>1. UNCHANGED <<act, row, kill, recon, up>>
      BY <1>6, <2>2 DEF ChildAsks
    <3> QED
      BY <1>1, <1>3, <3>1
  <2> QED
    BY <2>1, <2>2
<1>7. CASE ChildProgresses
  <2>1. PICK t \in Turns : t = map
    BY <1>2, <1>7 DEF ChildProgresses
  <2>2. Mark(t, "running") /\ act[t].in /\ UNCHANGED <<act, kill, recon, up>>
    BY <1>7, <2>1 DEF ChildProgresses, service
  <2> QED
    BY <1>5, <2>2
<1>8. CASE UserResumes \/ UserStops \/ EnterBoundary \/ RespondUnmapped
  <2>1. UNCHANGED <<row, act, kill, recon, up>>
    BY <1>8 DEF UserResumes, UserStops, EnterBoundary, RespondUnmapped, durable, service
  <2> QED
    BY <1>1, <1>3, <2>1
<1>9. CASE PassBoundary
  <2>1. PICK t \in Turns : t = boundary.turn
    BY <1>1, <1>9 DEF PassBoundary, Goes
  <2>2. /\ \/ act' = act \/ act' = [act EXCEPT ![t] = Grant(act[t])]
           \/ act' = [act EXCEPT ![t] = [act[t] EXCEPT !.lease = "suspended"]]
        /\ UNCHANGED <<row, kill, recon, up>>
    BY <1>9, <2>1 DEF PassBoundary, durable
  <2>3. \A s \in Turns : Kept(act[s], act'[s])
    BY <1>1, <2>2, PartsAreKept, OneIsKept
  <2> QED
    BY <1>3, <2>2, <2>3
<1>10. ASSUME NEW t \in Turns, Unverified(t, act[t]), UNCHANGED <<row, up, recon>>
       PROVE  KillsAbort'
  BY <1>1, <1>10, UnverifiedIsKept
<1>11. CASE FailBoundary
  <2>1. PICK t \in Turns : t = boundary.turn
    BY <1>1, <1>11 DEF FailBoundary
  <2>2. UNCHANGED <<row, up, recon>> /\ (Unverified(t, act[t]) \/ UNCHANGED <<act, kill>>)
    BY <1>11, <2>1 DEF FailBoundary, durable
  <2> QED
    BY <1>1, <1>3, <1>10, <2>2
<1>12. CASE ToolRefused
  <2>1. PICK t \in Turns : t = map
    BY <1>2, <1>12 DEF ToolRefused
  <2> QED
    BY <1>10, <1>12, <2>1 DEF ToolRefused, durable
<1> QED
  BY <1>4, <1>6, <1>7, <1>8, <1>9, <1>11, <1>12 DEF Child, Bounds

\* Crash and restart.
LEMMA RestartKillsAbort ==
  ASSUME OwnersInv, KillsAbort, Look \/ LookFails \/ Reconcile \/ Quarantine \/ Crash \/ Start
  PROVE  KillsAbort'
<1>1. /\ act \in [Turns -> ActiveTurn] /\ kill \in [Turns -> SUBSET Kills] /\ TypeOK
      /\ row \in [Turns -> {"none"} \cup ActiveStatuses \cup Outcomes]
      /\ recon.pc # "off" => recon.turn \in Turns
      /\ \A s \in Turns : Kept(act[s], act[s])
  <2>1. TypeOK /\ CallsHaveTurns
    BY DEF OwnersInv, TypeInv
  <2> QED
    BY <2>1, PartsAreKept DEF TypeOK, CallsHaveTurns, Kills
<1>2. CASE Look \/ LookFails \/ ReconcileOver \/ ReconcileLost \/ Quarantine
  <2>1. PICK t \in Turns : t = recon.turn
    BY <1>1, <1>2 DEF Look, LookFails, ReconcileOver, ReconcileLost, Quarantine
  <2>2. row' \in {row, [row EXCEPT ![t] = "interrupted"]}
    BY <1>2, <2>1 DEF Look, LookFails, ReconcileOver, ReconcileLost, Quarantine, Finish, durable
  <2>3. UNCHANGED <<act, kill, up>>
    BY <1>2 DEF Look, LookFails, ReconcileOver, ReconcileLost, Quarantine
  <2>4. recon' = NoRecon \/ recon' = [recon EXCEPT !.pc = "found", !.saw = ChildStatus]
    BY <1>2 DEF Look, LookFails, ReconcileOver, ReconcileLost, Quarantine
  <2>5. recon'.pc # "off" => recon.pc # "off" /\ recon'.turn = recon.turn
    <3>1. recon.pc # "off"
      BY <1>2 DEF Look, LookFails, ReconcileOver, ReconcileLost, Quarantine
    <3>2. NoRecon.pc = "off"
      BY DEF NoRecon
    <3>3. [recon EXCEPT !.pc = "found", !.saw = ChildStatus].turn = recon.turn
      <4>1. recon \in [pc : {"off", "look", "found"}, turn : 0..MaxTurns, knew : BOOLEAN,
                       saw : {"none", "idle", "generating", "error"}]
        BY <1>1 DEF TypeOK
      <4> QED
        BY <4>1
    <3> QED
      BY <2>4, <3>1, <3>2, <3>3
  <2>6. \A s \in Turns : (row'[s] = "none" => row[s] = "none") /\ (Active(s)' => Active(s))
    BY <1>1, <2>2 DEF Active, ActiveStatuses
  <2> QED
    BY <1>1, <2>3, <2>5, <2>6, InterruptsNothingIsSafe DEF InterruptsNothing
<1>3. CASE Crash
  <2>1. kill' = [t \in Turns |-> {}] /\ recon' = NoRecon
    BY <1>3 DEF Crash
  <2> QED
    BY <2>1 DEF KillsAbort, NoRecon
<1>4. CASE Start
  <2>1. ~up /\ UNCHANGED <<row, act, kill>>
    BY <1>4 DEF Start, durable
  <2>2. \A t \in Turns : kill[t] = {} /\ kill'[t] = {}
    BY <2>1 DEF KillsAbort
  <2>3. recon'.pc # "off" => recon'.turn \in Turns
    <3>1. CASE \E t \in Turns : Active(t)
      <4> DEFINE t == CHOOSE u \in Turns : Active(u)
      <4>1. t \in Turns /\ recon'.turn = t
        BY <1>4, <3>1 DEF Start
      <4> QED
        BY <4>1
    <3>2. CASE ~(\E t \in Turns : Active(t))
      BY <1>1, <1>4, <3>2 DEF Start
    <3> QED
      BY <3>1, <3>2
  <2> QED
    BY <2>2, <2>3 DEF KillsAbort
<1>5. CASE Adopt
  <2>1. PICK t \in Turns : t = recon.turn
    BY <1>1, <1>5 DEF Adopt
  <2>2. /\ Active(t) /\ kill[t] = {} /\ recon' = NoRecon /\ UNCHANGED <<kill, up>>
        /\ row' \in {row, [row EXCEPT ![t] = "running"]}
        /\ \A s \in Turns \ {t} : act'[s] = act[s]
    BY <1>1, <1>5, <2>1 DEF Adopt, Mark, KillsAbort
  <2>3. \A s \in Turns : row'[s] = "none" => row[s] = "none"
    BY <1>1, <2>2
  <2>4. ASSUME NEW s \in Turns
        PROVE  /\ (kill[s] # {} => up /\ row[s] # "none")'
               /\ (kill[s] \cap Stoppers # {} => act[s].aborted \/ ~act[s].in)'
    BY <2>2, <2>3 DEF KillsAbort
  <2> QED
    BY <2>2, <2>4 DEF KillsAbort, NoRecon
<1> QED
  BY <1>2, <1>3, <1>4, <1>5 DEF Reconcile

LEMMA KillsInductive ==
  ASSUME OwnersInv, KillsAbort, [Next]_vars
  PROVE  KillsAbort'
<1>1. CASE UNCHANGED vars
  <2>1. UNCHANGED <<row, act, kill, recon, up>>
    BY <1>1 DEF vars, durable, service
  <2> QED
    BY <2>1 DEF KillsAbort, Active
<1>2. CASE Next
  BY <1>2, ParentKillsAbort, RunKillsAbort, EndKillsAbort, ChildKillsAbort, RestartKillsAbort
  DEF Next
<1> QED
  BY <1>1, <1>2

(***************************************************************************)
(* What a turn has heard before its hand-off was made.                     *)
(***************************************************************************)

\* The child answers a hand-off, or is about to.
Answering == Works \cup {"preparing", "stopping"}

\* Before it sends, a turn was not handed over and nobody but an interruption ends it; the end
\* of a turn, or a hand-off that was made, comes after its intent.
SendRules(t) ==
  /\ act[t].pc \in ToSend => /\ ~act[t].handed /\ ~act[t].idle
                             /\ act[t].aborted \/ (act[t].in /\ act[t].ends = "no")
  /\ act[t].pc = "send" => act[t].in /\ act[t].ends = "no" /\ "unverified" \notin kill[t]
  /\ act[t].handed \/ act[t].idle => t \in begun
  /\ act[t].ends = "completed" \/ act[t].pc = "sent" => t \in begun

SendInv == \A t \in Turns : SendRules(t)

\* A turn hears of its end only after its hand-off.
Steady(a, b) ==
  /\ b.pc \in {a.pc, "off"} \/ (a.pc = "resume" /\ b.pc = "safety")
  /\ b.pc # "off" /\ a.aborted => b.aborted
  /\ b.handed => a.handed
  /\ b.idle => a.idle \/ a.handed
  /\ b.ends = "completed" => a.ends = "completed" \/ a.idle \/ a.handed
  /\ b.pc # "off" /\ ~a.handed /\ ~a.idle /\ a.in /\ a.ends = "no" => b.in /\ b.ends = "no"

LEMMA SteadyIsTransitive ==
  ASSUME NEW a, NEW b, NEW c, Steady(a, b), Steady(b, c)
  PROVE  Steady(a, c)
BY DEF Steady

LEMMA PartsAreSteady ==
  \A a \in ActiveTurn :
    /\ Steady(a, a) /\ Steady(a, Blank) /\ Steady(a, Rest(a)) /\ Steady(a, Throw(a))
    /\ Steady(a, Grant(a))
    /\ a.ends # "no" => Steady(a, Left(a))
    /\ Steady(a, Suspend(a)) /\ Steady(a, Apply(a))
    /\ a.idle => Steady(a, Settle([a EXCEPT !.idle = FALSE], "completed"))
    /\ Steady(a, [a EXCEPT !.lease = "active"]) /\ Steady(a, [a EXCEPT !.lease = "suspended"])
    /\ Steady(a, [a EXCEPT !.aborted = TRUE]) /\ Steady(a, [a EXCEPT !.idle = FALSE])
    /\ Steady(a, [a EXCEPT !.knows = TRUE])
    /\ \A status \in Statuses : Steady(a, [a EXCEPT !.status = status])
<1> SUFFICES ASSUME NEW a \in ActiveTurn
             PROVE  /\ Steady(a, a) /\ Steady(a, Blank) /\ Steady(a, Rest(a))
                    /\ Steady(a, Throw(a)) /\ Steady(a, Grant(a))
                    /\ a.ends # "no" => Steady(a, Left(a))
                    /\ Steady(a, Suspend(a)) /\ Steady(a, Apply(a))
                    /\ a.idle => Steady(a, Settle([a EXCEPT !.idle = FALSE], "completed"))
                    /\ Steady(a, [a EXCEPT !.lease = "active"])
                    /\ Steady(a, [a EXCEPT !.lease = "suspended"])
                    /\ Steady(a, [a EXCEPT !.aborted = TRUE])
                    /\ Steady(a, [a EXCEPT !.idle = FALSE]) /\ Steady(a, [a EXCEPT !.knows = TRUE])
                    /\ \A status \in Statuses : Steady(a, [a EXCEPT !.status = status])
  OBVIOUS
<1>1. Steady(a, a) /\ Steady(a, Blank)
  BY DEF Steady, Blank
<1>2. /\ Steady(a, [a EXCEPT !.lease = "active"]) /\ Steady(a, [a EXCEPT !.lease = "suspended"])
      /\ Steady(a, [a EXCEPT !.aborted = TRUE]) /\ Steady(a, [a EXCEPT !.idle = FALSE])
      /\ Steady(a, [a EXCEPT !.knows = TRUE])
      /\ \A status \in Statuses : Steady(a, [a EXCEPT !.status = status])
  BY DEF Steady, ActiveTurn
<1>3. Steady(a, Rest(a)) /\ Rest(a) \in ActiveTurn /\ Rest(a).pc = "off"
  <2>1. Steady(a, [a EXCEPT !.pc = "off"])
    BY DEF Steady, ActiveTurn
  <2> QED
    BY <1>1, <2>1, PartsKeepTurns DEF Rest
<1>4. ASSUME NEW b \in ActiveTurn, b.pc = "off" \/ b.handed,
             NEW outcome \in {"interrupted", "failed"}
      PROVE  Steady(b, Settle(b, outcome))
  <2>1. Steady(b, [b EXCEPT !.ends = outcome, !.lease = "released"])
    BY <1>4 DEF Steady, ActiveTurn
  <2>2. Steady(b, b)
    BY DEF Steady
  <2> QED
    BY <2>1, <2>2 DEF Settle
<1>5. Steady(a, Throw(a))
  <2>1. CASE Throw(a) = [a EXCEPT !.lease = "suspended", !.pc = "off"]
    BY <2>1 DEF Steady, ActiveTurn
  <2>2. CASE \E outcome \in {"interrupted", "failed"} : Throw(a) = Settle(Rest(a), outcome)
    <3>1. Steady(Rest(a), Throw(a))
      BY <1>3, <1>4, <2>2
    <3> QED
      BY <1>3, <3>1, SteadyIsTransitive
  <2> QED
    BY <2>1, <2>2, ThrowForms
<1>6. Steady(a, Suspend(a))
  <2>1. ASSUME NEW pc \in {a.pc, "off"}
        PROVE  Steady(a, [a EXCEPT !.lease = "suspended", !.pc = pc])
    BY DEF Steady, ActiveTurn
  <2>2. CASE a.pc \in Admission /\ a.aborted
    BY <1>5, <2>2 DEF Suspend
  <2>3. CASE ~(a.pc \in Admission /\ a.aborted)
    <3>1. \E pc \in {a.pc, "off"} : Suspend(a) = [a EXCEPT !.lease = "suspended", !.pc = pc]
      BY <2>3 DEF Suspend
    <3> QED
      BY <2>1, <3>1
  <2> QED
    BY <2>2, <2>3
<1>7. Steady(a, Apply(a))
  <2>1. CASE ~a.in \/ ~a.handed \/ a.ends # "no"
    BY <1>1, <2>1 DEF Apply
  <2>2. CASE ~(~a.in \/ ~a.handed \/ a.ends # "no")
    <3>1. Steady(a, [a EXCEPT !.idle = @ \/ a.status = "idle"])
      BY <2>2 DEF Steady, ActiveTurn
    <3>2. Steady(a, Settle(a, "interrupted")) /\ Steady(a, Settle(a, "failed"))
      BY <1>4, <2>2
    <3> QED
      BY <2>2, <3>1, <3>2 DEF Apply
  <2> QED
    BY <2>1, <2>2
<1>8. a.ends # "no" => Steady(a, Left(a))
  <2>1. CASE a.pc = "off"
    BY <1>1, <2>1 DEF Left
  <2>2. CASE a.pc # "off"
    <3>1. Left(a) = [Blank EXCEPT !.pc = a.pc, !.aborted = a.aborted, !.knows = a.knows]
      BY <2>2 DEF Left
    <3>2. /\ Left(a).pc = a.pc /\ Left(a).aborted = a.aborted
          /\ ~Left(a).handed /\ ~Left(a).idle /\ Left(a).ends = "no"
      BY <3>1 DEF Blank
    <3> QED
      BY <3>2 DEF Steady
  <2> QED
    BY <2>1, <2>2
<1>9. a.idle => Steady(a, Settle([a EXCEPT !.idle = FALSE], "completed"))
  <2> DEFINE b == [a EXCEPT !.idle = FALSE]
             c == [b EXCEPT !.ends = "completed", !.lease = "released"]
  <2>1. a.idle => Steady(a, c)
    BY DEF Steady, ActiveTurn
  <2>2. Settle(b, "completed") \in {b, c}
    BY DEF Settle
  <2> HIDE DEF c
  <2> QED
    BY <1>2, <2>1, <2>2
<1>10. Steady(a, Grant(a))
  <2>1. PICK pc \in Awaits \ Admission :
          /\ Grant(a) = [a EXCEPT !.lease = "active", !.pc = pc]
          /\ pc \in {a.pc, "off"} \/ (a.pc = "resume" /\ pc = "safety")
    BY GrantForms
  <2> QED
    BY <2>1 DEF Steady, ActiveTurn
<1> QED
  BY <1>1, <1>2, <1>3, <1>5, <1>6, <1>7, <1>8, <1>9, <1>10

LEMMA OneIsSteady ==
  ASSUME act \in [Turns -> ActiveTurn], NEW t \in Turns, NEW b, Steady(act[t], b),
         act' = [act EXCEPT ![t] = b]
  PROVE  \A s \in Turns : Steady(act[s], act'[s])
BY PartsAreSteady

LEMMA HeardIsSteady ==
  ASSUME TypeOK, NEW status \in Statuses, Heard(status)
  PROVE  \A t \in Turns : Steady(act[t], act'[t])
<1>0. act \in [Turns -> ActiveTurn]
  BY DEF TypeOK
<1>1. CASE map \in Turns /\ act[map].in /\ act[map].ends = "no"
  <2>1. PICK t \in Turns : t = map
    BY <1>1
  <2> DEFINE a == [act[t] EXCEPT !.status = status]
  <2>2. act[t] \in ActiveTurn /\ a \in ActiveTurn
    BY <1>0 DEF ActiveTurn, Statuses
  <2>3. act' = [act EXCEPT ![t] = Apply(a)]
    BY <1>1, <2>1, TurnsAssumption DEF Heard, Turns
  <2>4. Steady(act[t], a) /\ Steady(a, Apply(a))
    BY <2>2, PartsAreSteady
  <2>5. Steady(act[t], Apply(a))
    BY <2>4, SteadyIsTransitive
  <2> QED
    BY <1>0, <2>3, <2>5, OneIsSteady
<1>2. CASE ~(map \in Turns /\ act[map].in /\ act[map].ends = "no")
  <2>1. act' = act
    BY <1>2, TurnsAssumption DEF Heard, Turns, TypeOK
  <2> QED
    BY <1>0, <2>1, PartsAreSteady
<1> QED
  BY <1>1, <1>2

LEMMA SteadyIsSafe ==
  ASSUME NEW t \in Turns, SendRules(t), Steady(act[t], act'[t]), begun \subseteq begun',
         "unverified" \in kill'[t] => "unverified" \in kill[t] \/ act[t].pc # "send"
  PROVE  SendRules(t)'
<1>1. "off" \notin ToSend /\ "resume" \in ToSend
  BY DEF ToSend
<1>2. act'[t].pc \in ToSend =>
        act[t].pc \in ToSend /\ act[t].pc # "off" /\ act'[t].pc \in {act[t].pc, "safety"}
  BY <1>1 DEF Steady
<1>3. (act[t].pc \in ToSend => /\ ~act[t].handed /\ ~act[t].idle
                               /\ act[t].aborted \/ (act[t].in /\ act[t].ends = "no"))'
  BY <1>2 DEF SendRules, Steady
<1>4. (act[t].pc = "send" => act[t].in /\ act[t].ends = "no" /\ "unverified" \notin kill[t])'
  <2>1. "send" \in ToSend
    BY DEF ToSend
  <2> QED
    BY <1>2, <2>1 DEF SendRules, Steady
<1>5. /\ (act[t].handed \/ act[t].idle => t \in begun)'
      /\ (act[t].ends = "completed" \/ act[t].pc = "sent" => t \in begun)'
  BY DEF SendRules, Steady
<1> QED
  BY <1>3, <1>4, <1>5 DEF SendRules

\* The turns are steady, and no interruption becomes one of a turn that sends.
LEMMA AllSteadyIsSafe ==
  ASSUME SendInv, \A t \in Turns : Steady(act[t], act'[t]), begun \subseteq begun',
         \A t \in Turns :
           "unverified" \in kill'[t] => "unverified" \in kill[t] \/ act[t].pc # "send"
  PROVE  SendInv'
BY SteadyIsSafe DEF SendInv

LEMMA UnverifiedIsSteady ==
  ASSUME TypeOK, NEW t \in Turns, NEW a \in ActiveTurn, Steady(act[t], a), Unverified(t, a)
  PROVE  /\ \A s \in Turns : Steady(act[s], act'[s])
         /\ \A s \in Turns \ {t} : kill'[s] = kill[s]
         /\ ~a.in \/ a.ends # "no" => kill' = kill
<1>1. PICK b \in {a, [a EXCEPT !.aborted = TRUE]} : act' = [act EXCEPT ![t] = b]
  BY DEF Unverified
<1>2. act \in [Turns -> ActiveTurn] /\ act[t] \in ActiveTurn /\ kill \in [Turns -> SUBSET Kills]
  BY DEF TypeOK, Kills
<1>3. Steady(a, b)
  BY <1>1, PartsAreSteady
<1>4. Steady(act[t], b)
  BY <1>3, SteadyIsTransitive
<1>5. \A s \in Turns : Steady(act[s], act'[s])
  BY <1>1, <1>2, <1>4, OneIsSteady
<1>6. kill' \in {kill, [kill EXCEPT ![t] = @ \cup {"unverified"}]}
  BY DEF Unverified
<1>7. ~a.in \/ a.ends # "no" => kill' = kill
  BY DEF Unverified
<1> QED
  BY <1>2, <1>5, <1>6, <1>7

LEMMA ParentSends ==
  ASSUME OwnersInv, KillsAbort, SendInv,
         \/ Spawn
         \/ \E t \in Turns : FollowUp(t) \/ Interrupt(t) \/ InterruptUnowned(t) \/ InterruptEnds(t)
  PROVE  SendInv'
<1>1. /\ act \in [Turns -> ActiveTurn] /\ kill \in [Turns -> SUBSET Kills] /\ 1 \in Turns
      /\ \A s \in Turns : Steady(act[s], act[s])
  <2>1. act \in [Turns -> ActiveTurn] /\ kill \in [Turns -> SUBSET Kills]
    BY DEF OwnersInv, TypeInv, TypeOK, Kills
  <2> QED
    BY <2>1, RowFacts, PartsAreSteady
<1>2. ASSUME NEW t \in Turns, NEW knows, Begin(t, knows), UNCHANGED <<begun, kill>>
      PROVE  SendInv'
  <2> DEFINE b == [Blank EXCEPT !.in = TRUE, !.pc = "resume", !.knows = knows]
  <2>1. act' = [act EXCEPT ![t] = b]
    BY <1>2 DEF Begin
  <2>2. b.in /\ b.pc = "resume" /\ b.ends = "no" /\ ~b.handed /\ ~b.idle
    BY DEF Blank
  <2> HIDE DEF b
  <2>3. act'[t] = b /\ \A s \in Turns \ {t} : act'[s] = act[s]
    BY <1>1, <2>1
  <2>4. SendRules(t)'
    BY <2>2, <2>3 DEF SendRules
  <2>5. \A s \in Turns \ {t} : SendRules(s)'
    BY <1>2, <2>3 DEF SendInv, SendRules
  <2> QED
    BY <2>4, <2>5 DEF SendInv
<1>3. CASE Spawn
  BY <1>1, <1>2, <1>3 DEF Spawn
<1>4. ASSUME NEW t \in Turns, FollowUp(t) PROVE SendInv'
  BY <1>2, <1>4 DEF FollowUp
<1>5. ASSUME NEW t \in Turns, Interrupt(t) PROVE SendInv'
  <2>1. /\ act' = [act EXCEPT ![t] = [act[t] EXCEPT !.aborted = TRUE]] /\ begun' = begun
        /\ kill' = [kill EXCEPT ![t] = @ \cup {"drain"}]
    BY <1>5 DEF Interrupt, durable
  <2>2. \A s \in Turns : Steady(act[s], act'[s])
    BY <1>1, <2>1, PartsAreSteady, OneIsSteady
  <2>3. \A s \in Turns : "unverified" \in kill'[s] => "unverified" \in kill[s]
    BY <1>1, <2>1
  <2> QED
    BY <2>1, <2>2, <2>3, AllSteadyIsSafe
<1>6. ASSUME NEW t \in Turns, InterruptUnowned(t) PROVE SendInv'
  <2>1. /\ UNCHANGED <<act, begun>>
        /\ kill' \in {kill, [kill EXCEPT ![t] = @ \cup {"unowned"}]}
    BY <1>6 DEF InterruptUnowned
  <2>2. \A s \in Turns : "unverified" \in kill'[s] => "unverified" \in kill[s]
    BY <1>1, <2>1
  <2> QED
    BY <1>1, <2>1, <2>2, AllSteadyIsSafe
<1>7. ASSUME NEW t \in Turns, InterruptEnds(t) PROVE SendInv'
  <2> DEFINE a == act[t]
             b == [a EXCEPT !.ends = "interrupted", !.lease = "released"]
  <2>1. /\ act' = act \/ act' = [act EXCEPT ![t] = Settle(a, "interrupted")]
        /\ \E done \in Kills : kill' = [kill EXCEPT ![t] = @ \ {done}]
        /\ begun' = begun
    BY <1>7 DEF InterruptEnds, Interrupted, Kills, durable
  <2>2. \A s \in Turns : "unverified" \in kill'[s] => "unverified" \in kill[s]
    BY <1>1, <2>1
  <2>3. CASE act' = act
    BY <1>1, <2>1, <2>2, <2>3, AllSteadyIsSafe
  <2>4. CASE act' # act
    <3>1. act' = [act EXCEPT ![t] = b] /\ a.in
      BY <1>1, <2>1, <2>4 DEF Settle
    <3>2. (kill[t] \cap Stoppers # {}) /\ a.pc # "send"
      <4>1. CASE "unowned" \in kill[t] /\ UNCHANGED act
        BY <2>4, <4>1
      <4>2. CASE "unverified" \in kill[t]
        BY <4>2 DEF SendInv, SendRules, Stoppers
      <4>3. CASE "drain" \in kill[t] /\ act[t].pc \notin Acquiring \cup HandingOff
        BY <4>3 DEF Stoppers, HandingOff
      <4> QED
        BY <1>7, <4>1, <4>2, <4>3 DEF InterruptEnds, Interrupted
    <3>3. a.aborted
      BY <3>1, <3>2 DEF KillsAbort
    <3>4. /\ b.pc = a.pc /\ b.aborted = a.aborted /\ b.handed = a.handed /\ b.idle = a.idle
          /\ b.ends = "interrupted"
      BY <1>1 DEF ActiveTurn
    <3> HIDE DEF b
    <3>5. act'[t] = b /\ \A s \in Turns \ {t} : act'[s] = act[s]
      BY <1>1, <3>1
    <3>6. SendRules(t)'
      <4>1. SendRules(t)
        BY DEF SendInv
      <4> QED
        BY <2>1, <3>2, <3>3, <3>4, <3>5, <4>1 DEF SendRules
    <3>7. \A s \in Turns \ {t} : SendRules(s)'
      BY <1>1, <2>1, <2>2, <3>5, SteadyIsSafe DEF SendInv
    <3> QED
      BY <3>6, <3>7 DEF SendInv
  <2> QED
    BY <2>3, <2>4
<1> QED
  BY <1>3, <1>4, <1>5, <1>6, <1>7

LEMMA RunSends ==
  ASSUME OwnersInv, HandOffInv, KillsAbort, SendInv, NEW t \in Turns, Run(t) \/ RunFails(t)
  PROVE  SendInv'
<1> DEFINE a == act[t]
           known == [a EXCEPT !.knows = TRUE]
<1>1. /\ act \in [Turns -> ActiveTurn] /\ a \in ActiveTurn /\ kill' = kill /\ begun \subseteq begun'
      /\ \A s \in Turns : Steady(act[s], act[s])
  <2>1. act \in [Turns -> ActiveTurn]
    BY DEF OwnersInv, TypeInv, TypeOK
  <2>2. kill' = kill /\ begun \subseteq begun'
    BY DEF Run, RunFails, Admitted, Checked, Acquire, HandOff, Accepted, SendReturns, NotAdmitted,
           AcquireFails, HandOffFails, Park, SendFails, durable, Mark
  <2> QED
    BY <2>1, <2>2, PartsAreSteady
<1>2. SendRules(t)
  BY DEF SendInv
\* The record of the turn is replaced.
<1>3. ASSUME NEW b, act' = [act EXCEPT ![t] = b], SendRules(t)'
      PROVE  SendInv'
  <2>1. \A s \in Turns \ {t} : act'[s] = act[s]
    BY <1>1, <1>3
  <2> QED
    BY <1>1, <1>3, <2>1, SteadyIsSafe DEF SendInv
<1>4. ASSUME NEW b, Steady(a, b), act' = [act EXCEPT ![t] = b] PROVE SendInv'
  BY <1>1, <1>4, OneIsSteady, AllSteadyIsSafe
<1>5. ASSUME NEW b, act' = [act EXCEPT ![t] = b],
             b.pc = "off" \/ (a.pc \in ToSend /\ b.pc \in ToSend \ {"send"}),
             b.in = a.in, b.ends = a.ends, b.aborted = a.aborted,
             b.handed = a.handed, b.idle = a.idle
      PROVE  SendInv'
  <2>1. act'[t] = b
    BY <1>1, <1>5
  <2>2. "off" \notin ToSend /\ "sent" \notin ToSend
    BY DEF ToSend
  <2>3. SendRules(t)'
    BY <1>1, <1>2, <1>5, <2>1, <2>2 DEF SendRules
  <2> QED
    BY <1>3, <1>5, <2>3
<1>6. Steady(a, Throw(a)) /\ Steady(a, Throw(known)) /\ Steady(a, Blank)
  <2>1. known \in ActiveTurn /\ Steady(a, known)
    BY <1>1, FieldsKeepTurns, PartsAreSteady
  <2> HIDE DEF known
  <2>2. Steady(known, Throw(known)) /\ Steady(a, Throw(a)) /\ Steady(a, Blank)
    BY <1>1, <2>1, PartsAreSteady
  <2> QED
    BY <2>1, <2>2, SteadyIsTransitive
<1>7. CASE Admitted(t)
  <2>1. act' = [act EXCEPT ![t] = Grant(a)]
    BY <1>7 DEF Admitted
  <2>2. Steady(a, Grant(a))
    BY <1>1, PartsAreSteady
  <2> QED
    BY <1>4, <2>1, <2>2
<1>8. ASSUME NEW pc \in {"find", "create", "bind"}, a.pc \in ToSend,
             act' = [act EXCEPT ![t] = [a EXCEPT !.pc = pc]]
      PROVE  SendInv'
  <2> DEFINE b == [a EXCEPT !.pc = pc]
  <2>1. /\ b.pc = pc /\ b.in = a.in /\ b.ends = a.ends /\ b.aborted = a.aborted
        /\ b.handed = a.handed /\ b.idle = a.idle
    BY <1>1 DEF ActiveTurn
  <2>2. pc \in ToSend \ {"send"}
    BY DEF ToSend
  <2> HIDE DEF b
  <2> QED
    BY <1>5, <1>8, <2>1, <2>2 DEF b
<1>9. CASE Checked(t)
  <2>1. \/ act' = [act EXCEPT ![t] = [a EXCEPT !.pc = "find"]]
        \/ act' = [act EXCEPT ![t] = Throw(a)]
    BY <1>1, <1>9 DEF Checked
  <2>2. a.pc \in ToSend
    BY <1>9 DEF Checked, ToSend
  <2> QED
    BY <1>4, <1>6, <1>8, <2>1, <2>2
<1>10. CASE NotAdmitted(t) \/ AcquireFails(t) \/ HandOffFails(t) \/ SendFails(t) \/ Park(t)
  <2>1. PICK b \in {Throw(a), Blank} : act' = [act EXCEPT ![t] = b]
    BY <1>10 DEF NotAdmitted, AcquireFails, HandOffFails, SendFails, Park
  <2> QED
    BY <1>4, <1>6, <2>1
<1>11. CASE Acquire(t)
  <2> DEFINE b == [a EXCEPT !.knows = TRUE, !.pc = "sync"]
  <2>1. \/ \E pc \in {"create", "bind"} : act' = [act EXCEPT ![t] = [a EXCEPT !.pc = pc]]
        \/ act' = [act EXCEPT ![t] = b]
        \/ act' = [act EXCEPT ![t] = Throw(a)]
        \/ act' = [act EXCEPT ![t] = Throw(known)]
    BY <1>1, <1>11 DEF Acquire, Bind
  <2>2. a.pc \in ToSend
    BY <1>11 DEF Acquire, ToSend
  <2>3. /\ b.pc = "sync" /\ b.in = a.in /\ b.ends = a.ends /\ b.aborted = a.aborted
        /\ b.handed = a.handed /\ b.idle = a.idle
    BY <1>1 DEF ActiveTurn
  <2>4. "sync" \in ToSend \ {"send"}
    BY DEF ToSend
  <2> HIDE DEF b
  <2>5. CASE act' = [act EXCEPT ![t] = b]
    BY <1>5, <2>2, <2>3, <2>4, <2>5
  <2> QED
    BY <1>4, <1>6, <1>8, <2>1, <2>2, <2>5
<1>12. CASE HandOff(t)
  <2> DEFINE b == [a EXCEPT !.pc = "send"]
  <2>1. act' = [act EXCEPT ![t] = b] /\ a.pc = "sync" /\ ~a.aborted /\ t \in begun'
    BY <1>1, <1>12 DEF HandOff, Mark
  <2>2. /\ b.pc = "send" /\ b.in = a.in /\ b.ends = a.ends /\ b.aborted = a.aborted
        /\ b.handed = a.handed /\ b.idle = a.idle
    BY <1>1 DEF ActiveTurn
  <2>3. ~a.handed /\ ~a.idle /\ a.in /\ a.ends = "no"
    BY <1>2, <2>1 DEF SendRules, ToSend
  <2>4. "unverified" \notin kill[t]
    BY <2>1, <2>3 DEF KillsAbort, Stoppers
  <2> HIDE DEF b
  <2>5. act'[t] = b
    BY <1>1, <2>1
  <2>6. SendRules(t)'
    BY <1>1, <2>1, <2>2, <2>3, <2>4, <2>5 DEF SendRules
  <2> QED
    BY <1>3, <2>1, <2>6
<1>13. CASE Accepted(t)
  <2> DEFINE b == [a EXCEPT !.pc = "sent"]
  <2>1. act' = [act EXCEPT ![t] = b] /\ a.pc = "send"
    BY <1>1, <1>13 DEF Accepted
  <2>2. b.pc = "sent"
    BY <1>1 DEF ActiveTurn
  <2>3. t \in begun
    BY <2>1 DEF HandOffInv, IntentComesFirst
  <2> HIDE DEF b
  <2>4. act'[t] = b
    BY <1>1, <2>1
  <2>5. SendRules(t)'
    BY <1>1, <2>2, <2>3, <2>4 DEF SendRules, ToSend
  <2> QED
    BY <1>3, <2>1, <2>5
<1>14. CASE SendReturns(t)
  <2> DEFINE h == [a EXCEPT !.handed = TRUE]
  <2>1. PICK b \in {Settle(Rest(h), "interrupted"), Apply(Rest(h))} : act' = [act EXCEPT ![t] = b]
    BY <1>14 DEF SendReturns
  <2>2. h \in ActiveTurn
    BY <1>1, FieldsKeepTurns
  <2>3. Rest(h) \in ActiveTurn /\ Rest(h).pc = "off"
    BY <2>2, PartsKeepTurns
  <2>4. Settle(Rest(h), "interrupted").pc = "off" /\ Apply(Rest(h)).pc = "off"
    BY <2>3, PartsKeepTurns DEF Outcomes
  <2>5. b.pc = "off" /\ act'[t] = b
    BY <1>1, <2>1, <2>4
  <2>6. t \in begun
    BY <1>2, <1>14 DEF SendReturns, SendRules
  <2>7. SendRules(t)'
    BY <1>1, <2>5, <2>6 DEF SendRules, ToSend
  <2> QED
    BY <1>3, <2>1, <2>7
<1> QED
  BY <1>7, <1>9, <1>10, <1>11, <1>12, <1>13, <1>14 DEF Run, RunFails

\* Every hand-off that the child withholds is of a turn before t.
HeldBefore(t) == \A n \in DOMAIN held : held[n] < t

\* What the child has of hand-offs: one at most is in its lane or being answered, that of the
\* active turn if there is one; those it withholds are of earlier turns, in their order.
QueueRules ==
  /\ child \in Answering => job \in Turns /\ sent[job] > 0 /\ lane = <<>>
  /\ lane # <<>> => \E t \in Turns : lane = <<t>> /\ sent[t] > 0
  /\ \A n \in DOMAIN held : /\ sent[held[n]] > 0
                            /\ \A m \in DOMAIN held : m < n => held[m] < held[n]
  /\ \A t \in Turns : lane = <<t>> \/ (child = "preparing" /\ job = t) => HeldBefore(t)
  /\ \A t \in Turns : Active(t) => /\ child \in Answering => job = t
                                   /\ lane # <<>> => lane = <<t>>
  /\ boundary.pc # "off" => sent[boundary.turn] > 0

LEMMA EndSends ==
  ASSUME OwnersInv, SendInv, NEW t \in Turns, IdleChecked(t) \/ Settled(t)
  PROVE  SendInv'
<1>1. /\ act \in [Turns -> ActiveTurn] /\ act[t] \in ActiveTurn /\ TypeOK /\ SendRules(t)
  BY DEF OwnersInv, TypeInv, TypeOK, SendInv
<1>2. CASE IdleChecked(t)
  <2> DEFINE a == [act[t] EXCEPT !.idle = FALSE]
  <2>1. /\ act[t].idle /\ begun' = begun
        /\ \/ act' = [act EXCEPT ![t] = Settle(a, "completed")] /\ UNCHANGED kill
           \/ Unverified(t, a)
    BY <1>2 DEF IdleChecked, durable
  <2>2. act[t].pc # "send"
    BY <1>1, <2>1 DEF SendRules, ToSend
  <2>3. /\ Steady(act[t], a) /\ a \in ActiveTurn
        /\ Steady(act[t], Settle(a, "completed"))
    BY <1>1, <2>1, PartsAreSteady, FieldsKeepTurns
  <2> HIDE DEF a
  <2>4. CASE act' = [act EXCEPT ![t] = Settle(a, "completed")] /\ UNCHANGED kill
    <3>1. \A s \in Turns : Steady(act[s], act'[s])
      BY <1>1, <2>3, <2>4, OneIsSteady
    <3> QED
      BY <2>1, <2>4, <3>1, AllSteadyIsSafe
  <2>5. CASE Unverified(t, a)
    <3>1. /\ \A s \in Turns : Steady(act[s], act'[s])
          /\ \A s \in Turns \ {t} : kill'[s] = kill[s]
      BY <1>1, <2>3, <2>5, UnverifiedIsSteady
    <3> QED
      BY <2>1, <2>2, <3>1, AllSteadyIsSafe
  <2> QED
    BY <2>1, <2>4, <2>5
<1>3. CASE Settled(t)
  <2>1. /\ act' = [act EXCEPT ![t] = Left(act[t])] /\ UNCHANGED <<kill, begun>>
        /\ act[t].ends # "no"
    BY <1>3 DEF Settled
  <2>2. \A s \in Turns : Steady(act[s], act'[s])
    BY <1>1, <2>1, PartsAreSteady, OneIsSteady
  <2> QED
    BY <2>1, <2>2, AllSteadyIsSafe
<1> QED
  BY <1>2, <1>3

LEMMA ChildSends ==
  ASSUME OwnersInv, HandOffInv, SendInv, QueueRules,
         \/ Child \/ Bounds \/ UserResumes \/ UserStops \/ EnterBoundary \/ RespondUnmapped
         \/ ToolRefused
  PROVE  SendInv'
<1>1. /\ act \in [Turns -> ActiveTurn] /\ TypeOK /\ map \in 0..MaxTurns
      /\ boundary.pc # "off" => boundary.turn \in Turns
      /\ \A s \in Turns : Steady(act[s], act[s])
  <2>1. TypeOK /\ CallsHaveTurns
    BY DEF OwnersInv, TypeInv
  <2> QED
    BY <2>1, PartsAreSteady DEF TypeOK, CallsHaveTurns
<1>2. map # 0 => map \in Turns
  BY <1>1, TurnsAssumption DEF Turns
<1>3. ASSUME \A s \in Turns : Steady(act[s], act'[s]), begun \subseteq begun', kill' = kill
      PROVE  SendInv'
  BY <1>3, AllSteadyIsSafe
<1>4. CASE ChildStarts \/ ChildPrepares \/ ChildEnds
  <2>1. UNCHANGED <<begun, kill>>
    BY <1>4 DEF ChildStarts, ChildPrepares, ChildEnds, durable
  <2>2. UNCHANGED act \/ \E status \in Statuses : Heard(status)
    BY <1>4 DEF ChildStarts, ChildPrepares, ChildEnds, Statuses
  <2>3. \A s \in Turns : Steady(act[s], act'[s])
    BY <1>1, <2>2, HeardIsSteady
  <2> QED
    BY <1>3, <2>1, <2>3
<1>5. CASE ChildAsks
  <2>1. kill' = kill /\ begun \subseteq begun'
    BY <1>5 DEF ChildAsks, Mark
  <2>2. \A s \in Turns : Steady(act[s], act'[s])
    <3>1. CASE map # 0 /\ act[map].in /\ act[map].ends = "no"
      <4>1. PICK t \in Turns : t = map
        BY <1>2, <3>1
      <4>2. act' = [act EXCEPT ![t] = Suspend(act[t])]
        BY <1>5, <3>1, <4>1 DEF ChildAsks
      <4> QED
        BY <1>1, <4>2, PartsAreSteady, OneIsSteady
    <3>2. CASE ~(map # 0 /\ act[map].in /\ act[map].ends = "no")
      BY <1>1, <1>5, <3>2 DEF ChildAsks
    <3> QED
      BY <3>1, <3>2
  <2> QED
    BY <1>3, <2>1, <2>2
<1>6. CASE ChildProgresses
  <2>1. UNCHANGED <<act, kill>> /\ begun \subseteq begun'
    BY <1>6 DEF ChildProgresses, Mark, service
  <2> QED
    BY <1>1, <1>3, <2>1
<1>7. CASE UserResumes \/ UserStops \/ EnterBoundary \/ RespondUnmapped
  <2>1. UNCHANGED <<begun, act, kill>>
    BY <1>7 DEF UserResumes, UserStops, EnterBoundary, RespondUnmapped, durable, service
  <2> QED
    BY <1>1, <1>3, <2>1
<1>8. CASE PassBoundary
  <2>1. PICK t \in Turns : t = boundary.turn
    BY <1>1, <1>8 DEF PassBoundary, Goes
  <2>2. /\ \/ act' = act \/ act' = [act EXCEPT ![t] = Grant(act[t])]
           \/ act' = [act EXCEPT ![t] = [act[t] EXCEPT !.lease = "suspended"]]
        /\ UNCHANGED <<begun, kill>>
    BY <1>8, <2>1 DEF PassBoundary, durable
  <2>3. \A s \in Turns : Steady(act[s], act'[s])
    BY <1>1, <2>2, PartsAreSteady, OneIsSteady
  <2> QED
    BY <1>3, <2>2, <2>3
\* A turn that was handed over does not send.
<1>9. ASSUME NEW t \in Turns, Unverified(t, act[t]), begun' = begun,
             act[t].in /\ act[t].ends = "no" => sent[t] > 0
      PROVE  SendInv'
  <2>1. /\ \A s \in Turns : Steady(act[s], act'[s])
        /\ \A s \in Turns \ {t} : kill'[s] = kill[s]
        /\ ~act[t].in \/ act[t].ends # "no" => kill' = kill
    BY <1>1, <1>9, UnverifiedIsSteady
  <2>2. sent[t] > 0 => act[t].pc # "send"
    BY DEF HandOffInv, IntentComesFirst, ToSend
  <2>3. \A s \in Turns : "unverified" \in kill'[s] => "unverified" \in kill[s] \/ act[s].pc # "send"
    BY <1>9, <2>1, <2>2
  <2> QED
    BY <1>9, <2>1, <2>3, AllSteadyIsSafe
<1>10. CASE FailBoundary
  <2>1. PICK t \in Turns : t = boundary.turn
    BY <1>1, <1>10 DEF FailBoundary
  <2>2. begun' = begun /\ sent[t] > 0 /\ (Unverified(t, act[t]) \/ UNCHANGED <<act, kill>>)
    BY <1>10, <2>1 DEF FailBoundary, durable, QueueRules
  <2> QED
    BY <1>1, <1>3, <1>9, <2>2
<1>11. CASE ToolRefused
  <2>1. PICK t \in Turns : t = map
    BY <1>2, <1>11 DEF ToolRefused
  <2>2. /\ Unverified(t, act[t]) /\ begun' = begun /\ child = "generating" /\ act[t].in
    BY <1>11, <2>1 DEF ToolRefused, durable
  <2>3. Active(t) /\ child \in Answering
    BY <2>2 DEF OwnersInv, TurnsAreOwned, OneLiveTurn, Answering, Works
  <2>4. sent[t] > 0
    BY <2>3 DEF QueueRules
  <2> QED
    BY <1>9, <2>2, <2>4
<1> QED
  BY <1>4, <1>5, <1>6, <1>7, <1>8, <1>10, <1>11 DEF Child, Bounds

LEMMA RestartSends ==
  ASSUME OwnersInv, SendInv, Look \/ LookFails \/ Reconcile \/ Quarantine \/ Crash \/ Start
  PROVE  SendInv'
<1>1. /\ act \in [Turns -> ActiveTurn] /\ kill \in [Turns -> SUBSET Kills]
      /\ recon.pc # "off" => recon.turn \in Turns
      /\ \A s \in Turns : Steady(act[s], act[s])
  <2>1. TypeOK /\ CallsHaveTurns
    BY DEF OwnersInv, TypeInv
  <2> QED
    BY <2>1, PartsAreSteady DEF TypeOK, CallsHaveTurns, Kills
<1>2. CASE Look \/ LookFails \/ ReconcileOver \/ ReconcileLost \/ Quarantine \/ Start
  <2>1. UNCHANGED <<act, kill, begun>>
    BY <1>2 DEF Look, LookFails, ReconcileOver, ReconcileLost, Quarantine, Start, durable
  <2> QED
    BY <1>1, <2>1, AllSteadyIsSafe
<1>3. CASE Crash
  <2>1. /\ act' = [s \in Turns |-> Blank] /\ kill' = [s \in Turns |-> {}] /\ begun' = begun
    BY <1>3 DEF Crash, durable
  <2>2. \A s \in Turns : Steady(act[s], act'[s]) /\ "unverified" \notin kill'[s]
    BY <1>1, <2>1, PartsAreSteady
  <2> QED
    BY <2>1, <2>2, AllSteadyIsSafe
<1>4. CASE Adopt
  <2>1. PICK t \in Turns : t = recon.turn
    BY <1>1, <1>4 DEF Adopt
  <2> DEFINE runs == recon.saw = "generating"
             new == [Blank EXCEPT !.in = TRUE, !.knows = TRUE, !.status = recon.saw,
                                  !.handed = runs \/ t \in begun]
             adopted == IF runs
                        THEN [new EXCEPT !.pc = IF row[t] = "waiting" THEN "off" ELSE "readmit"]
                        ELSE IF t \notin begun
                             THEN [new EXCEPT !.pc = "resume", !.status = "none"]
                        ELSE Settle(new, IF recon.saw = "error" THEN "failed" ELSE "completed")
  <2>2. /\ act' = [act EXCEPT ![t] = adopted] /\ kill' = kill /\ begun \subseteq begun'
        /\ runs => t \in begun'
    BY <1>4, <2>1 DEF Adopt, Mark
  <2>3. CASE runs
    <3>1. adopted.pc \in {"off", "readmit"}
      BY <2>3 DEF Blank
    <3> HIDE DEF adopted
    <3>2. act'[t] = adopted /\ t \in begun' /\ \A s \in Turns \ {t} : act'[s] = act[s]
      BY <1>1, <2>2, <2>3
    <3>3. SendRules(t)'
      BY <3>1, <3>2 DEF SendRules, ToSend
    <3> QED
      BY <1>1, <2>2, <3>2, <3>3, SteadyIsSafe DEF SendInv
  <2>4. CASE ~runs /\ t \notin begun
    <3>1. /\ adopted.pc = "resume" /\ adopted.in /\ adopted.ends = "no"
          /\ ~adopted.handed /\ ~adopted.idle
      BY <2>4 DEF Blank
    <3> HIDE DEF adopted
    <3>2. act'[t] = adopted /\ \A s \in Turns \ {t} : act'[s] = act[s]
      BY <1>1, <2>2
    <3>3. SendRules(t)'
      BY <3>1, <3>2 DEF SendRules
    <3> QED
      BY <1>1, <2>2, <3>2, <3>3, SteadyIsSafe DEF SendInv
  <2>5. CASE ~runs /\ t \in begun
    <3>1. adopted.pc = "off"
      BY <2>5 DEF Blank, Settle
    <3> HIDE DEF adopted
    <3>2. act'[t] = adopted /\ t \in begun' /\ \A s \in Turns \ {t} : act'[s] = act[s]
      BY <1>1, <2>2, <2>5
    <3>3. SendRules(t)'
      BY <3>1, <3>2 DEF SendRules, ToSend
    <3> QED
      BY <1>1, <2>2, <3>2, <3>3, SteadyIsSafe DEF SendInv
  <2> QED
    BY <2>3, <2>4, <2>5
<1> QED
  BY <1>2, <1>3, <1>4 DEF Reconcile

LEMMA SendInductive ==
  ASSUME OwnersInv, HandOffInv, KillsAbort, SendInv, QueueRules, [Next]_vars
  PROVE  SendInv'
<1>1. CASE UNCHANGED vars
  <2>1. UNCHANGED <<act, kill, begun>>
    BY <1>1 DEF vars, durable, service
  <2> QED
    BY <2>1 DEF SendInv, SendRules
<1>2. CASE Next
  BY <1>2, ParentSends, RunSends, EndSends, ChildSends, RestartSends DEF Next
<1> QED
  BY <1>1, <1>2

(***************************************************************************)
(* What the child has of hand-offs, and whose answer it gave last.         *)
(***************************************************************************)

\* The answer that the child has last, if the active turn has begun, is its own.
AnswerRule == \A t \in Turns : Active(t) /\ t \in begun => answered \in {0, t}

AnswerInv == AnswerRule /\ CompletedByItsAnswer

\* The child takes on nothing.
QueueRests ==
  /\ UNCHANGED <<job, held>> /\ lane' \in {lane, <<>>}
  /\ child' \in Answering => child \in Answering
  /\ child' = "preparing" => child = "preparing"
  /\ \A t \in Turns : sent'[t] = sent[t] /\ (Active(t)' => Active(t))
  /\ boundary'.pc # "off" => boundary.pc # "off" /\ boundary'.turn = boundary.turn

\* No turn completes, and the answer of the child stays or is forgotten.
AnswerRests ==
  \A t \in Turns :
    /\ Active(t)' => Active(t)
    /\ Active(t)' /\ t \in begun' => answered' \in {0, t} \/ (answered' = answered /\ t \in begun)
    /\ row'[t] = "completed" => row[t] = "completed" /\ author'[t] = author[t]

LEMMA QueueRestsIsSafe ==
  ASSUME TypeInv, QueueRules, QueueRests
  PROVE  QueueRules'
<1>1. /\ boundary.pc # "off" => boundary.turn \in Turns
      /\ held \in Seq(Turns)
      /\ child' \in Answering => child \in Answering
      /\ child' = "preparing" => child = "preparing"
      /\ \A t \in Turns : sent'[t] = sent[t] /\ (Active(t)' => Active(t))
      /\ job' = job /\ held' = held /\ lane' \in {lane, <<>>}
  BY DEF TypeInv, TypeOK, CallsHaveTurns, QueueRests
<1>2. \A n \in DOMAIN held : held[n] \in Turns
  BY <1>1
<1>3. (child \in Answering => job \in Turns /\ sent[job] > 0 /\ lane = <<>>)'
  BY <1>1 DEF QueueRules
<1>4. (lane # <<>> => \E t \in Turns : lane = <<t>> /\ sent[t] > 0)'
  BY <1>1 DEF QueueRules
<1>5. (\A n \in DOMAIN held : /\ sent[held[n]] > 0
                              /\ \A m \in DOMAIN held : m < n => held[m] < held[n])'
  BY <1>1, <1>2 DEF QueueRules
<1>6. (\A t \in Turns : lane = <<t>> \/ (child = "preparing" /\ job = t) => HeldBefore(t))'
  BY <1>1 DEF QueueRules, HeldBefore
<1>7. (\A t \in Turns : Active(t) => /\ child \in Answering => job = t
                                     /\ lane # <<>> => lane = <<t>>)'
  BY <1>1 DEF QueueRules
<1>8. (boundary.pc # "off" => sent[boundary.turn] > 0)'
  BY <1>1 DEF QueueRules, QueueRests
<1> QED
  BY <1>3, <1>4, <1>5, <1>6, <1>7, <1>8 DEF QueueRules

LEMMA AnswerRestsIsSafe ==
  ASSUME AnswerInv, AnswerRests
  PROVE  AnswerInv'
BY DEF AnswerInv, AnswerRule, CompletedByItsAnswer, AnswerRests

\* Pieces of steps.
LEMMA CancelRests ==
  ASSUME CancelChild \/ UNCHANGED <<child, lane>>
  PROVE  /\ lane' \in {lane, <<>>}
         /\ child' \in Answering => child \in Answering
         /\ child' = "preparing" => child = "preparing"
BY DEF CancelChild, Answering, Works, AtBoundary, Busy

\* Rows that go on or end in another way than by completing.
LEMMA MarkRests ==
  ASSUME OwnersInv, AnswerInv, NEW t \in Turns, NEW status \in {"running", "waiting"}, Active(t),
         Mark(t, status), UNCHANGED author
  PROVE  AnswerRests /\ \A s \in Turns : Active(s)' => Active(s)
<1>1. row \in [Turns -> {"none"} \cup ActiveStatuses \cup Outcomes] /\ begun \subseteq Turns
  BY RowFacts DEF OwnersInv, TypeInv, TypeOK
<1>2. /\ row'[t] = status /\ \A s \in Turns \ {t} : row'[s] = row[s]
      /\ begun' = begun \cup {t} /\ answered' = IF t \in begun THEN answered ELSE 0
  BY <1>1 DEF Mark
<1>3. \A s \in Turns : Active(s)' => Active(s)
  BY <1>2 DEF Active
<1>4. ASSUME NEW s \in Turns, Active(s)', s \in begun'
      PROVE  answered' \in {0, s} \/ (answered' = answered /\ s \in begun)
  BY <1>2, <1>4
<1>5. \A s \in Turns : row'[s] = "completed" => row[s] = "completed" /\ author'[s] = author[s]
  BY <1>2
<1> QED
  BY <1>3, <1>4, <1>5 DEF AnswerRests

LEMMA FinishRests ==
  ASSUME OwnersInv, NEW t \in Turns, NEW outcome \in {"interrupted", "failed"},
         Finish(t, outcome), UNCHANGED <<answered, begun>>
  PROVE  AnswerRests /\ \A s \in Turns : Active(s)' => Active(s)
<1>1. row \in [Turns -> {"none"} \cup ActiveStatuses \cup Outcomes]
  BY RowFacts
<1>2. row' \in {row, [row EXCEPT ![t] = outcome]} /\ author' = author
  BY DEF Finish
<1>3. \A s \in Turns : row'[s] = row[s] \/ row'[s] = outcome
  BY <1>1, <1>2
<1>4. \A s \in Turns : Active(s)' => Active(s)
  BY <1>3 DEF Active, ActiveStatuses
<1> QED
  BY <1>2, <1>3, <1>4 DEF AnswerRests

LEMMA RowsRest ==
  ASSUME UNCHANGED <<row, begun, answered, author>>
  PROVE  AnswerRests /\ \A s \in Turns : Active(s)' => Active(s)
BY DEF AnswerRests, Active

\* A turn that begins finds the child without a hand-off.
LEMMA BeginIsAnswered ==
  ASSUME OwnersInv, HandOffInv, AnswerInv, QueueRules, NEW t \in Turns, NEW knows, row[t] = "none",
         Begin(t, knows), child \notin Answering, lane = <<>>,
         UNCHANGED <<begun, session, boundary, sent, author>>
  PROVE  QueueRules' /\ AnswerInv'
<1>1. row \in [Turns -> {"none"} \cup ActiveStatuses \cup Outcomes] /\ t \notin begun
  BY RowFacts DEF HandOffInv, IntentComesFirst
<1>2. row'[t] = "queued" /\ \A s \in Turns \ {t} : row'[s] = row[s]
  BY <1>1 DEF Begin
<1>3. UNCHANGED <<child, job, lane, held, answered>>
  BY DEF session
<1>4. QueueRules'
  BY <1>3 DEF QueueRules, HeldBefore
<1>5. ASSUME NEW s \in Turns
      PROVE  /\ Active(s)' /\ s \in begun' => answered' \in {0, s}
             /\ row'[s] = "completed" => author'[s] = s
  BY <1>1, <1>2, <1>3, <1>5 DEF AnswerInv, AnswerRule, CompletedByItsAnswer, Active
<1> QED
  BY <1>4, <1>5 DEF AnswerInv, AnswerRule, CompletedByItsAnswer

LEMMA ParentAnswers ==
  ASSUME OwnersInv, HandOffInv, AnswerInv, QueueRules, Overtakes = FALSE,
         \/ Spawn
         \/ \E t \in Turns : FollowUp(t) \/ Interrupt(t) \/ InterruptUnowned(t) \/ InterruptEnds(t)
  PROVE  QueueRules' /\ AnswerInv'
<1>0. TypeInv /\ 1 \in Turns
  BY RowFacts DEF OwnersInv
\* Whoever handed something over has a row.
<1>1. \A s \in Turns : sent[s] > 0 => row[s] # "none"
  BY DEF HandOffInv, IntentComesFirst
<1>2. CASE Spawn
  <2>1. row[1] = "none" /\ \A s \in Turns : row[s] = "none"
    BY <1>2 DEF Spawn, OwnersInv, TurnsAreOwned, FirstTurnFirst
  <2>2. child \notin Answering /\ lane = <<>>
    BY <1>1, <2>1 DEF QueueRules
  <2>3. Begin(1, FALSE) /\ UNCHANGED <<begun, session, boundary, sent, author>>
    BY <1>2 DEF Spawn, history
  <2> QED
    BY <1>0, <2>1, <2>2, <2>3, BeginIsAnswered
<1>3. ASSUME NEW t \in Turns, FollowUp(t) PROVE QueueRules' /\ AnswerInv'
  <2>1. /\ Begin(t, bound) /\ UNCHANGED <<begun, session, boundary, sent, author>>
        /\ row[t] = "none" /\ lane = <<>> /\ ChildStatus # "generating"
    BY <1>3 DEF FollowUp, history
  <2>2. child \notin Answering
    BY <2>1 DEF ChildStatus, Busy, Answering
  <2> QED
    BY <2>1, <2>2, BeginIsAnswered
<1>4. ASSUME NEW t \in Turns, Interrupt(t) \/ InterruptUnowned(t) \/ InterruptEnds(t)
      PROVE  QueueRests /\ AnswerRests
  <2>1. CancelChild \/ UNCHANGED <<child, lane>>
    BY <1>4 DEF Interrupt, InterruptUnowned, InterruptEnds, session
  <2>2. UNCHANGED <<job, held, sent, boundary>>
    BY <1>4 DEF Interrupt, InterruptUnowned, InterruptEnds, session, history
  <2>3. \/ UNCHANGED <<row, begun, answered, author>>
        \/ Finish(t, "interrupted") /\ UNCHANGED <<answered, begun>>
    BY <1>4 DEF Interrupt, InterruptUnowned, InterruptEnds, session, history, durable
  <2>4. AnswerRests /\ \A s \in Turns : Active(s)' => Active(s)
    BY <2>3, RowsRest, FinishRests
  <2> QED
    BY <2>1, <2>2, <2>4, CancelRests DEF QueueRests
<1> QED
  BY <1>0, <1>2, <1>3, <1>4, QueueRestsIsSafe, AnswerRestsIsSafe

\* The child accepts the hand-off of the active turn, which is its first.
LEMMA AcceptedIsAnswered ==
  ASSUME OwnersInv, HandOffInv, EarlierHaveEnded, SendInv, AnswerInv, QueueRules,
         NEW t \in Turns, Accepted(t)
  PROVE  QueueRules' /\ AnswerInv'
<1>1. /\ sent \in [Turns -> Nat] /\ held \in Seq(Turns) /\ lane \in Seq(Turns)
      /\ boundary.pc # "off" => boundary.turn \in Turns
      /\ Turns \subseteq Nat
  <2>1. TypeOK /\ CallsHaveTurns
    BY DEF OwnersInv, TypeInv
  <2>2. Turns \subseteq Nat
    BY TurnsAssumption DEF Turns
  <2> QED
    BY <2>1, <2>2 DEF TypeOK, CallsHaveTurns
<1>2. act[t].pc = "send" /\ Active(t) /\ sent[t] = 0
  <2>1. act[t].pc = "send" /\ act[t].in
    BY DEF Accepted, SendInv, SendRules
  <2> QED
    BY <2>1 DEF OwnersInv, TurnsAreOwned, OneLiveTurn, HandOffInv, IntentComesFirst, ToSend
<1>3. child \notin Answering /\ lane = <<>>
  BY <1>1, <1>2 DEF QueueRules
<1>4. lane' = <<t>> /\ sent'[t] = 1 /\ \A s \in Turns \ {t} : sent'[s] = sent[s]
  BY <1>1, <1>2, <1>3 DEF Accepted
<1>5. UNCHANGED <<row, begun, answered, author, child, job, held, boundary>>
  BY DEF Accepted, durable
<1>6. \A n \in DOMAIN held : held[n] \in Turns
  BY <1>1
<1>7. ASSUME NEW n \in DOMAIN held PROVE held[n] < t /\ sent'[held[n]] > 0
  <2> DEFINE s == held[n]
  <2>1. s \in Turns /\ sent[s] > 0
    BY <1>6 DEF QueueRules
  <2> HIDE DEF s
  <2>2. s # t /\ row[s] # "none" /\ sent'[s] = sent[s]
    BY <1>2, <1>4, <2>1 DEF HandOffInv, IntentComesFirst
  <2>3. s \in Nat /\ t \in Nat
    BY <1>1, <2>1
  <2>4. ~(t < s)
    <3>1. row[t] \notin Outcomes
      BY <1>2, RowFacts DEF Active
    <3> QED
      BY <2>1, <2>2, <3>1 DEF EarlierHaveEnded
  <2>5. s < t /\ sent'[s] > 0
    BY <2>1, <2>2, <2>3, <2>4
  <2> QED
    BY <2>5 DEF s
<1>8. /\ (child \in Answering => job \in Turns /\ sent[job] > 0 /\ lane = <<>>)'
      /\ (lane # <<>> => \E s \in Turns : lane = <<s>> /\ sent[s] > 0)'
  BY <1>3, <1>4, <1>5
<1>9. (\A n \in DOMAIN held : /\ sent[held[n]] > 0
                              /\ \A m \in DOMAIN held : m < n => held[m] < held[n])'
  BY <1>5, <1>7 DEF QueueRules
<1>10. (\A s \in Turns : lane = <<s>> \/ (child = "preparing" /\ job = s) => HeldBefore(s))'
  <2>1. child # "preparing"
    BY <1>3 DEF Answering
  <2> QED
    BY <1>4, <1>5, <1>7, <2>1 DEF HeldBefore
<1>11. (\A s \in Turns : Active(s) => /\ child \in Answering => job = s
                                      /\ lane # <<>> => lane = <<s>>)'
  <2>1. \A s \in Turns : Active(s)' => s = t
    BY <1>2, <1>5 DEF OwnersInv, TurnsAreOwned, OneLiveTurn, Active
  <2> QED
    BY <1>3, <1>4, <1>5, <2>1
<1>12. (boundary.pc # "off" => sent[boundary.turn] > 0)'
  <2>1. ASSUME boundary.pc # "off" PROVE sent'[boundary.turn] > 0
    <3>1. PICK s \in Turns : s = boundary.turn
      BY <1>1, <2>1
    <3>2. sent[s] > 0
      BY <2>1, <3>1 DEF QueueRules
    <3>3. sent'[s] > 0
      BY <1>4, <3>2
    <3> QED
      BY <3>1, <3>3
  <2> QED
    BY <1>5, <2>1
<1>13. AnswerInv'
  BY <1>5, RowsRest, AnswerRestsIsSafe
<1> QED
  BY <1>8, <1>9, <1>10, <1>11, <1>12, <1>13 DEF QueueRules

LEMMA RunAnswers ==
  ASSUME OwnersInv, HandOffInv, EarlierHaveEnded, SendInv, AnswerInv, QueueRules,
         NEW t \in Turns, Run(t) \/ RunFails(t)
  PROVE  QueueRules' /\ AnswerInv'
<1>1. CASE Accepted(t)
  BY <1>1, AcceptedIsAnswered
<1>2. CASE ~Accepted(t)
  <2>1. \/ CancelChild \/ UNCHANGED <<child, lane>>
        \/ child' = "idle" /\ UNCHANGED lane
    BY <1>2
    DEF Run, RunFails, Admitted, Checked, Acquire, HandOff, SendReturns, NotAdmitted,
        AcquireFails, HandOffFails, Park, SendFails, session, Bind
  <2>2. UNCHANGED <<job, held, sent, boundary, author>>
    BY <1>2
    DEF Run, RunFails, Admitted, Checked, Acquire, HandOff, SendReturns, NotAdmitted,
        AcquireFails, HandOffFails, Park, SendFails, session, history
  <2>3. \/ UNCHANGED <<row, begun, answered>>
        \/ Active(t) /\ Mark(t, "running")
    BY <1>2
    DEF Run, RunFails, Admitted, Checked, Acquire, HandOff, SendReturns, NotAdmitted,
        AcquireFails, HandOffFails, Park, SendFails, session, durable
  <2>4. AnswerRests /\ \A s \in Turns : Active(s)' => Active(s)
    BY <2>2, <2>3, RowsRest, MarkRests
  <2>5. /\ lane' \in {lane, <<>>}
        /\ child' \in Answering => child \in Answering
        /\ child' = "preparing" => child = "preparing"
    BY <2>1, CancelRests DEF Answering, Works, AtBoundary
  <2>6. QueueRests
    BY <2>2, <2>4, <2>5 DEF QueueRests
  <2> QED
    BY <2>4, <2>6, QueueRestsIsSafe, AnswerRestsIsSafe DEF OwnersInv
<1> QED
  BY <1>1, <1>2

LEMMA EndAnswers ==
  ASSUME OwnersInv, SendInv, AnswerInv, QueueRules, NEW t \in Turns, IdleChecked(t) \/ Settled(t)
  PROVE  QueueRules' /\ AnswerInv'
<1>1. /\ row \in [Turns -> {"none"} \cup ActiveStatuses \cup Outcomes]
      /\ author \in [Turns -> 0..MaxTurns]
  BY RowFacts DEF OwnersInv, TypeInv, TypeOK
<1>2. CASE IdleChecked(t)
  <2>1. CancelChild \/ UNCHANGED <<child, lane>>
    BY <1>2 DEF IdleChecked, Unverified
  <2>2. UNCHANGED <<job, held, sent, boundary, author, row, begun, answered>>
    BY <1>2 DEF IdleChecked, durable, history
  <2>3. AnswerRests /\ QueueRests
    BY <2>1, <2>2, RowsRest, CancelRests DEF QueueRests
  <2> QED
    BY <2>3, QueueRestsIsSafe, AnswerRestsIsSafe DEF OwnersInv
<1>3. CASE Settled(t)
  <2>1. /\ act[t].in /\ act[t].ends # "no"
        /\ UNCHANGED <<begun, child, job, lane, held, answered, boundary, sent>>
    BY <1>3 DEF Settled, session
  <2>2. Active(t) /\ act[t] \in ActiveTurn
    BY <2>1, RowFacts DEF OwnersInv, TurnsAreOwned, OneLiveTurn
  <2>3. Outcome(act[t]) \in Outcomes
    <3>1. Outcome(act[t]) \in Outcomes \cup {"no"}
      BY <2>2, PartsKeepTurns
    <3>2. Outcome(act[t]) # "no"
      BY <2>1 DEF Outcome
    <3> QED
      BY <3>1, <3>2
  \* Its own answer is the only one there is.
  <2>4. Outcome(act[t]) = "completed" => answered = t
    <3>1. ASSUME Outcome(act[t]) = "completed" PROVE answered = t
      <4>1. act[t].ends = "completed" /\ answered # 0
        BY <3>1 DEF Outcome
      <4>2. t \in begun
        BY <4>1 DEF SendInv, SendRules
      <4> QED
        BY <2>2, <4>1, <4>2 DEF AnswerInv, AnswerRule
    <3> QED
      BY <3>1
  <2>5. \/ UNCHANGED <<row, author>>
        \/ Finish(t, "failed")
        \/ Finish(t, Outcome(act[t]))
    BY <1>3 DEF Settled
  <2>6. CASE UNCHANGED <<row, author>> \/ Finish(t, "failed")
    <3>1. AnswerRests /\ QueueRests
      BY <2>1, <2>6, RowsRest, FinishRests DEF QueueRests
    <3> QED
      BY <3>1, QueueRestsIsSafe, AnswerRestsIsSafe DEF OwnersInv
  <2>7. CASE Finish(t, Outcome(act[t]))
    <3> DEFINE outcome == Outcome(act[t])
    <3>1. outcome \in Outcomes /\ (outcome = "completed" => answered = t)
      BY <2>3, <2>4
    <3>2. /\ row' = [row EXCEPT ![t] = outcome]
          /\ author' = IF outcome = "completed" THEN [author EXCEPT ![t] = answered] ELSE author
      BY <2>2, <2>7 DEF Finish
    <3> HIDE DEF outcome
    <3>3. /\ row'[t] = outcome /\ (outcome = "completed" => author'[t] = t)
          /\ \A s \in Turns \ {t} : row'[s] = row[s] /\ author'[s] = author[s]
      BY <1>1, <3>1, <3>2
    <3>4. outcome \notin ActiveStatuses
      BY <3>1, RowFacts
    <3>5. \A s \in Turns : Active(s)' => Active(s)
      BY <3>3, <3>4 DEF Active
    <3>6. QueueRests
      BY <2>1, <3>5 DEF QueueRests
    <3>7. AnswerInv'
      BY <2>1, <3>3, <3>5 DEF AnswerInv, AnswerRule, CompletedByItsAnswer
    <3> QED
      BY <3>6, <3>7, QueueRestsIsSafe DEF OwnersInv
  <2> QED
    BY <2>5, <2>6, <2>7
<1> QED
  BY <1>2, <1>3

\* What the child withholds is resumed for a turn that is active, which is the last.
LEMMA ResumedAlone ==
  ASSUME OwnersInv, HandOffInv, EarlierHaveEnded, QueueRules, held # <<>>, Active(Head(held))
  PROVE  \E t \in Turns : held = <<t>> /\ Active(t) /\ sent[t] > 0
<1>1. held \in Seq(Turns)
  BY DEF OwnersInv, TypeInv, TypeOK
<1>2. 1 \in DOMAIN held /\ Head(held) = held[1] /\ \A n \in DOMAIN held : held[n] \in Turns
  BY <1>1
<1>3. PICK t \in Turns : t = held[1]
  BY <1>2
<1>4. Active(t) /\ sent[t] > 0
  BY <1>2, <1>3 DEF QueueRules
<1>5. ASSUME 2 \in DOMAIN held PROVE FALSE
  <2>1. PICK s \in Turns : s = held[2]
    BY <1>2, <1>5
  <2>2. t < s /\ sent[s] > 0
    BY <1>2, <1>3, <1>5, <2>1 DEF QueueRules
  <2>3. row[s] # "none"
    BY <2>2 DEF HandOffInv, IntentComesFirst
  <2>4. row[t] \in Outcomes
    BY <2>2, <2>3 DEF EarlierHaveEnded
  <2> QED
    BY <1>4, <2>4, RowFacts DEF Active
<1>6. Len(held) = 1
  <2>1. Len(held) \in Nat /\ DOMAIN held = 1..Len(held)
    BY <1>1
  <2>2. 1 \in 1..Len(held) /\ 2 \notin 1..Len(held)
    BY <1>2, <1>5, <2>1
  <2> QED
    BY <2>1, <2>2
<1>7. held = <<t>>
  BY <1>1, <1>3, <1>6
<1> QED
  BY <1>4, <1>7

LEMMA ChildAnswers ==
  ASSUME OwnersInv, HandOffInv, EarlierHaveEnded, AnswerInv, QueueRules,
         \/ Child \/ Bounds \/ UserResumes \/ UserStops \/ EnterBoundary \/ RespondUnmapped
         \/ ToolRefused
  PROVE  QueueRules' /\ AnswerInv'
<1>1. TypeInv /\ map \in 0..MaxTurns /\ (map # 0 => map \in Turns)
  <2>1. TypeInv /\ map \in 0..MaxTurns
    BY DEF OwnersInv, TypeInv, TypeOK
  <2> QED
    BY <2>1, TurnsAssumption DEF Turns
\* A turn in activeTurns has the child to itself.
<1>2. \A t \in Turns : act[t].in => Active(t)
  BY DEF OwnersInv, TurnsAreOwned, OneLiveTurn
<1>3. ASSUME QueueRests, AnswerRests PROVE QueueRules' /\ AnswerInv'
  BY <1>1, <1>3, QueueRestsIsSafe, AnswerRestsIsSafe
<1>4. CASE ChildPrepares \/ UserStops \/ RespondUnmapped \/ ToolRefused \/ Bounds
  <2>1. UNCHANGED <<row, begun, answered, author, job, held, sent>>
    BY <1>4
    DEF ChildPrepares, UserStops, RespondUnmapped, ToolRefused, Bounds, PassBoundary,
        FailBoundary, durable, history
  <2>2. boundary'.pc # "off" => boundary.pc # "off" /\ boundary'.turn = boundary.turn
    <3>1. CASE PassBoundary
      <4>1. boundary.pc # "off" /\ boundary \in [pc : {"off", "sync", "resume", "check"},
                                                 turn : 0..MaxTurns]
        BY <1>1, <3>1 DEF TypeInv, TypeOK, PassBoundary, Goes
      <4>2. \/ boundary' = Quiet
            \/ boundary' \in {[boundary EXCEPT !.pc = "resume"], [boundary EXCEPT !.pc = "check"]}
        BY <3>1 DEF PassBoundary
      <4> QED
        BY <4>1, <4>2 DEF Quiet
    <3>2. CASE ~PassBoundary
      <4>1. boundary' \in {boundary, Quiet}
        BY <1>4, <3>2
        DEF ChildPrepares, UserStops, RespondUnmapped, ToolRefused, Bounds, FailBoundary,
            service
      <4> QED
        BY <4>1 DEF Quiet
    <3> QED
      BY <3>1, <3>2
  <2>3. \/ CancelChild \/ UNCHANGED <<child, lane>>
        \/ /\ lane' = lane /\ child \in Answering
           /\ child' \in {"generating", "asking", "error"}
    BY <1>4
    DEF ChildPrepares, UserStops, RespondUnmapped, ToolRefused, Bounds, PassBoundary,
        FailBoundary, Unverified, Answering, Works, Goes
  <2>4. /\ lane' \in {lane, <<>>}
        /\ child' \in Answering => child \in Answering
        /\ child' = "preparing" => child = "preparing"
    BY <2>3, CancelRests
  <2>5. QueueRests
    BY <2>1, <2>2, <2>4, RowsRest DEF QueueRests
  <2> QED
    BY <1>3, <2>1, <2>5, RowsRest
<1>5. CASE ChildAsks \/ ChildProgresses
  <2>1. /\ UNCHANGED <<job, held, lane, boundary, sent, author>> /\ child = "generating"
        /\ child' \in {"generating", "asking"}
    BY <1>5 DEF ChildAsks, ChildProgresses, service, history
  <2>2. AnswerRests /\ \A s \in Turns : Active(s)' => Active(s)
    <3>1. CASE map # 0 /\ act[map].in /\ act[map].ends = "no"
      <4>1. PICK t \in Turns : t = map
        BY <1>1, <3>1
      <4>2. Mark(t, "waiting") \/ Mark(t, "running")
        BY <1>5, <3>1, <4>1 DEF ChildAsks, ChildProgresses
      <4> QED
        BY <1>2, <2>1, <3>1, <4>1, <4>2, MarkRests
    <3>2. CASE ~(map # 0 /\ act[map].in /\ act[map].ends = "no")
      <4>1. UNCHANGED <<row, begun, answered>>
        BY <1>5, <3>2 DEF ChildAsks, ChildProgresses
      <4> QED
        BY <2>1, <4>1, RowsRest
    <3> QED
      BY <3>1, <3>2
  <2>3. child \in Answering
    BY <2>1 DEF Answering, Works
  <2>4. QueueRests
    BY <2>1, <2>2, <2>3 DEF QueueRests
  <2> QED
    BY <1>3, <2>2, <2>4
<1>6. CASE ChildStarts
  <2>1. /\ lane # <<>> /\ child' = "preparing" /\ job' = Head(lane) /\ lane' = Tail(lane)
        /\ UNCHANGED <<row, begun, answered, author, held, boundary, sent>>
    BY <1>6 DEF ChildStarts, durable, history
  <2>2. PICK u \in Turns : lane = <<u>> /\ sent[u] > 0
    BY <2>1 DEF QueueRules
  <2>3. job' = u /\ lane' = <<>>
    BY <2>1, <2>2
  <2>4. HeldBefore(u)
    BY <2>2 DEF QueueRules
  <2>5. \A t \in Turns : Active(t) => t = u
    <3>1. ASSUME NEW t \in Turns, Active(t) PROVE t = u
      <4>1. lane = <<t>>
        BY <2>1, <3>1 DEF QueueRules
      <4>2. lane[1] = t /\ lane[1] = u
        BY <2>2, <4>1
      <4> QED
        BY <4>2
    <3> QED
      BY <3>1
  <2>6. (\A t \in Turns : lane = <<t>> \/ (child = "preparing" /\ job = t) => HeldBefore(t))'
    BY <2>1, <2>3, <2>4 DEF HeldBefore
  <2>7. (\A t \in Turns : Active(t) => /\ child \in Answering => job = t
                                       /\ lane # <<>> => lane = <<t>>)'
    BY <2>1, <2>3, <2>5 DEF Active
  <2>8. QueueRules'
    BY <2>1, <2>2, <2>3, <2>6, <2>7 DEF QueueRules
  <2> QED
    BY <2>1, <2>8, RowsRest, AnswerRestsIsSafe
<1>7. CASE ChildEnds
  <2>1. /\ UNCHANGED <<row, begun, author, job, held, lane, boundary, sent>>
        /\ child' \in {"idle", "error"}
        /\ answered' = answered \/ (answered' = job /\ child \in {"generating", "stopping"})
    BY <1>7 DEF ChildEnds, durable, history
  <2>2. child \in {"generating", "stopping"} => child \in Answering
    BY DEF Answering, Works
  <2>3. \A t \in Turns : Active(t) /\ answered' # answered => answered' = t
    BY <2>1, <2>2 DEF QueueRules
  <2>4. AnswerRests
    BY <2>1, <2>3 DEF AnswerRests, Active
  <2>5. child' \notin Answering /\ child' # "preparing"
    BY <2>1 DEF Answering, Works, AtBoundary
  <2>6. QueueRests
    BY <2>1, <2>5 DEF QueueRests, Active
  <2> QED
    BY <1>3, <2>4, <2>6
<1>8. CASE UserResumes
  <2>1. /\ UNCHANGED <<row, begun, answered, author, job, child, boundary, sent>>
        /\ held # <<>> /\ Active(Head(held)) /\ child \in {"idle", "error"}
        /\ lane' = held /\ held' = <<>>
    BY <1>8 DEF UserResumes, durable, service, history
  <2>2. PICK u \in Turns : held = <<u>> /\ Active(u) /\ sent[u] > 0
    BY <2>1, ResumedAlone
  <2>3. \A t \in Turns : Active(t) => t = u
    BY <2>2 DEF OwnersInv, TurnsAreOwned, OneLiveTurn
  <2>4. child' \notin Answering /\ child' # "preparing"
    BY <2>1 DEF Answering, Works, AtBoundary
  <2>5. (\A t \in Turns : lane = <<t>> \/ (child = "preparing" /\ job = t) => HeldBefore(t))'
    BY <2>1 DEF HeldBefore
  <2>6. (\A t \in Turns : Active(t) => /\ child \in Answering => job = t
                                       /\ lane # <<>> => lane = <<t>>)'
    BY <2>1, <2>2, <2>3, <2>4 DEF Active
  <2>7. (\A n \in DOMAIN held : /\ sent[held[n]] > 0
                                /\ \A m \in DOMAIN held : m < n => held[m] < held[n])'
    BY <2>1
  <2>8. QueueRules'
    BY <2>1, <2>2, <2>4, <2>5, <2>6, <2>7 DEF QueueRules
  <2> QED
    BY <2>1, <2>8, RowsRest, AnswerRestsIsSafe
<1>9. CASE EnterBoundary
  <2>1. /\ UNCHANGED <<row, begun, answered, author, job, held, lane, sent>>
        /\ child \in {"asking", "generating"} /\ child' \in {"resuming", "calling"}
        /\ map # 0 /\ act[map].in /\ boundary'.turn = map
    BY <1>9 DEF EnterBoundary, durable, history
  <2>2. PICK t \in Turns : t = map
    BY <1>1, <2>1
  <2>3. child \in Answering /\ child' # "preparing"
    BY <2>1 DEF Answering, Works
  <2>4. job = t /\ sent[t] > 0
    BY <1>2, <2>1, <2>2, <2>3 DEF QueueRules
  <2>5. (\A s \in Turns : lane = <<s>> \/ (child = "preparing" /\ job = s) => HeldBefore(s))'
    BY <2>1, <2>3 DEF QueueRules, HeldBefore
  <2>6. (\A s \in Turns : Active(s) => /\ child \in Answering => job = s
                                       /\ lane # <<>> => lane = <<s>>)'
    BY <2>1, <2>3 DEF QueueRules, Active
  <2>7. QueueRules'
    BY <2>1, <2>2, <2>3, <2>4, <2>5, <2>6 DEF QueueRules
  <2> QED
    BY <2>1, <2>7, RowsRest, AnswerRestsIsSafe
<1> QED
  BY <1>4, <1>5, <1>6, <1>7, <1>8, <1>9 DEF Child, Bounds

\* The child withholds what it has not begun to answer, behind what it withheld before.
LEMMA CrashQueues ==
  ASSUME TypeInv, QueueRules, Crash
  PROVE  QueueRules'
<1>1. /\ held \in Seq(Turns) /\ lane \in Seq(Turns) /\ Turns \subseteq Nat
      /\ child = "preparing" => job \in Turns
  <2>1. Turns \subseteq Nat
    BY TurnsAssumption DEF Turns
  <2> QED
    BY <2>1 DEF TypeInv, TypeOK, CallsHaveTurns
<1>2. /\ UNCHANGED <<row, job, sent>> /\ lane' = <<>> /\ boundary' = Quiet
      /\ held' = held \o (IF child = "preparing" THEN <<job>> ELSE <<>>) \o lane
      /\ child' = IF child \in {"asking", "resuming"} THEN "asking"
                  ELSE IF child \in Busy THEN "idle" ELSE child
  BY DEF Crash, durable
<1>3. \/ held' = held
      \/ \E t \in Turns : held' = Append(held, t) /\ sent[t] > 0 /\ HeldBefore(t)
  <2>1. CASE child = "preparing"
    <3>1. lane = <<>> /\ sent[job] > 0 /\ job \in Turns /\ HeldBefore(job)
      BY <1>1, <2>1 DEF QueueRules, Answering
    <3>2. held' = Append(held, job)
      <4>1. held' = held \o <<job>> \o <<>>
        BY <1>2, <2>1, <3>1
      <4>2. held \o <<job>> = Append(held, job) /\ Append(held, job) \in Seq(Turns)
        BY <1>1, <3>1, AppendIsConcat
      <4> QED
        BY <4>1, <4>2, ConcatEmptySeq
    <3> QED
      BY <3>1, <3>2
  <2>2. CASE child # "preparing"
    <3>1. held' = held \o lane
      <4>1. held' = held \o <<>> \o lane
        BY <1>2, <2>2
      <4> QED
        BY <1>1, <4>1, ConcatEmptySeq
    <3>2. CASE lane = <<>>
      BY <1>1, <3>1, <3>2, ConcatEmptySeq
    <3>3. CASE lane # <<>>
      <4>1. PICK t \in Turns : lane = <<t>> /\ sent[t] > 0
        BY <3>3 DEF QueueRules
      <4>2. HeldBefore(t)
        BY <4>1 DEF QueueRules
      <4>3. held' = Append(held, t)
        BY <1>1, <3>1, <4>1, AppendIsConcat
      <4> QED
        BY <4>1, <4>2, <4>3
    <3> QED
      BY <3>2, <3>3
  <2> QED
    BY <2>1, <2>2
<1>4. (\A n \in DOMAIN held : /\ sent[held[n]] > 0
                              /\ \A m \in DOMAIN held : m < n => held[m] < held[n])'
  <2>1. CASE held' = held
    BY <1>2, <2>1 DEF QueueRules
  <2>2. ASSUME NEW t \in Turns, held' = Append(held, t), sent[t] > 0, HeldBefore(t)
        PROVE  \A n \in DOMAIN held' :
                 /\ sent'[held'[n]] > 0
                 /\ \A m \in DOMAIN held' : m < n => held'[m] < held'[n]
    <3> DEFINE last == Len(held) + 1
    <3>1. /\ last \in Nat /\ DOMAIN held' = 1..last /\ held'[last] = t
          /\ DOMAIN held = 1..(last - 1) /\ \A n \in DOMAIN held : held'[n] = held[n]
      BY <1>1, <2>2
    <3> HIDE DEF last
    <3>2. ASSUME NEW n \in DOMAIN held' PROVE sent'[held'[n]] > 0
      <4>1. n = last \/ n \in DOMAIN held
        BY <3>1
      <4> QED
        BY <1>2, <2>2, <3>1, <4>1 DEF QueueRules
    <3>3. ASSUME NEW n \in DOMAIN held', NEW m \in DOMAIN held', m < n
          PROVE  held'[m] < held'[n]
      <4>1. m \in DOMAIN held /\ (n = last \/ n \in DOMAIN held)
        BY <3>1, <3>3
      <4> QED
        BY <2>2, <3>1, <3>3, <4>1 DEF QueueRules, HeldBefore
    <3> QED
      BY <3>2, <3>3
  <2> QED
    BY <1>3, <2>1, <2>2
\* Only an interaction outlives the crash.
<1>5. child' \in Answering => child \in Answering
  BY <1>2 DEF Answering, Works, Busy, AtBoundary
<1>6. child' # "preparing"
  BY <1>2 DEF Busy
<1>7. (child \in Answering => job \in Turns /\ sent[job] > 0 /\ lane = <<>>)'
  BY <1>2, <1>5 DEF QueueRules
<1>8. (\A t \in Turns : lane = <<t>> \/ (child = "preparing" /\ job = t) => HeldBefore(t))'
  BY <1>2, <1>6
<1>9. (\A t \in Turns : Active(t) => /\ child \in Answering => job = t
                                     /\ lane # <<>> => lane = <<t>>)'
  BY <1>2, <1>5 DEF QueueRules, Active
<1>10. (boundary.pc # "off" => sent[boundary.turn] > 0)'
  BY <1>2 DEF Quiet
<1> QED
  BY <1>2, <1>4, <1>7, <1>8, <1>9, <1>10 DEF QueueRules

LEMMA RestartAnswers ==
  ASSUME OwnersInv, AnswerInv, QueueRules,
         Look \/ LookFails \/ Reconcile \/ Quarantine \/ Crash \/ Start
  PROVE  QueueRules' /\ AnswerInv'
<1>1. TypeInv /\ (recon.pc # "off" => recon.turn \in Turns)
  BY RowFacts DEF OwnersInv
<1>2. CASE Crash
  <2>1. UNCHANGED <<row, begun, answered, author>>
    BY <1>2 DEF Crash, durable
  <2> QED
    BY <1>1, <1>2, <2>1, CrashQueues, RowsRest, AnswerRestsIsSafe
<1>3. CASE Look \/ LookFails \/ Reconcile \/ Quarantine \/ Start
  <2>1. UNCHANGED <<job, held, boundary, sent>>
    BY <1>3
    DEF Look, LookFails, Reconcile, ReconcileOver, ReconcileLost, Adopt, Quarantine, Start,
        session, history
  <2>2. CancelChild \/ UNCHANGED <<child, lane>>
    BY <1>3
    DEF Look, LookFails, Reconcile, ReconcileOver, ReconcileLost, Adopt, Quarantine, Start,
        session
  <2>3. AnswerRests /\ \A s \in Turns : Active(s)' => Active(s)
    <3>1. CASE Look \/ ReconcileOver \/ Quarantine \/ Start
      <4>1. UNCHANGED <<row, begun, answered, author>>
        BY <3>1 DEF Look, ReconcileOver, Quarantine, Start, durable, session, history
      <4> QED
        BY <4>1, RowsRest
    <3>2. CASE LookFails \/ ReconcileLost
      <4>1. PICK t \in Turns : t = recon.turn
        BY <1>1, <3>2 DEF LookFails, ReconcileLost
      <4>2. Finish(t, "interrupted") /\ UNCHANGED <<answered, begun>>
        BY <3>2, <4>1 DEF LookFails, ReconcileLost, session
      <4> QED
        BY <4>2, FinishRests
    <3>3. CASE Adopt
      <4>1. PICK t \in Turns : t = recon.turn
        BY <1>1, <3>3 DEF Adopt
      <4>2. /\ Active(t) /\ UNCHANGED author
            /\ Mark(t, "running") \/ UNCHANGED <<row, begun, answered>>
        BY <3>3, <4>1 DEF Adopt, history
      <4> QED
        BY <4>2, MarkRests, RowsRest
    <3> QED
      BY <1>3, <3>1, <3>2, <3>3 DEF Reconcile
  <2>4. QueueRests
    BY <2>1, <2>2, <2>3, CancelRests DEF QueueRests
  <2> QED
    BY <1>1, <2>3, <2>4, QueueRestsIsSafe, AnswerRestsIsSafe
<1> QED
  BY <1>2, <1>3

(***************************************************************************)
(* The answers of turns, all parts together.                               *)
(***************************************************************************)
LanesInv == /\ OwnersInv /\ HandOffInv /\ EarlierHaveEnded /\ KillsAbort
            /\ SendInv /\ QueueRules /\ AnswerInv

LEMMA AnswersInductive ==
  ASSUME Overtakes = FALSE, LanesInv, [Next]_vars
  PROVE  LanesInv'
<1>1. /\ OwnersInv /\ HandOffInv /\ EarlierHaveEnded /\ KillsAbort
      /\ SendInv /\ QueueRules /\ AnswerInv
  BY DEF LanesInv
<1>2. QueueRules' /\ AnswerInv'
  <2>1. CASE UNCHANGED vars
    <3>1. UNCHANGED <<row, begun, answered, author, child, job, lane, held, boundary, sent>>
      BY <2>1 DEF vars, durable, session, service, history
    <3>2. QueueRests /\ AnswerRests
      BY <3>1, RowsRest DEF QueueRests
    <3> QED
      BY <1>1, <3>2, QueueRestsIsSafe, AnswerRestsIsSafe DEF OwnersInv
  <2>2. CASE Next
    BY <1>1, <2>2, ParentAnswers, RunAnswers, EndAnswers, ChildAnswers, RestartAnswers DEF Next
  <2> QED
    BY <2>1, <2>2
<1>3. OwnersInv' /\ HandOffInv'
  BY <1>1, OwnersInductive, HandOffInductive
<1>4. EarlierHaveEnded' /\ KillsAbort' /\ SendInv'
  BY <1>1, EarlierInductive, KillsInductive, SendInductive
<1> QED
  BY <1>2, <1>3, <1>4 DEF LanesInv

LEMMA AnswersInit == Init => LanesInv
<1> SUFFICES ASSUME Init PROVE LanesInv
  OBVIOUS
<1>1. OwnersInv /\ HandOffInv
  BY OwnersInit, HandOffInit
<1>2. /\ row = [t \in Turns |-> "none"] /\ author = [t \in Turns |-> 0] /\ begun = {}
      /\ child = "none" /\ lane = <<>> /\ held = <<>> /\ answered = 0 /\ boundary = Quiet
      /\ act = [t \in Turns |-> Blank] /\ kill = [t \in Turns |-> {}] /\ recon = NoRecon
  BY DEF Init
<1>3. "none" \notin Answering /\ "none" \notin ActiveStatuses
  BY DEF Answering, Works, AtBoundary, ActiveStatuses
<1>4. EarlierHaveEnded /\ KillsAbort /\ AnswerInv
  BY <1>2 DEF EarlierHaveEnded, KillsAbort, NoRecon, AnswerInv, AnswerRule, CompletedByItsAnswer
<1>5. SendInv
  BY <1>2 DEF SendInv, SendRules, Blank, ToSend
<1>6. QueueRules
  <2>1. \A t \in Turns : ~Active(t)
    BY <1>2, <1>3 DEF Active
  <2> QED
    BY <1>2, <1>3, <2>1 DEF QueueRules, Quiet
<1> QED
  BY <1>1, <1>4, <1>5, <1>6 DEF LanesInv

\* A turn that completes does so with the answer to its own hand-off, if a follow-up waits until
\* the calls that interrupt, reconcile or hand over an earlier turn have ended: whatever the child
\* accepts, withholds over a crash or answers meanwhile is of the one turn that is active.
THEOREM TurnsCompleteByTheirAnswer ==
  ASSUME Overtakes = FALSE
  PROVE  Spec => []CompletedByItsAnswer
<1>1. Init => LanesInv
  BY AnswersInit
<1>2. LanesInv /\ [Next]_vars => LanesInv'
  BY AnswersInductive
<1>3. LanesInv => CompletedByItsAnswer
  BY DEF LanesInv, AnswerInv
<1> QED
  BY <1>1, <1>2, <1>3, PTL DEF Spec

=============================================================================
