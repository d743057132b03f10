-------------------------- MODULE SchedulerProofs --------------------------
(***************************************************************************)
(* The runs of scheduled jobs, for any runs, jobs and policies: one run of *)
(* a job is in progress at a time, somebody will end it, its result is     *)
(* delivered once and its final status is never overwritten.  The schedule *)
(* of a job, for any period, grace, policy and horizon, and the utility    *)
(* process, for any number of spawns: no time is run twice, an enabled job *)
(* keeps a near next time, and commands go to a live process.  A behaviour *)
(* of the scheduler is one of each part, so the theorems about runs hold   *)
(* of the scheduler too.                                                   *)
(***************************************************************************)
EXTENDS Scheduler, FiniteSetTheorems, TLAPS

-----------------------------------------------------------------------------
(* The runs of jobs, for any set of runs and jobs and any policies.        *)

\* A run in progress waits for its session to be created, or its session is followed.
Followed == \A r \in Runs : row[r] = "running" => exec[r] = "creating" \/ r \in activeSessions

\* A run that was reported and not yet looked at is queued, or its job was deleted.
DueIsQueued == \A r \in Runs : exec[r] = "due" => row[r] \in {"queued", "gone"}

\* A result was delivered or is about to be, but not both, and only of a run that has ended.
Settled ==
  \A r \in Runs :
    /\ delivered[r] \in {0, 1}
    /\ delivered[r] = 1 \/ r \in timeouts => row[r] \in {"completed", "failed", "gone"}
    /\ ~(delivered[r] = 1 /\ r \in timeouts)

RunInv == TypeOK /\ OneActiveRun /\ Followed /\ DueIsQueued /\ Settled

\* The parts of the invariant hold at the start: no run exists.
LEMMA RunInvInit == Init => RunInv
BY DEF Init, RunInv, TypeOK, OneActiveRun, Followed, DueIsQueued, Settled, Terminal

\* Types: every step writes values of the run table and of the executor.
LEMMA TypeStep == ASSUME TypeOK, [Next]_vars PROVE TypeOK'
<1> USE DEF TypeOK, Terminal
<1>1. ASSUME NEW r \in Runs, QueueRun(r) PROVE TypeOK'
  BY <1>1 DEF QueueRun
<1>2. ASSUME NEW r \in Runs, ReportLost(r) PROVE TypeOK'
  BY <1>2 DEF ReportLost
<1>3. ASSUME NEW r \in Runs, RunRejected(r) PROVE TypeOK'
  BY <1>3 DEF RunRejected, Deliver
<1>4. ASSUME NEW r \in Runs, Claim(r) PROVE TypeOK'
  BY <1>4 DEF Claim
<1>5. ASSUME NEW r \in Runs, SessionCreated(r) PROVE TypeOK'
  BY <1>5 DEF SessionCreated
<1>6. ASSUME NEW r \in Runs, ExecuteFails(r) PROVE TypeOK'
  BY <1>6 DEF ExecuteFails, Deliver
<1>7. ASSUME NEW r \in Runs, SessionWorks(r) PROVE TypeOK'
  BY <1>7 DEF SessionWorks
<1>8. ASSUME NEW r \in Runs, SendAccepted(r) PROVE TypeOK'
  BY <1>8 DEF SendAccepted
<1>9. ASSUME NEW r \in Runs, TimeoutFires(r) PROVE TypeOK'
  BY <1>9 DEF TimeoutFires
<1>10. ASSUME NEW r \in Runs, SessionCancelled(r) PROVE TypeOK'
  BY <1>10 DEF SessionCancelled, Deliver
<1>11. ASSUME NEW r \in Runs, NEW status \in {"completed", "failed"}, SessionUpdate(r, status)
       PROVE TypeOK'
  BY <1>11 DEF SessionUpdate, Deliver
<1>12. ASSUME NEW j \in Jobs, DeleteJob(j) PROVE TypeOK'
  BY <1>12 DEF DeleteJob
<1>13. ASSUME StopAndStart PROVE TypeOK'
  BY <1>13 DEF StopAndStart, FailRunning
<1>14. ASSUME RestartApp PROVE TypeOK'
  BY <1>14 DEF RestartApp, FailRunning
<1>15. ASSUME UNCHANGED vars PROVE TypeOK'
  BY <1>15 DEF vars
<1> QED
  BY <1>1, <1>2, <1>3, <1>4, <1>5, <1>6, <1>7, <1>8, <1>9, <1>10, <1>11, <1>12, <1>13, <1>14,
     <1>15 DEF Next, Execute

\* The rest of the invariant, one step per action.
LEMMA RunStep ==
  ASSUME RunInv, [Next]_vars
  PROVE  OneActiveRun' /\ Followed' /\ DueIsQueued' /\ Settled'
<1> DEFINE Kept == OneActiveRun' /\ Followed' /\ DueIsQueued' /\ Settled'
<1> USE DEF RunInv, TypeOK, OneActiveRun, Followed, DueIsQueued, Settled, Terminal
<1>1. ASSUME NEW r \in Runs, QueueRun(r) PROVE Kept
  BY <1>1 DEF QueueRun
<1>2. ASSUME NEW r \in Runs, ReportLost(r) PROVE Kept
  BY <1>2 DEF ReportLost
<1>3. ASSUME NEW r \in Runs, RunRejected(r) PROVE Kept
  BY <1>3 DEF RunRejected, Deliver
<1>4. ASSUME NEW r \in Runs, Claim(r) PROVE Kept
  <2>1. CASE row[r] # "queued" /\ exec' = [exec EXCEPT ![r] = "over"] /\ UNCHANGED row
    BY <1>4, <2>1 DEF Claim
  <2>2. CASE /\ row[r] = "queued" /\ OthersActive(r) = {}
             /\ row' = [row EXCEPT ![r] = "running"]
             /\ exec' = [exec EXCEPT ![r] = "creating"]
    <3>1. \A q \in Runs \ {r} : JobOf[q] = JobOf[r] => row[q] # "running"
      BY <2>2 DEF OthersActive
    <3> QED
      BY <1>4, <2>2, <3>1 DEF Claim
  <2>3. CASE /\ row[r] = "queued"
             /\ row' = [row EXCEPT ![r] = IF JobOf[r] \in QueuePolicy THEN "queued" ELSE "cancelled"]
             /\ exec' = [exec EXCEPT ![r] = "over"]
    BY <1>4, <2>3 DEF Claim
  <2> QED
    BY <1>4, <2>1, <2>2, <2>3 DEF Claim
<1>5. ASSUME NEW r \in Runs, SessionCreated(r) PROVE Kept
  BY <1>5 DEF SessionCreated
<1>6. ASSUME NEW r \in Runs, ExecuteFails(r) PROVE Kept
  BY <1>6 DEF ExecuteFails, Deliver
<1>7. ASSUME NEW r \in Runs, SessionWorks(r) PROVE Kept
  BY <1>7 DEF SessionWorks
<1>8. ASSUME NEW r \in Runs, SendAccepted(r) PROVE Kept
  BY <1>8 DEF SendAccepted
<1>9. ASSUME NEW r \in Runs, TimeoutFires(r) PROVE Kept
  BY <1>9 DEF TimeoutFires
<1>10. ASSUME NEW r \in Runs, SessionCancelled(r) PROVE Kept
  BY <1>10 DEF SessionCancelled, Deliver
<1>11. ASSUME NEW r \in Runs, NEW status \in {"completed", "failed"}, SessionUpdate(r, status)
       PROVE Kept
  BY <1>11 DEF SessionUpdate, Deliver
<1>12. ASSUME NEW j \in Jobs, DeleteJob(j) PROVE Kept
  BY <1>12 DEF DeleteJob
<1>13. ASSUME StopAndStart PROVE Kept
  BY <1>13 DEF StopAndStart, FailRunning
<1>14. ASSUME RestartApp PROVE Kept
  BY <1>14 DEF RestartApp, FailRunning
<1>15. ASSUME UNCHANGED vars PROVE Kept
  BY <1>15 DEF vars
<1> QED
  BY <1>1, <1>2, <1>3, <1>4, <1>5, <1>6, <1>7, <1>8, <1>9, <1>10, <1>11, <1>12, <1>13, <1>14,
     <1>15 DEF Next, Execute

\* The invariant of the run table, the executor and the deliveries.
THEOREM RunInvHolds == Spec => []RunInv
<1>1. RunInv /\ [Next]_vars => RunInv'
  BY TypeStep, RunStep DEF RunInv
<1> QED
  BY RunInvInit, <1>1, PTL DEF Spec

\* Types of the scheduler's runs (runExecutor.ts, cronJobRuns.ts), for any number of runs.
THEOREM RunTypeCorrect == Spec => []TypeOK
<1>1. RunInv => TypeOK
  BY DEF RunInv
<1> QED
  BY RunInvHolds, <1>1, PTL

\* runExecutor.ts:92: the count of active runs after the claim keeps one run of a job in
\* progress, whatever else happens to it or to the job's other runs.
THEOREM JobRunsOnce == Spec => []OneActiveRun
<1>1. RunInv => OneActiveRun
  BY DEF RunInv
<1> QED
  BY RunInvHolds, <1>1, PTL

\* runExecutor.ts:163-226: no run is in progress without its execution or a followed session.
THEOREM RunsAreWatched == Spec => []RunIsWatched
<1>1. RunInv => RunIsWatched
  BY DEF RunInv, Followed, RunIsWatched
<1> QED
  BY RunInvHolds, <1>1, PTL

\* runExecutor.ts:248-318: of all that may end a run one delivers it, and not before the end.
THEOREM ResultsAreDeliveredOnce == Spec => []DeliveredOnce
<1>1. RunInv => DeliveredOnce
  <2> SUFFICES ASSUME RunInv, NEW r \in Runs
               PROVE  /\ delivered[r] + Cardinality(timeouts \cap {r}) <= 1
                      /\ delivered[r] = 1 => row[r] \in {"completed", "failed", "gone"}
    BY DEF DeliveredOnce
  <2>1. CASE r \in timeouts
    <3>1. timeouts \cap {r} = {r}
      BY <2>1
    <3>2. Cardinality({r}) = 1
      BY FS_Singleton
    <3> QED
      BY <2>1, <3>1, <3>2 DEF RunInv, Settled
  <2>2. CASE r \notin timeouts
    <3>1. timeouts \cap {r} = {}
      BY <2>2
    <3>2. Cardinality({}) = 0
      BY FS_EmptySet
    <3> QED
      BY <2>2, <3>1, <3>2 DEF RunInv, Settled
  <2> QED
    BY <2>1, <2>2
<1> QED
  BY RunInvHolds, <1>1, PTL

\* runExecutor.ts:226-291: completion, failure, time limit and stop never overwrite the
\* status of a run that has ended; only the deletion of its job removes it.
THEOREM EndsAreFinal == Spec => TerminalIsFinal
<1> DEFINE Final == \A r \in Runs : row[r] \in Terminal => row'[r] \in {row[r], "gone"}
<1>1. ASSUME RunInv, [Next]_vars PROVE [Final]_vars
  <2> USE <1>1 DEF RunInv, TypeOK, DueIsQueued, Terminal
  <2>1. ASSUME NEW r \in Runs, QueueRun(r) \/ ReportLost(r) PROVE Final
    BY <2>1 DEF QueueRun, ReportLost
  <2>2. ASSUME NEW r \in Runs, Execute(r) PROVE Final
    BY <2>2 DEF Execute, RunRejected, Claim, SessionCreated, ExecuteFails, SessionWorks,
                SendAccepted
  <2>3. ASSUME NEW r \in Runs, TimeoutFires(r) \/ SessionCancelled(r) PROVE Final
    BY <2>3 DEF TimeoutFires, SessionCancelled
  <2>4. ASSUME NEW r \in Runs, NEW status \in {"completed", "failed"}, SessionUpdate(r, status)
        PROVE Final
    BY <2>4 DEF SessionUpdate
  <2>5. ASSUME NEW j \in Jobs, DeleteJob(j) PROVE Final
    BY <2>5 DEF DeleteJob
  <2>6. ASSUME StopAndStart \/ RestartApp PROVE Final
    BY <2>6 DEF StopAndStart, RestartApp, FailRunning
  <2>7. ASSUME UNCHANGED vars PROVE [Final]_vars
    BY <2>7
  <2> QED
    BY <2>1, <2>2, <2>3, <2>4, <2>5, <2>6, <2>7 DEF Next
<1> QED
  BY RunInvHolds, <1>1, PTL DEF Spec, TerminalIsFinal

-----------------------------------------------------------------------------
(* The times at which the cron expression fires.                           *)

\* Multiplication is monotone.
LEMMA TimesIsMonotone ==
  ASSUME NEW a \in Nat, NEW b \in Nat, NEW c \in Nat, a <= b
  PROVE  a * c <= b * c
OBVIOUS

\* Division with remainder.
LEMMA QuotientBounds ==
  ASSUME NEW t \in Nat
  PROVE  /\ t \div Period \in Nat
         /\ (t \div Period) * Period <= t /\ t < (t \div Period + 1) * Period
BY TimesAssumption

\* The next time is later, and a multiple of the period.
LEMMA NextAfterIsNext ==
  ASSUME NEW t \in Nat
  PROVE  NextAfter(t) \in Nat /\ NextAfter(t) > t
BY QuotientBounds, TimesAssumption DEF NextAfter

LEMMA MultiplesLeaveNothing ==
  ASSUME NEW k \in Nat
  PROVE  (k * Period) % Period = 0
BY TimesAssumption

LEMMA NextAfterIsMultiple ==
  ASSUME NEW t \in Nat
  PROVE  NextAfter(t) % Period = 0
BY QuotientBounds, MultiplesLeaveNothing DEF NextAfter

\* The next time never moves back while the clock moves on.
LEMMA NextAfterIsMonotone ==
  ASSUME NEW t \in Nat, NEW u \in Nat, t <= u
  PROVE  NextAfter(t) <= NextAfter(u)
<1> DEFINE q == t \div Period
           p == u \div Period
<1>1. q \in Nat /\ p \in Nat /\ Period \in Nat /\ Period > 0
  BY QuotientBounds, TimesAssumption
<1>2. q * Period <= t /\ u < (p + 1) * Period
  BY QuotientBounds
<1> HIDE DEF q, p
<1>3. q <= p
  <2> SUFFICES ASSUME p + 1 <= q PROVE FALSE
    BY <1>1
  <2>1. (p + 1) * Period <= q * Period
    BY <1>1, TimesIsMonotone
  <2> QED
    BY <1>1, <1>2, <2>1
<1>4. (q + 1) * Period <= (p + 1) * Period
  BY <1>1, <1>3, TimesIsMonotone
<1> QED
  BY <1>4 DEF NextAfter, q, p

-----------------------------------------------------------------------------
(* The schedule.                                                           *)

\* The times a job may have next: those of the cron expression.
Times == {t \in Nat : t > 0 /\ t % Period = 0}

\* What is stored next is such a time and near for an enabled job, and nothing for a disabled
\* one; and what a call or a scan has read is not from the future.
StoredTimes ==
  /\ job.nextRunAt \in Times \cup {NoTime}
  /\ ScheduleIsClose /\ DisabledIsUnscheduled
  /\ scan # NoTime => scan.due \in Times /\ scan.due <= scan.at /\ scan.at <= now
  /\ \A c \in Calls : call[c].kind # "none" => call[c].seen \in JobRows /\ call[c].at <= now

\* A run was inserted for a time if and only if it has a row, and once.
RowsAreCounted ==
  \A t \in Fires : queued[t] = IF t \in runs THEN 1 ELSE 0

ScheduleInv == ScheduleTypeOK /\ StoredTimes /\ RowsAreCounted

LEMMA NextAfterIsTime ==
  ASSUME NEW t \in Nat
  PROVE  NextAfter(t) \in Times /\ NextAfter(t) \in Nat /\ NextAfter(t) # NoTime
BY NextAfterIsNext, NextAfterIsMultiple, NoTimeIsNoTick DEF Times

\* The first time, which a new job is stored with.
LEMMA FirstTime == NextAfter(0) = Period /\ Period \in Times
<1>1. 0 \div Period = 0
  BY TimesAssumption
<1>2. NextAfter(0) = Period
  BY <1>1, TimesAssumption DEF NextAfter
<1> QED
  BY <1>2, NextAfterIsTime

\* What reconcileStoredSchedules and toggle write agrees with itself.
LEMMA ComputedIsClose ==
  ASSUME NEW enabled \in BOOLEAN, NEW at \in Nat, at <= now, now \in Nat
  PROVE  LET computed == Computed(enabled, at) IN
         /\ computed \in JobRows
         /\ computed.nextRunAt \in Times \cup {NoTime}
         /\ computed.enabled => computed.nextRunAt # NoTime /\ computed.nextRunAt <= NextAfter(now)
         /\ ~computed.enabled => computed.nextRunAt = NoTime
BY NextAfterIsTime, NextAfterIsMonotone DEF Computed, JobRows

LEMMA ScheduleInvInit == ScheduleInit => ScheduleInv
<1> SUFFICES ASSUME ScheduleInit PROVE ScheduleInv
  OBVIOUS
<1>1. ScheduleTypeOK
  BY TimesAssumption DEF ScheduleInit, ScheduleTypeOK, NoCall, JobRows, Fires
<1>2. StoredTimes
  BY FirstTime, TimesAssumption, NoTimeIsNoTick
     DEF ScheduleInit, StoredTimes, ScheduleIsClose, DisabledIsUnscheduled, NoCall, Times
<1>3. RowsAreCounted
  BY DEF ScheduleInit, RowsAreCounted
<1> QED
  BY <1>1, <1>2, <1>3 DEF ScheduleInv

\* The clock moves on: what was near stays near.
LEMMA TickStep == ASSUME ScheduleInv, Tick PROVE ScheduleInv'
<1>1. now \in Nat /\ now' = now + 1 /\ now' \in 0..MaxTime
  BY TimesAssumption DEF Tick, ScheduleInv, ScheduleTypeOK
<1>2. NextAfter(now) <= NextAfter(now') /\ NextAfter(now) \in Nat /\ NextAfter(now') \in Nat
  BY <1>1, NextAfterIsMonotone, NextAfterIsTime
<1>3. ScheduleTypeOK'
  BY <1>1 DEF Tick, ScheduleInv, ScheduleTypeOK
<1>4. ScheduleIsClose' /\ DisabledIsUnscheduled'
  <2>1. job' = job /\ job \in JobRows
    BY DEF Tick, ScheduleInv, ScheduleTypeOK
  <2>2. DisabledIsUnscheduled'
    BY <2>1 DEF ScheduleInv, StoredTimes, DisabledIsUnscheduled
  <2>3. ASSUME job.enabled PROVE job.nextRunAt # NoTime /\ job.nextRunAt <= NextAfter(now')
    <3>1. job.nextRunAt # NoTime /\ job.nextRunAt <= NextAfter(now)
      BY <2>3 DEF ScheduleInv, StoredTimes, ScheduleIsClose
    <3>2. job.nextRunAt \in Nat
      BY <2>1, <3>1 DEF JobRows
    <3> QED
      BY <1>2, <3>1, <3>2
  <2> QED
    BY <2>1, <2>2, <2>3 DEF ScheduleIsClose, NextAfter
<1>5. StoredTimes'
  BY <1>1, <1>4 DEF Tick, ScheduleInv, ScheduleTypeOK, StoredTimes
<1>6. RowsAreCounted'
  BY DEF Tick, ScheduleInv, RowsAreCounted
<1> QED
  BY <1>3, <1>5, <1>6 DEF ScheduleInv

\* The transaction of a scan inserts times of the schedule that have no row yet.
LEMMA CommitStep == ASSUME ScheduleInv, ScanCommits PROVE ScheduleInv'
<1> DEFINE new == ScheduledAts(scan.due, scan.at) \ runs
<1>1. /\ scan.due \in Times /\ scan.at \in Nat /\ scan.due \in Nat /\ scan.due <= scan.at
      /\ scan.at <= now /\ now \in Nat /\ now <= MaxTime
  BY TimesAssumption DEF ScanCommits, ScheduleInv, StoredTimes, ScheduleTypeOK
<1>2. scan.due \in Fires
  BY <1>1, TimesAssumption DEF Fires, Times
<1>3. ScheduledAts(scan.due, scan.at) \subseteq Fires
  BY <1>2 DEF ScheduledAts
<1>4. /\ runs' = runs \cup new
      /\ queued' = [t \in Fires |-> queued[t] + (IF t \in new THEN 1 ELSE 0)]
      /\ reports' = reports \cup new /\ scan' = NoTime /\ UNCHANGED <<now, scanner, call>>
  BY DEF ScanCommits
<1>5. NextAfter(scan.at) \in Times /\ NextAfter(scan.at) \in Nat /\ NextAfter(scan.at) # NoTime
      /\ NextAfter(scan.at) <= NextAfter(now)
  BY <1>1, NextAfterIsTime, NextAfterIsMonotone
<1>6. job \in JobRows
  BY DEF ScheduleInv, ScheduleTypeOK
<1>7. job' \in {job, [job EXCEPT !.nextRunAt = NextAfter(scan.at)]} /\ (job' # job => job.enabled)
  <2>1. CASE job.exists /\ job.nextRunAt = scan.due
    <3>1. job.enabled
      BY <1>1, <2>1, NoTimeIsNoTick DEF ScheduleInv, StoredTimes, DisabledIsUnscheduled
    <3> QED
      BY <2>1, <3>1 DEF ScanCommits
  <2>2. CASE ~(job.exists /\ job.nextRunAt = scan.due)
    <3>1. job' = [job EXCEPT !.nextRunAt = @]
      BY <2>2 DEF ScanCommits
    <3> QED
      BY <1>6, <3>1 DEF JobRows
  <2> QED
    BY <2>1, <2>2
<1>8. job' \in JobRows
  BY <1>5, <1>6, <1>7 DEF JobRows
<1>9. job'.nextRunAt \in Times \cup {NoTime} /\ ScheduleIsClose' /\ DisabledIsUnscheduled'
  <2>1. CASE job' = job
    BY <1>4, <2>1 DEF ScheduleInv, StoredTimes, ScheduleIsClose, DisabledIsUnscheduled, NextAfter
  <2>2. CASE job' # job
    <3>1. job'.nextRunAt = NextAfter(scan.at) /\ job'.enabled /\ now' = now
      BY <1>4, <1>6, <1>7, <2>2 DEF JobRows
    <3> QED
      BY <1>5, <3>1 DEF ScheduleIsClose, DisabledIsUnscheduled, NextAfter
  <2> QED
    BY <2>1, <2>2
<1>10. ScheduleTypeOK'
  <2>1. /\ runs \subseteq Fires /\ reports \subseteq Fires /\ queued \in [Fires -> Nat]
        /\ new \subseteq Fires
    BY <1>3 DEF ScheduleInv, ScheduleTypeOK
  <2>2. runs' \subseteq Fires /\ reports' \subseteq Fires
    BY <1>4, <2>1
  <2>3. queued' \in [Fires -> Nat]
    <3>1. \A t \in Fires : queued[t] + (IF t \in new THEN 1 ELSE 0) \in Nat
      BY <2>1
    <3> QED
      BY <1>4, <3>1
  <2> HIDE DEF new
  <2> QED
    BY <1>4, <1>8, <2>2, <2>3 DEF ScheduleInv, ScheduleTypeOK
<1>11. StoredTimes'
  BY <1>4, <1>9 DEF ScheduleInv, StoredTimes
<1>12. RowsAreCounted'
  BY <1>4 DEF ScheduleInv, RowsAreCounted
<1> QED
  BY <1>10, <1>11, <1>12 DEF ScheduleInv

\* A call writes the row it read with the state computed for it: stale, but near.
LEMMA WriteStep ==
  ASSUME ScheduleInv, NEW c \in Calls, ReconcileWrites(c) \/ ToggleWrites(c)
  PROVE  ScheduleInv'
<1>1. /\ now \in Nat /\ call[c].at \in Nat /\ call[c].at <= now /\ call[c].seen \in JobRows
      /\ job \in JobRows /\ UNCHANGED <<now, runs, queued, scan, reports>>
  BY DEF ReconcileWrites, ToggleWrites, ScheduleInv, StoredTimes, ScheduleTypeOK
<1>2. PICK enabled \in BOOLEAN : job' \in {job, Computed(enabled, call[c].at)}
  <2>1. CASE ReconcileWrites(c)
    BY <1>1, <2>1 DEF ReconcileWrites, JobRows
  <2>2. CASE ToggleWrites(c)
    BY <2>2 DEF ToggleWrites
  <2> QED
    BY <2>1, <2>2
<1>3. /\ job' \in JobRows /\ job'.nextRunAt \in Times \cup {NoTime}
      /\ ScheduleIsClose' /\ DisabledIsUnscheduled'
  <2>1. CASE job' = job
    BY <1>1, <2>1 DEF ScheduleInv, StoredTimes, ScheduleTypeOK, ScheduleIsClose,
                      DisabledIsUnscheduled, NextAfter
  <2>2. CASE job' = Computed(enabled, call[c].at)
    <3> DEFINE computed == Computed(enabled, call[c].at)
    <3>1. /\ computed \in JobRows /\ computed.nextRunAt \in Times \cup {NoTime}
          /\ computed.enabled => computed.nextRunAt # NoTime
                                 /\ computed.nextRunAt <= NextAfter(now)
          /\ ~computed.enabled => computed.nextRunAt = NoTime
      BY <1>1, ComputedIsClose
    <3> QED
      BY <1>1, <2>2, <3>1 DEF ScheduleIsClose, DisabledIsUnscheduled, NextAfter
  <2> QED
    BY <1>2, <2>1, <2>2
<1>4. /\ call' \in [Calls -> [kind : {"none", "reconcile", "on", "off"},
                             seen : JobRows \cup {NoTime}, at : Nat]]
      /\ \A d \in Calls : call'[d].kind # "none" =>
                            call'[d].seen \in JobRows /\ call'[d].at <= now
  <2>1. CASE ReconcileWrites(c)
    BY <2>1 DEF ReconcileWrites, ScheduleInv, StoredTimes, ScheduleTypeOK, NoCall
  <2>2. CASE ToggleWrites(c)
    <3>1. Computed(call[c].kind = "on", call[c].at) \in JobRows
      BY <1>1, NextAfterIsTime DEF Computed, JobRows
    <3> QED
      BY <1>1, <2>2, <3>1 DEF ToggleWrites, ScheduleInv, StoredTimes, ScheduleTypeOK
  <2> QED
    BY <2>1, <2>2
<1>5. scanner' \in {"up", "exited", "off"}
  BY DEF ReconcileWrites, ToggleWrites, ScheduleInv, ScheduleTypeOK
<1>6. ScheduleTypeOK'
  BY <1>1, <1>3, <1>4, <1>5 DEF ScheduleInv, ScheduleTypeOK
<1>7. StoredTimes'
  BY <1>1, <1>3, <1>4 DEF ScheduleInv, StoredTimes
<1>8. RowsAreCounted'
  BY <1>1 DEF ScheduleInv, RowsAreCounted
<1> QED
  BY <1>6, <1>7, <1>8 DEF ScheduleInv

\* A scan or a call reads the row as it is.
LEMMA ReadStep ==
  ASSUME ScheduleInv,
         ScanReads \/ \E c \in Calls, kind \in {"reconcile", "on", "off"} : CallReads(c, kind)
  PROVE  ScheduleInv'
<1>1. CASE ScanReads
  <2>1. job.nextRunAt \in Times /\ job.nextRunAt \in Nat /\ now \in Nat /\ job.nextRunAt <= now
    BY <1>1 DEF ScanReads, ScheduleInv, StoredTimes, ScheduleTypeOK, Times
  <2>2. ScheduleTypeOK'
    BY <1>1, <2>1 DEF ScanReads, ScheduleInv, ScheduleTypeOK
  <2>3. StoredTimes'
    BY <1>1, <2>1 DEF ScanReads, ScheduleInv, StoredTimes, ScheduleIsClose,
                      DisabledIsUnscheduled, NextAfter
  <2> QED
    BY <1>1, <2>2, <2>3 DEF ScanReads, ScheduleInv, RowsAreCounted
<1>2. ASSUME NEW c \in Calls, NEW kind \in {"reconcile", "on", "off"}, CallReads(c, kind)
      PROVE  ScheduleInv'
  <2>1. now \in Nat
    BY DEF ScheduleInv, ScheduleTypeOK
  <2>2. ScheduleTypeOK'
    BY <1>2, <2>1 DEF CallReads, ScheduleInv, ScheduleTypeOK
  <2>3. \A d \in Calls : call'[d].kind # "none" => call'[d].seen \in JobRows /\ call'[d].at <= now
    BY <1>2, <2>1 DEF CallReads, ScheduleInv, ScheduleTypeOK, StoredTimes
  <2>4. StoredTimes'
    BY <1>2, <2>3 DEF CallReads, ScheduleInv, StoredTimes, ScheduleIsClose,
                      DisabledIsUnscheduled, NextAfter
  <2> QED
    BY <1>2, <2>2, <2>4 DEF CallReads, ScheduleInv, RowsAreCounted
<1> QED
  BY <1>1, <1>2

\* Processes that end and start, messages, and the deletion of the job.
LEMMA RestStep ==
  ASSUME ScheduleInv,
         \/ ScannerExits \/ ScannerRestarts \/ AppRestarts \/ DeleteRow
         \/ \E t \in reports : ReportArrives(t)
         \/ UNCHANGED scheduleVars
  PROVE  ScheduleInv'
<1> USE DEF ScheduleInv
<1>1. CASE DeleteRow
  <2>1. ScheduleTypeOK'
    BY <1>1 DEF DeleteRow, ScheduleTypeOK, JobRows, Fires
  <2>2. StoredTimes'
    BY <1>1 DEF DeleteRow, StoredTimes, ScheduleIsClose, DisabledIsUnscheduled
  <2>3. RowsAreCounted'
    BY <1>1 DEF DeleteRow, RowsAreCounted
  <2> QED
    BY <2>1, <2>2, <2>3
<1>2. CASE ScannerExits \/ AppRestarts
  <2>1. ScheduleTypeOK'
    BY <1>2 DEF ScannerExits, AppRestarts, ScheduleTypeOK, NoCall
  <2>2. StoredTimes'
    BY <1>2 DEF ScannerExits, AppRestarts, StoredTimes, ScheduleIsClose, DisabledIsUnscheduled,
                NextAfter, NoCall
  <2>3. RowsAreCounted'
    BY <1>2 DEF ScannerExits, AppRestarts, RowsAreCounted
  <2> QED
    BY <2>1, <2>2, <2>3
<1>3. CASE ScannerRestarts \/ (\E t \in reports : ReportArrives(t)) \/ UNCHANGED scheduleVars
  <2>1. ScheduleTypeOK'
    BY <1>3 DEF ScannerRestarts, ReportArrives, scheduleVars, ScheduleTypeOK
  <2>2. StoredTimes'
    BY <1>3 DEF ScannerRestarts, ReportArrives, scheduleVars, StoredTimes, ScheduleIsClose,
                DisabledIsUnscheduled, NextAfter
  <2>3. RowsAreCounted'
    BY <1>3 DEF ScannerRestarts, ReportArrives, scheduleVars, RowsAreCounted
  <2> QED
    BY <2>1, <2>2, <2>3
<1> QED
  BY <1>1, <1>2, <1>3

LEMMA ScheduleInductive == ASSUME ScheduleInv, [ScheduleNext]_scheduleVars PROVE ScheduleInv'
BY TickStep, CommitStep, WriteStep, ReadStep, RestStep DEF ScheduleNext

\* The schedule of a job (schedulerUtilityHost.ts:226, scheduler/index.ts:421): however stale
\* the rows are that two processes write, no time is run twice, an enabled job keeps a next time
\* that is near, and a disabled one has none.
THEOREM ScheduleHolds ==
  ScheduleSpec => [](ScheduleTypeOK /\ OneRunPerTime /\ ScheduleIsClose /\ DisabledIsUnscheduled)
<1>1. ScheduleSpec => []ScheduleInv
  BY ScheduleInvInit, ScheduleInductive, PTL DEF ScheduleSpec
<1>2. ScheduleInv =>
        ScheduleTypeOK /\ OneRunPerTime /\ ScheduleIsClose /\ DisabledIsUnscheduled
  BY DEF ScheduleInv, StoredTimes, RowsAreCounted, OneRunPerTime
<1> QED
  BY <1>1, <1>2, PTL

-----------------------------------------------------------------------------
(* The utility process.                                                    *)

ProcessInv == ProcessTypeOK /\ CurrentHostIsAlive

\* No attempt is a number of attempts within the limit.
LEMMA NoAttempts == 0 \in 0..MaxRestartAttempts
BY MaxRestartAttemptsAssumption

LEMMA ProcessInvInit == ProcessInit => ProcessInv
BY NoAttempts DEF ProcessInit, ProcessInv, ProcessTypeOK, CurrentHostIsAlive

\* Reconciliation touches a process only to begin a spawn, and then there is no current one.
LEMMA ReconciledStep ==
  ASSUME ProcessInv, NEW timed \in BOOLEAN, Reconciled(timed), host' = host,
         enabledJobs' = enabledJobs
  PROVE  /\ hostReady' \in Hosts \cup {NoHost}
         /\ process' \in [Hosts -> {"fresh", "spawning", "alive", "dead"}]
         /\ byTimer' \subseteq Hosts /\ shuttingDown' \in BOOLEAN /\ idleStopTimer' \in BOOLEAN
         /\ CurrentHostIsAlive'
BY DEF Reconciled, ProcessInv, ProcessTypeOK, CurrentHostIsAlive

\* The restarts that are counted stay within their limit.
LEMMA AttemptsStep ==
  ASSUME ProcessInv, ScheduleRestart(restartAttempts)
  PROVE  restartAttempts' \in 0..MaxRestartAttempts /\ restartTimer' \in BOOLEAN
<1>1. restartAttempts \in 0..MaxRestartAttempts /\ restartTimer \in BOOLEAN
  BY DEF ProcessInv, ProcessTypeOK
<1>2. CASE restartTimer \/ restartAttempts >= MaxRestartAttempts
  BY <1>1, <1>2 DEF ScheduleRestart
<1>3. CASE ~(restartTimer \/ restartAttempts >= MaxRestartAttempts)
  <2>1. restartAttempts + 1 \in 0..MaxRestartAttempts
    BY <1>1, <1>3, MaxRestartAttemptsAssumption
  <2> QED
    BY <1>3, <2>1 DEF ScheduleRestart
<1> QED
  BY <1>2, <1>3

LEMMA ProcessInductive == ASSUME ProcessInv, [ProcessNext]_processVars PROVE ProcessInv'
<1> USE DEF ProcessInv
<1>1. CASE Reconcile \/ RestartTimerFires
  BY <1>1, ReconciledStep DEF Reconcile, RestartTimerFires, ProcessTypeOK
<1>2. CASE Stop \/ IdleStopTimerFires \/ RestartManager
  <2>1. ProcessTypeOK'
    BY <1>2, NoAttempts
       DEF Stop, Stopped, IdleStopTimerFires, RestartManager, ProcessTypeOK
  <2>2. CurrentHostIsAlive'
    BY <1>2 DEF Stop, Stopped, IdleStopTimerFires, RestartManager, CurrentHostIsAlive
  <2> QED
    BY <2>1, <2>2
<1>3. CASE IdleReported \/ JobsChange \/ UNCHANGED processVars
  BY <1>3 DEF IdleReported, JobsChange, processVars, ProcessTypeOK, CurrentHostIsAlive
<1>4. ASSUME NEW h \in Hosts, Spawned(h) PROVE ProcessInv'
  BY <1>4, MaxRestartAttemptsAssumption DEF Spawned, ProcessTypeOK, CurrentHostIsAlive
<1>5. ASSUME NEW h \in Hosts, SpawnFails(h) PROVE ProcessInv'
  <2>1. restartAttempts' \in 0..MaxRestartAttempts /\ restartTimer' \in BOOLEAN
    BY <1>5, AttemptsStep DEF SpawnFails, ProcessTypeOK
  <2> QED
    BY <1>5, <2>1 DEF SpawnFails, ProcessTypeOK, CurrentHostIsAlive
<1>6. ASSUME NEW h \in Hosts, HostExits(h) PROVE ProcessInv'
  <2>1. restartAttempts' \in 0..MaxRestartAttempts /\ restartTimer' \in BOOLEAN
    BY <1>6, AttemptsStep DEF HostExits, ProcessTypeOK
  <2> QED
    BY <1>6, <2>1, NoHostAssumption DEF HostExits, ProcessTypeOK, CurrentHostIsAlive
<1> QED
  BY <1>1, <1>2, <1>3, <1>4, <1>5, <1>6 DEF ProcessNext

\* The utility process (schedulerProcessManager.ts:163): through stops during a spawn, spawns
\* beside each other and late exits, commands are posted to a live process.
THEOREM ProcessHolds == ProcessSpec => [](ProcessTypeOK /\ CurrentHostIsAlive)
<1>1. ProcessSpec => []ProcessInv
  BY ProcessInvInit, ProcessInductive, PTL DEF ProcessSpec
<1> QED
  BY <1>1, PTL DEF ProcessInv

-----------------------------------------------------------------------------
(* The scheduler.                                                          *)

\* A behaviour of the scheduler is a behaviour of each of its parts.
LEMMA EachPartIsThere ==
  SchedulerInit /\ [][SchedulerNext]_schedulerVars => Spec /\ ScheduleSpec /\ ProcessSpec
<1>1. SchedulerInit => Init /\ ScheduleInit /\ ProcessInit
  BY DEF SchedulerInit
<1>2. [SchedulerNext]_schedulerVars =>
        [Next]_vars /\ [ScheduleNext]_scheduleVars /\ [ProcessNext]_processVars
  BY DEF SchedulerNext, schedulerVars
<1> QED
  BY <1>1, <1>2, PTL DEF Spec, ScheduleSpec, ProcessSpec

\* The schedule and the process that scans it, as the scheduler runs them, with the types of
\* all three parts.
THEOREM SchedulerIsConsistent == SchedulerSpec => []Consistent
<1>1. SchedulerSpec => Spec /\ ScheduleSpec /\ ProcessSpec
  BY EachPartIsThere, PTL DEF SchedulerSpec
<1>2. /\ TypeOK
      /\ ScheduleTypeOK /\ OneRunPerTime /\ ScheduleIsClose /\ DisabledIsUnscheduled
      /\ ProcessTypeOK /\ CurrentHostIsAlive
      => Consistent
  BY DEF Consistent, SchedulerTypeOK
<1> QED
  BY <1>1, <1>2, RunTypeCorrect, ScheduleHolds, ProcessHolds, PTL

\* What is proved of the runs holds of them in the scheduler.
THEOREM SchedulerRunsHold ==
  SchedulerSpec => [](OneActiveRun /\ RunIsWatched /\ DeliveredOnce) /\ TerminalIsFinal
<1>1. SchedulerSpec => Spec
  BY EachPartIsThere, PTL DEF SchedulerSpec
<1> QED
  BY <1>1, JobRunsOnce, RunsAreWatched, ResultsAreDeliveredOnce, EndsAreFinal, PTL
=============================================================================
