---------------------------- MODULE JobSchedule ----------------------------
(***************************************************************************)
(* The schedule of one cron job, which two processes write: the utility    *)
(* process scans for due jobs and queues their runs                        *)
(* (scheduler/schedulerUtilityHost.ts), the main process stores what the   *)
(* user changes and reconciles the stored schedules (scheduler/index.ts).  *)
(* The main process reads a row, awaits the state of its agent, and writes *)
(* the whole row.  Times are ticks; the cron expression fires at the       *)
(* multiples of Period.                                                    *)
(***************************************************************************)
EXTENDS Naturals, FiniteSetsExt

CONSTANTS
  Period, Grace,        \* Grace: DEFAULT_DUE_GRACE_MS
  Policy, MaxCatchUp,   \* misfirePolicy and maxCatchUpRuns of the job
  Calls, NoTime,
  MaxTime               \* bound: the last tick

ASSUME TimesAssumption ==
  Period \in Nat \ {0} /\ Grace \in Nat /\ MaxTime \in Nat /\ MaxCatchUp \in Nat \ {0}
ASSUME PolicyAssumption == Policy \in {"skip", "run_once"}
ASSUME NoTimeIsNoTick == NoTime \notin Nat

VARIABLES
  now,
  job,        \* its row: exists, enabled, nextRunAt
  runs,       \* the times whose run has a row
  queued,     \* how often a run was inserted for a time
  scanner,       \* the utility process: up; exited; off after a start of the app
  scan,       \* the due row a scan has read, before its transaction
  reports,    \* the RUN_DUE messages under way
  call        \* what a call to the scheduler service has read

scheduleVars == <<now, job, runs, queued, scanner, scan, reports, call>>

Fires == {t \in 1..MaxTime : t % Period = 0}
NextAfter(t) == (t \div Period + 1) * Period

NoCall == [kind |-> "none", seen |-> NoTime, at |-> 0]

ScheduleInit ==
  /\ now = 0
  /\ job = [exists |-> TRUE, enabled |-> TRUE, nextRunAt |-> Period]
  /\ runs = {} /\ queued = [t \in Fires |-> 0]
  /\ scanner = "up" /\ scan = NoTime /\ reports = {}
  /\ call = [c \in Calls |-> NoCall]

Tick ==
  /\ now < MaxTime
  /\ now' = now + 1
  /\ UNCHANGED <<job, runs, queued, scanner, scan, reports, call>>
-----------------------------------------------------------------------------
\* reconcileDueRun: the times that are run for a job that was due at `due`.
ScheduledAts(due, at) ==
  LET missed == {t \in Fires : due <= t /\ t <= at} IN
  CASE Policy = "run_once" -> {t \in missed : Cardinality({u \in missed : u < t}) < MaxCatchUp}
    [] Policy = "skip" /\ at - due <= Grace -> {due}
    [] OTHER -> {}

ScanReads ==
  /\ scanner = "up" /\ scan = NoTime
  /\ job.exists /\ job.enabled /\ job.nextRunAt # NoTime /\ job.nextRunAt <= now
  /\ scan' = [due |-> job.nextRunAt, at |-> now]
  /\ UNCHANGED <<now, job, runs, queued, scanner, reports, call>>

\* A mutant: the next time is stored whatever the row says now.
ScanCommitsBlindly ==
  LET new == ScheduledAts(scan.due, scan.at) \ runs IN
  /\ scan # NoTime
  /\ scan' = NoTime
  /\ runs' = runs \cup new
  /\ queued' = [t \in Fires |-> queued[t] + (IF t \in new THEN 1 ELSE 0)]
  /\ reports' = reports \cup new
  /\ job' = [job EXCEPT !.nextRunAt = IF job.exists THEN NextAfter(scan.at) ELSE @]
  /\ UNCHANGED <<now, scanner, call>>

\* The transaction of scanDueRuns: INSERT OR IGNORE, and the next time only if the row
\* still has the one that was read. Then the inserted runs are reported.
ScanCommits ==
  LET new == ScheduledAts(scan.due, scan.at) \ runs IN
  /\ scan # NoTime
  /\ scan' = NoTime
  /\ runs' = runs \cup new
  /\ queued' = [t \in Fires |-> queued[t] + (IF t \in new THEN 1 ELSE 0)]
  /\ reports' = reports \cup new
  /\ job' = [job EXCEPT !.nextRunAt = IF job.exists /\ @ = scan.due THEN NextAfter(scan.at) ELSE @]
  /\ UNCHANGED <<now, scanner, call>>

ReportArrives(t) ==
  /\ t \in reports
  /\ reports' = reports \ {t}
  /\ UNCHANGED <<now, job, runs, queued, scanner, scan, call>>

ScannerExits ==
  /\ scanner = "up"
  /\ scanner' = "exited" /\ scan' = NoTime /\ reports' = {}
  /\ UNCHANGED <<now, job, runs, queued, call>>

ScannerRestarts ==
  /\ scanner = "exited" /\ job.exists /\ job.enabled
  /\ scanner' = "up"
  /\ UNCHANGED <<now, job, runs, queued, scan, reports, call>>

AppRestarts ==
  /\ scanner' = "off" /\ scan' = NoTime /\ reports' = {}
  /\ call' = [c \in Calls |-> NoCall]
  /\ UNCHANGED <<now, job, runs, queued>>
-----------------------------------------------------------------------------
\* A call reads the row and awaits computeJobState. kind: reconcile, or the value that
\* toggle is to set.
CallReads(c, kind) ==
  /\ call[c] = NoCall /\ job.exists
  /\ call' = [call EXCEPT ![c] = [kind |-> kind, seen |-> job, at |-> now]]
  /\ UNCHANGED <<now, job, runs, queued, scanner, scan, reports>>

Computed(enabled, at) ==
  [exists |-> TRUE, enabled |-> enabled, nextRunAt |-> IF enabled THEN NextAfter(at) ELSE NoTime]

\* reconcileStoredSchedules writes what it read with the state computed for it, if that
\* differs; then the utility process is made to run.
ReconcileWrites(c) ==
  LET computed == Computed(call[c].seen.enabled, call[c].at) IN
  /\ call[c].kind = "reconcile"
  /\ job' = IF computed = call[c].seen THEN job ELSE computed
  /\ scanner' = IF job'.exists /\ job'.enabled THEN "up" ELSE scanner
  /\ call' = [call EXCEPT ![c] = NoCall]
  /\ UNCHANGED <<now, runs, queued, scan, reports>>

\* toggle writes the row it read with the new value, and then reconciles.
ToggleWrites(c) ==
  LET written == Computed(call[c].kind = "on", call[c].at) IN
  /\ call[c].kind \in {"on", "off"}
  /\ job' = written
  /\ call' = [call EXCEPT ![c] = [kind |-> "reconcile", seen |-> written, at |-> now]]
  /\ UNCHANGED <<now, runs, queued, scanner, scan, reports>>

DeleteRow ==
  /\ job.exists
  /\ job' = [exists |-> FALSE, enabled |-> FALSE, nextRunAt |-> NoTime]
  /\ runs' = {} /\ queued' = [t \in Fires |-> 0]
  /\ UNCHANGED <<now, scanner, scan, reports, call>>

ScheduleNext ==
  \/ Tick \/ ScanReads \/ ScanCommits \/ ScannerExits \/ ScannerRestarts \/ AppRestarts
  \/ \E t \in reports : ReportArrives(t)
  \/ \E c \in Calls : ReconcileWrites(c) \/ ToggleWrites(c)
                      \/ \E kind \in {"reconcile", "on", "off"} : CallReads(c, kind)
  \/ DeleteRow

ScheduleSpec == ScheduleInit /\ [][ScheduleNext]_scheduleVars
-----------------------------------------------------------------------------
JobRows == [exists : BOOLEAN, enabled : BOOLEAN, nextRunAt : Nat \cup {NoTime}]

\* Types of the schedule.
ScheduleTypeOK ==
  /\ now \in 0..MaxTime
  /\ job \in JobRows
  /\ runs \subseteq Fires /\ queued \in [Fires -> Nat]
  /\ scanner \in {"up", "exited", "off"}
  /\ scan \in [due : Nat, at : Nat] \cup {NoTime}
  /\ reports \subseteq Fires
  /\ call \in [Calls -> [kind : {"none", "reconcile", "on", "off"},
                         seen : JobRows \cup {NoTime}, at : Nat]]

\* However stale the rows are that the main process writes back, a time of the schedule
\* gets one run at most.
OneRunPerTime == \A t \in Fires : queued[t] <= 1

\* An enabled job always has a next time, and it is not behind a time still to come.
ScheduleIsClose ==
  job.enabled => job.nextRunAt # NoTime /\ job.nextRunAt <= NextAfter(now)

\* A scan that has read a job which is disabled or deleted meanwhile does not schedule it.
DisabledIsUnscheduled == ~job.enabled => job.nextRunAt = NoTime
=============================================================================
