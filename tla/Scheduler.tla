----------------------------- MODULE Scheduler ------------------------------
(***************************************************************************)
(* The scheduler: the schedule of a job and the scan that queues its runs  *)
(* (JobSchedule), the utility process that scans (SchedulerProcess), and   *)
(* the execution of the runs (ScheduledRuns).  A part meets another one    *)
(* only in what it takes as the environment's choice: a run is queued at   *)
(* any time, the scanner exits at any time, jobs are enabled and disabled  *)
(* at any time.  So a behaviour of the scheduler is a behaviour of each    *)
(* part, and each part is explored while the others rest.                  *)
(***************************************************************************)
EXTENDS ScheduledRuns, JobSchedule, SchedulerProcess

VARIABLE part     \* the part that is looked at

schedulerVars == <<vars, scheduleVars, processVars, part>>

SchedulerInit ==
  /\ Init /\ ScheduleInit /\ ProcessInit
  /\ part \in {"runs", "schedule", "process"}
  /\ part # "process" => ~enabledJobs

SchedulerNext ==
  /\ UNCHANGED part
  /\ \/ part = "runs" /\ Next /\ UNCHANGED <<scheduleVars, processVars>>
     \/ part = "schedule" /\ ScheduleNext /\ UNCHANGED <<vars, processVars>>
     \/ part = "process" /\ ProcessNext /\ UNCHANGED <<vars, scheduleVars>>

\* Each part is as fair as its own module says; at rest none of its fair actions is enabled.
SchedulerSpec ==
  /\ SchedulerInit /\ [][SchedulerNext]_schedulerVars
  /\ RunFairness /\ ProcessFairness
-----------------------------------------------------------------------------
\* Every variable keeps its type, whichever part is at work.
SchedulerTypeOK == TypeOK /\ ScheduleTypeOK /\ ProcessTypeOK

\* The schedule of the job and the process that scans it are what their readers take them
\* for, whatever stale row or late event was written last: no time is run twice, an enabled
\* job keeps a next time that is near, a disabled one has none.
Consistent ==
  /\ SchedulerTypeOK /\ OneRunPerTime
  /\ ScheduleIsClose /\ DisabledIsUnscheduled /\ CurrentHostIsAlive
=============================================================================
