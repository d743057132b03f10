--------------------------- MODULE ScheduledRuns ---------------------------
(***************************************************************************)
(* The runs of cron jobs, from the queued row to the terminal row and its  *)
(* delivery (scheduler/runExecutor.ts, processDueRun of scheduler/index.ts *)
(* and the run table).  Every run gets a detached session; the executor    *)
(* follows the session through the status updates it publishes.            *)
(***************************************************************************)
EXTENDS Naturals, FiniteSets

CONSTANTS
  Runs, Jobs,
  JobOf,          \* the job of a run
  QueuePolicy,    \* the jobs with concurrencyPolicy 'queue'; the others skip
  TimeLimited,    \* whether the jobs have a maxDurationMs
  Stops           \* whether the scheduler is stopped and started, or the app killed

ASSUME JobOfIsFunction == JobOf \in [Runs -> Jobs] /\ QueuePolicy \subseteq Jobs
ASSUME RunsAreFinite == IsFiniteSet(Runs)
ASSUME SwitchesAssumption == TimeLimited \in BOOLEAN /\ Stops \in BOOLEAN

VARIABLES
  row,            \* the status of the row of a run; none before it exists, gone once deleted
  exec,           \* where processDueRun and execute are with a run
  session,        \* the session of a run
  activeSessions, \* the runs whose session the executor follows, with their timer
  timeouts,       \* the runs whose expiry waits for cancelSessionRun
  delivered       \* how often the result of a run was handed to the delivery router

vars == <<row, exec, session, activeSessions, timeouts, delivered>>

Terminal == {"completed", "failed", "cancelled"}

Init ==
  /\ row = [r \in Runs |-> "none"] /\ exec = [r \in Runs |-> "idle"]
  /\ session = [r \in Runs |-> "none"]
  /\ activeSessions = {} /\ timeouts = {}
  /\ delivered = [r \in Runs |-> 0]

JobExists(j) == \A r \in Runs : JobOf[r] = j => row[r] # "gone"

Deliver(r) == delivered' = [delivered EXCEPT ![r] = @ + 1]

\* The scan of the utility process or runNow inserts the row and reports it.
QueueRun(r) ==
  /\ row[r] = "none" /\ JobExists(JobOf[r])
  /\ row' = [row EXCEPT ![r] = "queued"]
  /\ exec' = [exec EXCEPT ![r] = "due"]
  /\ UNCHANGED <<session, activeSessions, timeouts, delivered>>

\* assertRunnable throws: the run fails without having been claimed.
RunRejected(r) ==
  /\ exec[r] = "due" /\ row[r] # "gone"
  /\ row' = [row EXCEPT ![r] = "failed"]
  /\ exec' = [exec EXCEPT ![r] = "over"]
  /\ Deliver(r)
  /\ UNCHANGED <<session, activeSessions, timeouts>>

\* A mutant: only the runs whose session is followed count as active.
OthersFollowed(r) == {q \in activeSessions \ {r} : JobOf[q] = JobOf[r] /\ row[q] = "running"}

\* countActiveByJob
OthersActive(r) == {q \in Runs \ {r} : JobOf[q] = JobOf[r] /\ row[q] = "running"}

\* The utility process exits before its report arrives; nothing reports the row again.
ReportLost(r) ==
  /\ Stops /\ exec[r] = "due"
  /\ exec' = [exec EXCEPT ![r] = "over"]
  /\ UNCHANGED <<row, session, activeSessions, timeouts, delivered>>

\* claimRun, the count of active runs and what the policy makes of it, in one step.
Claim(r) ==
  /\ exec[r] = "due"
  /\ \/ /\ row[r] # "queued"
        /\ exec' = [exec EXCEPT ![r] = "over"] /\ UNCHANGED row
     \/ /\ row[r] = "queued" /\ OthersActive(r) = {}
        /\ row' = [row EXCEPT ![r] = "running"]
        /\ exec' = [exec EXCEPT ![r] = "creating"]
     \/ /\ row[r] = "queued" /\ OthersActive(r) # {}
        /\ row' = [row EXCEPT ![r] = IF JobOf[r] \in QueuePolicy THEN "queued" ELSE "cancelled"]
        /\ exec' = [exec EXCEPT ![r] = "over"]
  /\ UNCHANGED <<session, activeSessions, timeouts, delivered>>

\* createSessionForRun has returned. Without its row the run cannot note the session, and
\* the session stays behind.
SessionCreated(r) ==
  /\ exec[r] = "creating"
  /\ session' = [session EXCEPT ![r] = "created"]
  /\ IF row[r] = "gone"
       THEN exec' = [exec EXCEPT ![r] = "over"] /\ UNCHANGED activeSessions
       ELSE /\ exec' = [exec EXCEPT ![r] = "starting"]
            /\ activeSessions' = activeSessions \cup {r}
  /\ UNCHANGED <<row, timeouts, delivered>>

\* A mutant: a run that has a session is left to its session.
ExecuteFailsQuietly(r) ==
  /\ exec[r] = "creating" \/ (exec[r] = "starting" /\ session[r] = "created")
  /\ exec' = [exec EXCEPT ![r] = "over"]
  /\ activeSessions' = activeSessions \ {r}
  /\ IF row[r] = "running" /\ session[r] = "none"
       THEN row' = [row EXCEPT ![r] = "failed"] /\ Deliver(r)
       ELSE UNCHANGED <<row, delivered>>
  /\ UNCHANGED <<session, timeouts>>

\* The catch of execute: a run that is still running fails and is delivered.
ExecuteFails(r) ==
  /\ exec[r] = "creating" \/ (exec[r] = "starting" /\ session[r] = "created")
  /\ exec' = [exec EXCEPT ![r] = "over"]
  /\ activeSessions' = activeSessions \ {r}
  /\ IF row[r] = "running" THEN row' = [row EXCEPT ![r] = "failed"] /\ Deliver(r)
                           ELSE UNCHANGED <<row, delivered>>
  /\ UNCHANGED <<session, timeouts>>

\* Inside startSessionRun the turn of the session begins; the call returns once it has.
SessionWorks(r) ==
  /\ exec[r] = "starting" /\ session[r] = "created"
  /\ session' = [session EXCEPT ![r] = "working"]
  /\ UNCHANGED <<row, exec, activeSessions, timeouts, delivered>>

\* A mutant: the session is followed only until it has accepted the prompt.
SendAcceptedUnfollowed(r) ==
  /\ exec[r] = "starting" /\ session[r] \in {"working", "ended"}
  /\ exec' = [exec EXCEPT ![r] = "over"]
  /\ activeSessions' = activeSessions \ {r}
  /\ UNCHANGED <<row, session, timeouts, delivered>>

SendAccepted(r) ==
  /\ exec[r] = "starting" /\ session[r] \in {"working", "ended"}
  /\ exec' = [exec EXCEPT ![r] = "over"]
  /\ activeSessions' = IF row[r] = "gone" THEN activeSessions \ {r} ELSE activeSessions
  /\ UNCHANGED <<row, session, timeouts, delivered>>

\* A mutant: the run takes the status of its session whatever its own status is.
SessionUpdateUnguarded(r, status) ==
  /\ session[r] = "working"
  /\ session' = [session EXCEPT ![r] = "ended"]
  /\ activeSessions' = activeSessions \ {r}
  /\ IF r \in activeSessions THEN row' = [row EXCEPT ![r] = status] /\ Deliver(r)
                             ELSE UNCHANGED <<row, delivered>>
  /\ UNCHANGED <<exec, timeouts>>

\* completeRun and failRun: the session reports idle or error.
SessionUpdate(r, status) ==
  /\ session[r] = "working"
  /\ session' = [session EXCEPT ![r] = "ended"]
  /\ activeSessions' = activeSessions \ {r}
  /\ IF r \in activeSessions /\ row[r] = "running"
       THEN row' = [row EXCEPT ![r] = status] /\ Deliver(r)
       ELSE UNCHANGED <<row, delivered>>
  /\ UNCHANGED <<exec, timeouts>>

\* A mutant: the run is marked once the session is cancelled, and followed until then.
TimeoutFiresFirst(r) ==
  /\ TimeLimited /\ r \in activeSessions \ timeouts
  /\ row[r] = "running"
  /\ timeouts' = timeouts \cup {r}
  /\ UNCHANGED <<row, activeSessions, exec, session, delivered>>

\* failRunForTimeout up to the call of cancelSessionRun.
TimeoutFires(r) ==
  /\ TimeLimited /\ r \in activeSessions
  /\ activeSessions' = activeSessions \ {r}
  /\ IF row[r] = "running"
       THEN /\ row' = [row EXCEPT ![r] = "failed"]
            /\ timeouts' = timeouts \cup {r}
       ELSE UNCHANGED <<row, timeouts>>
  /\ UNCHANGED <<exec, session, delivered>>

\* cancelSessionRun has returned or failed, and the result is delivered.
SessionCancelled(r) ==
  /\ r \in timeouts
  /\ timeouts' = timeouts \ {r}
  /\ \/ session' = [session EXCEPT ![r] = IF @ = "working" THEN "ended" ELSE @]
     \/ UNCHANGED session
  /\ Deliver(r)
  /\ UNCHANGED <<row, exec, activeSessions>>

DeleteJob(j) ==
  /\ JobExists(j)
  /\ row' = [r \in Runs |-> IF JobOf[r] = j THEN "gone" ELSE row[r]]
  /\ UNCHANGED <<exec, session, activeSessions, timeouts, delivered>>

FailRunning == [r \in Runs |-> IF row[r] = "running" THEN "failed" ELSE row[r]]

\* Database maintenance: stop, the suspension of the session runtimes, and start again,
\* which fails the rows that are running. What the executor awaits goes on.
StopAndStart ==
  /\ Stops
  /\ row' = FailRunning
  /\ session' = [r \in Runs |-> IF session[r] = "working" THEN "ended" ELSE session[r]]
  /\ UNCHANGED <<exec, activeSessions, timeouts, delivered>>

\* The app ends and starts: reports under way, the executor and the timers are gone.
RestartApp ==
  /\ Stops
  /\ row' = FailRunning
  /\ exec' = [r \in Runs |-> IF exec[r] = "idle" THEN "idle" ELSE "over"]
  /\ session' = [r \in Runs |-> IF session[r] = "working" THEN "ended" ELSE session[r]]
  /\ activeSessions' = {} /\ timeouts' = {}
  /\ UNCHANGED delivered

Execute(r) ==
  RunRejected(r) \/ Claim(r) \/ SessionCreated(r) \/ ExecuteFails(r) \/ SessionWorks(r)
    \/ SendAccepted(r)

Next ==
  \/ \E r \in Runs :
       \/ QueueRun(r) \/ ReportLost(r) \/ Execute(r) \/ TimeoutFires(r) \/ SessionCancelled(r)
       \/ \E status \in {"completed", "failed"} : SessionUpdate(r, status)
  \/ \E j \in Jobs : DeleteJob(j)
  \/ StopAndStart \/ RestartApp

Spec == Init /\ [][Next]_vars

\* Calls return, timers fire; a session need not end on its own.
RunFairness ==
  \A r \in Runs :
    /\ WF_vars(Claim(r)) /\ WF_vars(SessionCreated(r))
    /\ WF_vars(SessionWorks(r)) /\ WF_vars(SendAccepted(r))
    /\ WF_vars(TimeoutFires(r)) /\ WF_vars(SessionCancelled(r))

FairSpec == Spec /\ RunFairness
-----------------------------------------------------------------------------
\* Types of the scheduler's runs.
TypeOK ==
  /\ row \in [Runs -> {"none", "queued", "running", "gone"} \cup Terminal]
  /\ exec \in [Runs -> {"idle", "due", "creating", "starting", "over"}]
  /\ session \in [Runs -> {"none", "created", "working", "ended"}]
  /\ activeSessions \subseteq Runs /\ timeouts \subseteq Runs
  /\ delivered \in [Runs -> Nat]

\* Whatever is claimed, released, stopped or expires, a job has one run in progress.
OneActiveRun ==
  \A r, q \in Runs : row[r] = "running" /\ row[q] = "running" /\ JobOf[r] = JobOf[q] => r = q

\* Who ends a run that is in progress: its execution, or the session that is followed.
RunIsWatched ==
  \A r \in Runs : row[r] = "running" => exec[r] \in {"creating", "starting"} \/ r \in activeSessions

\* The session's report, the time limit, a failing start and a stop race for the end of a
\* run; the first wins, and the run is delivered once, never while it may still change.
DeliveredOnce ==
  \A r \in Runs : /\ delivered[r] + Cardinality(timeouts \cap {r}) <= 1
                  /\ delivered[r] = 1 => row[r] \in {"completed", "failed", "gone"}

\* A status that ends a run is never overwritten.
TerminalIsFinal == [][\A r \in Runs : row[r] \in Terminal => row'[r] \in {row[r], "gone"}]_vars

\* With a time limit every run that was claimed ends.
RunsEnd == \A r \in Runs : []<>(row[r] # "running")

\* Every run that is queued is executed or ended, as a run is for every due time.
QueuedRunEnds == \A r \in Runs : row[r] = "queued" ~> row[r] # "queued"
=============================================================================
