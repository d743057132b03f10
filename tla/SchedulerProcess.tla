------------------------- MODULE SchedulerProcess --------------------------
(***************************************************************************)
(* SchedulerProcessManager (scheduler/schedulerProcessManager.ts): the     *)
(* main process keeps one utility process for the scheduler while jobs are *)
(* enabled, starts it again when it exits, and stops it when no job is     *)
(* left, on a restart and on shutdown.  Spawning a process is awaited.     *)
(***************************************************************************)
EXTENDS Naturals, FiniteSets

CONSTANTS
  Hosts,          \* bound: the processes that are ever spawned
  NoHost,
  MaxRestartAttempts

ASSUME NoHostAssumption == NoHost \notin Hosts
ASSUME MaxRestartAttemptsAssumption == MaxRestartAttempts \in Nat

VARIABLES
  enabledJobs,      \* whether the snapshot counts an enabled job
  host, hostReady,  \* the current process; the spawn that ensureHost awaits
  process,          \* fresh; spawning; alive; dead
  byTimer,          \* the spawns whose caller is the restart timer
  shuttingDown,
  restartAttempts, restartTimer, idleStopTimer

processVars == <<enabledJobs, host, hostReady, process, byTimer, shuttingDown, restartAttempts,
          restartTimer, idleStopTimer>>

ProcessInit ==
  /\ enabledJobs \in BOOLEAN
  /\ host = NoHost /\ hostReady = NoHost
  /\ process = [h \in Hosts |-> "fresh"] /\ byTimer = {}
  /\ shuttingDown = FALSE
  /\ restartAttempts = 0 /\ restartTimer = FALSE /\ idleStopTimer = FALSE

\* reconcile up to the await of ensureHost, which spawns unless a process is there or
\* on its way. timed: the call of the restart timer.
Reconciled(timed) ==
  /\ \/ /\ ~enabledJobs
        /\ idleStopTimer' = (idleStopTimer \/ host # NoHost)
        /\ UNCHANGED <<hostReady, process, byTimer, shuttingDown>>
     \/ /\ enabledJobs /\ (host # NoHost \/ hostReady # NoHost)
        /\ idleStopTimer' = FALSE
        /\ byTimer' = IF timed /\ host = NoHost THEN byTimer \cup {hostReady} ELSE byTimer
        /\ UNCHANGED <<hostReady, process, shuttingDown>>
     \/ /\ enabledJobs /\ host = NoHost /\ hostReady = NoHost
        /\ idleStopTimer' = FALSE
        /\ shuttingDown' = FALSE
        /\ \E h \in Hosts :
             /\ process[h] = "fresh"
             /\ hostReady' = h
             /\ process' = [process EXCEPT ![h] = "spawning"]
             /\ byTimer' = IF timed THEN byTimer \cup {h} ELSE byTimer

Reconcile ==
  /\ Reconciled(FALSE)
  /\ UNCHANGED <<enabledJobs, host, restartAttempts, restartTimer>>

\* spawnHost goes on, and the finally of ensureHost forgets whatever spawn is awaited.
Spawned(h) ==
  /\ process[h] = "spawning"
  /\ process' = [process EXCEPT ![h] = "alive"]
  /\ host' = h /\ hostReady' = NoHost
  /\ restartAttempts' = 0
  /\ byTimer' = byTimer \ {h}
  /\ UNCHANGED <<enabledJobs, shuttingDown, restartTimer, idleStopTimer>>

\* scheduleRestart
ScheduleRestart(attempts) ==
  IF restartTimer \/ attempts >= MaxRestartAttempts
    THEN restartAttempts' = attempts /\ UNCHANGED restartTimer
    ELSE restartAttempts' = attempts + 1 /\ restartTimer' = TRUE

\* The process exits before it has started: the callers are told, and the timer among
\* them tries again.
SpawnFails(h) ==
  /\ process[h] = "spawning"
  /\ process' = [process EXCEPT ![h] = "dead"]
  /\ hostReady' = NoHost
  /\ byTimer' = byTimer \ {h}
  /\ IF h \in byTimer THEN ScheduleRestart(restartAttempts)
                      ELSE UNCHANGED <<restartAttempts, restartTimer>>
  /\ UNCHANGED <<enabledJobs, host, shuttingDown, idleStopTimer>>

\* handleHostExit
HostExits(h) ==
  /\ process[h] = "alive"
  /\ process' = [process EXCEPT ![h] = "dead"]
  /\ IF host = h
       THEN /\ host' = NoHost /\ hostReady' = NoHost
            /\ IF shuttingDown \/ ~enabledJobs THEN UNCHANGED <<restartAttempts, restartTimer>>
                                               ELSE ScheduleRestart(restartAttempts)
       ELSE UNCHANGED <<host, hostReady, restartAttempts, restartTimer>>
  /\ UNCHANGED <<enabledJobs, byTimer, shuttingDown, idleStopTimer>>

RestartTimerFires ==
  /\ restartTimer
  /\ restartTimer' = FALSE
  /\ Reconciled(TRUE)
  /\ UNCHANGED <<enabledJobs, host, restartAttempts>>

\* stop: the process is told and killed.
Stopped ==
  /\ shuttingDown' = TRUE
  /\ restartTimer' = FALSE /\ idleStopTimer' = FALSE
  /\ host' = NoHost /\ hostReady' = NoHost
  /\ process' = [h \in Hosts |-> IF h = host /\ process[h] = "alive" THEN "dead" ELSE process[h]]

Stop == Stopped /\ UNCHANGED <<enabledJobs, byTimer, restartAttempts>>

\* A mutant: the reports of a process are not looked at after a stop.
IdleReportedBeforeStop ==
  /\ host # NoHost /\ ~enabledJobs /\ ~idleStopTimer /\ ~shuttingDown
  /\ idleStopTimer' = TRUE
  /\ UNCHANGED <<enabledJobs, host, hostReady, process, byTimer, shuttingDown, restartAttempts,
                 restartTimer>>

\* scheduleIdleStop: HEARTBEAT and IDLE of a process that finds no enabled job set the timer.
IdleReported ==
  /\ host # NoHost /\ ~enabledJobs /\ ~idleStopTimer
  /\ idleStopTimer' = TRUE
  /\ UNCHANGED <<enabledJobs, host, hostReady, process, byTimer, shuttingDown, restartAttempts,
                 restartTimer>>

IdleStopTimerFires ==
  /\ idleStopTimer
  /\ IF enabledJobs
       THEN idleStopTimer' = FALSE
            /\ UNCHANGED <<shuttingDown, restartTimer, host, hostReady, process>>
       ELSE Stopped
  /\ UNCHANGED <<enabledJobs, byTimer, restartAttempts>>

\* restart: it stops and resets; the reconciliation that follows is Reconcile.
RestartManager ==
  /\ process' = [h \in Hosts |-> IF h = host /\ process[h] = "alive" THEN "dead" ELSE process[h]]
  /\ host' = NoHost /\ hostReady' = NoHost
  /\ shuttingDown' = FALSE
  /\ restartAttempts' = 0 /\ restartTimer' = FALSE /\ idleStopTimer' = FALSE
  /\ UNCHANGED <<enabledJobs, byTimer>>

JobsChange ==
  /\ enabledJobs' = ~enabledJobs
  /\ UNCHANGED <<host, hostReady, process, byTimer, shuttingDown, restartAttempts, restartTimer,
                 idleStopTimer>>

ProcessNext ==
  \/ Reconcile \/ RestartTimerFires \/ Stop \/ RestartManager
  \/ IdleReported \/ IdleStopTimerFires \/ JobsChange
  \/ \E h \in Hosts : Spawned(h) \/ SpawnFails(h) \/ HostExits(h)

ProcessSpec == ProcessInit /\ [][ProcessNext]_processVars

\* Timers fire, a process reports on every heartbeat, a spawn ends.
ProcessFairness ==
  /\ WF_processVars(IdleReported) /\ WF_processVars(IdleStopTimerFires)
  /\ \A h \in Hosts : WF_processVars(Spawned(h) \/ SpawnFails(h))
-----------------------------------------------------------------------------
\* Types of the process manager.
ProcessTypeOK ==
  /\ enabledJobs \in BOOLEAN 
  /\ host \in Hosts \cup {NoHost} /\ hostReady \in Hosts \cup {NoHost}
  /\ process \in [Hosts -> {"fresh", "spawning", "alive", "dead"}]
  /\ byTimer \subseteq Hosts
  /\ shuttingDown \in BOOLEAN /\ restartTimer \in BOOLEAN /\ idleStopTimer \in BOOLEAN
  /\ restartAttempts \in 0..MaxRestartAttempts

\* The process that commands are posted to is alive, through spawns that end after a stop
\* and exits that arrive late.
CurrentHostIsAlive == host # NoHost => process[host] = "alive"

\* Without enabled jobs the process is stopped in the end, also one whose spawn was under
\* way when the manager was stopped.
IdleProcessEnds == <>[](~enabledJobs) => <>[](host = NoHost)
=============================================================================
