-------------------------- MODULE StartupWorkload --------------------------
(***************************************************************************)
(* StartupWorkloadCoordinator (src/main/app/startupWorkloadCoordinator):   *)
(* startup work in two lanes, processor and disk, in runs of a target (the *)
(* main window, the settings window) that are replaced and cancelled as a  *)
(* whole.  A task is one call of scheduleTask.                             *)
(*                                                                         *)
(* st[t]: new; pending; running; aborted (its run was cancelled, its work  *)
(* has not returned yet); over; joined (it got the promise of a task with  *)
(* the same key).                                                          *)
(***************************************************************************)
EXTENDS Naturals, FiniteSets

CONSTANTS
  Tasks, Targets, None,
  Target, Phase, Resource, Key,   \* functions of a task
  Nested,     \* the task that the work of a task schedules and awaits, or None
  MaxRuns     \* bound: the runs an instance creates

Resources == {"cpu", "io"}
MaxConcurrency == [cpu |-> 1, io |-> 2]
Priority == [interactive |-> 0, deferred |-> 1, background |-> 2]

ASSUME TasksAreFinite == IsFiniteSet(Tasks) /\ None \notin Tasks
ASSUME AttributesAssumption ==
  /\ Target \in [Tasks -> Targets]
  /\ Phase \in [Tasks -> {"interactive", "deferred", "background"}]
  /\ Resource \in [Tasks -> Resources]
  /\ Nested \in [Tasks -> Tasks \cup {None}]
ASSUME MaxRunsAssumption == MaxRuns \in Nat

VARIABLES
  run, runSequence,     \* the current run of a target, 0 without one
  st, runOf,
  pendingTasks,         \* the tasks that wait, each with its sequence number
  sequence,             \* the last sequence number given
  follows,              \* the task whose promise a caller holds
  promise,
  runningCounts,
  inFlight              \* inFlightByDedupeKey

queue == <<pendingTasks, sequence>>
vars == <<run, runSequence, st, runOf, queue, follows, promise, runningCounts, inFlight>>

Init ==
  /\ run = [g \in Targets |-> 0] /\ runSequence = 0
  /\ st = [t \in Tasks |-> "new"]
  /\ runOf = [t \in Tasks |-> 0]
  /\ pendingTasks = [t \in {} |-> 0] /\ sequence = 0
  /\ follows = [t \in Tasks |-> t]
  /\ promise = [t \in Tasks |-> "open"]
  /\ runningCounts = [r \in Resources |-> 0]
  /\ inFlight = {}

Settled(t) == promise[follows[t]] # "open"

IsIdle == DOMAIN pendingTasks = {} /\ \A r \in Resources : runningCounts[r] = 0

\* removePendingTask, for each of some tasks.
Without(waiting, gone) == [t \in DOMAIN waiting \ gone |-> waiting[t]]

\* The order of pickNextTask: by phase, then by sequence number.
Before(t, u, waiting) ==
  \/ Priority[Phase[t]] < Priority[Phase[u]]
  \/ Phase[t] = Phase[u] /\ waiting[t] < waiting[u]

Ahead(t, waiting) ==
  {u \in DOMAIN waiting : Resource[u] = Resource[t] /\ Before(u, t, waiting)}

HasPlace(t, waiting, counts) ==
  counts[Resource[t]] + Cardinality(Ahead(t, waiting)) < MaxConcurrency[Resource[t]]

\* A mutant: interactive tasks wait for a place as the others do.
PickedInTurn(waiting, counts) == {t \in DOMAIN waiting : HasPlace(t, waiting, counts)}

\* What pump starts: it picks until nothing fits, which is every interactive task and
\* every other one that finds a place in its lane behind those before it.
Picked(waiting, counts) ==
  {t \in DOMAIN waiting : Phase[t] = "interactive" \/ HasPlace(t, waiting, counts)}

Pump(state, waiting, counts) ==
  LET picked == Picked(waiting, counts) IN
  /\ st' = [t \in Tasks |-> IF t \in picked THEN "running" ELSE state[t]]
  /\ pendingTasks' = Without(waiting, picked)
  /\ runningCounts' =
       [r \in Resources |-> counts[r] + Cardinality({t \in picked : Resource[t] = r})]

\* A task is queued with the next sequence number, and the lanes are pumped.
Push(t, state) ==
  /\ runOf' = [runOf EXCEPT ![t] = run[Target[t]]]
  /\ inFlight' = inFlight \cup {t}
  /\ sequence' = sequence + 1
  /\ Pump([state EXCEPT ![t] = "pending"],
          [u \in DOMAIN pendingTasks \cup {t} |-> IF u = t THEN sequence + 1 ELSE pendingTasks[u]],
          runningCounts)
-----------------------------------------------------------------------------
\* cancelTarget: waiting tasks leave the queue, running ones are aborted and keep their
\* place in the lane until their work returns; all are rejected at once.
Cancelled(g) ==
  {t \in Tasks : Target[t] = g /\ runOf[t] = run[g] /\ st[t] \in {"pending", "running"}}

\* A mutant: cancelling a running task ends it, and its place is given back by its return.
CancelTasksAtOnce(g) ==
  /\ st' = [t \in Tasks |-> IF t \notin Cancelled(g) THEN st[t] ELSE "over"]
  /\ pendingTasks' = Without(pendingTasks, Cancelled(g))
  /\ promise' = [t \in Tasks |-> IF t \in Cancelled(g) THEN "rejected" ELSE promise[t]]

\* A mutant: the running tasks of a run that ends are left alone.
CancelTasksWaiting(g) ==
  /\ st' = [t \in Tasks |-> IF t \in Cancelled(g) /\ st[t] = "pending" THEN "over" ELSE st[t]]
  /\ pendingTasks' = Without(pendingTasks, Cancelled(g))
  /\ promise' = [t \in Tasks |-> IF t \in Cancelled(g) /\ st[t] = "pending" THEN "rejected"
                                 ELSE promise[t]]

CancelTasks(g) ==
  /\ st' = [t \in Tasks |-> IF t \notin Cancelled(g) THEN st[t]
                            ELSE IF st[t] = "running" THEN "aborted" ELSE "over"]
  /\ pendingTasks' = Without(pendingTasks, Cancelled(g))
  /\ promise' = [t \in Tasks |-> IF t \in Cancelled(g) THEN "rejected" ELSE promise[t]]

CancelTarget(g) ==
  /\ run[g] # 0
  /\ CancelTasks(g)
  /\ run' = [run EXCEPT ![g] = 0]
  /\ UNCHANGED <<runSequence, runOf, sequence, follows, runningCounts, inFlight>>

CreateRun(g) ==
  /\ runSequence < MaxRuns
  /\ CancelTasks(g)
  /\ runSequence' = runSequence + 1
  /\ run' = [run EXCEPT ![g] = runSequence + 1]
  /\ UNCHANGED <<runOf, sequence, follows, runningCounts, inFlight>>

\* scheduleTask in the current run: a task of the same key that has not ended gives its
\* promise, otherwise the task is queued and the lanes are pumped.
Enqueue(t) ==
  LET r == run[Target[t]]
      existing == {u \in inFlight : runOf[u] = r /\ Key[u] = Key[t]}
  IN
  /\ r # 0
  /\ IF existing # {}
       THEN /\ \E u \in existing : follows' = [follows EXCEPT ![t] = follows[u]]
            /\ st' = [st EXCEPT ![t] = "joined"]
            /\ UNCHANGED <<runOf, queue, runningCounts, inFlight>>
       ELSE Push(t, st) /\ UNCHANGED follows
  /\ UNCHANGED <<run, runSequence, promise>>

\* A call for a run that has been replaced is rejected.
RejectStale(t) ==
  /\ st' = [st EXCEPT ![t] = "over"]
  /\ promise' = [promise EXCEPT ![t] = "rejected"]
  /\ UNCHANGED <<run, runSequence, runOf, queue, follows, runningCounts, inFlight>>

IsNested(t) == \E u \in Tasks : Nested[u] = t

ScheduleTask(t) ==
  /\ st[t] = "new" /\ ~IsNested(t) /\ Nested[t] = None
  /\ Enqueue(t) \/ (runSequence > 0 /\ RejectStale(t))

\* whenIdle: without work the callback begins at once, outside the lanes, and its caller
\* has the promise of what it schedules; otherwise it is itself a task.
WhenIdle(t) ==
  /\ st[t] = "new" /\ Nested[t] # None
  /\ IF ~IsIdle THEN Enqueue(t)
     ELSE LET n == Nested[t] IN
          /\ run[Target[n]] # 0 /\ st[n] = "new"
          /\ follows' = [follows EXCEPT ![t] = n]
          /\ Push(n, [st EXCEPT ![t] = "joined"])
          /\ UNCHANGED <<run, runSequence, promise>>

\* The work of a task schedules another and awaits it, for the run it was told.
ScheduleNested(t) ==
  /\ st[t] \in {"running", "aborted"} /\ Nested[t] # None
  /\ st[Nested[t]] = "new"
  /\ IF st[t] = "running" THEN Enqueue(Nested[t]) ELSE RejectStale(Nested[t])

\* A mutant: a task that returns does not pump the lanes.
TaskReturnsQuietly(t, outcome) ==
  /\ st[t] \in {"running", "aborted"}
  /\ Nested[t] # None => st[Nested[t]] # "new" /\ Settled(Nested[t])
  /\ promise' = [promise EXCEPT ![t] = IF st[t] = "aborted" THEN "rejected" ELSE outcome]
  /\ inFlight' = inFlight \ {t}
  /\ st' = [st EXCEPT ![t] = "over"]
  /\ runningCounts' = [runningCounts EXCEPT ![Resource[t]] = @ - 1]
  /\ UNCHANGED <<run, runSequence, runOf, queue, follows>>

\* The work of a task returns or throws; its place is given back and the lanes pumped.
TaskReturns(t, outcome) ==
  /\ st[t] \in {"running", "aborted"}
  /\ Nested[t] # None => st[Nested[t]] # "new" /\ Settled(Nested[t])
  /\ promise' = [promise EXCEPT ![t] = IF st[t] = "aborted" THEN "rejected" ELSE outcome]
  /\ inFlight' = inFlight \ {t}
  /\ Pump([st EXCEPT ![t] = "over"], pendingTasks, [runningCounts EXCEPT ![Resource[t]] = @ - 1])
  /\ UNCHANGED <<run, runSequence, runOf, sequence, follows>>

Outcomes == {"resolved", "rejected"}

Next ==
  \/ \E g \in Targets : CreateRun(g) \/ CancelTarget(g)
  \/ \E t \in Tasks :
       \/ ScheduleTask(t) \/ WhenIdle(t) \/ ScheduleNested(t)
       \/ \E outcome \in Outcomes : TaskReturns(t, outcome)

Spec == Init /\ [][Next]_vars

\* The work of a task goes on, and returns unless it waits for another task.
FairSpec ==
  /\ Spec
  /\ \A t \in Tasks : WF_vars(ScheduleNested(t)) /\ WF_vars(TaskReturns(t, "resolved"))
-----------------------------------------------------------------------------
States == {"new", "pending", "running", "aborted", "over", "joined"}

\* Types of the coordinator.
TypeOK ==
  /\ run \in [Targets -> Nat] /\ runSequence \in Nat
  /\ st \in [Tasks -> States]
  /\ runOf \in [Tasks -> Nat]
  /\ DOMAIN pendingTasks \subseteq Tasks /\ pendingTasks \in [DOMAIN pendingTasks -> Nat]
  /\ sequence \in Nat
  /\ follows \in [Tasks -> Tasks]
  /\ promise \in [Tasks -> {"open"} \cup Outcomes]
  /\ runningCounts \in [Resources -> Nat]
  /\ inFlight \subseteq Tasks

Working(r) == {t \in Tasks : st[t] \in {"running", "aborted"} /\ Resource[t] = r}

\* The count of a lane is the number of tasks whose work has not returned, aborted ones
\* included, through every cancellation.
CountsAreExact == \A r \in Resources : runningCounts[r] = Cardinality(Working(r))

\* Interactive tasks may exceed the limit of a lane, but the others never do.
CapsHold ==
  \A r \in Resources :
    Cardinality({t \in Working(r) : Phase[t] # "interactive"}) <= MaxConcurrency[r]

\* Among the tasks of a current run, the map of keys holds those that have not ended; a
\* caller that joins one gets a promise that is still open.
JoinedIsInFlight ==
  \A t \in Tasks : runOf[t] # 0 /\ runOf[t] = run[Target[t]] =>
    (t \in inFlight <=> promise[t] = "open")

\* What the coordinator counts and maps agrees with the tasks at work.
Consistent == TypeOK /\ CountsAreExact /\ CapsHold /\ JoinedIsInFlight

\* No lane stands idle while a task waits for it, and no interactive task waits at all:
\* a place that is given back is used in the same step.
NoIdleLane ==
  \A t \in DOMAIN pendingTasks :
    Phase[t] # "interactive" /\ runningCounts[Resource[t]] >= MaxConcurrency[Resource[t]]

\* A promise is resolved only by work of the run its target is in: work of a run that was
\* replaced or cancelled, however late it returns, resolves none. (startTask)
CancelledStaysCancelled ==
  [][\A t \in Tasks :
       promise[t] = "open" /\ promise'[t] = "resolved" => runOf[t] = run[Target[t]]]_vars

\* Every scheduled task settles, also one that is scheduled by a task that holds a lane and
\* waits for it.
EveryTaskSettles == \A t \in Tasks : []<>(st[t] = "new" \/ Settled(t))
=============================================================================
