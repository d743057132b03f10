# miowork: TLA+ models, checks and proofs of its agent runtime

This directory describes, in TLA+, the parts of miowork (a DeepChat fork: an Electron
agent desktop client, `src/main` in TypeScript) that decide *who may run what, when,
and how often*: the waiting lane that turns messages into agent turns, the gates that
keep operations and deletions apart, the broker of approvals, the admission of
delegated turns and their life in a child session, the scheduler of cron jobs, and the
lanes of startup work. Paths are relative to `src/main` of the repository; `R/` stands
for `agent/deepchat/runtime/`.

## 1. The system

The main process is one Node event loop: code between two `await`s is atomic, and
everything that is concurrent is an interleaving of such pieces. SQLite calls are
synchronous. State is of two kinds: rows and transcript messages in SQLite, which
survive a crash, and fields and maps in memory, which do not. The scheduler's scan is
the one part that runs in a second process and writes the same tables.

### Inventory

| Component | State | Operations | What is hard | What makes it correct |
| --- | --- | --- | --- | --- |
| Waiting lane store (`session/data/pendingInputStore.ts`) | rows with mode, state, `queue_order`, linked message ids | create, claim, release, block, retry, edit, move, convert, consume, delete | renumbering around claimed rows | the table is a sequence of rows, nothing reordered or dropped |
| Waiting lane service (`session/data/pendingInputs.ts`) | the same and the transcript, in one transaction | queue, accept a steer, promote, claim, release, consume, recover | two tables have to agree after a crash | nothing is sent twice, nothing vanishes, nothing is sent without the user |
| Pump (`R/pendingInputPump.ts`) | drain lease, launched drain, deferred wake-ups, rows held since the restart | schedule, drain, launch, settle, finalize, resume the held lane | await between lease and gate; lost wake-ups | one turn at a time; the next row is served |
| Admission (`R/pendingInputAdmissionCoordinator.ts`) | steer acceptance lane | queue, send, steer, promote, edit, move, delete, retry, resume | attachment preparation while the turn under way ends | order, consent, hand-over to what runs |
| Turn coordinator (`R/turnCoordinator.ts`) | the claim, abort signal, message ids of a turn | start, resume, rollback | ten awaits, any of which may be aborted or throw | the claim is settled exactly once, and rightly |
| Run lifecycle (`R/runLifecycleCoordinator.ts`, `agent/deepchat/instance`) | controller, active run, status | register, cancel, clear, project status | late settlement of an operation that was stopped | status tells the truth |
| Interactions (`R/interactionCoordinator.ts`) | pending permissions and questions in the transcript | respond, resume | stop during a response; await without abort | no run beside a turn |
| Restart (`agent/deepchat/harness`) | the hold set | reconcile | any crash point | withheld until the user resumes |
| Gates (`agent/lifecycleGate.ts`, `session/deletionGate.ts`) | counters, deletion marks, drain waiters | enter, leave, delete | deletion, with and without a time limit, against operations | no operation inside a deletion; no mark or count left behind |
| Agents and sessions (`agent/settings.ts`, `session/lifecycle.ts`, `assignment.ts`, `deletion.ts`) | rows of agents and sessions, parents | create, fork, create a child, move, delete | two gates in two orders; rows read before an await | no session of a deleted agent, no child of a deleted parent, no circle |
| Approval broker (`approval`) | requests, their callers, timers | create, wait, resolve, authorize, cancel, expire | shared requests; expiry against resolution and abort | an approval lets pass once and in time; every caller is answered |
| Invocation admission (`agent/invocationAdmission.ts`) | permits, queues per parent, ring of parents, leases | acquire, suspend, resume, release, abort, close | a permit that arrives at a lease that changed meanwhile | permits are exact and never idle |
| Delegation (`orchestration/liveDelegationService.ts`) | turns in SQLite, active turns, child map | spawn, follow up, interrupt, settle, park, reconcile | the hand-off may crash on either side; the child goes on by itself | one hand-off, one end, one event, the right answer |
| Scheduler (`scheduler`) | jobs, runs, the utility process | scan, claim, start, complete, time out, deliver, reconcile | two processes write a schedule; four events may end a run | one run per time, one end, one delivery |
| Startup (`app/startupWorkloadCoordinator`) | lanes, runs of a target, promises | create a run, schedule, cancel | cancelled work returns late; tasks that await tasks of their lane | lanes are counted exactly and never idle; all settle |
| Shutdown (`app`) | shutdown claim | request | second request during the first | not modelled yet |
| ACP agents (`agent/acp`) | sessions of external agents, an own waiting list | prompt, cancel, permission | process death | not modelled yet |
| Tape (`tape`) | append-only facts | append, derive, seal | idempotent retries, journal errors | not modelled yet |
| Tools, MCP, providers, skills, plugins, memory, knowledge, remote, renderer and the rest | see `PROJECT.json` | I/O, adapters, UI | | not modelled |

### How the parts interact

1. The renderer calls an admission operation. It either starts the message at once
   (an idle session with nothing waiting), or writes a row and wakes the pump.
2. A wake-up takes the drain lease of the instance, awaits the session state, reads
   the gate (status, pending interaction, awaited follow-up, blocked or claimed
   rows) and claims the next row, steer rows first.
3. The turn coordinator owns the claim. It prepares attachments, writes the user
   message, creates the assistant message and runs the loop; it settles the claim
   as consumed, blocked or released, and its promise tells the pump to finalize:
   give back the lease, replay a deferred wake-up, look for the next row.
4. A steer message joins what runs: it aborts an operation that has not reached the
   provider (hand-off), waits for the end of an active run, or wakes an idle lane.
5. A paused run leaves an interaction; the response may resume the assistant
   message outside the pump. Stop aborts the run, the operation before it, or
   cancels the paused message.
6. After a crash the harness recovers all lanes before anything runs.
7. Creating, forking or moving a session enters the gate of its agent; a child
   enters the gate of its parent first. Deletion of a session or an agent closes the
   gate, waits for those inside and then deletes. The session gate waits with a time
   limit and fails the deletion, the agent gate waits for ever.
8. A tool, an MCP app or the command line asks the broker and waits for the user.
9. A delegation runs a turn of a child session: it waits for a permit, creates the
   child through the gates above, writes down its intent, sends the hand-off through
   the child's lane (1.), suspends its permit while the child asks the user, hears the
   child's status, and settles the turn with a row and an event in the mailbox of the
   parent. After a restart it looks up what the child did meanwhile.
10. The utility process of the scheduler scans due jobs, inserts runs and reports
    them; the main process claims a run, creates a session for it, follows it with a
    timer, and delivers the result.

## 2. The modules

| Module | Models | Built on |
| --- | --- | --- |
| `PendingInputTable` | the columns of a row that do not say where it stands | |
| `PendingInputRows` | the lane as a sequence of rows, one operator per transaction | extends `PendingInputTable` |
| `PendingInputStore` | the same table with integer `queue_order`; refines `PendingInputRows` | extends `PendingInputTable`, instance of `PendingInputRows` |
| `PendingInputPump` | lease, wake-ups, gate, launch, finalization | extends `PendingInputRows` |
| `TurnLifecycle` | a turn, the resumption of a paused message, responses, Stop | extends `PendingInputPump` |
| `SessionInputs` | admission and crash; composes all of them; properties | extends `TurnLifecycle` |
| `MessageDelivery` | abstract specification: phases of a message | |
| `OperationGate` | a gate of operations against deletion, with or without a time limit | |
| `ExclusiveGate` | abstract specification: a room with one door | |
| `AgentSessions` | the calls that create, fork, move and delete sessions and agents under both gates | extends `OperationGate` (session gate), instance of it (agent gate) |
| `ApprovalBroker` | all of the broker | |
| `OneShotApproval` | abstract specification: what one approval may let pass | |
| `StartupWorkload` | the startup coordinator | |
| `ScheduledRuns` | a run from queue to delivery | |
| `JobSchedule` | the schedule of a job, written by two processes | |
| `SchedulerProcess` | the life of the utility process | |
| `Scheduler` | the three together | extends all three |
| `InvocationAdmission` | permits, queues and leases | |
| `LiveDelegation` | the turns of a delegation and its child | |
| `WaitingLaneProofs` | theorems about the waiting lane and its table | extends `SessionInputs` and `PendingInputStore`, and TLAPS |
| `OperationGateProofs`, `AgentSessionsProofs` | theorems about the gates and the sessions behind them | the second extends the first, and has an instance of it for the agents' gate |
| `ApprovalBrokerProofs`, `StartupWorkloadProofs`, `SchedulerProofs`, `InvocationAdmissionProofs`, `LiveDelegationProofs` | theorems | extend the module they are about, and TLAPS |
| `MC...` | constants for TLC | extend the module they instantiate |

The three parts of `Scheduler` meet only in what each takes as a free choice of its
environment: a run is queued at any time, the scanner exits and comes back at any
time, jobs are enabled and disabled at any time. A behaviour of the scheduler is
therefore a behaviour of each part, and what holds of each part holds of the whole. So
one run explores one part at a time (`part`) instead of their product.

An action is the code between two awaits, and the `pc` of an operation names the await
at which it is suspended (the headers list them). Operations whose only await is
`sessionState.get`, which returns at once for a hydrated session, are one step; the
drain is two steps, because the lease is taken before that await and a second wake-up
can meet it. Calls into parts that are not modelled return, throw or are aborted as the
environment chooses. A definition whose comment begins with *Mutant* is a plausible
wrong version of one above it or below it; it is in no specification and shows what the
property it is paired with in `PROJECT.json` protects.

### State and code

Waiting lane (`PendingInputTable` to `SessionInputs`; `PendingInputStore` has `queue_order`
in place of `queue`):

| Variable | Code |
| --- | --- |
| `st`, `mode`, `queue` | `state` with `retry_required_at` folded in as `retry`, `mode`, `queue_order` of `deepchat_pending_inputs`; `gone` is a deleted or consumed row |
| `pump` | the drain lease (`free`, held by a drain, held by a launched turn), the reason of the drain, `deferredWakeups` |
| `wakers` | `scheduleNextIfReady` calls suspended at their await |
| `held`, `resumed` | `restartHeldQueueInputIds`, `manuallyResumedQueueInputIds` |
| `status` | `instance` runtime status |
| `inter`, `asked`, `quiet` | what the gate reads from the transcript: a pending interaction, an awaited follow-up, no user message after the last assistant message |
| `turn` | the `start` call of `TurnCoordinator`: claim, source, disposition, abort signal, whether its user message exists (`anchor`: written by a steer; `seen`: by the turn), steer rows accepted behind it |
| `ctl` | whose controller is `instance.abortController` |
| `res` | a response under way and the run it resumes |
| `lane`, `activeSteer` | the steer acceptance lane, `activeSteerPendingInputId` |
| `lost`, `consent` | history: steer rows whose message was deleted; rows released for sending by the user since their last launch |
| `boot` | whether recovery at start succeeded |

Gates and sessions:

| Variable | Code |
| --- | --- |
| `active`, `deleting`, `waiters` | `activeOperations`, `deletingSessionIds`, `drainWaiters` of `session/deletionGate.ts`; `aActive`, `aDeleting`, `aWaiters` the same in `agent/lifecycleGate.ts` |
| `place`, `aPlace` | where a call is with respect to a gate (operating, draining, woken, deleting) |
| `agents`, `row`, `parent` | rows of agents; agent and parent of the row of a session |
| `fresh` | session ids that were never drawn |
| `call` | a call of the session services: its await, what it is about, the children it still has to delete, the attempts it made |

Approvals: `pending` is the broker's map with, per request, status, owner, callers whose
promises it settles, signals it listens to, and whether `expiresAt` has passed; `at` and
`req` are the place of a caller and its request, `aborted` its signal.

Startup: `run` and `runSequence` are `currentRuns` and the counter, `st` the state of a
`scheduleTask` call, `pendingTasks` the list, as a function from the tasks that wait to
their sequence numbers (the code compares no others), `sequence` the last number, `inFlight` is
`inFlightByDedupeKey`, `promise` the outcome of the promise of a task, `follows` whose
promise a caller was given.

Scheduler:

| Variable | Code |
| --- | --- |
| `row`, `exec`, `session` | status of a run in `cron_job_runs`; where `processDueRun` and `execute` are; the session of the run |
| `activeSessions`, `timeouts` | the executor's map with its timers; expiries that wait for `cancelSessionRun` |
| `delivered` | history: hand-overs to the delivery router |
| `job`, `runs`, `queued` | the row of a job; times with a run row; history: inserts per time |
| `scanner`, `scan`, `reports` | the utility process, the due row it has read, `RUN_DUE` messages under way |
| `call`, `now` | what a call of the service has read and when; the clock |
| `host`, `hostReady`, `process`, `byTimer` | the current process and the spawn awaited by `ensureHost`; every process; spawns of the restart timer |
| `restartAttempts`, `restartTimer`, `idleStopTimer`, `shuttingDown`, `enabledJobs` | the fields of `schedulerProcessManager.ts` |

Invocation admission: `queue`, `ring`, `active`, `byOwner`, `pending` and `closed` are
`ownerQueues`, `ownerRing`, the permit count, `activeByOwner`, the waiter count and the
closed flag; `lease`, `acq`, `aborted`, `again`, `stopped` are the state of a lease, of
its acquisition promise, of its controller, of a `resume` that waits for it, and of the
signal it was created with.

Live delegation:

| Variable | Code |
| --- | --- |
| `row`, `begun`, `bound`, `events` | status and `started_at` of `live_delegation_turns`, `child_session_id`, terminal events in the mailbox |
| `child`, `job`, `lane`, `held`, `answered` | the child session: what it does, for which hand-off, those it accepted, those withheld since a restart, whose answer is its last |
| `act` | `activeTurns`, with the await of `runWithAdmission`, the lease, the abort signal, what is known of the child, and the outcome being settled |
| `map` | `childToTurn` |
| `quarantined`, `kill` | `quarantinedTurns`; interruptions under way |
| `boundary`, `recon` | `prepareChildBoundary`, `reconcileActiveTurn` |
| `sent`, `author`, `parked` | history: accepted hand-offs, whose answer completed a turn, turns left recoverable |

## 3. Properties and runs

`CHECK_DEADLOCK FALSE` is set in all configurations: a system at rest (an idle session with
all rows used, all calls over, the last tick reached) may stop, and so may the program,
which waits for events. That operations do not get stuck before is what the liveness
properties say.

| Run | Instance | Properties | States |
| --- | --- | --- | --- |
| `lane` | 2 rows, capacity 2, everything may happen, fair | `Consistent`, `Consent`, `ClaimOwnership`, `DeferredHasOwner`, `OneGeneration`, `StartsInOrder`, `NothingVanishes`, `DeliveryPromise`, `NextIsServed`, `OperationsEnd` | 130,518 |
| `store` | 4 rows, any calls | `StoreConsistent`, `RowsRefined` | 44,026 |
| `agent_sessions` | 2 agents, 3 session names, 2 calls, 2 attempts | `Consistent`, `NobodyIsLeftBehind`, `DeletionIsAlone`, `GateKeepsPromise` | 105,509 |
| `gate_circle` | 1 agent, 2 session names, 3 calls, fair | `CallsEnd` | 64,997 |
| `approvals` | 5 callers of 3 kinds, 2 requests, fair | `Consistent`, `ApprovalIsOneShot`, `NoLateGrant`, `EveryCallIsAnswered` | 3,430 |
| `startup_workload` | 6 tasks, 2 targets, 2 runs, fair | `Consistent`, `NoIdleLane`, `CancelledStaysCancelled`, `EveryTaskSettles` | 142,759 |
| `scheduler` | 3 runs of 2 jobs; 5 ticks, 2 calls; 3 processes; fair | `Consistent`, `OneActiveRun`, `RunIsWatched`, `DeliveredOnce`, `TerminalIsFinal`, `RunsEnd`, `IdleProcessEnds` | 279,067 |
| `invocation_admission` | 4 leases of 2 parents, 2 permits, fair | `Consistent`, `NoIdlePermit`, `ResumeEnds` | 47,408 |
| `live_delegation` | 2 turns, failures, crashes, fair | `Consistent`, `HandedOverOnce`, `WaitingHoldsNoPermit`, `CompletedByItsAnswer`, `TurnsEnd` | 41,527 |
| `steer_message_lost`, `steer_drains`, `queued_run` | see section 4 | | |

`Consistent` is, in each module, the conjunction of the type invariant and of the named
invariants that say that its pieces of state agree:

- `SessionInputs`: `QueueMatchesRows` (each live queue row has one place),
  `GeneratingHasOwner` (`generating` has an operation or an interaction behind it),
  `HandoffKeepsMessage` (a steer that takes over before the provider call leaves the
  user message of the turn in the transcript), `ResumedHeadIsSpent` (the head of a lane
  resumed after a restart does not return once the provider saw it).
- `PendingInputStore`, where it is called `StoreConsistent`: `OrdersAreSlots` (the
  orders are 1 to n).
- `AgentSessions`: `NothingStaysInside` (a call that is over is in no gate), and for both
  gates `ClosedByOne`, `NoLostDrain`, `CounterIsExact`.
- `ApprovalBroker`: `WaitersAreRegistered`, `AbortedIsDetached`.
- `StartupWorkload`: `CountsAreExact`, `CapsHold`, `JoinedIsInFlight`.
- `Scheduler`: `OneRunPerTime`, `ScheduleIsClose`, `DisabledIsUnscheduled`,
  `CurrentHostIsAlive`.
- `InvocationAdmission`: `PermitsAreHeld`, `QueuesAgree`.
- `LiveDelegation`: `OneLiveTurn`, `ActiveRowIsOwned`, `OneEventPerEnd`.

What the others say:

- **Consent**: a row that the pump may launch was queued, steered, edited, retried or
  resumed by the user since its last launch, whatever stop, failure, hand-off or
  crash came in between.
- **ClaimOwnership**: a claimed row belongs to exactly one of the unsettled turn and
  the promotion under way. A claim without owner would close the gate for ever.
- **DeferredHasOwner**, **NextIsServed**: wake-ups are not lost. The first says that
  a remembered one is always replayed by somebody, the second that the row next in
  line starts unless the session waits for the user.
- **OneGeneration**: no turn beside a resumed run.
- **StartsInOrder** (`SteerFirst`, `NoOvertaking`): steer messages first, then queue
  order: a row starts only if every row in front of it is held since the restart, or
  waits behind one that is. The answer to a question is exempt from both.
- **NothingVanishes**: a claimed queue row leaves only when its message is in the
  transcript.
- **OperationsEnd** (`ClaimsSettle`, `GenerationEnds`): claims and generations end.
- **DeliveryPromise**: every step of the detailed model is a step of
  `MessageDelivery`, in which a message is new, waiting, withheld, running or over;
  one runs at a time; steer messages start first; a withheld one returns only by the
  user's decision; a crash withholds or ends the rest. Whether the session awaits an
  answer is an input of `MessageDelivery` (`question`): a new message that answers may
  start in front of waiting steer messages.
- **RowsRefined**: renumbering is invisible; the table is the sequence.
- **NobodyIsLeftBehind**: no session refers to a deleted agent (except one whose
  creation is about to delete it), no child outlives its parent.
- **DeletionIsAlone**, **GateKeepsPromise**: no operation is inside while a deletion
  is; the gate, as the session services use it, implements `ExclusiveGate`.
- **CallsEnd**: calls that hold one gate and wait for the other make no circle. They
  end without the time limit of the session gate: its expiry is under no obligation.
- **ApprovalIsOneShot**: an approval lets pass those who wait for it (identical app
  calls may share one) or one caller that comes later, once. **NoLateGrant**: not after
  its time, even if the timer is late. **EveryCallIsAnswered**: no promise hangs.
- **NoIdleLane**, **NoIdlePermit**: a place or permit that is given back is used in the
  same step, if anybody who may have it waits.
- **CancelledStaysCancelled**, **EveryTaskSettles**: late work of a cancelled run
  resolves no promise; every promise settles, also for a task awaited from inside its lane.
- **OneActiveRun**, **RunIsWatched**, **DeliveredOnce**, **TerminalIsFinal**,
  **RunsEnd**: report, time limit, failing start, stop and restart race for the end of a
  run; one wins, it is delivered at most once, and a run that is in progress always has
  somebody who ends it.
- **IdleProcessEnds**: without enabled jobs the utility process ends, also one whose
  spawn was under way during a stop.
- **ResumeEnds**: every acquisition of a lease ends.
- **HandedOverOnce**: the hand-off of a turn reaches the child once, with a crash before
  or after the child accepts it. **CompletedByItsAnswer**: a turn completes with the
  answer to its own hand-off. **WaitingHoldsNoPermit**: a turn recorded as waiting holds
  no permit while its child asks. **TurnsEnd**: an active turn ends, with the exceptions
  its formula names (section 4).

Every property of a passing run is paired in `PROJECT.json` with a mutant of the model
that violates it.

Several liveness properties have the form `[]<>(~P \/ Q)`. It is equivalent to
`P ~> ~P \/ Q`, for a state without `P` satisfies the right side itself, and a single
recurrence is much cheaper to check.

### Bounds

- *Waiting lane.* `Ids` is the number of rows a session ever creates. Two rows make a
  turn and a message behind it, or a turn and a promotion, which is all that claims,
  wake-ups and hand-offs relate. The order of starts relates three: with three rows (and
  no pauses or failures, 438,497 states) TLC refuted two earlier formulations, because a
  row behind a held head is overtaken by a new message, and an answer goes in front of a
  waiting steer message; the theorems of section 5 cover any number. `store` has four
  rows, for renumbering around claimed ones. `Capacity` stands for `MAX_PENDING_INPUTS` (10)
  and is 2, so that it is met. `MaxWakers` bounds the finalizations suspended at their
  await; two suffice because each needs a turn that has ended. Restarts, edits, retries,
  stops and responses are not counted.
- *Gates.* Two calls and three session names let a creation, move or fork meet a
  deletion of its agent, source or parent, with a session, its child and a new one. The
  calls that could wait in a circle are three: a child's creation (parent gate, then agent
  gate), a deletion of the agent and a deletion of the parent. Calls and names that are
  used again are not counted. `MaxAttempts` is the number of creations of a child.
- *Approvals.* Two requests and two callers of each sharing kind give every pair of a
  shared and an unshared request; `MaxPending` 2 is reached.
- *Startup.* The lane of the disk has two places and five tasks, among them a repeated
  call, an interactive one, and one that awaits another of its lane; `MaxRuns` lets each
  target be replaced.
- *Scheduler.* Two runs of a job compete, the third is another job's. Five ticks with
  a period of 2 and a grace of 1 contain a time in time, one in the grace and one missed;
  two calls overlap. Three processes let a spawn end after a stop and a restart.
- *Admission.* Two permits, limits of 1 and 2, two parents: a permit is refused because
  of either limit. `Calls` says which lease is suspended, released, aborted or stopped,
  so that each happens at every point of an acquisition of a lease; it was varied while
  the model was built.
- *Delegation.* Two turns relate a turn to one that ended before it, which is what
  ownership, hand-off and answers are about. `Overtakes` is `FALSE` in the run: the
  parent sends a follow-up only when interruption, reconciliation and the hand-off of
  the earlier turn are over. With `TRUE` (220,433 states) `CompletedByItsAnswer` and
  `TurnsEnd` fail (section 4); `Consistent`, `HandedOverOnce` and `WaitingHoldsNoPermit`
  hold, and are proved, for both values; `CompletedByItsAnswer` is proved for `FALSE`. The
  invariants of the proofs were also checked with three turns (942,613 states).

### Fairness

No failing step, crash, user, abort or timer that may be late is ever under an
obligation, unless stated here. Weak fairness is asked of

- *waiting lane*: what the event loop does by itself: a drain that was started,
  finalization, a suspended wake-up, the steps of a turn, of a response and resumed run,
  and of attachment preparation, which end because providers, preparation and handlers
  have time limits or may be stopped;
- *gates*: the continuation of each call;
- *approvals*: the clock, the timers, and the wait of a caller whose request was shown;
- *startup*: the return of a task's work, and the nested call it makes;
- *scheduler*: the calls of the executor, its time limit, heartbeats, idle timer, and
  the end of a spawn, one way or the other. A session need not end by itself;
- *admission*: the microtasks of an acquisition, and that the turn which was given a
  permit gives it back in the end (`Stops`);
- *delegation*: the steps of a turn's runner (its abort included, once requested), of
  interruption, settlement, boundary and reconciliation, and of the child session, which
  begins what it accepted, prepares and ends a run unless it asks the user.

## 4. Where the code and its documents differ

Each of three runs checks one documented statement and is expected to fail; the
quotations are in `PROJECT.json`.

- `steer_message_lost` (`SteerKeepsItsMessage`): a queued turn runs, a steer is accepted,
  the run returns an error, and `rollbackPendingInputTurn` (`R/turnCoordinator.ts:2107`)
  deletes every message from the turn's own on. The steer row waits for a message that
  is gone: claiming it and recovering it after a restart both throw.
- `steer_drains` (`SteerDrains`): a turn ends in `error`; finalization schedules only an
  idle session, so the waiting steer stays unread. With other switches the same property
  shows a steer that waits behind a question resolved by a follow-up, and one promoted
  after Stop while the stopped turn still prepares attachments.
- `queued_run` (`QueuedRunEnds`): under the policy `queue` a run that finds another one
  active is put back to `queued`, and nothing claims it again.

Observations made while modelling, which no run states:

- Stop, pressed twice during a response that awaits a permission grant, lets the late
  end of that response set the session idle while another run is active
  (`R/runLifecycleCoordinator.ts:412`).
- `moveQueuedInput` (`R/pendingInputAdmissionCoordinator.ts:306`) schedules nothing. After
  a restart, a new row moved in front of the held head could be sent and waits for
  another wake-up. `NextIsServed` makes an exception for lanes with held rows.
- `scheduler/index.ts:96` marks running rows failed at a start while an executor of the
  stopped service may still await the creation of a session, which then starts for a run
  that has ended (`docs/FLOWS.md:219-220`).
- `scheduler/index.ts:421` writes back a row read before an await: a job deleted in
  between returns (compare `schedulerService.test.ts:809-810`), and a next time that the
  scan advanced is set back; the unique key of a run keeps the time from running twice
  (`OneRunPerTime`). An overdue time may be skipped instead of caught up
  (`scheduler/index.ts:425`).
- `scheduler/schedulerProcessManager.ts:163`: a process whose spawn ends after a stop stays
  alive. Without enabled jobs its idle report ends it later (`IdleProcessEnds`).
- `agent/invocationAdmission.ts:624`: `suspend` of a lease that is already suspended returns,
  so a `resume` that waits for the aborted acquisition to end makes the lease active after
  it (compare `invocationAdmission.test.ts:224`, where the order is suspend, resume).
- A follow-up that begins while the interruption or the reconciliation of an earlier turn
  is under way: the late `childToTurn.delete` (`liveDelegationService.ts:892`,
  `:1571-1576`) removes the mapping of the newer turn, and after a restart the newer
  turn may complete with the older answer. `Overtakes = FALSE` excludes it from the run.
- The status of a child is read several awaits before its turn is adopted
  (`liveDelegationService.ts:1563` ff.), and updates in between are dropped
  (`:1157-1158`). `Deaf` in `TurnsEnd` names these states.
- `orchestration/liveDelegationService.ts:937-943`: an acquisition that is rejected because
  the queue is full or admission is closed leaves its lease suspended
  (`agent/invocationAdmission.ts:613-617`), and the runner then returns without settling. A
  turn refused before its hand-off stays `queued` in `activeTurns` until it is interrupted
  or the process restarts; `Stranded` in `TurnsEnd` names this state. A turn refused after
  a restart, whose child works for it, goes on without a permit and ends with its child.
  No document promises an end for either.
- A child that asks while its turn is not yet adopted is not heard (`:1158`); the turn is
  then given a permit while its child waits, against
  `docs/architecture/proactive-multi-agent-orchestration/spec.md:216-222`. So
  `WaitingHoldsNoPermit` is stated of turns recorded as waiting.

## 5. Proofs

The theorems hold for every value of the constants: any set of rows, keys, calls,
sessions, callers, requests, tasks, leases, owners, runs, jobs or turns, any capacity, limits,
period and grace, and every combination of the switches (`Faults`, `Pauses`, `Fails`,
`Crashes`, `Overtakes`, `TimeLimited`, `Stops`). Their assumptions are the named `ASSUME`s
of the modules: types of the constants, and that the sets whose members are counted (calls,
sessions, tasks, leases, runs) are finite. One theorem has a hypothesis: `TurnsCompleteByTheirAnswer` is
about a parent that waits for earlier turns to be let go (`Overtakes = FALSE`), because
the code does not promise it to a parent that does not (section 4).

| Module | Theorem | States |
| --- | --- | --- |
| `WaitingLaneProofs` | `TypeCorrect` | `Spec => []TypeOK` |
| | `ClaimsAreOwned` | `Spec => []ClaimOwnership` |
| | `NothingSentWithoutConsent` | `Spec => []Consent` |
| | `DeferredWakeupsAreOwned` | `Spec => []DeferredHasOwner` |
| | `LaneIsConsistent` | `Spec => []Consistent` |
| | `GenerationsAreAlone` | `Spec => []OneGeneration` |
| | `MessagesAreKept` | `Spec => NothingVanishes` |
| | `LaneStartsInOrder` | `Spec => StartsInOrder` |
| | `LaneKeepsPromise` | `Spec => DeliveryPromise`: the lane implements `MessageDelivery` |
| | `StoreIsConsistent` | `StoreSpec => []StoreConsistent` |
| | `StoreKeepsRows` | `StoreSpec => RowsRefined`: the table implements `PendingInputRows` |
| `OperationGateProofs` | `GateTypeCorrect` | `GateSpec => []GateTypeOK` |
| | `DeletionExcludesOperations` | `GateSpec => []DeletionIsAlone` |
| | `ClosedExactlyWhileDeleting`, `DrainsAreNeverLost`, `CountersAreExact` | the parts `ClosedByOne`, `NoLostDrain`, `CounterIsExact` |
| | `GateRefinesRoom` | `GateSpec => GateKeepsPromise`: a gate implements `ExclusiveGate` |
| `AgentSessionsProofs` | `CallsAndGatesAgree` | `Spec => []Consistent` |
| | `NobodyIsEverLeftBehind` | `Spec => []NobodyIsLeftBehind` |
| | `SessionsAreDeletedAlone` | `Spec => []DeletionIsAlone` |
| | `SessionsKeepGatePromise` | `Spec => GateKeepsPromise`: the calls use the gate as `ExclusiveGate` allows |
| `ApprovalBrokerProofs` | `RequestsAndCallersAgree` | `Spec => []Consistent` |
| | `LateApprovalsAreVoid` | `Spec => NoLateGrant` |
| | `ApprovalsAreOneShot` | `Spec => ApprovalIsOneShot`: the broker implements `OneShotApproval` |
| `StartupWorkloadProofs` | `WorkloadIsConsistent` | `Spec => []Consistent` |
| | `LanesAreNeverIdle` | `Spec => []NoIdleLane` |
| | `CancelledIsNeverResolved` | `Spec => CancelledStaysCancelled` |
| `SchedulerProofs` | `RunTypeCorrect` | `Spec => []TypeOK` |
| | `JobRunsOnce`, `RunsAreWatched`, `ResultsAreDeliveredOnce`, `EndsAreFinal` | `OneActiveRun`, `RunIsWatched`, `DeliveredOnce`, `TerminalIsFinal` |
| | `ScheduleHolds`, `ProcessHolds` | the invariants of the schedule and of the utility process |
| | `SchedulerIsConsistent`, `SchedulerRunsHold` | `Consistent`, and the properties of the runs, of the three parts together |
| `InvocationAdmissionProofs` | `AdmissionIsConsistent` | `Spec => []Consistent` |
| | `PermitsAreNeverIdle` | `Spec => []NoIdlePermit` |
| `LiveDelegationProofs` | `DelegationTypeCorrect` | `Spec => []TypeOK` |
| | `HandOffsAreNotRepeated` | `Spec => []HandedOverOnce` |
| | `DelegationsAreConsistent` | `Spec => []Consistent` |
| | `WaitingTurnsHoldNoPermit` | `Spec => []WaitingHoldsNoPermit` |
| | `TurnsCompleteByTheirAnswer` | `Overtakes = FALSE` proves `Spec => []CompletedByItsAnswer` |

Each safety theorem comes from an inductive invariant, which is preserved by one lemma
per group of steps and, in them, one step per action. TLC checked each invariant before
it was proved. What they add to the properties:

- `OwnershipInv` (waiting lane): `TurnHoldsLease` (the lease is with the launched turn
  exactly while there is one, so a drain cannot launch over a turn and drop its claim),
  `TurnHasClaim` (a turn before its run still owns its claim, and a closing turn has
  settled it), `LaneHasConsent` (the row under promotion was released by the user, or is
  held), `FailedBootIsQuiet` (a harness that could not recover runs nothing).
- `LaneInv` has four parts. `OwnershipInv`; `QueueMatchesRows`; `GenerationInv`: a
  resumed run is alone and shows in the status, an open interaction leaves no room for a
  question or a turn, a turn past its context has its message; `HeadInv`: a row its turn
  settled is gone, a resumed head is spent before the stream. The first two are
  inductive together, the last two only beside them. The queue is a sequence rewritten by
  insertion and filters: `IsOrder` says that it lists the live queue rows once each,
  `Shifted` what renumbering does to places, and `RowStep` that a step of the
  session writes the rows as one transaction does; from it follow `NothingVanishes` and
  `StartsInOrder`. The next row of the lane is a least element (`LeastExists`).
- `LaneKeepsPromise` maps the state by `Phase`. `PhaseOf` makes of it a function of one
  row's status, mode, owner and hold, so that a step is described by the rows it touches
  (`OnlyTouches`, `LegalMove`) and each move of a phase is shown once. `FreshIsQueue` is
  the one fact needed beyond `LaneInv`.
- `StoreInv` adds to `StoreConsistent` that the live queue rows are finitely many, which
  nothing assumes of `Ids`. A row's place in `GetQueueRows` is its rank, the number of
  rows in front of it. Ranks fill the places (`RanksFill`, by the pigeonhole principle),
  and there is one way to sort (`SortedIsInOrder`); so a step is shown by a sequence that
  is sorted. From it: numbering the rows of a sequence by their places and sorting them
  gives the sequence back (`NumberedSorts`), a renumbering without a move changes no place
  (`ResequenceNumbers`), and the new number is one behind the last (`NextOrder`, the only
  use of the slots). A move takes a row out of the waiting rows and puts it back at an
  index; the claimed rows stay between. `NthCorresponds` relates the waiting slots of the
  queue to the indices of the waiting rows, and `ReplacedBySource` shows that every slot
  then has the row that `MoveQueueInput` of `PendingInputRows` gives it; that this is a
  permutation (`MovePermutes`) is the lemma the lane uses too. `StoreSteps` maps each
  transaction to the one of `PendingInputRows`, from `StoreInv`.
- `GateIInv`: types, exact counters, one closer, no lost drain, and `DrainedIsEmpty`: once
  a closer is woken nobody operates. It needs the counters, because the code tests the
  counter and the property speaks of calls; the lemmas on the size of a finite set connect
  them. `GateRefinesRoom` maps each step of the gate to a step of `ExclusiveGate` or a
  stutter, using the same invariant.
- `SessionsInv`: the types, `GateIInv` of both gates, `GatesMatch` (the await of a call
  tells where it is in every gate) and `RowsInv`. `GatesMatch` turns the exclusion that a
  gate gives into exclusion of awaits, and `RowsInv` says what the awaits rely on: the
  target of a move and the parent of a new child exist while they are held
  (`TargetsExist`, `ParentsStay`), a row that is not initialized is nobody's parent, and
  a deletion knows every child that is left (`DeletionsAreComplete`). TLC checked it with
  three calls (2,073,480 states).
- `BrokerInv` is `Sound(World, req, aborted)`. The methods of the broker are functions of
  a world, so each has a lemma that it keeps `Sound`, and the steps compose them:
  `Registered` (who waits is a settler of a pending request of its kind and, for the
  command line, its own), `Attached`, `Placed`, and `Bare` (a closed request holds
  nothing). `Quiet` and `Granted` say what a step is to `OneShotApproval`.
- `WorkloadInv`: types, exact counts, limits and no idle lane (`LanesAreKept`),
  `QueueIsOrdered` (each waiting task has a number of its own), `RunsAreNumbered`, and
  `TaskMatches`, which says of each task whether it is of a current run, in the map of keys
  and still open: a task at work that was cancelled is of no current run, hence its late
  return resolves nothing. What the pump picks is stated by places: a task starts if the
  count of its lane and the tasks ahead of it leave one. `LanesAreFilled` and `PlacesAreKept`
  show that this fills a lane and no more, by the first task that is left behind and the last
  one that is picked (`BeforeIsOrder`, `AheadGrows`).
- `RunInv`: types, `OneActiveRun`, `Followed` (who follows a running run has a session for
  it), `DueIsQueued`, `Settled` (delivered, about to be delivered by an expiry, or still
  open, never two of them). `ScheduleInv`: `StoredTimes` (each stored or read time is a
  time of the job, and what was read lies in the past) and `RowsAreCounted`. `ProcessInv`:
  types and `CurrentHostIsAlive`. The three parts run side by side, so the invariant of
  the scheduler is their conjunction.
- `AdmissionInv` is `Sound(Now, ActiveLeases)`, `NoIdle(Now)` and the types of the leases. The
  steps compose functions of an admission, as in the broker, so each has a lemma that it
  keeps `Sound`: permits counted are permits held or on their way (`PermitsMatch`), and
  queues and ring list what waits, once each (`Lists`, `QueuesMatch`). The dispatch is
  written as turns in rounds, two recursive functions, and unfolded by `HoldsUpTo`: what
  holds of 0 and passes from each number to the next holds up to `n`, or it would fail at a
  least number (this is an induction over a bound, not over data). A turn that grants
  nothing only turns the ring (`RingTurnPasses`), so in a round without a grant each owner
  had its turn in the same state and nobody was eligible (`RoundIsSound`); every other round
  hands out a permit, hence `Capacity` rounds end idleness (`DispatchIsSound`).
- `HandOffInv`: types, `CallsHaveTurns`, `IntentComesFirst` (a hand-off is written down
  before it is made and made from one await only), `HandedOverOnce`. Most steps leave rows,
  intents and hand-offs alone; `Calm` describes them once.
- `OwnersInv`: the three parts of `Consistent` with `ReconIsAlone` (no call runs the active
  turn that is looked up after a restart), `FirstTurnFirst`, `DownIsQuiet`,
  `UnownedHasEnded` (a cancellation for a turn without owner goes on after that turn has
  ended). `SameOwners` describes the steps that only move calls of owners.
- `PermitInv`, for each turn: what is recorded as waiting was handed over, is at no
  admission, and keeps an active permit only until it ends or while a response to the
  child's question goes on at its own boundary. `Tame` describes what the runner of a turn
  may do without giving it a permit, `GivesNothing` a step that gives no turn one.
- `LanesInv` is for `CompletedByItsAnswer`, which says nothing of the turns that run now.
  `AnswerRule` does: the last answer of the child is the active turn's own, or none. It
  needs `QueueRules`: one hand-off at most is in the lane of the child or being answered,
  it is the active turn's if there is one, and those the child withholds since a crash are
  of earlier turns in their order, so that the user who resumes the lane of an awaited
  hand-off resumes that one alone. That the child accepts a hand-off only of a turn that
  is still active is `SendInv`: nothing but an interruption ends a turn before it sends,
  and an interruption waits for the hand-off. It rests on `KillsAbort` (an interruption
  under way has aborted its turn, and none meets a turn that is adopted after a restart)
  and on `EarlierHaveEnded`. Only the first step of a follow-up uses the hypothesis.
  `Kept`, `Steady`, `QueueRests` and `AnswerRests` describe the steps that leave these
  parts alone.

Model-checked only: liveness, which is out of the prover's reach together with `ENABLED`.
These are `NextIsServed`, `OperationsEnd`, `CallsEnd`, `EveryCallIsAnswered`,
`EveryTaskSettles`, `RunsEnd`, `IdleProcessEnds`, `ResumeEnds` and `TurnsEnd`. Every other
property of a passing run is a theorem (`CompletedByItsAnswer` with its hypothesis).

## 6. What is left out

- *Waiting lane*: one session with one live instance, so no eviction, replacement or
  deletion of the instance, and no turn started without a row; payloads, attachments,
  message text, usage, hooks, memory and compaction; database errors while a claim is
  settled; ties of `created_at` (row names grow with time); blocked steer rows, which no
  caller creates (their branches are in `PendingInputStore` only); a second response to
  an interaction while one is under way; the busy-lease branch of `startAcceptedInput`,
  which its caller's check excludes.
- *Gates and sessions*: draft sessions of ACP, database errors, titles and settings, the
  cancellation registry, bindings to windows beyond the await they cost.
- *Approvals*: previews, events, modes that ask for no approval.
- *Startup*: calls without a run, metrics and events; the shutdown claim.
- *Scheduler*: creating and editing jobs, cron parsing (the times of a job are the
  multiples of `Period`), delivery channels, trimming of old runs.
- *Admission*: observations and statistics.
- *Delegation*: stop of the service, deletion of a session, turns without a contract,
  messages to the mailbox and waiting for it, the consent to start, and other delegations,
  which share with this one only the permits. An abort while `settle` links the tape of
  the child, and the await of the cancellation when `bindChild` fails, are one step with
  what follows them. A cancellation of the child succeeds; the code only logs one that
  fails (`liveDelegationService.ts:1145`), and then a turn that is being interrupted may
  hold its permit while its child asks, until the interruption has settled it. The child
  is what the service can see of a session, not a copy of `SessionInputs`.
- *Not modelled*: the components of `PROJECT.json` with that status. Most of the
  repository's lines are user interface, adapters of providers, tools, remote channels
  and formats, and persistence of settings, which do I/O around libraries and have no
  protocol of their own, or data transformations.

## 7. Plan

1. More of `LiveDelegation`: stop, deletion, turns without a contract, the mailbox.
2. `MainShutdown`, and `BoundedObservationQueue` and `AsyncSemaphore` as small modules.
3. `ProviderRetry` and `NoProgressGuard`: the loop inside a run, refining the state
   `stream` of `TurnLifecycle`.
4. Eviction of an instance and deletion of a session composed with `SessionInputs`.
5. The waiting list of ACP agents, and the execution journal of the tape.
