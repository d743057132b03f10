--------------------------- MODULE AgentSessions ---------------------------
(***************************************************************************)
(* Agent rows, session rows and the calls that create, fork, move and      *)
(* delete them: session/lifecycle.ts, session/assignment.ts,               *)
(* session/deletion.ts and agent/settings.ts, each under the gate of the   *)
(* agent, of the session, or of both.                                      *)
(*                                                                         *)
(* A call is at the await that call[c].pc names:                           *)
(*   resolved     the assignment of a new session is resolved, no gate yet *)
(*   forking      inside the agent gate, reading the source                *)
(*   initializing the new row exists, its runtime is being initialized     *)
(*   starting     the session is bound to its window, its first turn begins*)
(*   failed       initialization failed, the runtime is being closed      *)
(*   retrying     a child is about to be created once more                 *)
(*   assessing, switching   a move before and after it looked up its target*)
(*   draining     in the drain promise of the gate of call[c].session      *)
(*   stopping     the backends of that session are being cleaned up        *)
(*   children     its children are being deleted one by one                *)
(*   closing, failing       the gate of that session is about to open      *)
(*   agentDraining, agentCleaning, agentClosing   the same for an agent    *)
(*   leaving, leavingParent the agent, the parent gate is about to be left *)
(***************************************************************************)
EXTENDS OperationGate

CONSTANTS Agents, Protected, MaxAttempts

\* This module's gate is that of the sessions: its keys are the sessions' names.
Sessions == Keys
None == Nobody

ASSUME NamesAreDistinct == None \notin Agents \cup Sessions \cup Calls
ASSUME SessionsAreFinite == IsFiniteSet(Sessions)
ASSUME ProtectedAreAgents == Protected \subseteq Agents
ASSUME AttemptsAssumption == MaxAttempts \in Nat \ {0}

VARIABLES
  agents,     \* the rows of agents
  row,        \* the agent of a session's row, None without a row
  parent,     \* the parent of a session, None for a regular one
  fresh,      \* session ids nobody has drawn yet
  call,
  aActive, aDeleting, aWaiters, aPlace    \* the gate of the agents, without a time limit

AgentGate == INSTANCE OperationGate WITH
  Keys <- Agents, TimeLimited <- FALSE,
  active <- aActive, deleting <- aDeleting, waiters <- aWaiters, place <- aPlace

rows == <<agents, row, parent, fresh>>
agentGate == <<aActive, aDeleting, aWaiters, aPlace>>
vars == <<rows, call, agentGate, gateVars>>

Over == [pc |-> "out", op |-> "none", agent |-> None, session |-> None,
         top |-> None, todo |-> {}, tries |-> 0]

\* At first there are regular sessions of some agents, at rest.
Init ==
  /\ agents = Agents
  /\ row \in [Sessions -> Agents \cup {None}]
  /\ parent = [s \in Sessions |-> None]
  /\ fresh = {s \in Sessions : row[s] = None}
  /\ call = [c \in Calls |-> Over]
  /\ AgentGate!GateInit
  /\ GateInit

HasRow(s) == row[s] # None

\* The calls under way that are going to draw a name.
Drawing == {c \in Calls : call[c].pc \in {"resolved", "forking", "retrying"}}

\* Bound: a call creates, or tries once more, only while the instance has a name for it.
NameLeft == Cardinality(Drawing) < Cardinality(fresh)

Begins(c, op, pc, agent, session) ==
  /\ call[c].pc = "out"
  /\ call' = [call EXCEPT ![c] = [Over EXCEPT !.op = op, !.pc = pc, !.agent = agent,
                                              !.session = session, !.top = session]]
Goes(c, pc) == call' = [call EXCEPT ![c].pc = pc]
Ends(c) == call' = [call EXCEPT ![c] = Over]
-----------------------------------------------------------------------------
(* New sessions.                                                           *)

\* createSession, createDetachedSession: the agent is looked up outside its gate.
ResolveCreateAssignment(c, a) ==
  /\ a \in agents
  /\ NameLeft
  /\ Begins(c, "create", "resolved", a, None)
  /\ UNCHANGED <<rows, agentGate, gateVars>>

\* forkSession: the record of the source is read and the gate entered in one step.
ForkSession(c, s) ==
  /\ HasRow(s)
  /\ NameLeft
  /\ AgentGate!RunOperation(row[s], c)
  /\ Begins(c, "fork", "forking", row[s], None)
  /\ UNCHANGED <<rows, gateVars>>

\* Children are spawned by the turns of a session, and there is none before it is initialized.
Initialized(s) ==
  \A c \in Calls : call[c].session = s => call[c].pc \notin {"initializing", "failed"}

(* Mutant: a child is created outside the gate of its parent. *)
OperateOnParentUngated(c, s, a) ==
  /\ HasRow(s) /\ parent[s] = None /\ Initialized(s)
  /\ a \in agents
  /\ NameLeft
  /\ Begins(c, "child", "resolved", a, s)
  /\ UNCHANGED <<rows, agentGate, gateVars>>

\* createSubagentSession, inside the gate of the parent.
OperateOnParent(c, s, a) ==
  /\ HasRow(s) /\ parent[s] = None /\ Initialized(s)
  /\ a \in agents
  /\ NameLeft
  /\ RunOperation(s, c)
  /\ Begins(c, "child", "resolved", a, s)
  /\ UNCHANGED <<rows, agentGate>>

\* sessions.create and the synchronous start of initializeSessionRuntime, which resolves
\* the backend of the agent and throws if there is no such agent any more.
InsertRow(c, s) ==
  /\ s \in fresh
  /\ fresh' = fresh \ {s}
  /\ row' = [row EXCEPT ![s] = call[c].agent]
  /\ parent' = [parent EXCEPT ![s] = IF call[c].op = "child" THEN call[c].top ELSE None]
  /\ call' = [call EXCEPT ![c].pc = IF call[c].agent \in agents THEN "initializing" ELSE "failed",
                          ![c].session = s, ![c].tries = @ + 1]
  /\ UNCHANGED <<agents, gateVars>>

CreateSession(c, s) ==
  /\ call[c].pc = "resolved"
  /\ AgentGate!RunOperation(call[c].agent, c)
  /\ InsertRow(c, s)

(* Mutant: the creation of a child waits for the end of the agent's deletion. *)
RefuseUnlessChild(c) ==
  /\ call[c].pc = "resolved" /\ call[c].op # "child"
  /\ call[c].agent \in aDeleting
  /\ Ends(c)
  /\ UNCHANGED <<rows, agentGate, gateVars>>

\* runWithAgentOperation throws: the agent is being deleted.
RefuseCreation(c) ==
  /\ call[c].pc = "resolved"
  /\ call[c].agent \in aDeleting
  /\ IF call[c].op = "child" THEN Goes(c, "leavingParent") ELSE Ends(c)
  /\ UNCHANGED <<rows, agentGate, gateVars>>

CreateForkOrRetry(c, s) ==
  /\ call[c].pc \in {"forking", "retrying"}
  /\ InsertRow(c, s)
  /\ UNCHANGED agentGate

InitializationFails(c) ==
  /\ \/ call[c].pc = "initializing" /\ Goes(c, "failed")
     \/ call[c].pc = "forking" /\ Goes(c, "leaving")
  /\ UNCHANGED <<rows, agentGate, gateVars>>

\* A child whose row has been deleted meanwhile counts as a failure.
InitializationEnds(c) ==
  /\ call[c].pc = "initializing"
  /\ Goes(c, CASE call[c].op = "create" -> "starting"
               [] call[c].op = "child" /\ ~HasRow(call[c].session) -> "failed"
               [] OTHER -> "leaving")
  /\ UNCHANGED <<rows, agentGate, gateVars>>

StartInitialTurn(c) ==
  /\ call[c].pc = "starting"
  /\ Goes(c, "leaving")
  /\ UNCHANGED <<rows, agentGate, gateVars>>

\* cleanupFailedSessionInitialization, and the next attempt for a child.
CleanupFailed(c) ==
  /\ call[c].pc = "failed"
  /\ row' = [row EXCEPT ![call[c].session] = None]
  /\ LET again == call[c].op = "child" /\ call[c].tries < MaxAttempts /\ NameLeft IN
       Goes(c, IF again THEN "retrying" ELSE "leaving")
  /\ UNCHANGED <<agents, parent, fresh, agentGate, gateVars>>

\* cleanupCancelledNewSession: a new session whose caller gave up is deleted again while
\* the agent gate is still held.
CancelNew(c) ==
  /\ call[c].pc = "starting"
  /\ IF call[c].session \in deleting
       THEN Goes(c, "leaving") /\ UNCHANGED gateVars
       ELSE /\ RunDeletion(call[c].session, c)
            /\ call' = [call EXCEPT ![c].pc = "draining", ![c].top = call[c].session]
  /\ UNCHANGED <<rows, agentGate>>

LeaveAgent(c) ==
  /\ call[c].pc = "leaving"
  /\ AgentGate!FinishOperation(call[c].agent, c)
  /\ IF call[c].op = "child" THEN Goes(c, "leavingParent") ELSE Ends(c)
  /\ UNCHANGED <<rows, gateVars>>

LeaveParent(c) ==
  /\ call[c].pc = "leavingParent"
  /\ FinishOperation(call[c].top, c)
  /\ Ends(c)
  /\ UNCHANGED <<rows, agentGate>>
-----------------------------------------------------------------------------
(* Moves.                                                                  *)

Moves(c, s) == call[c].op = "move" /\ call[c].session = s

\* moveSessionToAgent, one at a time per session; the target need not exist.
BeginMove(c, s, a) ==
  /\ HasRow(s) /\ row[s] # a
  /\ \A d \in Calls : ~Moves(d, s)
  /\ AgentGate!RunOperation(a, c)
  /\ Begins(c, "move", "assessing", a, s)
  /\ UNCHANGED <<rows, gateVars>>

\* resolveTransferSource and resolveDeepChatTransferTarget throw without row or agent.
ResolveTransferTarget(c) ==
  /\ call[c].pc = "assessing"
  /\ Goes(c, IF call[c].agent \in agents /\ HasRow(call[c].session) THEN "switching" ELSE "leaving")
  /\ UNCHANGED <<rows, agentGate, gateVars>>

\* updateAgentId changes nothing if the row is gone.
UpdateAgentId(c) ==
  /\ call[c].pc = "switching"
  /\ row' = [row EXCEPT ![call[c].session] = IF @ = None THEN None ELSE call[c].agent]
  /\ Goes(c, "leaving")
  /\ UNCHANGED <<agents, parent, fresh, agentGate, gateVars>>

MoveFails(c) ==
  /\ call[c].pc \in {"assessing", "switching"}
  /\ Goes(c, "leaving")
  /\ UNCHANGED <<rows, agentGate, gateVars>>
-----------------------------------------------------------------------------
(* Deletion of a session with its children.                                *)

DeleteSession(c, s) ==
  /\ s \notin fresh
  /\ RunDeletion(s, c)
  /\ Begins(c, "delete", "draining", None, s)
  /\ UNCHANGED <<rows, agentGate>>

DrainTimesOut(c) ==
  /\ call[c].pc = "draining"
  /\ DrainExpires(call[c].session, c)
  /\ Goes(c, "failing")
  /\ UNCHANGED <<rows, agentGate>>

DeleteTreeUnderGate(c) ==
  /\ call[c].pc = "draining"
  /\ StartDeletion(call[c].session, c)
  /\ Goes(c, IF HasRow(call[c].session) THEN "stopping" ELSE "closing")
  /\ UNCHANGED <<rows, agentGate>>

\* A regular session lists its children once; a child has none.
ListChildren(c) ==
  /\ call[c].pc = "stopping"
  /\ LET s == call[c].session IN
       call' = [call EXCEPT ![c].pc = "children",
                            ![c].todo = IF s # call[c].top THEN @
                                        ELSE {d \in Sessions : HasRow(d) /\ parent[d] = s}]
  /\ UNCHANGED <<rows, agentGate, gateVars>>

\* The next child; the deletion of the parent fails if that child is being deleted.
DeleteChild(c, d) ==
  /\ call[c].pc = "children" /\ call[c].session = call[c].top /\ d \in call[c].todo
  /\ IF d \in deleting
       THEN Goes(c, "failing") /\ UNCHANGED gateVars
       ELSE /\ RunDeletion(d, c)
            /\ call' = [call EXCEPT ![c].pc = "draining", ![c].session = d, ![c].todo = @ \ {d}]
  /\ UNCHANGED <<rows, agentGate>>

RemoveRow(c) ==
  /\ call[c].pc = "children" /\ (call[c].todo = {} \/ call[c].session # call[c].top)
  /\ row' = [row EXCEPT ![call[c].session] = None]
  /\ Goes(c, "closing")
  /\ UNCHANGED <<agents, parent, fresh, agentGate, gateVars>>

\* The finally block of the gate. A child that failed fails its parent; the error of a
\* cancelled new session is swallowed.
CloseDeletion(c) ==
  /\ call[c].pc \in {"closing", "failing"}
  /\ EndDeletion(call[c].session, c)
  /\ IF call[c].session # call[c].top
       THEN call' = [call EXCEPT ![c].session = call[c].top,
                                 ![c].pc = IF @ = "closing" THEN "children" ELSE "failing"]
       ELSE IF call[c].op = "create" THEN Goes(c, "leaving") ELSE Ends(c)
  /\ UNCHANGED <<rows, agentGate>>
-----------------------------------------------------------------------------
(* Deletion of an agent.                                                   *)

CanDelete(a) == a \in agents \ Protected /\ \A s \in Sessions : row[s] # a

\* deleteDeepChatAgentWithCleanup: a second call joins the task of the first.
DeleteAgent(c, a) ==
  /\ AgentGate!RunDeletion(a, c)
  /\ Begins(c, "deleteAgent", "agentDraining", a, None)
  /\ UNCHANGED <<rows, gateVars>>

DeleteAgentUnderGate(c) ==
  /\ call[c].pc = "agentDraining"
  /\ AgentGate!StartDeletion(call[c].agent, c)
  /\ Goes(c, IF CanDelete(call[c].agent) THEN "agentCleaning" ELSE "agentClosing")
  /\ UNCHANGED <<rows, gateVars>>

\* The transaction checks again.
RemoveAgent(c) ==
  /\ call[c].pc = "agentCleaning"
  /\ agents' = IF CanDelete(call[c].agent) THEN agents \ {call[c].agent} ELSE agents
  /\ Goes(c, "agentClosing")
  /\ UNCHANGED <<row, parent, fresh, agentGate, gateVars>>

CleanupOfAgentFails(c) ==
  /\ call[c].pc = "agentCleaning"
  /\ Goes(c, "agentClosing")
  /\ UNCHANGED <<rows, agentGate, gateVars>>

CloseAgentDeletion(c) ==
  /\ call[c].pc = "agentClosing"
  /\ AgentGate!EndDeletion(call[c].agent, c)
  /\ Ends(c)
  /\ UNCHANGED <<rows, gateVars>>
-----------------------------------------------------------------------------
\* What a call does by itself once it has begun, without the help of a failure or timer.
Continue(c) ==
  \/ \E s \in Sessions : CreateSession(c, s) \/ CreateForkOrRetry(c, s) \/ DeleteChild(c, s)
  \/ RefuseCreation(c) \/ InitializationEnds(c) \/ StartInitialTurn(c) \/ CleanupFailed(c)
  \/ LeaveAgent(c) \/ LeaveParent(c)
  \/ ResolveTransferTarget(c) \/ UpdateAgentId(c)
  \/ DeleteTreeUnderGate(c) \/ ListChildren(c) \/ RemoveRow(c) \/ CloseDeletion(c)
  \/ DeleteAgentUnderGate(c) \/ RemoveAgent(c) \/ CloseAgentDeletion(c)

Begin(c) ==
  \/ \E a \in Agents : ResolveCreateAssignment(c, a) \/ DeleteAgent(c, a)
  \/ \E s \in Sessions : ForkSession(c, s) \/ DeleteSession(c, s)
  \/ \E s \in Sessions, a \in Agents : OperateOnParent(c, s, a) \/ BeginMove(c, s, a)

Disturb(c) ==
  \/ InitializationFails(c) \/ CancelNew(c) \/ MoveFails(c)
  \/ DrainTimesOut(c) \/ CleanupOfAgentFails(c)

Next == \E c \in Calls : Begin(c) \/ Continue(c) \/ Disturb(c)

Spec == Init /\ [][Next]_vars

\* A call goes on by itself; nobody has to call, and no failure or timer has to come.
FairSpec == Spec /\ \A c \in Calls : WF_vars(Continue(c))
-----------------------------------------------------------------------------
Pcs == {"out", "resolved", "forking", "initializing", "starting", "failed", "retrying", "assessing",
        "switching", "draining", "stopping", "children", "closing", "failing",
        "agentDraining", "agentCleaning", "agentClosing", "leaving", "leavingParent"}
Ops == {"none", "create", "fork", "child", "move", "delete", "deleteAgent"}

\* Types of the rows and of the calls; those of the session gate are GateTypeOK.
TypeOK ==
  /\ agents \subseteq Agents
  /\ row \in [Sessions -> Agents \cup {None}]
  /\ parent \in [Sessions -> Sessions \cup {None}]
  /\ fresh \subseteq {s \in Sessions : row[s] = None}
  /\ call \in [Calls -> [pc : Pcs, op : Ops, agent : Agents \cup {None},
                         session : Sessions \cup {None}, top : Sessions \cup {None},
                         todo : SUBSET Sessions, tries : 0 .. MaxAttempts]]
  /\ AgentGate!GateTypeOK

\* No session is left that refers to a deleted agent (docs/architecture/agent-system.md):
\* the agent of a row exists, or the call that has just inserted the row has
\* found out and is about to delete it.
AgentExists ==
  \A s \in Sessions :
    HasRow(s) /\ row[s] \notin agents =>
      \E c \in Calls : call[c].pc = "failed" /\ call[c].session = s

\* No child outlives its parent: a creation that had begun before the parent's deletion is
\* waited for and its child deleted too (session/deletion.ts).
ParentExists ==
  \A s \in Sessions : HasRow(s) /\ parent[s] # None => HasRow(parent[s])

\* Whatever is deleted takes with it all that refers to it: sessions go with or before
\* their agent, children with or before their parent.
NobodyIsLeftBehind == AgentExists /\ ParentExists

\* A call that is over is in neither gate, however it ended: an operation that stayed
\* counted would block, and a mark that stayed would forbid, every later call.
NothingStaysInside ==
  \A c \in Calls : call[c].pc = "out" =>
    /\ \A a \in Agents : aPlace[a][c] = "out"
    /\ \A s \in Sessions : place[s][c] = "out"

\* Marks, counters and waiters of both gates agree with the calls that are inside, through
\* every refusal, failure, retry and expiry.
Consistent ==
  /\ TypeOK /\ NothingStaysInside
  /\ GateTypeOK /\ ClosedByOne /\ NoLostDrain /\ CounterIsExact
  /\ AgentGate!ClosedByOne /\ AgentGate!NoLostDrain /\ AgentGate!CounterIsExact

\* Calls that hold one gate and wait for the other never wait in a circle: each ends, and
\* this without the time limit of the session gate.
CallsEnd == \A c \in Calls : call[c].pc # "out" ~> call[c].pc = "out"
=============================================================================
