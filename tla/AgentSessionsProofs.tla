------------------------ MODULE AgentSessionsProofs ------------------------
(***************************************************************************)
(* Agents, sessions and the calls that create, fork, move and delete them, *)
(* for any agents, sessions and finite set of calls: what a call holds in  *)
(* the two gates is told by the await it is at, and because of the gates   *)
(* no session outlives its agent and no child its parent.                  *)
(***************************************************************************)
EXTENDS AgentSessions, OperationGateProofs

\* The theorems about a gate, for the gate of the agents.
AgentProofs == INSTANCE OperationGateProofs WITH
  Keys <- Agents, TimeLimited <- FALSE,
  active <- aActive, deleting <- aDeleting, waiters <- aWaiters, place <- aPlace

-----------------------------------------------------------------------------
(* The inductive invariant.                                                *)

CallRecords == [pc : Pcs, op : Ops, agent : Agents \cup {None},
                session : Sessions \cup {None}, top : Sessions \cup {None},
                todo : SUBSET Sessions, tries : 0 .. MaxAttempts]

\* The awaits of the deletion of a session, and those of a call that holds a new row.
Deletes == {"draining", "stopping", "children", "closing", "failing"}
News == {"initializing", "failed"}

PcsOf(op) ==
  CASE op = "none" -> {"out"}
    [] op = "create" -> {"resolved", "initializing", "starting", "failed", "leaving"} \cup Deletes
    [] op = "fork" -> {"forking", "initializing", "failed", "leaving"}
    [] op = "child" ->
         {"resolved", "initializing", "failed", "retrying", "leaving", "leavingParent"}
    [] op = "move" -> {"assessing", "switching", "leaving"}
    [] op = "delete" -> Deletes
    [] op = "deleteAgent" -> {"agentDraining", "agentCleaning", "agentClosing"}

\* The fields of a call that its await may use.
WellFormed(k) ==
  /\ k.pc \in PcsOf(k.op)
  /\ k.op \notin {"none", "delete"} => k.agent \in Agents
  /\ k.pc \in News \cup Deletes \cup {"starting", "assessing", "switching"} =>
       k.session \in Sessions
  /\ k.pc \in Deletes \/ k.op = "child" => k.top \in Sessions
  /\ k.pc \in {"resolved", "forking"} => k.tries = 0
  /\ k.pc = "retrying" => k.tries < MaxAttempts
  /\ k.pc \in News \cup {"resolved", "forking", "retrying", "starting"} => k.todo = {}

\* Where a call is in the gate of agent a and of session s.
InAgentGate(k) ==
  \/ k.pc \in News \cup {"forking", "starting", "retrying", "assessing", "switching", "leaving"}
  \/ k.op = "create" /\ k.pc \in Deletes

AgentPlace(k, a) ==
  IF a # k.agent THEN {"out"}
  ELSE IF InAgentGate(k) THEN {"operating"}
  ELSE IF k.pc = "agentDraining" THEN {"draining", "woken"}
  ELSE IF k.pc \in {"agentCleaning", "agentClosing"} THEN {"deleting"}
  ELSE {"out"}

SessionPlace(k, s) ==
  IF k.op = "child" THEN IF s = k.top THEN {"operating"} ELSE {"out"}
  ELSE IF k.pc \notin Deletes \/ s \notin {k.session, k.top} THEN {"out"}
  ELSE IF s = k.session /\ k.pc = "draining" THEN {"draining", "woken"}
  ELSE IF s = k.session /\ k.pc = "failing" THEN {"expired", "deleting"}
  ELSE {"deleting"}

GatesMatch ==
  /\ \A c \in Calls, a \in Agents : aPlace[a][c] \in AgentPlace(call[c], a)
  /\ \A c \in Calls, s \in Sessions : place[s][c] \in SessionPlace(call[c], s)

\* Children are children of regular sessions.
ParentsAreRegular ==
  \A s \in Sessions : HasRow(s) /\ parent[s] # None => parent[parent[s]] = None

\* The target of a move exists, for the mover holds its gate.
TargetsExist == \A c \in Calls : call[c].pc = "switching" => call[c].agent \in agents

\* The parent of a child that is being created stays, for its gate is held.
ParentsStay ==
  \A c \in Calls : call[c].op = "child" => HasRow(call[c].top) /\ parent[call[c].top] = None

\* A row that is not initialized yet has no children and is nobody's parent to be.
NewRowsAreLeaves ==
  \A c \in Calls : call[c].pc \in News =>
    /\ \A s \in Sessions : HasRow(s) => parent[s] # call[c].session
    /\ \A d \in Calls : call[d].op = "child" => call[d].top # call[c].session

NewNamesAreDrawn ==
  \A c \in Calls : call[c].pc \in News \cup {"starting"} => call[c].session \notin fresh

\* A deletion knows all the children that are left.
KidsAreListed(k) ==
  /\ k.session \notin fresh /\ k.top \notin fresh
  /\ \A s \in k.todo : parent[s] = k.top /\ s # k.top /\ s \notin fresh
  /\ k.session # k.top => parent[k.session] = k.top
  /\ k.pc = "closing" => ~HasRow(k.session)
  /\ k.pc = "children" \/ (k.session # k.top /\ k.pc # "failing") =>
       \A s \in Sessions :
         HasRow(s) /\ parent[s] = k.top => s \in k.todo \/ (s = k.session /\ s # k.top)

DeletionsAreComplete == \A c \in Calls : call[c].pc \in Deletes => KidsAreListed(call[c])

RowsInv ==
  /\ AgentExists /\ ParentExists /\ ParentsAreRegular /\ TargetsExist /\ ParentsStay
  /\ NewRowsAreLeaves /\ NewNamesAreDrawn /\ DeletionsAreComplete

RowTypes ==
  /\ agents \subseteq Agents
  /\ row \in [Sessions -> Agents \cup {None}]
  /\ parent \in [Sessions -> Sessions \cup {None}]
  /\ fresh \subseteq {s \in Sessions : row[s] = None}

CallTypes == call \in [Calls -> CallRecords] /\ \A c \in Calls : WellFormed(call[c])

SessionsInv ==
  /\ RowTypes /\ CallTypes /\ GatesMatch /\ RowsInv
  /\ GateIInv /\ AgentProofs!GateIInv

-----------------------------------------------------------------------------
(* The gate of the agents, as the sessions module names it.                *)

LEMMA AgentGateAssumptions ==
  AgentProofs!IsFiniteSet(Calls) /\ Nobody \notin Calls /\ FALSE \in BOOLEAN
BY CallsAreFinite DEF AgentProofs!IsFiniteSet, IsFiniteSet

LEMMA SameCardinality ==
  \A S : AgentGate!Cardinality(S) = Cardinality(S) /\ AgentProofs!Cardinality(S) = Cardinality(S)
BY DEF AgentGate!Cardinality, AgentProofs!Cardinality, Cardinality

LEMMA AgentGateNames ==
  /\ AgentGate!GateTypeOK <=> AgentProofs!GateTypeOK
  /\ AgentGate!CounterIsExact <=> AgentProofs!CounterIsExact
  /\ AgentGate!ClosedByOne <=> AgentProofs!ClosedByOne
  /\ AgentGate!NoLostDrain <=> AgentProofs!NoLostDrain
  /\ AgentGate!GateInit <=> AgentProofs!GateInit
BY SameCardinality
   DEF AgentGate!GateTypeOK, AgentProofs!GateTypeOK, AgentGate!Places, AgentProofs!Places,
       AgentGate!Closing, AgentProofs!Closing, AgentGate!CounterIsExact, AgentProofs!CounterIsExact,
       AgentGate!Operating, AgentProofs!Operating, AgentGate!ClosedByOne, AgentProofs!ClosedByOne,
       AgentGate!Closers, AgentProofs!Closers, AgentGate!NoLostDrain, AgentProofs!NoLostDrain,
       AgentGate!GateInit, AgentProofs!GateInit

LEMMA AgentGateActions ==
  ASSUME NEW a \in Agents, NEW c \in Calls
  PROVE  /\ AgentGate!RunOperation(a, c) <=> AgentProofs!RunOperation(a, c)
         /\ AgentGate!FinishOperation(a, c) <=> AgentProofs!FinishOperation(a, c)
         /\ AgentGate!RunDeletion(a, c) <=> AgentProofs!RunDeletion(a, c)
         /\ AgentGate!StartDeletion(a, c) <=> AgentProofs!StartDeletion(a, c)
         /\ AgentGate!EndDeletion(a, c) <=> AgentProofs!EndDeletion(a, c)
BY DEF AgentGate!RunOperation, AgentProofs!RunOperation, AgentGate!FinishOperation,
       AgentProofs!FinishOperation, AgentGate!RunDeletion, AgentProofs!RunDeletion,
       AgentGate!StartDeletion, AgentProofs!StartDeletion, AgentGate!EndDeletion,
       AgentProofs!EndDeletion

LEMMA AgentGateInductive ==
  /\ AgentProofs!GateInit => AgentProofs!GateIInv
  /\ AgentProofs!GateIInv /\ [AgentProofs!GateNext]_(AgentProofs!gateVars) => AgentProofs!GateIInv'
BY AgentGateAssumptions, AgentProofs!GateInductive

\* What a step of a gate does, for the gate of the sessions and for that of the agents.
LEMMA SessionGateStep ==
  ASSUME SessionsInv, NEW s \in Sessions, NEW c \in Calls
  PROVE  /\ RunOperation(s, c) => GateIInv' /\ MovesOne(s, c, {"operating"})
         /\ FinishOperation(s, c) => GateIInv' /\ MovesOne(s, c, {"out"})
         /\ RunDeletion(s, c) => GateIInv' /\ MovesOne(s, c, {"draining", "woken"})
         /\ StartDeletion(s, c) => GateIInv' /\ MovesOne(s, c, {"deleting"})
         /\ DrainExpires(s, c) => GateIInv' /\ MovesOne(s, c, {"expired"})
         /\ EndDeletion(s, c) => GateIInv' /\ MovesOne(s, c, {"out"})
         /\ UNCHANGED gateVars => GateIInv'
BY GateMoves, GateInductive DEF SessionsInv, GateNext, Sessions

LEMMA AgentGateStep ==
  ASSUME SessionsInv, NEW a \in Agents, NEW c \in Calls
  PROVE  /\ AgentGate!RunOperation(a, c) =>
              AgentProofs!GateIInv' /\ AgentProofs!MovesOne(a, c, {"operating"})
         /\ AgentGate!FinishOperation(a, c) =>
              AgentProofs!GateIInv' /\ AgentProofs!MovesOne(a, c, {"out"})
         /\ AgentGate!RunDeletion(a, c) =>
              AgentProofs!GateIInv' /\ AgentProofs!MovesOne(a, c, {"draining", "woken"})
         /\ AgentGate!StartDeletion(a, c) =>
              AgentProofs!GateIInv' /\ AgentProofs!MovesOne(a, c, {"deleting"})
         /\ AgentGate!EndDeletion(a, c) =>
              AgentProofs!GateIInv' /\ AgentProofs!MovesOne(a, c, {"out"})
<1>1. AgentProofs!GateIInv /\ (AgentProofs!GateNext => AgentProofs!GateIInv')
  BY AgentGateInductive DEF SessionsInv
<1>2. /\ AgentProofs!RunOperation(a, c) => AgentProofs!GateNext
      /\ AgentProofs!FinishOperation(a, c) => AgentProofs!GateNext
      /\ AgentProofs!RunDeletion(a, c) => AgentProofs!GateNext
      /\ AgentProofs!StartDeletion(a, c) => AgentProofs!GateNext
      /\ AgentProofs!EndDeletion(a, c) => AgentProofs!GateNext
  BY DEF AgentProofs!GateNext
<1>3. /\ AgentProofs!RunOperation(a, c) => AgentProofs!MovesOne(a, c, {"operating"})
      /\ AgentProofs!FinishOperation(a, c) => AgentProofs!MovesOne(a, c, {"out"})
      /\ AgentProofs!RunDeletion(a, c) => AgentProofs!MovesOne(a, c, {"draining", "woken"})
      /\ AgentProofs!StartDeletion(a, c) => AgentProofs!MovesOne(a, c, {"deleting"})
      /\ AgentProofs!EndDeletion(a, c) => AgentProofs!MovesOne(a, c, {"out"})
  BY <1>1, AgentGateAssumptions, AgentProofs!GateMoves
<1> QED
  BY <1>1, <1>2, <1>3, AgentGateActions

LEMMA AgentGateRests ==
  ASSUME SessionsInv, UNCHANGED agentGate
  PROVE  AgentProofs!GateIInv'
<1>1. UNCHANGED AgentProofs!gateVars
  BY DEF agentGate, AgentProofs!gateVars
<1> QED
  BY <1>1, AgentGateInductive DEF SessionsInv

-----------------------------------------------------------------------------
(* A step of a call.                                                       *)

\* Only call c moves in a gate, and to where its next await, told by k, says.
AgentMoves(c, k) ==
  /\ \A a \in Agents : aPlace'[a][c] \in AgentPlace(k, a)
  /\ \A a \in Agents, d \in Calls \ {c} :
       aPlace'[a][d] = aPlace[a][d] \/ (aPlace[a][d] = "draining" /\ aPlace'[a][d] = "woken")

SessionMoves(c, k) ==
  /\ \A s \in Sessions : place'[s][c] \in SessionPlace(k, s)
  /\ \A s \in Sessions, d \in Calls \ {c} :
       place'[s][d] = place[s][d] \/ (place[s][d] = "draining" /\ place'[s][d] = "woken")

MovesTo(c, k) == AgentMoves(c, k) /\ SessionMoves(c, k)

\* The places of the other calls still match when they are woken.
LEMMA MatchStep ==
  ASSUME SessionsInv, NEW c \in Calls, NEW k \in CallRecords, call' = [call EXCEPT ![c] = k],
         MovesTo(c, k)
  PROVE  GatesMatch'
<1>1. \A d \in Calls : call'[d] = IF d = c THEN k ELSE call[d]
  BY DEF SessionsInv, CallTypes
<1>2. \A l, a : "draining" \in AgentPlace(l, a) => "woken" \in AgentPlace(l, a)
  BY DEF AgentPlace
<1>3. \A l, s : "draining" \in SessionPlace(l, s) => "woken" \in SessionPlace(l, s)
  BY DEF SessionPlace
<1>4. ASSUME NEW d \in Calls, NEW a \in Agents PROVE aPlace'[a][d] \in AgentPlace(call'[d], a)
  BY <1>1, <1>2 DEF MovesTo, AgentMoves, SessionsInv, GatesMatch
<1>5. ASSUME NEW d \in Calls, NEW s \in Sessions PROVE place'[s][d] \in SessionPlace(call'[d], s)
  BY <1>1, <1>3 DEF MovesTo, SessionMoves, SessionsInv, GatesMatch
<1> QED
  BY <1>4, <1>5 DEF GatesMatch

LEMMA CallStep ==
  ASSUME SessionsInv, NEW c \in Calls, NEW k \in CallRecords, WellFormed(k),
         call' = [call EXCEPT ![c] = k], MovesTo(c, k),
         GateIInv', AgentProofs!GateIInv', RowTypes', RowsInv'
  PROVE  SessionsInv'
<1>1. CallTypes'
  BY DEF SessionsInv, CallTypes
<1> QED
  BY <1>1, MatchStep DEF SessionsInv

\* What a step that changes no row has to show of its call.
Restful(c, k) ==
  /\ call[c].pc # "failed" \/ (k.pc = "failed" /\ k.session = call[c].session)
  /\ k.pc = "switching" => k.agent \in agents
  /\ k.op = "child" =>
       \/ call[c].op = "child" /\ call[c].top = k.top
       \/ HasRow(k.top) /\ parent[k.top] = None /\ Initialized(k.top)
  /\ k.pc \in News \cup {"starting"} => call[c].pc \in News /\ k.session = call[c].session
  /\ k.pc \in Deletes => KidsAreListed(k)

LEMMA RowsRest ==
  ASSUME SessionsInv, NEW c \in Calls, NEW k \in CallRecords,
         call' = [call EXCEPT ![c] = k], UNCHANGED rows, Restful(c, k)
  PROVE  RowTypes' /\ RowsInv'
<1>1. \A d \in Calls : call'[d] = IF d = c THEN k ELSE call[d]
  BY DEF SessionsInv, CallTypes
<1>2. RowTypes /\ RowsInv
  BY DEF SessionsInv
<1>3. RowTypes' /\ ParentExists' /\ ParentsAreRegular'
  BY <1>2 DEF rows, RowTypes, RowsInv, ParentExists, ParentsAreRegular, HasRow
<1>4. AgentExists'
  BY <1>1, <1>2 DEF rows, RowsInv, AgentExists, HasRow, Restful
<1>5. TargetsExist'
  BY <1>1, <1>2 DEF rows, RowsInv, TargetsExist, Restful
<1>6. ParentsStay'
  BY <1>1, <1>2 DEF rows, RowsInv, ParentsStay, HasRow, Restful
<1>7. NewRowsAreLeaves'
  BY <1>1, <1>2 DEF rows, RowsInv, NewRowsAreLeaves, HasRow, Restful, Initialized, News
<1>n. NewNamesAreDrawn'
  BY <1>1, <1>2 DEF rows, RowsInv, NewNamesAreDrawn, Restful
<1>8. DeletionsAreComplete'
  BY <1>1, <1>2 DEF rows, RowsInv, DeletionsAreComplete, KidsAreListed, HasRow, Restful
<1> QED
  BY <1>3, <1>4, <1>5, <1>6, <1>7, <1>n, <1>8 DEF RowsInv

\* The moves of a call through a gate, and of one that stays where it is.
LEMMA AgentStays ==
  ASSUME SessionsInv, NEW c \in Calls, NEW k, UNCHANGED agentGate,
         \A a \in Agents : AgentPlace(call[c], a) \subseteq AgentPlace(k, a)
  PROVE  AgentMoves(c, k) /\ AgentProofs!GateIInv'
<1>1. AgentMoves(c, k)
  BY DEF AgentMoves, SessionsInv, GatesMatch, agentGate
<1> QED
  BY <1>1, AgentGateRests

LEMMA SessionStays ==
  ASSUME SessionsInv, NEW c \in Calls, NEW k, UNCHANGED gateVars,
         \A s \in Sessions : SessionPlace(call[c], s) \subseteq SessionPlace(k, s)
  PROVE  SessionMoves(c, k) /\ GateIInv'
<1>1. SessionMoves(c, k)
  BY DEF SessionMoves, SessionsInv, GatesMatch, gateVars
<1> QED
  BY <1>1, GateInductive DEF SessionsInv

LEMMA AgentGoes ==
  ASSUME SessionsInv, NEW c \in Calls, NEW k, NEW a \in Agents, NEW to,
         AgentProofs!MovesOne(a, c, to), to \subseteq AgentPlace(k, a),
         \A b \in Agents \ {a} : AgentPlace(call[c], b) \subseteq AgentPlace(k, b)
  PROVE  AgentMoves(c, k)
BY DEF AgentMoves, AgentProofs!MovesOne, SessionsInv, GatesMatch

LEMMA SessionGoes ==
  ASSUME SessionsInv, NEW c \in Calls, NEW k, NEW s \in Sessions, NEW to,
         MovesOne(s, c, to), to \subseteq SessionPlace(k, s),
         \A r \in Sessions \ {s} : SessionPlace(call[c], r) \subseteq SessionPlace(k, r)
  PROVE  SessionMoves(c, k)
BY DEF SessionMoves, MovesOne, SessionsInv, GatesMatch, Sessions

\* A step that touches neither a row nor a gate.
LEMMA QuietStep ==
  ASSUME SessionsInv, NEW c \in Calls, NEW k \in CallRecords, WellFormed(k),
         call' = [call EXCEPT ![c] = k], UNCHANGED <<rows, agentGate, gateVars>>,
         \A a \in Agents : AgentPlace(call[c], a) \subseteq AgentPlace(k, a),
         \A s \in Sessions : SessionPlace(call[c], s) \subseteq SessionPlace(k, s),
         Restful(c, k)
  PROVE  SessionsInv'
<1>1. AgentMoves(c, k) /\ AgentProofs!GateIInv'
  BY AgentStays
<1>2. SessionMoves(c, k) /\ GateIInv'
  BY SessionStays
<1> QED
  BY <1>1, <1>2, RowsRest, CallStep DEF MovesTo

-----------------------------------------------------------------------------
(* The awaits of each operation.                                           *)

LEMMA PcsOfEach ==
  /\ PcsOf("none") = {"out"}
  /\ PcsOf("create") = {"resolved", "initializing", "starting", "failed", "leaving"} \cup Deletes
  /\ PcsOf("fork") = {"forking", "initializing", "failed", "leaving"}
  /\ PcsOf("child") =
       {"resolved", "initializing", "failed", "retrying", "leaving", "leavingParent"}
  /\ PcsOf("move") = {"assessing", "switching", "leaving"}
  /\ PcsOf("delete") = Deletes
  /\ PcsOf("deleteAgent") = {"agentDraining", "agentCleaning", "agentClosing"}
BY DEF PcsOf

\* The operations that have a call at each await.
LEMMA OpsOfEach ==
  ASSUME NEW l \in CallRecords, WellFormed(l)
  PROVE  /\ l.pc = "out" <=> l.op = "none"
         /\ l.pc = "resolved" => l.op \in {"create", "child"}
         /\ l.pc = "forking" => l.op = "fork"
         /\ l.pc \in News => l.op \in {"create", "fork", "child"}
         /\ l.pc = "starting" => l.op = "create"
         /\ l.pc \in {"retrying", "leavingParent"} => l.op = "child"
         /\ l.pc \in {"assessing", "switching"} => l.op = "move"
         /\ l.pc = "leaving" => l.op \in {"create", "fork", "child", "move"}
         /\ l.pc \in Deletes => l.op \in {"create", "delete"}
         /\ l.pc \in {"agentDraining", "agentCleaning", "agentClosing"} => l.op = "deleteAgent"
<1>1. l.op \in Ops /\ l.pc \in PcsOf(l.op)
  BY DEF CallRecords, WellFormed
<1> QED
  BY <1>1, PcsOfEach DEF Ops, Deletes, News

-----------------------------------------------------------------------------
(* Steps of a call by itself.                                              *)

\* The record of a call that goes on to another await.
LEMMA GoneTo ==
  ASSUME SessionsInv, NEW c \in Calls, NEW p \in Pcs
  PROVE  LET k == [call[c] EXCEPT !.pc = p] IN
         /\ k \in CallRecords /\ k.pc = p /\ k.op = call[c].op /\ k.agent = call[c].agent
         /\ k.session = call[c].session /\ k.top = call[c].top /\ k.todo = call[c].todo
         /\ k.tries = call[c].tries
         /\ Goes(c, p) => call' = [call EXCEPT ![c] = k]
<1>1. call[c] \in CallRecords
  BY DEF SessionsInv, CallTypes
<1> QED
  BY <1>1 DEF CallRecords, Goes

LEMMA OwnWellFormed ==
  ASSUME SessionsInv, NEW c \in Calls
  PROVE  /\ call[c] \in CallRecords /\ WellFormed(call[c])
         /\ call[c].pc \in Deletes => KidsAreListed(call[c])
BY DEF SessionsInv, CallTypes, RowsInv, DeletionsAreComplete

\* The awaits a call leaves for another without touching a gate or a row.
LEMMA GoQuietly ==
  ASSUME SessionsInv, NEW c \in Calls, NEW p \in Pcs, Goes(c, p),
         UNCHANGED <<rows, agentGate, gateVars>>,
         \/ call[c].pc = "resolved" /\ call[c].op = "child" /\ p = "leavingParent"
         \/ call[c].pc = "forking" /\ p = "leaving"
         \/ call[c].pc = "initializing" /\ p = "failed"
         \/ call[c].pc = "initializing" /\ call[c].op = "create" /\ p = "starting"
         \/ call[c].pc = "initializing" /\ call[c].op # "create" /\ p = "leaving"
         \/ call[c].pc = "starting" /\ p = "leaving"
         \/ call[c].pc = "assessing" /\ call[c].agent \in agents /\ p = "switching"
         \/ call[c].pc \in {"assessing", "switching"} /\ p = "leaving"
         \/ call[c].pc = "agentCleaning" /\ p = "agentClosing"
  PROVE  SessionsInv'
<1> DEFINE k == [call[c] EXCEPT !.pc = p]
<1>1. /\ k \in CallRecords /\ k.pc = p /\ k.op = call[c].op /\ k.agent = call[c].agent
      /\ k.session = call[c].session /\ k.top = call[c].top /\ k.todo = call[c].todo
      /\ k.tries = call[c].tries /\ call' = [call EXCEPT ![c] = k]
  BY GoneTo
<1>2. WellFormed(call[c])
  BY OwnWellFormed
<1> HIDE DEF k
<1>o. call[c] \in CallRecords
  BY OwnWellFormed
<1>3. WellFormed(k)
  <2>1. k.pc \in PcsOf(k.op)
    BY <1>1, <1>2, <1>o, OpsOfEach, PcsOfEach DEF Deletes, News
  <2>2. k.pc \notin {"resolved", "forking", "retrying"} /\ k.pc \notin Deletes
    BY <1>1 DEF Deletes
  <2>3. k.pc \in News \cup {"starting", "assessing", "switching"} =>
          call[c].pc \in News \cup {"starting", "assessing", "switching"}
    BY <1>1 DEF News
  <2> QED
    BY <1>1, <1>2, <2>1, <2>2, <2>3 DEF WellFormed, News
<1>4. \A a \in Agents : AgentPlace(call[c], a) \subseteq AgentPlace(k, a)
  BY <1>1, <1>2 DEF WellFormed, PcsOf, AgentPlace, InAgentGate, Deletes, News
<1>5. \A s \in Sessions : SessionPlace(call[c], s) \subseteq SessionPlace(k, s)
  BY <1>1, <1>2 DEF WellFormed, PcsOf, SessionPlace, Deletes, News
<1>6. Restful(c, k)
  BY <1>1, <1>2 DEF Restful, Deletes, News
<1> QED
  BY <1>1, <1>3, <1>4, <1>5, <1>6, QuietStep

-----------------------------------------------------------------------------
(* Calls that begin.                                                       *)

\* Call c was over and is now that of record k.
BegunAs(c, k, op, p, a, s) ==
  /\ k \in CallRecords
  /\ k.pc = p /\ k.op = op /\ k.agent = a /\ k.session = s /\ k.top = s
  /\ k.todo = {} /\ k.tries = 0
  /\ call' = [call EXCEPT ![c] = k]
  /\ call[c].pc = "out" /\ call[c].op = "none"
  /\ \A b \in Agents : AgentPlace(call[c], b) = {"out"}
  /\ \A r \in Sessions : SessionPlace(call[c], r) = {"out"}

LEMMA BeginsAs ==
  ASSUME SessionsInv, NEW c \in Calls, NEW op \in Ops, NEW p \in Pcs,
         NEW a \in Agents \cup {None}, NEW s \in Sessions \cup {None},
         Begins(c, op, p, a, s)
  PROVE  \E k : BegunAs(c, k, op, p, a, s)
<1> DEFINE k == [Over EXCEPT !.op = op, !.pc = p, !.agent = a, !.session = s, !.top = s]
<1>1. /\ k.pc = p /\ k.op = op /\ k.agent = a /\ k.session = s /\ k.top = s
      /\ k.todo = {} /\ k.tries = 0
  BY DEF Over
<1>2. k \in CallRecords
  <2>1. 0 \in 0 .. MaxAttempts
    BY AttemptsAssumption
  <2>2. Over \in CallRecords
    BY <2>1 DEF Over, CallRecords, Pcs, Ops
  <2> QED
    BY <2>2 DEF CallRecords
<1>3. call[c].pc = "out" /\ call' = [call EXCEPT ![c] = k]
  BY DEF Begins
<1>4. call[c] \in CallRecords /\ WellFormed(call[c])
  BY OwnWellFormed
<1>5. call[c].op = "none"
  BY <1>3, <1>4, OpsOfEach
<1>6. \A b \in Agents : AgentPlace(call[c], b) = {"out"}
  BY <1>3, <1>5 DEF AgentPlace, InAgentGate, News
<1>7. \A r \in Sessions : SessionPlace(call[c], r) = {"out"}
  BY <1>3, <1>5 DEF SessionPlace, Deletes
<1> QED
  BY <1>1, <1>2, <1>3, <1>5, <1>6, <1>7 DEF BegunAs

LEMMA ResolveCreateAssignmentKeeps ==
  ASSUME SessionsInv, NEW c \in Calls, NEW a \in Agents, ResolveCreateAssignment(c, a)
  PROVE  SessionsInv'
<1>1. Begins(c, "create", "resolved", a, None) /\ UNCHANGED <<rows, agentGate, gateVars>>
  BY DEF ResolveCreateAssignment
<1>2. PICK k : BegunAs(c, k, "create", "resolved", a, None)
  <2>1. "create" \in Ops /\ "resolved" \in Pcs
    BY DEF Ops, Pcs
  <2> QED
    BY <1>1, <2>1, BeginsAs
<1> USE DEF BegunAs
<1>3. WellFormed(k)
  BY <1>2, PcsOfEach DEF WellFormed, News, Deletes
<1>4. Restful(c, k)
  BY <1>2 DEF Restful, News, Deletes
<1>5. \A b \in Agents : AgentPlace(k, b) = {"out"}
  BY <1>2 DEF AgentPlace, InAgentGate, News, Deletes
<1>6. \A r \in Sessions : SessionPlace(k, r) = {"out"}
  BY <1>2 DEF SessionPlace, Deletes
<1> QED
  BY <1>1, <1>2, <1>3, <1>4, <1>5, <1>6, QuietStep

\* A fork and a move begin inside the gate of an agent.
LEMMA InsideAgentBegins ==
  ASSUME SessionsInv, NEW c \in Calls, NEW a \in Agents, NEW s \in Sessions \cup {None},
         NEW op, NEW p,
         (op = "fork" /\ p = "forking") \/ (op = "move" /\ p = "assessing" /\ s \in Sessions),
         AgentGate!RunOperation(a, c), Begins(c, op, p, a, s), UNCHANGED <<rows, gateVars>>
  PROVE  SessionsInv'
<1>1. PICK k : BegunAs(c, k, op, p, a, s)
  <2>1. op \in Ops /\ p \in Pcs
    BY DEF Ops, Pcs
  <2> QED
    BY <2>1, BeginsAs
<1> USE DEF BegunAs
<1>2. WellFormed(k)
  BY <1>1, PcsOfEach DEF WellFormed, News, Deletes
<1>3. Restful(c, k)
  BY <1>1 DEF Restful, News, Deletes
<1>4. AgentProofs!GateIInv' /\ AgentProofs!MovesOne(a, c, {"operating"})
  BY AgentGateStep
<1>5. AgentPlace(k, a) = {"operating"} /\ \A b \in Agents \ {a} : AgentPlace(k, b) = {"out"}
  BY <1>1 DEF AgentPlace, InAgentGate
<1>6. \A r \in Sessions : SessionPlace(k, r) = {"out"}
  BY <1>1 DEF SessionPlace, Deletes
<1>7. AgentMoves(c, k)
  BY <1>1, <1>4, <1>5, AgentGoes
<1>8. SessionMoves(c, k) /\ GateIInv'
  BY <1>1, <1>6, SessionStays
<1> QED
  BY <1>1, <1>2, <1>3, <1>4, <1>7, <1>8, RowsRest, CallStep DEF MovesTo

LEMMA ForkSessionKeeps ==
  ASSUME SessionsInv, NEW c \in Calls, NEW s \in Sessions, ForkSession(c, s)
  PROVE  SessionsInv'
<1>1. row[s] \in Agents
  BY DEF ForkSession, HasRow, SessionsInv, RowTypes
<1> QED
  BY <1>1, InsideAgentBegins DEF ForkSession

LEMMA BeginMoveKeeps ==
  ASSUME SessionsInv, NEW c \in Calls, NEW s \in Sessions, NEW a \in Agents, BeginMove(c, s, a)
  PROVE  SessionsInv'
BY InsideAgentBegins DEF BeginMove

LEMMA OperateOnParentKeeps ==
  ASSUME SessionsInv, NEW c \in Calls, NEW s \in Sessions, NEW a \in Agents,
         OperateOnParent(c, s, a)
  PROVE  SessionsInv'
<1>1. Begins(c, "child", "resolved", a, s) /\ UNCHANGED <<rows, agentGate>> /\ RunOperation(s, c)
  BY DEF OperateOnParent
<1>2. PICK k : BegunAs(c, k, "child", "resolved", a, s)
  <2>1. "child" \in Ops /\ "resolved" \in Pcs
    BY DEF Ops, Pcs
  <2> QED
    BY <1>1, <2>1, BeginsAs
<1> USE DEF BegunAs
<1>3. WellFormed(k)
  BY <1>2, PcsOfEach DEF WellFormed, News, Deletes
<1>4. Restful(c, k)
  BY <1>2 DEF Restful, News, Deletes, OperateOnParent
<1>5. \A b \in Agents : AgentPlace(k, b) = {"out"}
  BY <1>2 DEF AgentPlace, InAgentGate, News, Deletes
<1>6. SessionPlace(k, s) = {"operating"} /\ \A r \in Sessions \ {s} : SessionPlace(k, r) = {"out"}
  BY <1>2 DEF SessionPlace, Deletes
<1>7. AgentMoves(c, k) /\ AgentProofs!GateIInv'
  BY <1>1, <1>2, <1>5, AgentStays
<1>8. GateIInv' /\ MovesOne(s, c, {"operating"})
  BY <1>1, SessionGateStep
<1>9. SessionMoves(c, k)
  BY <1>2, <1>6, <1>8, SessionGoes
<1> QED
  BY <1>1, <1>2, <1>3, <1>4, <1>7, <1>8, <1>9, RowsRest, CallStep DEF MovesTo

LEMMA DeleteSessionKeeps ==
  ASSUME SessionsInv, NEW c \in Calls, NEW s \in Sessions, DeleteSession(c, s)
  PROVE  SessionsInv'
<1>1. /\ Begins(c, "delete", "draining", None, s) /\ UNCHANGED <<rows, agentGate>>
      /\ RunDeletion(s, c) /\ s \notin fresh
  BY DEF DeleteSession
<1>2. PICK k : BegunAs(c, k, "delete", "draining", None, s)
  <2>1. "delete" \in Ops /\ "draining" \in Pcs
    BY DEF Ops, Pcs
  <2> QED
    BY <1>1, <2>1, BeginsAs
<1> USE DEF BegunAs
<1>3. WellFormed(k)
  BY <1>2, PcsOfEach DEF WellFormed, News, Deletes
<1>4. Restful(c, k)
  BY <1>1, <1>2 DEF Restful, KidsAreListed, News, Deletes
<1>5. \A b \in Agents : AgentPlace(k, b) = {"out"}
  BY <1>2 DEF AgentPlace, InAgentGate, News, Deletes
<1>6. /\ SessionPlace(k, s) = {"draining", "woken"}
      /\ \A r \in Sessions \ {s} : SessionPlace(k, r) = {"out"}
  BY <1>2 DEF SessionPlace, Deletes
<1>7. AgentMoves(c, k) /\ AgentProofs!GateIInv'
  BY <1>1, <1>2, <1>5, AgentStays
<1>8. GateIInv' /\ MovesOne(s, c, {"draining", "woken"})
  BY <1>1, SessionGateStep
<1>9. SessionMoves(c, k)
  BY <1>2, <1>6, <1>8, SessionGoes
<1> QED
  BY <1>1, <1>2, <1>3, <1>4, <1>7, <1>8, <1>9, RowsRest, CallStep DEF MovesTo

LEMMA DeleteAgentKeeps ==
  ASSUME SessionsInv, NEW c \in Calls, NEW a \in Agents, DeleteAgent(c, a)
  PROVE  SessionsInv'
<1>1. /\ Begins(c, "deleteAgent", "agentDraining", a, None) /\ UNCHANGED <<rows, gateVars>>
      /\ AgentGate!RunDeletion(a, c)
  BY DEF DeleteAgent
<1>2. PICK k : BegunAs(c, k, "deleteAgent", "agentDraining", a, None)
  <2>1. "deleteAgent" \in Ops /\ "agentDraining" \in Pcs
    BY DEF Ops, Pcs
  <2> QED
    BY <1>1, <2>1, BeginsAs
<1> USE DEF BegunAs
<1>3. WellFormed(k)
  BY <1>2, PcsOfEach DEF WellFormed, News, Deletes
<1>4. Restful(c, k)
  BY <1>2 DEF Restful, News, Deletes
<1>5. /\ AgentPlace(k, a) = {"draining", "woken"}
      /\ \A b \in Agents \ {a} : AgentPlace(k, b) = {"out"}
  BY <1>2 DEF AgentPlace, InAgentGate, News, Deletes
<1>6. \A r \in Sessions : SessionPlace(k, r) = {"out"}
  BY <1>2 DEF SessionPlace, Deletes
<1>7. AgentProofs!GateIInv' /\ AgentProofs!MovesOne(a, c, {"draining", "woken"})
  BY <1>1, AgentGateStep
<1>8. AgentMoves(c, k)
  BY <1>2, <1>5, <1>7, AgentGoes
<1>9. SessionMoves(c, k) /\ GateIInv'
  BY <1>1, <1>2, <1>6, SessionStays
<1> QED
  BY <1>1, <1>2, <1>3, <1>4, <1>7, <1>8, <1>9, RowsRest, CallStep DEF MovesTo

-----------------------------------------------------------------------------
(* Calls that fail, go on or end without touching a row.                   *)

LEMMA OverRecord ==
  ASSUME NEW c
  PROVE  /\ Over \in CallRecords /\ WellFormed(Over)
         /\ \A a \in Agents : AgentPlace(Over, a) = {"out"}
         /\ \A s \in Sessions : SessionPlace(Over, s) = {"out"}
         /\ call[c].pc # "failed" => Restful(c, Over)
<1>1. 0 \in 0 .. MaxAttempts
  BY AttemptsAssumption
<1>2. Over \in CallRecords
  BY <1>1 DEF Over, CallRecords, Pcs, Ops
<1>3. WellFormed(Over)
  BY PcsOfEach DEF Over, WellFormed, News, Deletes
<1>4. \A a \in Agents : AgentPlace(Over, a) = {"out"}
  BY DEF Over, AgentPlace, InAgentGate, News
<1>5. \A s \in Sessions : SessionPlace(Over, s) = {"out"}
  BY DEF Over, SessionPlace, Deletes
<1>6. call[c].pc # "failed" => Restful(c, Over)
  BY DEF Over, Restful, News, Deletes
<1> QED
  BY <1>2, <1>3, <1>4, <1>5, <1>6

LEMMA RefuseCreationKeeps ==
  ASSUME SessionsInv, NEW c \in Calls, RefuseCreation(c)
  PROVE  SessionsInv'
<1>1. call[c].pc = "resolved" /\ UNCHANGED <<rows, agentGate, gateVars>>
  BY DEF RefuseCreation
<1>2. CASE call[c].op = "child"
  BY <1>1, <1>2, GoQuietly DEF RefuseCreation, Pcs
<1>3. CASE call[c].op # "child"
  <2>1. call' = [call EXCEPT ![c] = Over]
    BY <1>3 DEF RefuseCreation, Ends
  <2>2. \A a \in Agents : AgentPlace(call[c], a) = {"out"}
    BY <1>1 DEF AgentPlace, InAgentGate, News, Deletes
  <2>3. \A s \in Sessions : SessionPlace(call[c], s) = {"out"}
    BY <1>1, <1>3 DEF SessionPlace, Deletes
  <2> QED
    BY <1>1, <2>1, <2>2, <2>3, OverRecord, QuietStep
<1> QED
  BY <1>2, <1>3

LEMMA InitializationFailsKeeps ==
  ASSUME SessionsInv, NEW c \in Calls, InitializationFails(c)
  PROVE  SessionsInv'
BY GoQuietly DEF InitializationFails, Pcs

LEMMA InitializationEndsKeeps ==
  ASSUME SessionsInv, NEW c \in Calls, InitializationEnds(c)
  PROVE  SessionsInv'
<1>1. call[c].pc = "initializing" /\ UNCHANGED <<rows, agentGate, gateVars>>
  BY DEF InitializationEnds
<1>2. \/ call[c].op = "create" /\ Goes(c, "starting")
      \/ Goes(c, "failed")
      \/ call[c].op # "create" /\ Goes(c, "leaving")
  BY DEF InitializationEnds
<1> QED
  BY <1>1, <1>2, GoQuietly DEF Pcs

LEMMA StartInitialTurnKeeps ==
  ASSUME SessionsInv, NEW c \in Calls, StartInitialTurn(c)
  PROVE  SessionsInv'
BY GoQuietly DEF StartInitialTurn, Pcs

LEMMA ResolveTransferTargetKeeps ==
  ASSUME SessionsInv, NEW c \in Calls, ResolveTransferTarget(c)
  PROVE  SessionsInv'
BY GoQuietly DEF ResolveTransferTarget, Pcs

LEMMA MoveFailsKeeps ==
  ASSUME SessionsInv, NEW c \in Calls, MoveFails(c)
  PROVE  SessionsInv'
BY GoQuietly DEF MoveFails, Pcs

LEMMA CleanupOfAgentFailsKeeps ==
  ASSUME SessionsInv, NEW c \in Calls, CleanupOfAgentFails(c)
  PROVE  SessionsInv'
BY GoQuietly DEF CleanupOfAgentFails, Pcs

-----------------------------------------------------------------------------
(* Calls that move in a gate and touch no row.                             *)

LEMMA LeaveAgentKeeps ==
  ASSUME SessionsInv, NEW c \in Calls, LeaveAgent(c)
  PROVE  SessionsInv'
<1> DEFINE a == call[c].agent
<1>1. call[c].pc = "leaving" /\ AgentGate!FinishOperation(a, c) /\ UNCHANGED <<rows, gateVars>>
  BY DEF LeaveAgent
<1>2. call[c] \in CallRecords /\ WellFormed(call[c])
  BY OwnWellFormed
<1>3. a \in Agents
  BY <1>1, <1>2, OpsOfEach DEF WellFormed
<1>4. AgentProofs!GateIInv' /\ AgentProofs!MovesOne(a, c, {"out"})
  BY <1>1, <1>3, AgentGateStep
<1>5. \A b \in Agents \ {a} : AgentPlace(call[c], b) = {"out"}
  BY DEF AgentPlace
<1>6. CASE call[c].op = "child"
  <2> DEFINE k == [call[c] EXCEPT !.pc = "leavingParent"]
  <2>1. /\ k \in CallRecords /\ k.pc = "leavingParent" /\ k.op = call[c].op
        /\ k.agent = a /\ k.session = call[c].session /\ k.top = call[c].top
        /\ k.todo = call[c].todo /\ k.tries = call[c].tries /\ call' = [call EXCEPT ![c] = k]
    BY <1>6, GoneTo, ZenonT(30) DEF LeaveAgent, Pcs
  <2> HIDE DEF k
  <2>2. WellFormed(k)
    BY <1>2, <1>6, <2>1, PcsOfEach DEF WellFormed, News, Deletes
  <2>3. \A b \in Agents : AgentPlace(k, b) = {"out"}
    BY <1>6, <2>1 DEF AgentPlace, InAgentGate, News, Deletes
  <2>4. \A s \in Sessions : SessionPlace(call[c], s) \subseteq SessionPlace(k, s)
    BY <1>6, <2>1 DEF SessionPlace
  <2>5. Restful(c, k)
    BY <1>1, <1>6, <2>1 DEF Restful, News, Deletes
  <2>6. AgentMoves(c, k)
    BY <1>3, <1>4, <1>5, <2>3, AgentGoes
  <2>7. SessionMoves(c, k) /\ GateIInv'
    BY <1>1, <2>4, SessionStays
  <2> QED
    BY <1>1, <1>4, <2>1, <2>2, <2>5, <2>6, <2>7, RowsRest, CallStep DEF MovesTo
<1>7. CASE call[c].op # "child"
  <2>1. call' = [call EXCEPT ![c] = Over]
    BY <1>7 DEF LeaveAgent, Ends
  <2>2. \A s \in Sessions : SessionPlace(call[c], s) = {"out"}
    BY <1>1, <1>7 DEF SessionPlace, Deletes
  <2>3. AgentMoves(c, Over)
    BY <1>3, <1>4, <1>5, OverRecord, AgentGoes
  <2>4. SessionMoves(c, Over) /\ GateIInv'
    BY <1>1, <2>2, OverRecord, SessionStays
  <2> QED
    BY <1>1, <1>4, <2>1, <2>3, <2>4, OverRecord, RowsRest, CallStep DEF MovesTo
<1> QED
  BY <1>6, <1>7

LEMMA LeaveParentKeeps ==
  ASSUME SessionsInv, NEW c \in Calls, LeaveParent(c)
  PROVE  SessionsInv'
<1> DEFINE s == call[c].top
<1>1. /\ call[c].pc = "leavingParent" /\ FinishOperation(s, c) /\ UNCHANGED <<rows, agentGate>>
      /\ call' = [call EXCEPT ![c] = Over]
  BY DEF LeaveParent, Ends
<1>2. call[c] \in CallRecords /\ WellFormed(call[c])
  BY OwnWellFormed
<1>3. call[c].op = "child" /\ s \in Sessions
  BY <1>1, <1>2, OpsOfEach DEF WellFormed
<1>4. GateIInv' /\ MovesOne(s, c, {"out"})
  BY <1>1, <1>3, SessionGateStep
<1>5. \A r \in Sessions \ {s} : SessionPlace(call[c], r) = {"out"}
  BY <1>3 DEF SessionPlace
<1>6. \A b \in Agents : AgentPlace(call[c], b) = {"out"}
  BY <1>1, <1>3 DEF AgentPlace, InAgentGate, News, Deletes
<1>7. SessionMoves(c, Over)
  BY <1>3, <1>4, <1>5, OverRecord, SessionGoes
<1>8. AgentMoves(c, Over) /\ AgentProofs!GateIInv'
  BY <1>1, <1>6, OverRecord, AgentStays
<1> QED
  BY <1>1, <1>4, <1>7, <1>8, OverRecord, RowsRest, CallStep DEF MovesTo

\* The deletion of a session goes on to another await of a deletion.
LEMMA DeletionGoesOn ==
  ASSUME SessionsInv, NEW c \in Calls, NEW k \in CallRecords, WellFormed(k), KidsAreListed(k),
         call' = [call EXCEPT ![c] = k], UNCHANGED <<rows, agentGate>>,
         call[c].pc \in Deletes, k.pc \in Deletes, k.op = call[c].op, k.agent = call[c].agent,
         SessionMoves(c, k), GateIInv'
  PROVE  SessionsInv'
<1>1. call[c].op \in {"create", "delete"}
  BY OwnWellFormed, OpsOfEach
<1>2. \A a \in Agents : AgentPlace(call[c], a) = AgentPlace(k, a)
  BY <1>1 DEF AgentPlace, InAgentGate, News, Deletes
<1>3. AgentMoves(c, k) /\ AgentProofs!GateIInv'
  BY <1>2, AgentStays
<1>4. Restful(c, k)
  BY <1>1 DEF Restful, News, Deletes
<1> QED
  BY <1>3, <1>4, RowsRest, CallStep DEF MovesTo

LEMMA DrainTimesOutKeeps ==
  ASSUME SessionsInv, NEW c \in Calls, DrainTimesOut(c)
  PROVE  SessionsInv'
<1> DEFINE k == [call[c] EXCEPT !.pc = "failing"]
           s == call[c].session
<1>1. /\ k \in CallRecords /\ k.pc = "failing" /\ k.op = call[c].op
      /\ k.agent = call[c].agent /\ k.session = s /\ k.top = call[c].top
      /\ k.todo = call[c].todo /\ k.tries = call[c].tries /\ call' = [call EXCEPT ![c] = k]
  <2>1. "failing" \in Pcs
    BY DEF Pcs
  <2> QED
    BY <2>1, GoneTo DEF DrainTimesOut
<1>2. call[c].pc = "draining" /\ DrainExpires(s, c) /\ UNCHANGED <<rows, agentGate>>
  BY DEF DrainTimesOut
<1> HIDE DEF k
<1>3. /\ call[c] \in CallRecords /\ WellFormed(call[c]) /\ KidsAreListed(call[c])
      /\ call[c].op \in {"create", "delete"}
  BY <1>2, OwnWellFormed, OpsOfEach DEF Deletes
<1>4. s \in Sessions
  BY <1>2, <1>3 DEF WellFormed, Deletes
<1>5. WellFormed(k)
  BY <1>1, <1>2, <1>3, PcsOfEach DEF WellFormed, News, Deletes
<1>6. KidsAreListed(k)
  BY <1>1, <1>3 DEF KidsAreListed
<1>7. GateIInv' /\ MovesOne(s, c, {"expired"})
  BY <1>2, <1>4, SessionGateStep
<1>8. /\ {"expired"} \subseteq SessionPlace(k, s)
      /\ \A r \in Sessions \ {s} : SessionPlace(call[c], r) \subseteq SessionPlace(k, r)
  BY <1>1, <1>2, <1>3 DEF SessionPlace, Deletes
<1>9. SessionMoves(c, k)
  BY <1>4, <1>7, <1>8, SessionGoes
<1> QED
  BY <1>1, <1>2, <1>5, <1>6, <1>7, <1>9, DeletionGoesOn DEF Deletes

LEMMA DeleteTreeUnderGateKeeps ==
  ASSUME SessionsInv, NEW c \in Calls, DeleteTreeUnderGate(c)
  PROVE  SessionsInv'
<1> DEFINE p == IF HasRow(call[c].session) THEN "stopping" ELSE "closing"
           k == [call[c] EXCEPT !.pc = p]
           s == call[c].session
<1>1. /\ k \in CallRecords /\ k.pc = p /\ k.op = call[c].op
      /\ k.agent = call[c].agent /\ k.session = s /\ k.top = call[c].top
      /\ k.todo = call[c].todo /\ k.tries = call[c].tries /\ call' = [call EXCEPT ![c] = k]
  <2>1. p \in Pcs
    BY DEF Pcs
  <2> QED
    BY <2>1, GoneTo DEF DeleteTreeUnderGate
<1>2. call[c].pc = "draining" /\ StartDeletion(s, c) /\ UNCHANGED <<rows, agentGate>>
  BY DEF DeleteTreeUnderGate
<1> HIDE DEF k
<1>3. /\ call[c] \in CallRecords /\ WellFormed(call[c]) /\ KidsAreListed(call[c])
      /\ call[c].op \in {"create", "delete"}
  BY <1>2, OwnWellFormed, OpsOfEach DEF Deletes
<1>4. s \in Sessions
  BY <1>2, <1>3 DEF WellFormed, Deletes
<1>5. WellFormed(k)
  BY <1>1, <1>2, <1>3, PcsOfEach DEF WellFormed, News, Deletes
<1>6. KidsAreListed(k)
  BY <1>1, <1>2, <1>3 DEF KidsAreListed
<1>7. GateIInv' /\ MovesOne(s, c, {"deleting"})
  BY <1>2, <1>4, SessionGateStep
<1>8. /\ {"deleting"} \subseteq SessionPlace(k, s)
      /\ \A r \in Sessions \ {s} : SessionPlace(call[c], r) \subseteq SessionPlace(k, r)
  BY <1>1, <1>2, <1>3 DEF SessionPlace, Deletes
<1>9. SessionMoves(c, k)
  BY <1>4, <1>7, <1>8, SessionGoes
<1> QED
  BY <1>1, <1>2, <1>5, <1>6, <1>7, <1>9, DeletionGoesOn DEF Deletes

LEMMA ListChildrenKeeps ==
  ASSUME SessionsInv, NEW c \in Calls, ListChildren(c)
  PROVE  SessionsInv'
<1> DEFINE s == call[c].session
           kids == IF s # call[c].top THEN call[c].todo
                   ELSE {d \in Sessions : HasRow(d) /\ parent[d] = s}
           k == [call[c] EXCEPT !.pc = "children", !.todo = kids]
<1>1. /\ call[c].pc = "stopping" /\ UNCHANGED <<rows, agentGate, gateVars>>
      /\ call' = [call EXCEPT ![c].pc = "children", ![c].todo = kids]
  BY DEF ListChildren
<1>2. /\ call[c] \in CallRecords /\ WellFormed(call[c]) /\ KidsAreListed(call[c])
      /\ call[c].op \in {"create", "delete"}
  BY <1>1, OwnWellFormed, OpsOfEach DEF Deletes
<1>3. kids \in SUBSET Sessions
  BY <1>2 DEF CallRecords
<1>4. /\ k \in CallRecords /\ k.pc = "children" /\ k.op = call[c].op
      /\ k.agent = call[c].agent /\ k.session = s /\ k.top = call[c].top
      /\ k.todo = kids /\ k.tries = call[c].tries
  <2>1. "children" \in Pcs
    BY DEF Pcs
  <2> HIDE DEF kids
  <2> QED
    BY <1>2, <1>3, <2>1 DEF CallRecords
<1>5. call' = [call EXCEPT ![c] = k]
  <2> HIDE DEF kids
  <2>1. call \in [Calls -> CallRecords]
    BY DEF SessionsInv, CallTypes
  <2> QED
    BY <1>1, <1>2, <2>1 DEF CallRecords
<1> HIDE DEF k
<1>6. WellFormed(k)
  BY <1>1, <1>2, <1>4, PcsOfEach DEF WellFormed, News, Deletes
<1>7. KidsAreListed(k)
  <2>1. CASE s # call[c].top
    BY <1>1, <1>2, <1>4, <2>1 DEF KidsAreListed
  <2>2. CASE s = call[c].top
    <3>1. s \in Sessions /\ s # None /\ s \notin fresh
      BY <1>1, <1>2, NamesAreDistinct DEF WellFormed, Deletes, KidsAreListed
    <3>2. \A d \in kids : d \in Sessions /\ HasRow(d) /\ parent[d] = s
      BY <2>2
    <3>3. \A d \in kids : d \notin fresh
      BY <3>2 DEF HasRow, SessionsInv, RowTypes
    <3>4. \A d \in kids : d # s
      BY <3>1, <3>2 DEF SessionsInv, RowsInv, ParentsAreRegular
    <3> QED
      BY <1>4, <2>2, <3>1, <3>2, <3>3, <3>4 DEF KidsAreListed
  <2> QED
    BY <2>1, <2>2
<1>8. \A r \in Sessions : SessionPlace(call[c], r) \subseteq SessionPlace(k, r)
  BY <1>1, <1>2, <1>4 DEF SessionPlace, Deletes
<1>9. SessionMoves(c, k) /\ GateIInv'
  BY <1>1, <1>8, SessionStays
<1> QED
  BY <1>1, <1>4, <1>5, <1>6, <1>7, <1>9, DeletionGoesOn DEF Deletes

LEMMA DeleteChildKeeps ==
  ASSUME SessionsInv, NEW c \in Calls, NEW d \in Sessions, DeleteChild(c, d)
  PROVE  SessionsInv'
<1> DEFINE s == call[c].session
<1>1. /\ call[c].pc = "children" /\ s = call[c].top /\ d \in call[c].todo
      /\ UNCHANGED <<rows, agentGate>>
  BY DEF DeleteChild
<1>2. /\ call[c] \in CallRecords /\ WellFormed(call[c]) /\ KidsAreListed(call[c])
      /\ call[c].op \in {"create", "delete"}
  BY <1>1, OwnWellFormed, OpsOfEach DEF Deletes
<1>3. s \in Sessions
  BY <1>1, <1>2 DEF WellFormed, Deletes
<1>4. CASE d \in deleting
  <2> DEFINE k == [call[c] EXCEPT !.pc = "failing"]
  <2>1. /\ k \in CallRecords /\ k.pc = "failing" /\ k.op = call[c].op
        /\ k.agent = call[c].agent /\ k.session = s /\ k.top = call[c].top
        /\ k.todo = call[c].todo /\ k.tries = call[c].tries /\ call' = [call EXCEPT ![c] = k]
    <3>1. "failing" \in Pcs
      BY DEF Pcs
    <3> QED
      BY <1>4, <3>1, GoneTo DEF DeleteChild
  <2>2. UNCHANGED gateVars
    BY <1>4 DEF DeleteChild
  <2> HIDE DEF k
  <2>3. WellFormed(k)
    BY <1>1, <1>2, <2>1, PcsOfEach DEF WellFormed, News, Deletes
  <2>4. KidsAreListed(k)
    BY <1>2, <2>1 DEF KidsAreListed
  <2>5. \A r \in Sessions : SessionPlace(call[c], r) \subseteq SessionPlace(k, r)
    BY <1>1, <1>2, <2>1 DEF SessionPlace, Deletes
  <2>6. SessionMoves(c, k) /\ GateIInv'
    BY <2>2, <2>5, SessionStays
  <2> QED
    BY <1>1, <2>1, <2>3, <2>4, <2>6, DeletionGoesOn DEF Deletes
<1>5. CASE d \notin deleting
  <2> DEFINE k == [call[c] EXCEPT !.pc = "draining", !.session = d, !.todo = @ \ {d}]
  <2>1. /\ k \in CallRecords /\ k.pc = "draining" /\ k.op = call[c].op
        /\ k.agent = call[c].agent /\ k.session = d /\ k.top = call[c].top
        /\ k.todo = call[c].todo \ {d} /\ k.tries = call[c].tries
    <3>1. "draining" \in Pcs
      BY DEF Pcs
    <3> QED
      BY <1>2, <3>1 DEF CallRecords
  <2>2. /\ RunDeletion(d, c)
        /\ call' = [call EXCEPT ![c].pc = "draining", ![c].session = d, ![c].todo = @ \ {d}]
    BY <1>5 DEF DeleteChild
  <2>3. call' = [call EXCEPT ![c] = k]
    <3>1. call \in [Calls -> CallRecords]
      BY DEF SessionsInv, CallTypes
    <3> QED
      BY <1>2, <2>2, <3>1 DEF CallRecords
  <2> HIDE DEF k
  <2>4. WellFormed(k)
    BY <1>1, <1>2, <2>1, PcsOfEach DEF WellFormed, News, Deletes
  <2>5. KidsAreListed(k)
    BY <1>1, <1>2, <2>1 DEF KidsAreListed
  <2>6. GateIInv' /\ MovesOne(d, c, {"draining", "woken"})
    BY <2>2, SessionGateStep
  <2>7. d # s
    BY <1>1, <1>2 DEF KidsAreListed
  <2>8. /\ {"draining", "woken"} \subseteq SessionPlace(k, d)
        /\ \A r \in Sessions \ {d} : SessionPlace(call[c], r) \subseteq SessionPlace(k, r)
    BY <1>1, <1>2, <2>1, <2>7 DEF SessionPlace, Deletes
  <2>9. SessionMoves(c, k)
    BY <2>6, <2>8, SessionGoes
  <2> QED
    BY <1>1, <2>1, <2>3, <2>4, <2>5, <2>6, <2>9, DeletionGoesOn DEF Deletes
<1> QED
  BY <1>4, <1>5

LEMMA CloseDeletionKeeps ==
  ASSUME SessionsInv, NEW c \in Calls, CloseDeletion(c)
  PROVE  SessionsInv'
<1> DEFINE s == call[c].session
           t == call[c].top
<1>1. /\ call[c].pc \in {"closing", "failing"} /\ EndDeletion(s, c)
      /\ UNCHANGED <<rows, agentGate>>
  BY DEF CloseDeletion
<1>2. /\ call[c] \in CallRecords /\ WellFormed(call[c]) /\ KidsAreListed(call[c])
      /\ call[c].op \in {"create", "delete"}
  BY <1>1, OwnWellFormed, OpsOfEach DEF Deletes
<1>3. s \in Sessions /\ t \in Sessions
  BY <1>1, <1>2 DEF WellFormed, Deletes
<1>4. GateIInv' /\ MovesOne(s, c, {"out"})
  BY <1>1, <1>3, SessionGateStep
<1>5. CASE s # t
  <2> DEFINE p == IF call[c].pc = "closing" THEN "children" ELSE "failing"
             k == [call[c] EXCEPT !.session = t, !.pc = p]
  <2>1. /\ k \in CallRecords /\ k.pc = p /\ k.op = call[c].op
        /\ k.agent = call[c].agent /\ k.session = t /\ k.top = t
        /\ k.todo = call[c].todo /\ k.tries = call[c].tries
    <3>1. p \in Pcs
      BY DEF Pcs
    <3> HIDE DEF p
    <3> QED
      BY <1>2, <3>1 DEF CallRecords
  <2>2. call' = [call EXCEPT ![c].session = t,
                             ![c].pc = IF @ = "closing" THEN "children" ELSE "failing"]
    BY <1>5 DEF CloseDeletion
  <2>3. call' = [call EXCEPT ![c] = k]
    <3>1. call \in [Calls -> CallRecords]
      BY DEF SessionsInv, CallTypes
    <3> QED
      BY <1>2, <2>2, <3>1 DEF CallRecords
  <2> HIDE DEF k
  <2>4. WellFormed(k)
    BY <1>1, <1>2, <2>1, PcsOfEach DEF WellFormed, News, Deletes
  <2>5. KidsAreListed(k)
    BY <1>1, <1>2, <1>5, <2>1 DEF KidsAreListed
  <2>6. /\ {"out"} \subseteq SessionPlace(k, s)
        /\ \A r \in Sessions \ {s} : SessionPlace(call[c], r) \subseteq SessionPlace(k, r)
    BY <1>1, <1>2, <1>5, <2>1 DEF SessionPlace, Deletes
  <2>7. SessionMoves(c, k)
    BY <1>3, <1>4, <2>6, SessionGoes
  <2> QED
    BY <1>1, <1>4, <2>1, <2>3, <2>4, <2>5, <2>7, DeletionGoesOn DEF Deletes
<1>6. CASE s = t /\ call[c].op = "create"
  <2> DEFINE k == [call[c] EXCEPT !.pc = "leaving"]
  <2>1. /\ k \in CallRecords /\ k.pc = "leaving" /\ k.op = call[c].op
        /\ k.agent = call[c].agent /\ k.session = s /\ k.top = t
        /\ k.todo = call[c].todo /\ k.tries = call[c].tries /\ call' = [call EXCEPT ![c] = k]
    <3>1. "leaving" \in Pcs
      BY DEF Pcs
    <3> QED
      BY <1>6, <3>1, GoneTo DEF CloseDeletion
  <2> HIDE DEF k
  <2>2. WellFormed(k)
    BY <1>2, <1>6, <2>1, PcsOfEach DEF WellFormed, News, Deletes
  <2>3. Restful(c, k)
    BY <1>1, <1>6, <2>1 DEF Restful, News, Deletes
  <2>4. \A a \in Agents : AgentPlace(call[c], a) \subseteq AgentPlace(k, a)
    BY <1>1, <1>6, <2>1 DEF AgentPlace, InAgentGate, News, Deletes
  <2>5. \A r \in Sessions : SessionPlace(k, r) = {"out"}
    BY <1>6, <2>1 DEF SessionPlace, Deletes
  <2>6. \A r \in Sessions \ {s} : SessionPlace(call[c], r) = {"out"}
    BY <1>6 DEF SessionPlace
  <2>7. SessionMoves(c, k)
    BY <1>3, <1>4, <2>5, <2>6, SessionGoes
  <2>8. AgentMoves(c, k) /\ AgentProofs!GateIInv'
    BY <1>1, <2>4, AgentStays
  <2> QED
    BY <1>1, <1>4, <2>1, <2>2, <2>3, <2>7, <2>8, RowsRest, CallStep DEF MovesTo
<1>7. CASE s = t /\ call[c].op # "create"
  <2>1. call' = [call EXCEPT ![c] = Over] /\ call[c].op = "delete" /\ call[c].pc # "failed"
    BY <1>1, <1>2, <1>7 DEF CloseDeletion, Ends
  <2>2. \A a \in Agents : AgentPlace(call[c], a) = {"out"}
    BY <1>1, <2>1 DEF AgentPlace, InAgentGate, News
  <2>3. \A r \in Sessions \ {s} : SessionPlace(call[c], r) = {"out"}
    BY <1>7, <2>1 DEF SessionPlace
  <2>4. SessionMoves(c, Over)
    BY <1>3, <1>4, <2>3, OverRecord, SessionGoes
  <2>5. AgentMoves(c, Over) /\ AgentProofs!GateIInv'
    BY <1>1, <2>2, OverRecord, AgentStays
  <2> QED
    BY <1>1, <1>4, <2>1, <2>4, <2>5, OverRecord, RowsRest, CallStep DEF MovesTo
<1> QED
  BY <1>5, <1>6, <1>7

LEMMA CancelNewKeeps ==
  ASSUME SessionsInv, NEW c \in Calls, CancelNew(c)
  PROVE  SessionsInv'
<1> DEFINE s == call[c].session
<1>1. call[c].pc = "starting" /\ UNCHANGED <<rows, agentGate>>
  BY DEF CancelNew
<1>2. call[c] \in CallRecords /\ WellFormed(call[c]) /\ call[c].op = "create"
  BY <1>1, OwnWellFormed, OpsOfEach
<1>3. s \in Sessions /\ s \notin fresh /\ call[c].todo = {} /\ call[c].agent \in Agents
  BY <1>1, <1>2 DEF WellFormed, SessionsInv, RowsInv, NewNamesAreDrawn
<1>4. CASE s \in deleting
  BY <1>1, <1>4, GoQuietly DEF CancelNew, Pcs
<1>5. CASE s \notin deleting
  <2> DEFINE k == [call[c] EXCEPT !.pc = "draining", !.top = s]
  <2>1. /\ k \in CallRecords /\ k.pc = "draining" /\ k.op = "create"
        /\ k.agent = call[c].agent /\ k.session = s /\ k.top = s
        /\ k.todo = {} /\ k.tries = call[c].tries
    <3>1. "draining" \in Pcs
      BY DEF Pcs
    <3> QED
      BY <1>2, <1>3, <3>1 DEF CallRecords
  <2>2. RunDeletion(s, c) /\ call' = [call EXCEPT ![c].pc = "draining", ![c].top = s]
    BY <1>5 DEF CancelNew
  <2>3. call' = [call EXCEPT ![c] = k]
    <3>1. call \in [Calls -> CallRecords]
      BY DEF SessionsInv, CallTypes
    <3> QED
      BY <1>2, <2>2, <3>1 DEF CallRecords
  <2> HIDE DEF k
  <2>4. WellFormed(k)
    BY <1>3, <2>1, PcsOfEach DEF WellFormed, News, Deletes
  <2>5. Restful(c, k)
    BY <1>1, <1>3, <2>1 DEF Restful, KidsAreListed, News, Deletes
  <2>6. \A a \in Agents : AgentPlace(call[c], a) \subseteq AgentPlace(k, a)
    BY <1>1, <1>2, <2>1 DEF AgentPlace, InAgentGate, News, Deletes
  <2>7. /\ SessionPlace(k, s) = {"draining", "woken"}
        /\ \A r \in Sessions \ {s} : SessionPlace(k, r) = {"out"}
        /\ \A r \in Sessions : SessionPlace(call[c], r) = {"out"}
    BY <1>1, <1>2, <2>1 DEF SessionPlace, Deletes
  <2>8. GateIInv' /\ MovesOne(s, c, {"draining", "woken"})
    BY <1>3, <2>2, SessionGateStep
  <2>9. SessionMoves(c, k)
    BY <1>3, <2>7, <2>8, SessionGoes
  <2>10. AgentMoves(c, k) /\ AgentProofs!GateIInv'
    BY <1>1, <2>6, AgentStays
  <2> QED
    BY <1>1, <2>1, <2>3, <2>4, <2>5, <2>8, <2>9, <2>10, RowsRest, CallStep DEF MovesTo
<1> QED
  BY <1>4, <1>5

LEMMA DeleteAgentUnderGateKeeps ==
  ASSUME SessionsInv, NEW c \in Calls, DeleteAgentUnderGate(c)
  PROVE  SessionsInv'
<1> DEFINE a == call[c].agent
           p == IF CanDelete(a) THEN "agentCleaning" ELSE "agentClosing"
           k == [call[c] EXCEPT !.pc = p]
<1>1. /\ k \in CallRecords /\ k.pc = p /\ k.op = call[c].op /\ k.agent = a
      /\ k.session = call[c].session /\ k.top = call[c].top
      /\ k.todo = call[c].todo /\ k.tries = call[c].tries /\ call' = [call EXCEPT ![c] = k]
  <2>1. p \in Pcs
    BY DEF Pcs
  <2> QED
    BY <2>1, GoneTo DEF DeleteAgentUnderGate
<1>2. /\ call[c].pc = "agentDraining" /\ AgentGate!StartDeletion(a, c)
      /\ UNCHANGED <<rows, gateVars>>
  BY DEF DeleteAgentUnderGate
<1>3. call[c] \in CallRecords /\ WellFormed(call[c]) /\ call[c].op = "deleteAgent"
  BY <1>2, OwnWellFormed, OpsOfEach
<1>4. a \in Agents
  BY <1>3 DEF WellFormed
<1>5. k.pc \in {"agentCleaning", "agentClosing"}
  BY <1>1
<1> HIDE DEF k
<1>6. WellFormed(k)
  BY <1>1, <1>3, <1>4, <1>5, PcsOfEach DEF WellFormed, News, Deletes
<1>7. Restful(c, k)
  BY <1>1, <1>2, <1>3, <1>5 DEF Restful, News, Deletes
<1>8. /\ AgentPlace(k, a) = {"deleting"}
      /\ \A b \in Agents \ {a} : AgentPlace(call[c], b) = AgentPlace(k, b)
  BY <1>1, <1>3, <1>5 DEF AgentPlace, InAgentGate, News, Deletes
<1>9. \A r \in Sessions : SessionPlace(call[c], r) \subseteq SessionPlace(k, r)
  BY <1>1, <1>2, <1>3, <1>5 DEF SessionPlace, Deletes
<1>10. AgentProofs!GateIInv' /\ AgentProofs!MovesOne(a, c, {"deleting"})
  BY <1>2, <1>4, AgentGateStep
<1>11. AgentMoves(c, k)
  BY <1>4, <1>8, <1>10, AgentGoes
<1>12. SessionMoves(c, k) /\ GateIInv'
  BY <1>2, <1>9, SessionStays
<1> QED
  BY <1>1, <1>2, <1>6, <1>7, <1>10, <1>11, <1>12, RowsRest, CallStep DEF MovesTo

LEMMA CloseAgentDeletionKeeps ==
  ASSUME SessionsInv, NEW c \in Calls, CloseAgentDeletion(c)
  PROVE  SessionsInv'
<1> DEFINE a == call[c].agent
<1>1. /\ call[c].pc = "agentClosing" /\ AgentGate!EndDeletion(a, c)
      /\ UNCHANGED <<rows, gateVars>> /\ call' = [call EXCEPT ![c] = Over]
  BY DEF CloseAgentDeletion, Ends
<1>2. call[c] \in CallRecords /\ WellFormed(call[c]) /\ call[c].op = "deleteAgent"
  BY <1>1, OwnWellFormed, OpsOfEach
<1>3. a \in Agents
  BY <1>2 DEF WellFormed
<1>4. AgentProofs!GateIInv' /\ AgentProofs!MovesOne(a, c, {"out"})
  BY <1>1, <1>3, AgentGateStep
<1>5. \A b \in Agents \ {a} : AgentPlace(call[c], b) = {"out"}
  BY DEF AgentPlace
<1>6. \A s \in Sessions : SessionPlace(call[c], s) = {"out"}
  BY <1>1, <1>2 DEF SessionPlace, Deletes
<1>7. AgentMoves(c, Over)
  BY <1>3, <1>4, <1>5, OverRecord, AgentGoes
<1>8. SessionMoves(c, Over) /\ GateIInv'
  BY <1>1, <1>6, OverRecord, SessionStays
<1> QED
  BY <1>1, <1>4, <1>7, <1>8, OverRecord, RowsRest, CallStep DEF MovesTo

-----------------------------------------------------------------------------
(* Calls that change the rows: what the two gates exclude.                 *)

\* No child is being created of a session whose children have been listed.
LEMMA NoChildWhileDeleting ==
  ASSUME SessionsInv, NEW c \in Calls, NEW d \in Calls, call[c].op = "child",
         call[d].pc \in Deletes,
         call[d].session # call[d].top \/ call[d].pc \in {"stopping", "children", "closing"}
  PROVE  call[c].top # call[d].top
<1> SUFFICES ASSUME call[c].top = call[d].top PROVE FALSE
  OBVIOUS
<1> DEFINE t == call[c].top
<1>1. t \in Sessions
  BY OwnWellFormed DEF WellFormed
<1>2. place[t][c] \in SessionPlace(call[c], t) /\ place[t][d] \in SessionPlace(call[d], t)
  BY <1>1 DEF SessionsInv, GatesMatch
<1>3. place[t][c] = "operating"
  BY <1>2 DEF SessionPlace
<1>4. call[d].op \in {"create", "delete"}
  BY OwnWellFormed, OpsOfEach
<1>5. place[t][d] = "deleting"
  BY <1>2, <1>4 DEF SessionPlace, Deletes
<1> QED
  BY <1>1, <1>3, <1>5 DEF SessionsInv, GateIInv, DrainedIsEmpty, Operating, Sessions

\* No session moves to an agent that is being removed.
LEMMA NoMoveWhileRemoving ==
  ASSUME SessionsInv, NEW c \in Calls, NEW d \in Calls, call[c].pc = "switching",
         call[d].pc = "agentCleaning"
  PROVE  call[c].agent # call[d].agent
<1> SUFFICES ASSUME call[c].agent = call[d].agent PROVE FALSE
  OBVIOUS
<1> DEFINE a == call[c].agent
<1>1. /\ call[c] \in CallRecords /\ WellFormed(call[c]) /\ call[c].op = "move"
      /\ call[d].op = "deleteAgent"
  BY OwnWellFormed, OpsOfEach
<1>2. a \in Agents
  BY <1>1 DEF WellFormed
<1>3. aPlace[a][c] \in AgentPlace(call[c], a) /\ aPlace[a][d] \in AgentPlace(call[d], a)
  BY <1>2 DEF SessionsInv, GatesMatch
<1>4. aPlace[a][c] = "operating"
  BY <1>3 DEF AgentPlace, InAgentGate
<1>5. aPlace[a][d] = "deleting"
  BY <1>1, <1>3 DEF AgentPlace, InAgentGate, News, Deletes
<1> QED
  BY <1>2, <1>4, <1>5 DEF SessionsInv, AgentProofs!GateIInv, AgentProofs!DrainedIsEmpty,
     AgentProofs!Operating

-----------------------------------------------------------------------------
(* A row is inserted.                                                      *)

LEMMA RowInserted ==
  ASSUME SessionsInv, NEW c \in Calls, NEW s \in Sessions, InsertRow(c, s),
         call[c].pc \in {"resolved", "forking", "retrying"},
         NEW k \in CallRecords, call' = [call EXCEPT ![c] = k],
         k.pc = IF call[c].agent \in agents THEN "initializing" ELSE "failed",
         k.session = s, k.op = call[c].op, k.top = call[c].top
  PROVE  RowTypes' /\ RowsInv'
<1> DEFINE a == call[c].agent
           p == IF call[c].op = "child" THEN call[c].top ELSE None
<1>1. \A d \in Calls : call'[d] = IF d = c THEN k ELSE call[d]
  BY DEF SessionsInv, CallTypes
<1>2. RowTypes /\ RowsInv
  BY DEF SessionsInv
<1>3. call[c] \in CallRecords /\ WellFormed(call[c]) /\ call[c].op \in {"create", "child", "fork"}
  BY OwnWellFormed, OpsOfEach
<1>4. a \in Agents /\ (call[c].op = "child" => call[c].top \in Sessions)
  BY <1>3 DEF WellFormed
<1>5. /\ s \in fresh /\ fresh' = fresh \ {s} /\ agents' = agents
      /\ row' = [row EXCEPT ![s] = a] /\ parent' = [parent EXCEPT ![s] = p]
  BY DEF InsertRow
<1>6. /\ \A r \in Sessions : row'[r] = IF r = s THEN a ELSE row[r]
      /\ \A r \in Sessions : parent'[r] = IF r = s THEN p ELSE parent[r]
  BY <1>2, <1>5 DEF RowTypes
<1>7. /\ a # None /\ s # None /\ row[s] = None /\ ~HasRow(s)
      /\ \A r \in Sessions : r \in fresh => ~HasRow(r)
  BY <1>2, <1>4, <1>5, NamesAreDistinct DEF RowTypes, HasRow
<1>8. \A r \in Sessions : (HasRow(r))' <=> HasRow(r) \/ r = s
  BY <1>6, <1>7 DEF HasRow
<1>9. /\ p # None => p \in Sessions /\ p # s /\ HasRow(p) /\ parent[p] = None
      /\ p # None => call[c].op = "child" /\ call[c].top = p
      /\ p # s
  BY <1>2, <1>4, <1>7 DEF RowsInv, ParentsStay
<1> HIDE DEF p
<1>10. RowTypes'
  <2>1. row' \in [Sessions -> Agents \cup {None}]
    BY <1>2, <1>4, <1>5 DEF RowTypes
  <2>2. parent' \in [Sessions -> Sessions \cup {None}]
    BY <1>2, <1>5, <1>9 DEF RowTypes
  <2>3. fresh' \subseteq {r \in Sessions : row'[r] = None}
    BY <1>2, <1>5, <1>6 DEF RowTypes
  <2> QED
    BY <1>2, <1>5, <2>1, <2>2, <2>3 DEF RowTypes
<1>11. AgentExists'
  <2> SUFFICES ASSUME NEW r \in Sessions, (HasRow(r))', row'[r] \notin agents'
               PROVE  \E d \in Calls : call'[d].pc = "failed" /\ call'[d].session = r
    BY DEF AgentExists
  <2>1. CASE r = s
    BY <1>1, <1>5, <1>6, <2>1
  <2>2. CASE r # s
    <3>1. PICK d \in Calls : call[d].pc = "failed" /\ call[d].session = r
      BY <1>2, <1>5, <1>6, <1>8, <2>2 DEF RowsInv, AgentExists
    <3>2. d # c
      BY <3>1
    <3> QED
      BY <1>1, <3>1, <3>2
  <2> QED
    BY <2>1, <2>2
<1>12. \A r \in Sessions : HasRow(r) /\ parent[r] # None =>
         parent[r] \in Sessions /\ parent[r] # s /\ HasRow(parent[r]) /\ parent[parent[r]] = None
  BY <1>2, <1>7 DEF RowTypes, RowsInv, ParentExists, ParentsAreRegular
<1>13. ParentExists'
  BY <1>6, <1>8, <1>9, <1>12 DEF ParentExists
<1>14. ParentsAreRegular'
  BY <1>6, <1>8, <1>9, <1>12 DEF ParentsAreRegular
<1>15. TargetsExist'
  BY <1>1, <1>2, <1>5 DEF RowsInv, TargetsExist
<1>16. \A d \in Calls : call[d].op = "child" =>
         call[d].top \in Sessions /\ call[d].top # s /\ HasRow(call[d].top)
         /\ parent[call[d].top] = None
  BY <1>2, <1>7, OwnWellFormed DEF WellFormed, RowsInv, ParentsStay
<1>17. ParentsStay'
  BY <1>1, <1>6, <1>8, <1>16 DEF ParentsStay
<1>18. NewRowsAreLeaves'
  <2> SUFFICES ASSUME NEW d \in Calls, call'[d].pc \in News
               PROVE  /\ \A r \in Sessions : (HasRow(r))' => parent'[r] # call'[d].session
                      /\ \A e \in Calls : call'[e].op = "child" => call'[e].top # call'[d].session
    BY DEF NewRowsAreLeaves
  <2>1. CASE d = c
    <3>1. call'[d].session = s
      BY <1>1, <2>1
    <3>2. \A r \in Sessions : (HasRow(r))' => parent'[r] # s
      BY <1>6, <1>7, <1>8, <1>9, <1>12
    <3>3. \A e \in Calls : call'[e].op = "child" => call'[e].top # s
      BY <1>1, <1>16
    <3> QED
      BY <3>1, <3>2, <3>3
  <2>2. CASE d # c
    <3>1. call'[d] = call[d] /\ call[d].pc \in News
      BY <1>1, <2>2
    <3>2. /\ \A r \in Sessions : HasRow(r) => parent[r] # call[d].session
          /\ \A e \in Calls : call[e].op = "child" => call[e].top # call[d].session
          /\ call[d].session \in Sessions
      BY <1>2, <3>1, OwnWellFormed DEF RowsInv, NewRowsAreLeaves, WellFormed
    <3>3. p # call[d].session
      BY <1>9, <3>2, NamesAreDistinct
    <3> QED
      BY <1>1, <1>6, <1>8, <3>1, <3>2, <3>3
  <2> QED
    BY <2>1, <2>2
<1>19. NewNamesAreDrawn'
  BY <1>1, <1>2, <1>5 DEF RowsInv, NewNamesAreDrawn
<1>20. DeletionsAreComplete'
  <2> SUFFICES ASSUME NEW d \in Calls, call'[d].pc \in Deletes
               PROVE  KidsAreListed(call[d])'
    BY DEF DeletionsAreComplete
  <2>1. d # c /\ call'[d] = call[d] /\ call[d].pc \in Deletes
    BY <1>1 DEF Deletes
  <2> DEFINE l == call[d]
  <2>2. KidsAreListed(l) /\ WellFormed(l)
    BY <2>1, OwnWellFormed
  <2>3. l.session \in Sessions /\ l.session # s /\ l.session \notin fresh /\ l.top \notin fresh
    BY <1>5, <2>1, <2>2 DEF KidsAreListed, WellFormed
  <2>4. \A r \in l.todo : parent'[r] = l.top /\ r # l.top /\ r \notin fresh'
    <3>1. l.todo \subseteq Sessions
      BY OwnWellFormed DEF CallRecords
    <3> QED
      BY <1>5, <1>6, <2>2, <3>1 DEF KidsAreListed
  <2>5. l.session # l.top => parent'[l.session] = l.top
    BY <1>6, <2>2, <2>3 DEF KidsAreListed
  <2>6. l.pc = "closing" => ~(HasRow(l.session))'
    BY <1>8, <2>2, <2>3 DEF KidsAreListed
  <2>7. ASSUME l.pc = "children" \/ (l.session # l.top /\ l.pc # "failing")
        PROVE  \A r \in Sessions : (HasRow(r))' /\ parent'[r] = l.top =>
                 r \in l.todo \/ (r = l.session /\ r # l.top)
    <3>1. l.top \in Sessions
      BY <2>1, <2>2 DEF WellFormed
    <3>2. call[c].op = "child" => call[c].top # l.top
      BY <2>1, <2>7, NoChildWhileDeleting
    <3>3. p # l.top
      BY <1>9, <3>1, <3>2, NamesAreDistinct
    <3>4. \A r \in Sessions : HasRow(r) /\ parent[r] = l.top =>
                 r \in l.todo \/ (r = l.session /\ r # l.top)
      BY <2>2, <2>7 DEF KidsAreListed
    <3> QED
      BY <1>6, <1>8, <3>3, <3>4
  <2> QED
    BY <1>5, <2>1, <2>3, <2>4, <2>5, <2>6, <2>7 DEF KidsAreListed
<1> QED
  BY <1>10, <1>11, <1>13, <1>14, <1>15, <1>17, <1>18, <1>19, <1>20 DEF RowsInv

\* The record of the call that has inserted its row.
LEMMA InsertedAs ==
  ASSUME SessionsInv, NEW c \in Calls, NEW s \in Sessions, InsertRow(c, s),
         call[c].pc \in {"resolved", "forking", "retrying"}
  PROVE  \E k \in CallRecords :
           /\ call' = [call EXCEPT ![c] = k]
           /\ k.pc = IF call[c].agent \in agents THEN "initializing" ELSE "failed"
           /\ k.session = s /\ k.op = call[c].op /\ k.top = call[c].top
           /\ k.agent = call[c].agent /\ WellFormed(k)
<1> DEFINE p == IF call[c].agent \in agents THEN "initializing" ELSE "failed"
           k == [call[c] EXCEPT !.pc = p, !.session = s, !.tries = @ + 1]
<1>1. call[c] \in CallRecords /\ WellFormed(call[c]) /\ call[c].op \in {"create", "child", "fork"}
  BY OwnWellFormed, OpsOfEach
<1>2. call[c].tries + 1 \in 0 .. MaxAttempts
  BY <1>1, AttemptsAssumption DEF WellFormed, CallRecords
<1>3. p \in Pcs /\ p \in News
  BY DEF Pcs, News
<1>4. call' = [call EXCEPT ![c].pc = p, ![c].session = s, ![c].tries = @ + 1]
  BY DEF InsertRow
<1> HIDE DEF p
<1>5. /\ k \in CallRecords /\ k.pc = p /\ k.session = s /\ k.op = call[c].op
      /\ k.top = call[c].top /\ k.agent = call[c].agent /\ k.todo = call[c].todo
  BY <1>1, <1>2, <1>3 DEF CallRecords
<1>6. call' = [call EXCEPT ![c] = k]
  <2>1. call \in [Calls -> CallRecords]
    BY DEF SessionsInv, CallTypes
  <2> QED
    BY <1>1, <1>4, <2>1 DEF CallRecords
<1> HIDE DEF k
<1>7. WellFormed(k)
  BY <1>1, <1>3, <1>5, PcsOfEach DEF WellFormed, News, Deletes
<1> QED
  BY <1>5, <1>6, <1>7 DEF p

LEMMA CreateSessionKeeps ==
  ASSUME SessionsInv, NEW c \in Calls, NEW s \in Sessions, CreateSession(c, s)
  PROVE  SessionsInv'
<1> DEFINE a == call[c].agent
<1>1. call[c].pc = "resolved" /\ AgentGate!RunOperation(a, c) /\ InsertRow(c, s)
  BY DEF CreateSession
<1>2. PICK k \in CallRecords :
           /\ call' = [call EXCEPT ![c] = k]
           /\ k.pc = IF call[c].agent \in agents THEN "initializing" ELSE "failed"
           /\ k.session = s /\ k.op = call[c].op /\ k.top = call[c].top
           /\ k.agent = a /\ WellFormed(k)
  BY <1>1, InsertedAs
<1>3. RowTypes' /\ RowsInv'
  BY <1>1, <1>2, RowInserted
<1>4. call[c] \in CallRecords /\ WellFormed(call[c]) /\ call[c].op \in {"create", "child"}
  BY <1>1, OwnWellFormed, OpsOfEach
<1>5. a \in Agents /\ UNCHANGED gateVars /\ k.pc \in News
  BY <1>1, <1>2, <1>4 DEF WellFormed, InsertRow, News
<1>6. AgentProofs!GateIInv' /\ AgentProofs!MovesOne(a, c, {"operating"})
  BY <1>1, <1>5, AgentGateStep
<1>7. /\ AgentPlace(k, a) = {"operating"}
      /\ \A b \in Agents \ {a} : AgentPlace(call[c], b) \subseteq AgentPlace(k, b)
  BY <1>2, <1>5 DEF AgentPlace, InAgentGate
<1>8. \A r \in Sessions : SessionPlace(call[c], r) \subseteq SessionPlace(k, r)
  BY <1>1, <1>2, <1>5 DEF SessionPlace, News, Deletes
<1>9. AgentMoves(c, k)
  BY <1>5, <1>6, <1>7, AgentGoes
<1>10. SessionMoves(c, k) /\ GateIInv'
  BY <1>5, <1>8, SessionStays
<1> QED
  BY <1>2, <1>3, <1>6, <1>9, <1>10, CallStep DEF MovesTo

LEMMA CreateForkOrRetryKeeps ==
  ASSUME SessionsInv, NEW c \in Calls, NEW s \in Sessions, CreateForkOrRetry(c, s)
  PROVE  SessionsInv'
<1>1. call[c].pc \in {"forking", "retrying"} /\ InsertRow(c, s) /\ UNCHANGED agentGate
  BY DEF CreateForkOrRetry
<1>2. PICK k \in CallRecords :
           /\ call' = [call EXCEPT ![c] = k]
           /\ k.pc = IF call[c].agent \in agents THEN "initializing" ELSE "failed"
           /\ k.session = s /\ k.op = call[c].op /\ k.top = call[c].top
           /\ k.agent = call[c].agent /\ WellFormed(k)
  BY <1>1, InsertedAs
<1>3. RowTypes' /\ RowsInv'
  BY <1>1, <1>2, RowInserted
<1>4. UNCHANGED gateVars /\ k.pc \in News
  BY <1>1, <1>2 DEF InsertRow, News
<1>5. \A a \in Agents : AgentPlace(call[c], a) \subseteq AgentPlace(k, a)
  BY <1>1, <1>2, <1>4 DEF AgentPlace, InAgentGate
<1>6. \A r \in Sessions : SessionPlace(call[c], r) \subseteq SessionPlace(k, r)
  BY <1>1, <1>2, <1>4 DEF SessionPlace, News, Deletes
<1>7. AgentMoves(c, k) /\ AgentProofs!GateIInv'
  BY <1>1, <1>5, AgentStays
<1>8. SessionMoves(c, k) /\ GateIInv'
  BY <1>4, <1>6, SessionStays
<1> QED
  BY <1>2, <1>3, <1>7, <1>8, CallStep DEF MovesTo

-----------------------------------------------------------------------------
(* A row is removed, moved, or its agent removed.                          *)

LEMMA RowRemoved ==
  ASSUME SessionsInv, NEW c \in Calls, NEW s \in Sessions,
         row' = [row EXCEPT ![s] = None], UNCHANGED <<agents, parent, fresh>>,
         NEW k \in CallRecords, call' = [call EXCEPT ![c] = k],
         k.op = call[c].op, k.top = call[c].top, k.pc \notin News \cup {"starting", "switching"},
         call[c].pc = "failed" => call[c].session = s,
         \A r \in Sessions : HasRow(r) => parent[r] # s,
         \A d \in Calls : call[d].op = "child" => call[d].top # s,
         k.pc \in Deletes => KidsAreListed(k)'
  PROVE  RowTypes' /\ RowsInv'
<1>1. \A d \in Calls : call'[d] = IF d = c THEN k ELSE call[d]
  BY DEF SessionsInv, CallTypes
<1>2. RowTypes /\ RowsInv
  BY DEF SessionsInv
<1>3. \A r \in Sessions : row'[r] = IF r = s THEN None ELSE row[r]
  BY <1>2 DEF RowTypes
<1>4. \A r \in Sessions : (HasRow(r))' <=> HasRow(r) /\ r # s
  BY <1>3 DEF HasRow
<1>5. RowTypes'
  <2>1. row' \in [Sessions -> Agents \cup {None}]
    BY <1>2 DEF RowTypes
  <2>2. fresh' \subseteq {r \in Sessions : row'[r] = None}
    BY <1>2, <1>3 DEF RowTypes
  <2> QED
    BY <1>2, <2>1, <2>2 DEF RowTypes
<1>6. AgentExists'
  BY <1>1, <1>2, <1>3, <1>4 DEF RowsInv, AgentExists
<1>7. \A r \in Sessions : HasRow(r) /\ parent[r] # None =>
         parent[r] \in Sessions /\ HasRow(parent[r]) /\ parent[parent[r]] = None
  BY <1>2 DEF RowTypes, RowsInv, ParentExists, ParentsAreRegular
<1>8. ParentExists' /\ ParentsAreRegular'
  BY <1>4, <1>7 DEF ParentExists, ParentsAreRegular
<1>9. TargetsExist'
  BY <1>1, <1>2 DEF RowsInv, TargetsExist
<1>10. ParentsStay'
  <2>1. \A d \in Calls : call[d].op = "child" =>
          call[d].top \in Sessions /\ HasRow(call[d].top) /\ parent[call[d].top] = None
    BY <1>2, OwnWellFormed DEF WellFormed, RowsInv, ParentsStay
  <2> QED
    BY <1>1, <1>4, <2>1 DEF ParentsStay
<1>11. NewRowsAreLeaves'
  BY <1>1, <1>2, <1>4 DEF RowsInv, NewRowsAreLeaves
<1>12. NewNamesAreDrawn'
  BY <1>1, <1>2 DEF RowsInv, NewNamesAreDrawn
<1>13. DeletionsAreComplete'
  <2> SUFFICES ASSUME NEW d \in Calls, call'[d].pc \in Deletes
               PROVE  KidsAreListed(call[d])'
    BY DEF DeletionsAreComplete
  <2>1. CASE d = c
    BY <1>1, <2>1 DEF KidsAreListed, HasRow
  <2>2. CASE d # c
    <3>1. call'[d] = call[d] /\ KidsAreListed(call[d]) /\ call[d].session \in Sessions
      BY <1>1, <2>2, OwnWellFormed DEF WellFormed
    <3> QED
      BY <1>4, <3>1 DEF KidsAreListed
  <2> QED
    BY <2>1, <2>2
<1> QED
  BY <1>5, <1>6, <1>8, <1>9, <1>10, <1>11, <1>12, <1>13 DEF RowsInv

LEMMA CleanupFailedKeeps ==
  ASSUME SessionsInv, NEW c \in Calls, CleanupFailed(c)
  PROVE  SessionsInv'
<1> DEFINE s == call[c].session
           again == call[c].op = "child" /\ call[c].tries < MaxAttempts /\ NameLeft
           p == IF again THEN "retrying" ELSE "leaving"
           k == [call[c] EXCEPT !.pc = p]
<1>1. /\ k \in CallRecords /\ k.pc = p /\ k.op = call[c].op /\ k.agent = call[c].agent
      /\ k.session = s /\ k.top = call[c].top /\ k.todo = call[c].todo
      /\ k.tries = call[c].tries /\ call' = [call EXCEPT ![c] = k]
  <2>1. p \in Pcs
    BY DEF Pcs
  <2> QED
    BY <2>1, GoneTo DEF CleanupFailed
<1>2. /\ call[c].pc = "failed" /\ row' = [row EXCEPT ![s] = None]
      /\ UNCHANGED <<agents, parent, fresh>> /\ UNCHANGED agentGate /\ UNCHANGED gateVars
  BY DEF CleanupFailed
<1>3. /\ call[c] \in CallRecords /\ WellFormed(call[c])
      /\ call[c].op \in {"create", "fork", "child"}
  BY <1>2, OwnWellFormed, OpsOfEach DEF News
<1>4. s \in Sessions
  BY <1>2, <1>3 DEF WellFormed, News
<1>5. k.pc \in {"retrying", "leaving"}
  BY <1>1
<1>6. k.pc = "retrying" => call[c].op = "child" /\ call[c].tries < MaxAttempts
  BY <1>1
<1> HIDE DEF k
<1>7. WellFormed(k)
  BY <1>1, <1>2, <1>3, <1>5, <1>6, PcsOfEach DEF WellFormed, News, Deletes
<1>8. /\ \A r \in Sessions : HasRow(r) => parent[r] # s
      /\ \A d \in Calls : call[d].op = "child" => call[d].top # s
  BY <1>2 DEF SessionsInv, RowsInv, NewRowsAreLeaves, News
<1>9. RowTypes' /\ RowsInv'
  <2>1. k.pc \notin News \cup {"starting", "switching"} /\ k.pc \notin Deletes
    BY <1>5 DEF News, Deletes
  <2> QED
    BY <1>1, <1>2, <1>4, <1>8, <2>1, RowRemoved
<1>10. \A a \in Agents : AgentPlace(call[c], a) \subseteq AgentPlace(k, a)
  BY <1>1, <1>2, <1>5 DEF AgentPlace, InAgentGate, News
<1>11. \A r \in Sessions : SessionPlace(call[c], r) \subseteq SessionPlace(k, r)
  BY <1>1, <1>2, <1>5 DEF SessionPlace, Deletes
<1>12. AgentMoves(c, k) /\ AgentProofs!GateIInv'
  BY <1>2, <1>10, AgentStays
<1>13. SessionMoves(c, k) /\ GateIInv'
  BY <1>2, <1>11, SessionStays
<1> QED
  BY <1>1, <1>7, <1>9, <1>12, <1>13, CallStep DEF MovesTo

LEMMA RemoveRowKeeps ==
  ASSUME SessionsInv, NEW c \in Calls, RemoveRow(c)
  PROVE  SessionsInv'
<1> DEFINE s == call[c].session
           t == call[c].top
<1>1. PICK k \in CallRecords :
        /\ k.pc = "closing" /\ k.op = call[c].op /\ k.agent = call[c].agent
        /\ k.session = s /\ k.top = t /\ k.todo = call[c].todo
        /\ k.tries = call[c].tries /\ call' = [call EXCEPT ![c] = k]
  <2> DEFINE n == [call[c] EXCEPT !.pc = "closing"]
  <2>1. "closing" \in Pcs
    BY DEF Pcs
  <2>2. /\ n \in CallRecords /\ n.pc = "closing" /\ n.op = call[c].op
        /\ n.agent = call[c].agent /\ n.session = s /\ n.top = t /\ n.todo = call[c].todo
        /\ n.tries = call[c].tries /\ call' = [call EXCEPT ![c] = n]
    BY <2>1, GoneTo DEF RemoveRow
  <2> HIDE DEF n
  <2> QED
    BY <2>2
<1>2. /\ call[c].pc = "children" /\ (call[c].todo = {} \/ s # t)
      /\ row' = [row EXCEPT ![s] = None]
      /\ UNCHANGED <<agents, parent, fresh>> /\ UNCHANGED agentGate /\ UNCHANGED gateVars
  BY DEF RemoveRow
<1>3. /\ call[c] \in CallRecords /\ WellFormed(call[c]) /\ KidsAreListed(call[c])
      /\ call[c].op \in {"create", "delete"}
  BY <1>2, OwnWellFormed, OpsOfEach DEF Deletes
<1>4. s \in Sessions /\ t \in Sessions /\ t # None
  BY <1>2, <1>3, NamesAreDistinct DEF WellFormed, Deletes
<1>5. WellFormed(k)
  BY <1>1, <1>2, <1>3, PcsOfEach DEF WellFormed, News, Deletes
<1>6. RowTypes /\ RowsInv
  BY DEF SessionsInv
<1>7. \A r \in Sessions : HasRow(r) => parent[r] # s
  <2>1. CASE s = t
    BY <1>2, <1>3, <2>1 DEF KidsAreListed
  <2>2. CASE s # t
    <3>1. parent[s] = t
      BY <1>3, <2>2 DEF KidsAreListed
    <3> QED
      BY <1>4, <1>6, <3>1, NamesAreDistinct DEF RowsInv, ParentsAreRegular
  <2> QED
    BY <2>1, <2>2
<1>8. \A d \in Calls : call[d].op = "child" => call[d].top # s
  <2>1. CASE s = t
    BY <1>2, <2>1, NoChildWhileDeleting DEF Deletes
  <2>2. CASE s # t
    <3>1. parent[s] = t
      BY <1>3, <2>2 DEF KidsAreListed
    <3> QED
      BY <1>4, <1>6, <3>1 DEF RowsInv, ParentsStay
  <2> QED
    BY <2>1, <2>2
<1>9. KidsAreListed(k)'
  <2>1. row'[s] = None /\ \A r \in Sessions : row'[r] # None => row[r] # None
    BY <1>2, <1>4, <1>6 DEF RowTypes
  <2> QED
    BY <1>1, <1>2, <1>3, <2>1 DEF KidsAreListed, HasRow
<1>10. RowTypes' /\ RowsInv'
  <2>1. k.pc \notin News \cup {"starting", "switching"}
    BY <1>1 DEF News
  <2> QED
    BY <1>1, <1>2, <1>4, <1>7, <1>8, <1>9, <2>1, RowRemoved
<1>11. \A a \in Agents : AgentPlace(call[c], a) \subseteq AgentPlace(k, a)
  BY <1>1, <1>2, <1>3 DEF AgentPlace, InAgentGate, News, Deletes
<1>12. \A r \in Sessions : SessionPlace(call[c], r) \subseteq SessionPlace(k, r)
  BY <1>1, <1>2, <1>3 DEF SessionPlace, Deletes
<1>13. AgentMoves(c, k) /\ AgentProofs!GateIInv'
  BY <1>2, <1>11, AgentStays
<1>14. SessionMoves(c, k) /\ GateIInv'
  BY <1>2, <1>12, SessionStays
<1> QED
  BY <1>1, <1>5, <1>10, <1>13, <1>14, CallStep DEF MovesTo

\* The target of the move has not been deleted meanwhile.
LEMMA UpdateAgentIdKeeps ==
  ASSUME SessionsInv, NEW c \in Calls, UpdateAgentId(c)
  PROVE  SessionsInv'
<1> DEFINE s == call[c].session
           a == call[c].agent
           k == [call[c] EXCEPT !.pc = "leaving"]
<1>1. /\ k \in CallRecords /\ k.pc = "leaving" /\ k.op = call[c].op /\ k.agent = a
      /\ k.session = s /\ k.top = call[c].top /\ k.todo = call[c].todo
      /\ k.tries = call[c].tries /\ call' = [call EXCEPT ![c] = k]
  <2>1. "leaving" \in Pcs
    BY DEF Pcs
  <2> QED
    BY <2>1, GoneTo DEF UpdateAgentId
<1>2. /\ call[c].pc = "switching" /\ row' = [row EXCEPT ![s] = IF @ = None THEN None ELSE a]
      /\ UNCHANGED <<agents, parent, fresh>> /\ UNCHANGED agentGate /\ UNCHANGED gateVars
  BY DEF UpdateAgentId
<1> HIDE DEF k
<1>3. call[c] \in CallRecords /\ WellFormed(call[c]) /\ call[c].op = "move"
  BY <1>2, OwnWellFormed, OpsOfEach
<1>4. s \in Sessions /\ a \in Agents
  BY <1>2, <1>3 DEF WellFormed
<1>5. RowTypes /\ RowsInv
  BY DEF SessionsInv
<1>6. a \in agents /\ a # None
  BY <1>2, <1>4, <1>5, NamesAreDistinct DEF RowsInv, TargetsExist
<1>7. WellFormed(k)
  BY <1>1, <1>3, <1>4, PcsOfEach DEF WellFormed, News, Deletes
<1>8. \A d \in Calls : call'[d] = IF d = c THEN k ELSE call[d]
  BY <1>1 DEF SessionsInv, CallTypes
<1>9. \A r \in Sessions : row'[r] = IF r = s /\ row[s] # None THEN a ELSE row[r]
  BY <1>2, <1>5 DEF RowTypes
<1>10. \A r \in Sessions : (HasRow(r))' <=> HasRow(r)
  BY <1>6, <1>9 DEF HasRow
<1>11. RowTypes'
  <2>1. row' \in [Sessions -> Agents \cup {None}]
    <3>1. (IF row[s] = None THEN None ELSE a) \in Agents \cup {None}
      BY <1>4
    <3> QED
      BY <1>2, <1>5, <3>1 DEF RowTypes
  <2>2. fresh' \subseteq {r \in Sessions : row'[r] = None}
    BY <1>2, <1>5, <1>9 DEF RowTypes
  <2> QED
    BY <1>2, <1>5, <2>1, <2>2 DEF RowTypes
<1>12. AgentExists'
  BY <1>2, <1>5, <1>6, <1>8, <1>9, <1>10 DEF RowsInv, AgentExists
<1>13. ParentExists' /\ ParentsAreRegular'
  BY <1>2, <1>5, <1>10 DEF RowTypes, RowsInv, ParentExists, ParentsAreRegular
<1>14. TargetsExist'
  BY <1>1, <1>2, <1>5, <1>8 DEF RowsInv, TargetsExist
<1>15. ParentsStay'
  <2>1. \A d \in Calls : call[d].op = "child" =>
          call[d].top \in Sessions /\ HasRow(call[d].top) /\ parent[call[d].top] = None
    BY <1>5, OwnWellFormed DEF WellFormed, RowsInv, ParentsStay
  <2> QED
    BY <1>1, <1>2, <1>8, <1>10, <2>1 DEF ParentsStay
<1>16. NewRowsAreLeaves'
  BY <1>1, <1>2, <1>5, <1>8, <1>10 DEF RowsInv, NewRowsAreLeaves, News
<1>17. NewNamesAreDrawn'
  BY <1>1, <1>2, <1>5, <1>8 DEF RowsInv, NewNamesAreDrawn, News
<1>18. DeletionsAreComplete'
  <2> SUFFICES ASSUME NEW d \in Calls, call'[d].pc \in Deletes
               PROVE  KidsAreListed(call[d])'
    BY DEF DeletionsAreComplete
  <2>1. call'[d] = call[d] /\ KidsAreListed(call[d]) /\ call[d].session \in Sessions
    BY <1>1, <1>8, OwnWellFormed DEF WellFormed, Deletes
  <2> QED
    BY <1>2, <1>10, <2>1 DEF KidsAreListed
<1>19. \A b \in Agents : AgentPlace(call[c], b) \subseteq AgentPlace(k, b)
  BY <1>1, <1>2 DEF AgentPlace, InAgentGate
<1>20. \A r \in Sessions : SessionPlace(call[c], r) \subseteq SessionPlace(k, r)
  BY <1>1, <1>2 DEF SessionPlace, Deletes
<1>21. AgentMoves(c, k) /\ AgentProofs!GateIInv'
  BY <1>2, <1>19, AgentStays
<1>22. SessionMoves(c, k) /\ GateIInv'
  BY <1>2, <1>20, SessionStays
<1>23. RowsInv'
  BY <1>12, <1>13, <1>14, <1>15, <1>16, <1>17, <1>18 DEF RowsInv
<1> QED
  BY <1>1, <1>7, <1>11, <1>21, <1>22, <1>23, CallStep DEF MovesTo

\* The transaction has found no session of the agent, and its gate keeps moves out.
LEMMA RemoveAgentKeeps ==
  ASSUME SessionsInv, NEW c \in Calls, RemoveAgent(c)
  PROVE  SessionsInv'
<1> DEFINE a == call[c].agent
           k == [call[c] EXCEPT !.pc = "agentClosing"]
<1>1. /\ k \in CallRecords /\ k.pc = "agentClosing" /\ k.op = call[c].op /\ k.agent = a
      /\ k.session = call[c].session /\ k.top = call[c].top /\ k.todo = call[c].todo
      /\ k.tries = call[c].tries /\ call' = [call EXCEPT ![c] = k]
  <2>1. "agentClosing" \in Pcs
    BY DEF Pcs
  <2> QED
    BY <2>1, GoneTo DEF RemoveAgent
<1>2. /\ call[c].pc = "agentCleaning"
      /\ agents' = IF CanDelete(a) THEN agents \ {a} ELSE agents
      /\ UNCHANGED <<row, parent, fresh>> /\ UNCHANGED agentGate /\ UNCHANGED gateVars
  BY DEF RemoveAgent
<1> HIDE DEF k
<1>3. call[c] \in CallRecords /\ WellFormed(call[c]) /\ call[c].op = "deleteAgent"
  BY <1>2, OwnWellFormed, OpsOfEach
<1>4. WellFormed(k)
  BY <1>1, <1>3, PcsOfEach DEF WellFormed, News, Deletes
<1>5. RowTypes /\ RowsInv
  BY DEF SessionsInv
<1>6. \A d \in Calls : call'[d] = IF d = c THEN k ELSE call[d]
  BY <1>1 DEF SessionsInv, CallTypes
<1>7. /\ agents' \subseteq agents
      /\ \A s \in Sessions : row[s] \in agents => row[s] \in agents'
  BY <1>2 DEF CanDelete
<1>8. RowTypes'
  BY <1>2, <1>5, <1>7 DEF RowTypes
<1>9. AgentExists'
  BY <1>2, <1>5, <1>6, <1>7 DEF RowsInv, AgentExists, HasRow
<1>10. ParentExists' /\ ParentsAreRegular'
  BY <1>2, <1>5 DEF RowsInv, ParentExists, ParentsAreRegular, HasRow
<1>11. TargetsExist'
  BY <1>1, <1>2, <1>5, <1>6, NoMoveWhileRemoving DEF RowsInv, TargetsExist
<1>12. ParentsStay'
  BY <1>1, <1>2, <1>5, <1>6 DEF RowsInv, ParentsStay, HasRow
<1>13. NewRowsAreLeaves'
  BY <1>1, <1>2, <1>5, <1>6 DEF RowsInv, NewRowsAreLeaves, HasRow, News
<1>14. NewNamesAreDrawn'
  BY <1>1, <1>2, <1>5, <1>6 DEF RowsInv, NewNamesAreDrawn, News
<1>15. DeletionsAreComplete'
  BY <1>1, <1>2, <1>5, <1>6 DEF RowsInv, DeletionsAreComplete, KidsAreListed, HasRow, Deletes
<1>16. RowsInv'
  BY <1>9, <1>10, <1>11, <1>12, <1>13, <1>14, <1>15 DEF RowsInv
<1>17. \A b \in Agents : AgentPlace(call[c], b) \subseteq AgentPlace(k, b)
  BY <1>1, <1>2, <1>3 DEF AgentPlace, InAgentGate, News, Deletes
<1>18. \A r \in Sessions : SessionPlace(call[c], r) \subseteq SessionPlace(k, r)
  BY <1>1, <1>2, <1>3 DEF SessionPlace, Deletes
<1>19. AgentMoves(c, k) /\ AgentProofs!GateIInv'
  BY <1>2, <1>17, AgentStays
<1>20. SessionMoves(c, k) /\ GateIInv'
  BY <1>2, <1>18, SessionStays
<1> QED
  BY <1>1, <1>4, <1>8, <1>16, <1>19, <1>20, CallStep DEF MovesTo

-----------------------------------------------------------------------------
(* The invariant and what follows from it.                                 *)

LEMMA SessionsStart == Init => SessionsInv
<1> SUFFICES ASSUME Init PROVE SessionsInv
  OBVIOUS
<1>1. GateIInv /\ AgentProofs!GateIInv
  BY AgentGateNames, AgentGateInductive, GateInductive DEF Init
<1>2. call = [c \in Calls |-> Over] /\ \A c \in Calls : call[c] = Over
  BY DEF Init
<1>3. CallTypes
  BY <1>2, OverRecord DEF CallTypes
<1>4. AgentProofs!GateInit
  BY AgentGateNames DEF Init
<1>5. GatesMatch
  <2>1. \A c \in Calls, a \in Agents : aPlace[a][c] = "out"
    BY <1>4 DEF AgentProofs!GateInit
  <2>2. \A c \in Calls, s \in Sessions : place[s][c] = "out"
    BY DEF Init, GateInit, Sessions
  <2> QED
    BY <1>2, <2>1, <2>2, OverRecord DEF GatesMatch
<1>6. RowTypes
  BY DEF Init, RowTypes
<1>7. \A c \in Calls : call[c].pc = "out" /\ call[c].op = "none"
  BY <1>2 DEF Over
<1>8. RowsInv
  <2>1. AgentExists /\ ParentExists /\ ParentsAreRegular
    BY DEF Init, AgentExists, ParentExists, ParentsAreRegular, HasRow
  <2>2. /\ TargetsExist /\ ParentsStay /\ NewRowsAreLeaves /\ NewNamesAreDrawn
        /\ DeletionsAreComplete
    BY <1>7 DEF TargetsExist, ParentsStay, NewRowsAreLeaves, NewNamesAreDrawn,
       DeletionsAreComplete, News, Deletes
  <2> QED
    BY <2>1, <2>2 DEF RowsInv
<1> QED
  BY <1>1, <1>3, <1>5, <1>6, <1>8 DEF SessionsInv

LEMMA SessionsStutter ==
  ASSUME SessionsInv, UNCHANGED vars
  PROVE  SessionsInv'
<1>1. UNCHANGED rows /\ UNCHANGED call /\ UNCHANGED agentGate /\ UNCHANGED gateVars
  BY DEF vars
<1>2. GateIInv' /\ AgentProofs!GateIInv'
  BY <1>1, AgentGateRests, GateInductive DEF SessionsInv
<1>3. RowTypes' /\ CallTypes' /\ GatesMatch'
  BY <1>1 DEF SessionsInv, RowTypes, CallTypes, GatesMatch, rows, agentGate, gateVars
<1>4. RowsInv'
  BY <1>1 DEF SessionsInv, RowsInv, rows, AgentExists, ParentExists, ParentsAreRegular,
     TargetsExist, ParentsStay, NewRowsAreLeaves, NewNamesAreDrawn, DeletionsAreComplete,
     KidsAreListed, HasRow
<1> QED
  BY <1>2, <1>3, <1>4 DEF SessionsInv

LEMMA SessionsInductive == SessionsInv /\ [Next]_vars => SessionsInv'
<1> SUFFICES ASSUME SessionsInv, [Next]_vars PROVE SessionsInv'
  OBVIOUS
<1>1. ASSUME NEW c \in Calls, Begin(c) PROVE SessionsInv'
  BY <1>1, ResolveCreateAssignmentKeeps, DeleteAgentKeeps, ForkSessionKeeps, DeleteSessionKeeps,
     OperateOnParentKeeps, BeginMoveKeeps DEF Begin
<1>2. ASSUME NEW c \in Calls, Continue(c) PROVE SessionsInv'
  <2>1. ASSUME NEW s \in Sessions,
               CreateSession(c, s) \/ CreateForkOrRetry(c, s) \/ DeleteChild(c, s)
        PROVE  SessionsInv'
    BY <2>1, CreateSessionKeeps, CreateForkOrRetryKeeps, DeleteChildKeeps
  <2>2. CASE \/ RefuseCreation(c) \/ InitializationEnds(c) \/ StartInitialTurn(c)
             \/ CleanupFailed(c) \/ LeaveAgent(c) \/ LeaveParent(c)
    BY <2>2, RefuseCreationKeeps, InitializationEndsKeeps, StartInitialTurnKeeps,
       CleanupFailedKeeps, LeaveAgentKeeps, LeaveParentKeeps
  <2>3. CASE \/ ResolveTransferTarget(c) \/ UpdateAgentId(c)
             \/ DeleteTreeUnderGate(c) \/ ListChildren(c) \/ RemoveRow(c) \/ CloseDeletion(c)
    BY <2>3, ResolveTransferTargetKeeps, UpdateAgentIdKeeps, DeleteTreeUnderGateKeeps,
       ListChildrenKeeps, RemoveRowKeeps, CloseDeletionKeeps
  <2>4. CASE DeleteAgentUnderGate(c) \/ RemoveAgent(c) \/ CloseAgentDeletion(c)
    BY <2>4, DeleteAgentUnderGateKeeps, RemoveAgentKeeps, CloseAgentDeletionKeeps
  <2> QED
    BY <1>2, <2>1, <2>2, <2>3, <2>4 DEF Continue
<1>3. ASSUME NEW c \in Calls, Disturb(c) PROVE SessionsInv'
  BY <1>3, InitializationFailsKeeps, CancelNewKeeps, MoveFailsKeeps, DrainTimesOutKeeps,
     CleanupOfAgentFailsKeeps DEF Disturb
<1> QED
  BY <1>1, <1>2, <1>3, SessionsStutter DEF Next

\* What a call holds in either gate is told by its await, and neither gate leaks a mark,
\* an operation or a waiter, whatever fails, is refused or times out.
THEOREM CallsAndGatesAgree == Spec => []Consistent
<1>1. SessionsInv => Consistent
  <2> SUFFICES ASSUME SessionsInv PROVE Consistent
    OBVIOUS
  <2>1. GateIInv /\ AgentProofs!GateIInv
    BY DEF SessionsInv
  <2>2. GateTypeOK /\ ClosedByOne /\ NoLostDrain /\ CounterIsExact
    BY <2>1 DEF GateIInv
  <2>3. /\ AgentGate!GateTypeOK /\ AgentGate!ClosedByOne /\ AgentGate!NoLostDrain
        /\ AgentGate!CounterIsExact
    BY <2>1, AgentGateNames DEF AgentProofs!GateIInv
  <2>4. TypeOK
    BY <2>3 DEF TypeOK, SessionsInv, RowTypes, CallTypes, CallRecords
  <2>5. NothingStaysInside
    <3> SUFFICES ASSUME NEW c \in Calls, call[c].pc = "out"
                 PROVE  /\ \A a \in Agents : aPlace[a][c] = "out"
                        /\ \A s \in Sessions : place[s][c] = "out"
      BY DEF NothingStaysInside
    <3>1. call[c].op = "none"
      BY OwnWellFormed, OpsOfEach
    <3>2. \A a \in Agents : AgentPlace(call[c], a) = {"out"}
      BY <3>1 DEF AgentPlace, InAgentGate, News, Deletes
    <3>3. \A s \in Sessions : SessionPlace(call[c], s) = {"out"}
      BY <3>1 DEF SessionPlace, Deletes
    <3> QED
      BY <3>2, <3>3 DEF SessionsInv, GatesMatch
  <2> QED
    BY <2>2, <2>3, <2>4, <2>5 DEF Consistent
<1> QED
  BY <1>1, SessionsStart, SessionsInductive, PTL DEF Spec

\* No session outlives its agent and no child its parent, for any agents, sessions and
\* calls, however creations, forks, moves and deletions meet.
THEOREM NobodyIsEverLeftBehind == Spec => []NobodyIsLeftBehind
<1>1. SessionsInv => NobodyIsLeftBehind
  BY DEF SessionsInv, RowsInv, NobodyIsLeftBehind
<1> QED
  BY <1>1, SessionsStart, SessionsInductive, PTL DEF Spec

\* No call is inside a session while that session is being deleted.
THEOREM SessionsAreDeletedAlone == Spec => []DeletionIsAlone
<1>1. SessionsInv => DeletionIsAlone
  BY DEF SessionsInv, GateIInv, DrainedIsEmpty, DeletionIsAlone
<1> QED
  BY <1>1, SessionsStart, SessionsInductive, PTL DEF Spec

\* Every step of the calls is a step of the session gate or does not touch it.
LEMMA StepOfTheGate == SessionsInv /\ [Next]_vars => [GateNext]_gateVars
<1> SUFFICES ASSUME SessionsInv, [Next]_vars PROVE GateNext \/ UNCHANGED gateVars
  OBVIOUS
<1>1. ASSUME NEW c \in Calls, NEW s \in Sessions,
             \/ RunOperation(s, c) \/ FinishOperation(s, c) \/ RunDeletion(s, c)
             \/ StartDeletion(s, c) \/ DrainExpires(s, c) \/ EndDeletion(s, c)
      PROVE  GateNext
  BY <1>1 DEF GateNext, Sessions
<1>2. ASSUME NEW c \in Calls, Begin(c) PROVE GateNext \/ UNCHANGED gateVars
  BY <1>1, <1>2 DEF Begin, ResolveCreateAssignment, DeleteAgent, ForkSession, DeleteSession,
     OperateOnParent, BeginMove
<1>3. ASSUME NEW c \in Calls, call[c].pc \in Deletes \cup {"starting"}
      PROVE  call[c].session \in Sessions
  BY <1>3, OwnWellFormed DEF WellFormed
<1>4. ASSUME NEW c \in Calls, call[c].pc = "leavingParent" PROVE call[c].top \in Sessions
  BY <1>4, OwnWellFormed, OpsOfEach DEF WellFormed
<1>5. ASSUME NEW c \in Calls, Continue(c) PROVE GateNext \/ UNCHANGED gateVars
  <2>1. ASSUME NEW s \in Sessions,
               CreateSession(c, s) \/ CreateForkOrRetry(c, s) \/ DeleteChild(c, s)
        PROVE  GateNext \/ UNCHANGED gateVars
    BY <1>1, <2>1 DEF CreateSession, CreateForkOrRetry, InsertRow, DeleteChild
  <2>2. CASE \/ RefuseCreation(c) \/ InitializationEnds(c) \/ StartInitialTurn(c)
             \/ CleanupFailed(c) \/ LeaveAgent(c) \/ LeaveParent(c)
    BY <1>1, <1>4, <2>2 DEF RefuseCreation, InitializationEnds, StartInitialTurn, CleanupFailed,
       LeaveAgent, LeaveParent
  <2>3. CASE \/ ResolveTransferTarget(c) \/ UpdateAgentId(c)
             \/ DeleteTreeUnderGate(c) \/ ListChildren(c) \/ RemoveRow(c) \/ CloseDeletion(c)
    BY <1>1, <1>3, <2>3 DEF ResolveTransferTarget, UpdateAgentId, DeleteTreeUnderGate,
       ListChildren, RemoveRow, CloseDeletion, Deletes
  <2>4. CASE DeleteAgentUnderGate(c) \/ RemoveAgent(c) \/ CloseAgentDeletion(c)
    BY <2>4 DEF DeleteAgentUnderGate, RemoveAgent, CloseAgentDeletion
  <2> QED
    BY <1>5, <2>1, <2>2, <2>3, <2>4 DEF Continue
<1>6. ASSUME NEW c \in Calls, Disturb(c) PROVE GateNext \/ UNCHANGED gateVars
  BY <1>1, <1>3, <1>6 DEF Disturb, InitializationFails, CancelNew, MoveFails, DrainTimesOut,
     CleanupOfAgentFails, Deletes
<1> QED
  BY <1>2, <1>5, <1>6 DEF Next, vars

\* The calls use the session gate as the room with one door: they enter it, wait
\* in it and leave it by its own steps only.
THEOREM SessionsKeepGatePromise == Spec => GateKeepsPromise
<1>1. Spec => GateSpec
  <2>1. Init => GateInit
    BY DEF Init
  <2> QED
    BY <2>1, SessionsStart, SessionsInductive, StepOfTheGate, PTL DEF Spec, GateSpec
<1> QED
  BY <1>1, GateRefinesRoom, PTL
=============================================================================
