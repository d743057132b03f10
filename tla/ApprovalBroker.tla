--------------------------- MODULE ApprovalBroker ---------------------------
(***************************************************************************)
(* ApprovalBroker (src/main/approval/approvalBroker.ts) under its two      *)
(* adapters: ToolPermissionBroker, for tool calls of the model and of MCP  *)
(* apps, and CliMutationGuard.                                             *)
(*                                                                         *)
(* A caller is at                                                          *)
(*   shown        model: its request is shown, it returns when the user has*)
(*                answered                                                 *)
(*   presenting   cli: its request is being shown, it has not waited yet   *)
(*   waiting      app, cli: in wait                                        *)
(*   allowed, refused                                                      *)
(***************************************************************************)
EXTENDS Naturals, FiniteSets

CONSTANTS
  Callers, Requests, None,
  Kind,          \* "model", "app" or "cli"
  Binding,       \* what a caller asks for: conversation, tool, arguments
  Scope,         \* its conversation or connection
  MaxPending     \* maxPendingPerScope

ASSUME KindAssumption == Kind \in [Callers -> {"model", "app", "cli"}]
ASSUME CallersAssumption == None \notin Callers \cup Requests
ASSUME MaxPendingAssumption == MaxPending \in Nat \ {0}

VARIABLES
  pending,    \* the requests, with those that are not in the map yet or any more
  at, req,    \* the place and the request of a caller
  aborted     \* the callers whose signal is aborted

vars == <<pending, at, req, aborted>>

Free == [status |-> "free", owner |-> None, settlers |-> {}, signals |-> {}, due |-> FALSE]
Gone(entry) == [Free EXCEPT !.status = "gone", !.owner = entry.owner]

Init ==
  /\ pending = [r \in Requests |-> Free]
  /\ at = [c \in Callers |-> "out"]
  /\ req = [c \in Callers |-> None]
  /\ aborted = {}

-----------------------------------------------------------------------------
(* A world is the map of requests with the places of the callers; the      *)
(* methods of the broker call each other, and are functions of it here.    *)

World == [pending |-> pending, at |-> at]
Becomes(after) == \E w \in {after} : pending' = w.pending /\ at' = w.at

Live(w) == {r \in Requests : w.pending[r].status \in {"pending", "approved"}}

\* settle
Settle(w, r, answer) ==
  [pending |-> [w.pending EXCEPT ![r].settlers = {}],
   at |-> [c \in Callers |-> IF c \in w.pending[r].settlers THEN answer ELSE w.at[c]]]

\* deletePending, which also removes the abort listeners and clears the timer.
DeletePending(w, r) == [w EXCEPT !.pending[r] = Gone(@)]

\* Refusal of some requests, as by expire, by resolve with a denial and by clearMatching.
Refuse(w, R) ==
  [pending |-> [r \in Requests |-> IF r \in R THEN Gone(w.pending[r]) ELSE w.pending[r]],
   at |-> [c \in Callers |->
             IF \E r \in R : c \in w.pending[r].settlers THEN "refused" ELSE w.at[c]]]

\* pruneExpired: the timer may be late, the clock is not.
PruneExpired(w) == Refuse(w, {r \in Live(w) : w.pending[r].due})

\* attachAbort; only the model and the cli pass a signal.
AttachAbort(w, r, c) ==
  IF Kind[c] = "app" THEN w ELSE [w EXCEPT !.pending[r].signals = @ \cup {c}]

SameBinding(c, d) == Kind[c] = Kind[d] /\ Scope[c] = Scope[d] /\ Binding[c] = Binding[d]

Existing(w, c) ==
  {r \in Requests : /\ w.pending[r].status = "pending"
                    /\ Kind[c] # "cli"
                    /\ SameBinding(w.pending[r].owner, c)}

\* The ids are random; which one is drawn makes no difference.
NewIds(w) ==
  LET free == {r \in Requests : w.pending[r].status = "free"}
  IN IF free = {} THEN {} ELSE {CHOOSE r \in free : TRUE}

InScope(w, s) == {r \in Live(w) : Scope[w.pending[r].owner] = s}

\* Where a caller stands right after create: an app waits in the same step.
AfterCreate(c) == CASE Kind[c] = "model" -> "shown"
                    [] Kind[c] = "cli" -> "presenting"
                    [] OTHER -> "waiting"

\* The world in which c has joined or opened request r.
Asks(w, c, r) ==
  LET opened == IF r \in Existing(w, c) THEN w
                ELSE [w EXCEPT !.pending[r] = [Free EXCEPT !.status = "pending", !.owner = c]]
      attached == AttachAbort(opened, r, c)
      placed == [attached EXCEPT !.at[c] = AfterCreate(c)]
  IN IF Kind[c] = "app" THEN [placed EXCEPT !.pending[r].settlers = @ \cup {c}] ELSE placed

\* create: deduplication, then the limit of the scope, then a new request.
CreateIn(w, c) ==
  IF Existing(w, c) = {} /\ Cardinality(InScope(w, Scope[c])) >= MaxPending
    THEN Becomes([w EXCEPT !.at[c] = "refused"]) /\ UNCHANGED req
    ELSE \E r \in IF Existing(w, c) # {} THEN Existing(w, c) ELSE NewIds(w) :
           /\ Becomes(Asks(w, c, r))
           /\ req' = [req EXCEPT ![c] = r]

-----------------------------------------------------------------------------
\* evaluateModel, requestAppDecision, and the guard of a cli mutation.
Create(c) ==
  /\ at[c] = "out" /\ c \notin aborted
  /\ CreateIn(PruneExpired(World), c)
  /\ UNCHANGED aborted

\* requestAppDecision: the request cannot be shown and is denied, for all who share it.
CreateUnshown(c) ==
  LET w == PruneExpired(World) IN
  /\ at[c] = "out" /\ Kind[c] = "app"
  /\ \E r \in IF Existing(w, c) # {} THEN Existing(w, c) ELSE NewIds(w) :
       /\ Existing(w, c) # {} \/ Cardinality(InScope(w, Scope[c])) < MaxPending
       /\ Becomes(Refuse(Asks(w, c, r), {r}))
       /\ req' = [req EXCEPT ![c] = r]
  /\ UNCHANGED aborted

(* Mutant: an approval stays after it was used. *)
AuthorizeAgain(c) ==
  LET w == PruneExpired(World)
      approved == {r \in Requests : /\ w.pending[r].status = "approved"
                                    /\ SameBinding(w.pending[r].owner, c)}
  IN
  /\ Kind[c] = "model" /\ at[c] = "shown" /\ c \notin aborted
  /\ IF approved = {} THEN CreateIn(w, c)
     ELSE \E r \in approved :
            /\ Becomes([w EXCEPT !.at[c] = "allowed"])
            /\ req' = [req EXCEPT ![c] = r]
  /\ UNCHANGED aborted

\* authorizeExecution: an approved request of the same binding is consumed, whoever
\* asked for it; otherwise the caller asks (again).
AuthorizeExecution(c) ==
  LET w == PruneExpired(World)
      approved == {r \in Requests : /\ w.pending[r].status = "approved"
                                    /\ SameBinding(w.pending[r].owner, c)}
  IN
  /\ Kind[c] = "model" /\ at[c] = "shown" /\ c \notin aborted
  /\ IF approved = {} THEN CreateIn(w, c)
     ELSE \E r \in approved :
            /\ Becomes(DeletePending([w EXCEPT !.at[c] = "allowed"], r))
            /\ req' = [req EXCEPT ![c] = r]
  /\ UNCHANGED aborted

\* wait, after the cli's request was presented.
Wait(c) ==
  LET w == PruneExpired(World)
      r == req[c]
  IN
  /\ at[c] = "presenting"
  /\ CASE r \notin Live(w) -> Becomes([w EXCEPT !.at[c] = "refused"])
       [] r \in Live(w) /\ c \in aborted -> Becomes(Refuse([w EXCEPT !.at[c] = "refused"], {r}))
       [] w.pending[r].status = "approved" /\ c \notin aborted ->
            Becomes(DeletePending([w EXCEPT !.at[c] = "allowed"], r))
       [] w.pending[r].status = "pending" /\ c \notin aborted ->
            Becomes(AttachAbort([w EXCEPT !.pending[r].settlers = @ \cup {c},
                                          !.at[c] = "waiting"], r, c))
  /\ UNCHANGED <<req, aborted>>

\* The renderer could not present the request of a cli call.
PresentFails(c) ==
  LET w == PruneExpired(World) IN
  /\ at[c] = "presenting"
  /\ Becomes(Refuse([w EXCEPT !.at[c] = "refused"], {req[c]} \cap Live(w)))
  /\ UNCHANGED <<req, aborted>>

(* Mutant: the clock is not looked at. *)
ResolveWithoutPruning(r) ==
  LET settled == Settle(World, r, "allowed") IN
  /\ pending[r].status = "pending"
  /\ Becomes(IF Kind[pending[r].owner] # "model" /\ pending[r].settlers # {}
               THEN DeletePending(settled, r)
               ELSE [settled EXCEPT !.pending[r].status = "approved"])
  /\ UNCHANGED <<req, aborted>>

\* resolve, approved; a request is consumed at once if it is of that sort and somebody waits.
ResolveApproved(r) ==
  LET w == PruneExpired(World)
      consumed == Kind[w.pending[r].owner] # "model" /\ w.pending[r].settlers # {}
      settled == Settle(w, r, "allowed")
  IN
  /\ pending[r].status # "free"
  /\ Becomes(IF w.pending[r].status # "pending" THEN w
             ELSE IF consumed THEN DeletePending(settled, r)
             ELSE [settled EXCEPT !.pending[r].status = "approved"])
  /\ UNCHANGED <<req, aborted>>

\* resolve, denied or cancelled; an approved request may be cancelled too.
ResolveDenied(r) ==
  LET w == PruneExpired(World) IN
  /\ pending[r].status # "free"
  /\ Becomes(Refuse(w, {r} \cap Live(w)))
  /\ UNCHANGED <<req, aborted>>

CancelScope(s) ==
  LET w == IF InScope(World, s) = {} THEN World ELSE PruneExpired(World) IN
  /\ Becomes(Refuse(w, InScope(w, s)))
  /\ UNCHANGED <<req, aborted>>

\* clearDomain of one adapter, or clear for both.
ClearMatching(kinds) ==
  /\ Becomes(Refuse(World, {r \in Live(World) : Kind[pending[r].owner] \in kinds}))
  /\ UNCHANGED <<req, aborted>>

(* Mutant: only the caller that opened a request may cancel it. *)
AbortOwnOnly(c) ==
  LET own == {r \in Live(World) : c \in pending[r].signals /\ pending[r].owner = c}
      cancelled == Refuse(PruneExpired(World), own)
  IN
  /\ Kind[c] # "app" /\ c \notin aborted /\ at[c] \in {"shown", "presenting", "waiting"}
  /\ aborted' = aborted \cup {c}
  /\ Becomes(IF at[c] = "shown" THEN [cancelled EXCEPT !.at[c] = "refused"] ELSE cancelled)
  /\ UNCHANGED req

\* The signal of a caller is aborted: every request it is attached to is cancelled.
Abort(c) ==
  LET attached == {r \in Live(World) : c \in pending[r].signals}
      w == IF attached = {} THEN World ELSE PruneExpired(World)
      cancelled == Refuse(w, attached \cap Live(w))
  IN
  /\ Kind[c] # "app" /\ c \notin aborted /\ at[c] \in {"shown", "presenting", "waiting"}
  /\ aborted' = aborted \cup {c}
  /\ Becomes(IF at[c] = "shown" THEN [cancelled EXCEPT !.at[c] = "refused"] ELSE cancelled)
  /\ UNCHANGED req

\* The clock passes expiresAt.
TimePasses(r) ==
  /\ r \in Live(World) /\ ~pending[r].due
  /\ pending' = [pending EXCEPT ![r].due = TRUE]
  /\ UNCHANGED <<at, req, aborted>>

(* Mutant: the timer deletes the request and settles nobody. *)
ExpireSilently(r) ==
  /\ r \in Live(World) /\ pending[r].due
  /\ Becomes(DeletePending(World, r))
  /\ UNCHANGED <<req, aborted>>

\* The timer, if nothing pruned the request before.
Expire(r) ==
  /\ r \in Live(World) /\ pending[r].due
  /\ Becomes(Refuse(World, {r}))
  /\ UNCHANGED <<req, aborted>>

Next ==
  \/ \E c \in Callers :
       \/ Create(c) \/ CreateUnshown(c) \/ AuthorizeExecution(c)
       \/ Wait(c) \/ PresentFails(c) \/ Abort(c)
  \/ \E r \in Requests :
       ResolveApproved(r) \/ ResolveDenied(r) \/ TimePasses(r) \/ Expire(r)
  \/ \E c \in Callers : CancelScope(Scope[c])
  \/ \E kinds \in {{"model", "app"}, {"cli"}, {"model", "app", "cli"}} : ClearMatching(kinds)

Spec == Init /\ [][Next]_vars

\* Time passes, timers fire, and a cli call waits once its request was presented.
FairSpec ==
  /\ Spec
  /\ \A r \in Requests : WF_vars(TimePasses(r)) /\ WF_vars(Expire(r))
  /\ \A c \in Callers : WF_vars(Wait(c))
-----------------------------------------------------------------------------
\* Types of the map and of the callers; what left the map holds no promise, listener or
\* timer.
TypeOK ==
  /\ pending \in [Requests -> [status : {"free", "pending", "approved", "gone"},
                               owner : Callers \cup {None}, settlers : SUBSET Callers,
                               signals : SUBSET Callers, due : BOOLEAN]]
  /\ at \in [Callers -> {"out", "shown", "presenting", "waiting", "allowed", "refused"}]
  /\ req \in [Callers -> Requests \cup {None}]
  /\ aborted \subseteq Callers
  /\ \A r \in Requests : pending[r].status \in {"free", "gone"} =>
       pending[r].settlers = {} /\ pending[r].signals = {} /\ ~pending[r].due

\* A caller that waits is registered at a request that is still open, so that the next
\* resolution, abort or expiry of that request answers it. No promise hangs.
WaitersAreRegistered ==
  \A c \in Callers :
    at[c] = "waiting" <=> \E r \in Requests : /\ c \in pending[r].settlers
                                              /\ pending[r].status = "pending"
                                              /\ req[c] = r

\* A caller that was aborted is attached to nothing that could still be approved, neither
\* to its own request nor to one it shares.
AbortedIsDetached ==
  \A r \in Requests, c \in Callers :
    c \in pending[r].signals => r \in Live(World) /\ c \notin aborted

\* Requests and callers agree: who waits is registered, who was aborted is not.
Consistent == TypeOK /\ WaitersAreRegistered /\ AbortedIsDetached

\* Approvals do not outlive their time: no caller is let pass by a request that is due,
\* although the timer has not fired yet.
NoLateGrant ==
  [][\A c \in Callers :
       at[c] # "allowed" /\ at'[c] = "allowed" => ~pending[req'[c]].due]_vars

\* The requests and callers as the promise of one-shot approvals sees them.
Status == [r \in Requests |->
            CASE pending[r].status = "free" -> "none"
              [] pending[r].status = "pending" -> "asked"
              [] pending[r].status = "approved" -> "approved"
              [] OTHER -> "closed"]
Passed == [r \in Requests |-> {c \in Callers : at[c] = "allowed" /\ req[c] = r}]

\* An approval lets pass who waits for it or one caller that comes later, once; only app
\* calls that are identical may share one (docs/architecture/local-control-plane/spec.md).
Promise == INSTANCE OneShotApproval WITH
  Sharing <- {c \in Callers : Kind[c] = "app"}, status <- Status, passed <- Passed

ApprovalIsOneShot == Promise!ApprovalSpec

\* Whoever waits or presents is answered, if only by the time limit.
EveryCallIsAnswered ==
  \A c \in Callers :
    at[c] \in {"presenting", "waiting"} ~> at[c] \in {"allowed", "refused"}
=============================================================================
