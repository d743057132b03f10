---------------------------- MODULE MessageDelivery ----------------------------
(***************************************************************************)
(* What the waiting lane of a session promises for the messages it         *)
(* accepts, without saying how: one message runs at a time, a steer        *)
(* message goes before a queued one (the answer to a question before any), *)
(* and a message that has run is over or withheld.  A withheld message     *)
(* runs again only after the user asked for it; a crash withholds or ends  *)
(* everything that was not over.                                           *)
(***************************************************************************)
CONSTANT Ids

VARIABLES
  phase,     \* new, waiting, withheld, running or over
  kind,      \* queue or steer
  question   \* whether the session awaits an answer: an input, which any step may change

vars == <<phase, kind>>

Init ==
  /\ phase = [i \in Ids |-> "new"]
  /\ kind = [i \in Ids |-> "queue"]

Nobody(p) == \A i \in Ids : phase[i] # p
Becomes(i, p) == phase' = [phase EXCEPT ![i] = p]

Accept(i, k, p) ==
  /\ phase[i] = "new"
  /\ Becomes(i, p)
  /\ kind' = [kind EXCEPT ![i] = k]

(* A message starts at once or from the lane, steer messages first.  Only  *)
(* the answer to a question may go before them.                            *)
Start(i) ==
  /\ phase[i] \in {"new", "waiting"}
  /\ Nobody("running")
  /\ \/ phase[i] = "new" /\ question
     \/ kind[i] = "queue" =>
          \A j \in Ids : phase[j] = "waiting" => kind[j] = "queue"
  /\ Becomes(i, "running")
  /\ UNCHANGED kind

Finish(i) ==
  /\ phase[i] = "running"
  /\ Becomes(i, "over") \/ Becomes(i, "withheld")
  /\ UNCHANGED kind

Withhold(i) ==
  /\ phase[i] = "waiting"
  /\ Becomes(i, "withheld")
  /\ UNCHANGED kind

(* The user's decision: one message, or all that a restart withheld. *)
Release(I) ==
  /\ \A i \in I : phase[i] = "withheld"
  /\ phase' = [i \in Ids |-> IF i \in I THEN "waiting" ELSE phase[i]]
  /\ UNCHANGED kind

Drop(i) ==
  /\ phase[i] \in {"waiting", "withheld"}
  /\ Becomes(i, "over")
  /\ UNCHANGED kind

Promote(i) ==
  /\ phase[i] = "waiting" /\ kind[i] = "queue"
  /\ kind' = [kind EXCEPT ![i] = "steer"]
  /\ UNCHANGED phase

Crash ==
  /\ \A i \in Ids :
       \/ phase[i] \in {"new", "over"} /\ phase'[i] = phase[i]
       \/ phase[i] \in {"waiting", "running"} /\ phase'[i] \in {"withheld", "over"}
       \/ phase[i] = "withheld" /\ phase'[i] \in {"withheld", "over"}
  /\ phase' \in [Ids -> {"new", "withheld", "over"}]
  /\ UNCHANGED kind

Next ==
  \/ \E i \in Ids :
       \/ \E k \in {"queue", "steer"} : Accept(i, k, "waiting")
       \/ Accept(i, "queue", "withheld")
       \/ Start(i) \/ Finish(i) \/ Withhold(i) \/ Drop(i) \/ Promote(i)
  \/ \E I \in SUBSET Ids : Release(I)
  \/ Crash

Spec == Init /\ [][Next]_vars

=============================================================================
