-------------------------- MODULE OneShotApproval --------------------------
(***************************************************************************)
(* What the approval broker promises: a request is asked once; the user's  *)
(* approval lets pass the callers that wait for it, or one caller that     *)
(* comes for it later, and is then spent; a request that was closed lets   *)
(* nobody pass.  Only callers of an app may share an approval.             *)
(***************************************************************************)
CONSTANTS Requests, Callers, Sharing

VARIABLES
  status,     \* "none", "asked", "approved" or "closed"
  passed      \* the callers a request let pass

approvalVars == <<status, passed>>

ApprovalInit ==
  /\ status = [r \in Requests |-> "none"]
  /\ passed = [r \in Requests |-> {}]

\* Requests may be refused at any time and several at once: by the user, an abort, the
\* clock, the end of their conversation, or because they cannot be shown. One request
\* may be asked at the same time.
Refuse(R, new) ==
  /\ \A r \in new : status[r] = "none"
  /\ status' = [r \in Requests |-> IF r \in R THEN "closed"
                                   ELSE IF r \in new THEN "asked" ELSE status[r]]
  /\ UNCHANGED passed

\* The user approves; others may have expired unnoticed.
Approve(R, r) ==
  \E P \in SUBSET Callers :
    /\ status[r] = "asked"
    /\ P \subseteq Sharing \/ \A c, d \in P : c = d
    /\ status' = [q \in Requests |-> IF q = r THEN IF P = {} THEN "approved" ELSE "closed"
                                     ELSE IF q \in R THEN "closed" ELSE status[q]]
    /\ passed' = [passed EXCEPT ![r] = P]

Spend(R, r) ==
  \E c \in Callers :
    /\ status[r] = "approved"
    /\ status' = [q \in Requests |-> IF q \in R \cup {r} THEN "closed" ELSE status[q]]
    /\ passed' = [passed EXCEPT ![r] = {c}]

ApprovalNext ==
  \E R \in SUBSET {r \in Requests : status[r] # "closed"} :
    \/ \E new \in {{}} \cup {{r} : r \in Requests} : Refuse(R, new)
    \/ \E r \in Requests \ R : Approve(R, r) \/ Spend(R, r)

ApprovalSpec == ApprovalInit /\ [][ApprovalNext]_approvalVars
=============================================================================
