----------------------- MODULE MCInvocationAdmission -----------------------
(* Two parent sessions with up to two delegated turns each; the first turn *)
(* of a parent has the smaller limit.  One turn is suspended, the others   *)
(* are released; one is aborted during a resume, one for good.             *)
EXTENDS InvocationAdmission
TwoParents == {"p", "q"}
FourTurns == {"p1", "p2", "q1", "q2"}
ParentOf == [l \in Leases |-> IF l \in {"p1", "p2"} THEN "p" ELSE "q"]
LimitOf == [l \in Leases |-> IF l \in {"p1", "q1"} THEN 1 ELSE 2]
MCCalls == [suspend |-> {"p1"}, release |-> {"p2", "q1", "q2"}, abort |-> {"p1"},
            stop |-> {"q2"}, close |-> TRUE]
=============================================================================
