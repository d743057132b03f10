---------------------------- MODULE MCScheduler ----------------------------
(* Three runs: two of one job compete for it, the third belongs to another. *)
EXTENDS Scheduler
MCJobOf == [r \in Runs |-> IF r = "other" THEN "weekly" ELSE "daily"]
=============================================================================
