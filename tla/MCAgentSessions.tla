-------------------------- MODULE MCAgentSessions --------------------------
(* One agent that may be deleted, and a protected one to move away from it;   *)
(* Keys are the names of sessions, old and new ones.                          *)
EXTENDS AgentSessions, TLC
MCSymmetry == Permutations(Calls) \cup Permutations(Keys)
=============================================================================
