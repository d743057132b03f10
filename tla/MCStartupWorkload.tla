------------------------- MODULE MCStartupWorkload -------------------------
(* Tasks of a start of the main window: three background tasks of the disk lane (one *)
(* of them, idle, schedules warmup and awaits it), a second call for the first, one   *)
(* interactive task of that lane, and a task of the settings window in the other.     *)
EXTENDS StartupWorkload
MCTasks == {"mcp", "mcpAgain", "idle", "warmup", "bootstrap", "summary"}
MCTarget == [t \in Tasks |-> IF t = "summary" THEN "settings" ELSE "main"]
MCPhase == [t \in Tasks |-> CASE t = "bootstrap" -> "interactive" [] t = "summary" -> "deferred"
                              [] OTHER -> "background"]
MCResource == [t \in Tasks |-> IF t = "summary" THEN "cpu" ELSE "io"]
MCKey == [t \in Tasks |-> IF t = "mcpAgain" THEN "mcp" ELSE t]
MCNested == [t \in Tasks |-> IF t = "idle" THEN "warmup" ELSE "none"]
=============================================================================
