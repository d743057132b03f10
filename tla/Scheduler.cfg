SPECIFICATION SchedulerSpec
CONSTANTS
  Runs = {"first", "second", "other"}
  Jobs = {"daily", "weekly"}
  JobOf <- MCJobOf
  QueuePolicy = {"daily"}
  TimeLimited = TRUE
  Stops = TRUE
  Period = 2
  Grace = 1
  Policy = "run_once"
  MaxCatchUp = 2
  Calls = {"c1", "c2"}
  NoTime = NoTime
  MaxTime = 4
  Hosts = {"h1", "h2", "h3"}
  NoHost = "none"
  MaxRestartAttempts = 2
INVARIANTS
  Consistent
  OneActiveRun
  RunIsWatched
  DeliveredOnce
PROPERTIES
  TerminalIsFinal
  RunsEnd
  IdleProcessEnds
CHECK_DEADLOCK FALSE
