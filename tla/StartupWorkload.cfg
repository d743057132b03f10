SPECIFICATION FairSpec
CONSTANTS
  Tasks <- MCTasks
  Targets = {"main", "settings"}
  None = "none"
  Target <- MCTarget
  Phase <- MCPhase
  Resource <- MCResource
  Key <- MCKey
  Nested <- MCNested
  MaxRuns = 2
INVARIANTS
  Consistent
  NoIdleLane
PROPERTIES
  CancelledStaysCancelled
  EveryTaskSettles
CHECK_DEADLOCK FALSE
