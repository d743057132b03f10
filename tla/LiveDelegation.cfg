SPECIFICATION FairSpec
CONSTANTS
  MaxTurns = 2
  Fails = TRUE
  Crashes = TRUE
  Overtakes = FALSE
INVARIANTS
  Consistent
  HandedOverOnce
  WaitingHoldsNoPermit
  CompletedByItsAnswer
PROPERTIES
  TurnsEnd
CHECK_DEADLOCK FALSE
