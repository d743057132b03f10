SPECIFICATION Spec
CONSTANTS
  Ids <- TwoIds
  Capacity = 2
  MaxWakers = 2
  Faults = FALSE
  Pauses = FALSE
  Fails = TRUE
  Crashes = FALSE
INVARIANT SteerKeepsItsMessage
CHECK_DEADLOCK FALSE
