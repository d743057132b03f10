SPECIFICATION FairSpec
CONSTANTS
  Ids <- TwoIds
  Capacity = 2
  MaxWakers = 2
  Faults = FALSE
  Pauses = FALSE
  Fails = TRUE
  Crashes = FALSE
PROPERTY SteerDrains
CHECK_DEADLOCK FALSE
