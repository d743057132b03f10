SPECIFICATION FairSpec
CONSTANTS
  Runs = {"first", "second"}
  Jobs = {"daily"}
  JobOf <- MCJobOf
  QueuePolicy = {"daily"}
  TimeLimited = TRUE
  Stops = FALSE
PROPERTIES
  QueuedRunEnds
CHECK_DEADLOCK FALSE
