SPECIFICATION FairSpec
CONSTANTS
  Agents = {custom}
  Protected = {}
  Keys = {s1, s2}
  Calls = {c1, c2, c3}
  Nobody = Nobody
  TimeLimited = TRUE
  MaxAttempts = 1
PROPERTIES
  CallsEnd
CHECK_DEADLOCK FALSE
