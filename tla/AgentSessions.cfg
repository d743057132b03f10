SPECIFICATION Spec
CONSTANTS
  Agents = {builtin, custom}
  Protected = {builtin}
  Keys = {s1, s2, s3}
  Calls = {c1, c2}
  Nobody = Nobody
  TimeLimited = TRUE
  MaxAttempts = 2
INVARIANTS
  Consistent
  NobodyIsLeftBehind
  DeletionIsAlone
PROPERTIES
  GateKeepsPromise
SYMMETRY MCSymmetry
CHECK_DEADLOCK FALSE
