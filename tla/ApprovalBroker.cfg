SPECIFICATION FairSpec
CONSTANTS
  m1 = m1
  m2 = m2
  a1 = a1
  a2 = a2
  c1 = c1
  None = None
  Callers = {m1, m2, a1, a2, c1}
  Kind <- MCKind
  Binding <- MCBinding
  Scope <- MCScope
  Requests = {r1, r2}
  MaxPending = 2
INVARIANTS
  Consistent
PROPERTIES
  ApprovalIsOneShot
  NoLateGrant
  EveryCallIsAnswered
CHECK_DEADLOCK FALSE
