SPECIFICATION FairSpec
CONSTANTS
  Leases <- FourTurns
  Owners <- TwoParents
  OwnerOf <- ParentOf
  Limit <- LimitOf
  Capacity = 2
  MaxPending = 2
  Calls <- MCCalls
INVARIANTS
  Consistent
  NoIdlePermit
PROPERTIES
  ResumeEnds
CHECK_DEADLOCK FALSE
