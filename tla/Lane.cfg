SPECIFICATION FairSpec
CONSTANTS
  Ids <- TwoIds
  Capacity = 2
  MaxWakers = 2
  Faults = TRUE
  Pauses = TRUE
  Fails = TRUE
  Crashes = TRUE
INVARIANTS
  Consistent
  Consent
  ClaimOwnership
  DeferredHasOwner
  OneGeneration
PROPERTIES
  StartsInOrder
  NothingVanishes
  DeliveryPromise
  NextIsServed
  OperationsEnd
CHECK_DEADLOCK FALSE
