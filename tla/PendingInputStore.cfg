SPECIFICATION StoreSpec
CONSTANTS
  Ids <- FourIds
  Capacity = 4
INVARIANTS
  StoreConsistent
PROPERTIES
  RowsRefined
CHECK_DEADLOCK FALSE
