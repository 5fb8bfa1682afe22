CONSTANTS
  PoolSize = 3
  Keys = {1}
  MaxItems = 2
  MaxHeld = 1
  MaxRefs = 2
SPECIFICATION Spec
INVARIANTS CountsExact NoDangling FreeListExact
PROPERTY CallsEnd
CHECK_DEADLOCK FALSE
