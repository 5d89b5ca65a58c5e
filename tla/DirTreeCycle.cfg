SPECIFICATION Spec
CONSTANTS
  None = None
  Spaces = {"red", "blue"}
  Contents = {"A", "B"}
  MaxRows = 14
  StorageName <- MCStorageName
  Slots = {"r1", "r2"}
  Janitor = "janitor"
  Retention = 1
  Size <- MCSize
  MaxInt = 7
  MaxDepth = 3
  Setups <- MCCycleSetups
INVARIANTS
  NoCycle
CHECK_DEADLOCK FALSE
