CONSTANTS
  Foreign = {2}
  Capacity = 1
  MaxUpdates = 3
  MaxEvents = 0
  Batch = 1
  MaxFaults = 0
SPECIFICATION Spec
INVARIANTS
  ReadWasActedOn
CHECK_DEADLOCK FALSE
