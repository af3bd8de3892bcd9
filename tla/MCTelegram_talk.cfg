CONSTANTS
  Foreign = {2}
  Capacity = 1
  MaxUpdates = 3
  MaxEvents = 3
  Batch = 2
  MaxFaults = 2
SPECIFICATION FairSpec
INVARIANTS
  TelegramOK
  NoticesInOrder
PROPERTIES
  InOrderOnce
  RepeatsAreUnstored
  AnsweredInTheEnd
CHECK_DEADLOCK FALSE
