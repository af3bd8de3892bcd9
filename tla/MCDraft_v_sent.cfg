CONSTANTS
  NoDraft = NoDraft
  d1 = d1
  d2 = d2
  Drafts = {d1}
  MaxPresses = 3
  MaxFaults = 2
  MaxClock = 0
  Skew = 0
SPECIFICATION Spec
PROPERTIES
  SentIsClosed
CHECK_DEADLOCK FALSE
