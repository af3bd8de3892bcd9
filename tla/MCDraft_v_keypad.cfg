CONSTANTS
  NoDraft = NoDraft
  d1 = d1
  d2 = d2
  Drafts = {d1}
  MaxPresses = 1
  MaxFaults = 0
  MaxClock = 0
  Skew = 0
SPECIFICATION Spec
INVARIANTS
  KeypadIsAlive
CHECK_DEADLOCK FALSE
