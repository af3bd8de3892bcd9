CONSTANTS
  NoDraft = NoDraft
  d1 = d1
  d2 = d2
  Drafts = {d1}
  MaxPresses = 1
  MaxFaults = 1
  MaxClock = 1
  Skew = 0
SPECIFICATION Spec
INVARIANTS
  NeverSentFromBefore
CHECK_DEADLOCK FALSE
