CONSTANTS
  NoDraft = NoDraft
  d1 = d1
  d2 = d2
  Drafts = {d1}
  MaxPresses = 2
  MaxFaults = 0
  MaxClock = 0
  Skew = 0
SPECIFICATION Spec
INVARIANTS
  NeverAMix
CHECK_DEADLOCK FALSE
