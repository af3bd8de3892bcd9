CONSTANTS
  NoDraft = NoDraft
  d1 = d1
  d2 = d2
  Drafts = {d1}
  MaxPresses = 3
  MaxFaults = 1
  MaxClock = 1
  Skew = 0
SPECIFICATION Spec
INVARIANTS
  DraftOK
PROPERTIES
  SentIsUntouched
CHECK_DEADLOCK FALSE
