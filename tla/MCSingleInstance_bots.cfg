CONSTANTS
  p1 = p1
  p2 = p2
  p3 = p3
  Processes = {p1, p2, p3}
  MaxFaults = 2
SPECIFICATION FairSpec
INVARIANTS
  LockOK
PROPERTIES
  LoserStops
