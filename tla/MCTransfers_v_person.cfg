CONSTANTS
  Transfers = {t1, t2}
  t1 = t1
  t2 = t2
  MaxPresses = 1
  MaxChoices = 1
  MaxFaults = 0
SPECIFICATION FairSpec
PROPERTIES
  PersonSettles
