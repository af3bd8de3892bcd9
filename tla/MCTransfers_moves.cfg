CONSTANTS
  Transfers = {t1, t2}
  t1 = t1
  t2 = t2
  MaxPresses = 2
  MaxChoices = 2
  MaxFaults = 2
SPECIFICATION FairSpec
INVARIANTS
  TransfersOK
  RecordIsTrue
  SentAsChosen
PROPERTIES
  MovesOneAtATime
  DoubtEnds
