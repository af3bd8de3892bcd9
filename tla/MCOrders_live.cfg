CONSTANTS
  A = A
  B = B
  a1 = a1
  a2 = a2
  b1 = b1
  toss = toss
  upbit = upbit
  Ladders = {A, B}
  Orders = {a1, b1}
  Venues = {toss, upbit}
  LookupVenues = {upbit}
  LadderOf <- Rungs
  VenueOf <- Apart
  Rung <- Places
  Terms <- Distinct
  Quantity = 1
  NoOrder = NoOrder
  CarefulOperator = TRUE
  MaxFaults = 1
SPECIFICATION FairSpec
PROPERTIES
  LaddersClose
  DoubtIsResolved
  EndIsRecorded
