CONSTANTS
  A = A
  B = B
  a1 = a1
  a2 = a2
  b1 = b1
  toss = toss
  upbit = upbit
  Ladders = {A}
  Orders = {a1, a2}
  Venues = {toss, upbit}
  LookupVenues = {upbit}
  LadderOf <- Rungs
  VenueOf <- OnToss
  Rung <- Places
  Terms <- Distinct
  Quantity = 2
  NoOrder = NoOrder
  CarefulOperator = TRUE
  MaxFaults = 2
SPECIFICATION Spec
INVARIANTS
  NoOrphan
  RowFollowsExchange
  LadderStateHolds
  NearestFirst
  NotifiedIsTold
  ClosedAsFilled
PROPERTIES
  NothingTakenBack
  CancelIsWaitedFor
