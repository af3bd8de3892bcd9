CONSTANTS
  A = A
  B = B
  a1 = a1
  a2 = a2
  b1 = b1
  toss = toss
  upbit = upbit
  Ladders = {A, B}
  Orders = {a2, b1}
  Venues = {toss, upbit}
  LookupVenues = {upbit}
  LadderOf <- Rungs
  VenueOf <- OnToss
  Rung <- Places
  Terms <- Alike
  Quantity = 1
  NoOrder = NoOrder
  CarefulOperator = FALSE
  MaxFaults = 1
SPECIFICATION Spec
INVARIANTS
  OwnBrokerId
