CONSTANTS
  Tiers <- TwoTiers
  Limit = 4
  Fine = 2
  Whole = 100
  MinTotals = {0, 30}
  Sides = {"BUY", "SELL"}
  Bases = {17, 24, 41}
  Offsets = {0, 12, 35}
  Counts = {0, 1, 2, 3, 4}
  Totals = {0, 7, 60, 123, 250}
  Fees = {0, 7}
SPECIFICATION Spec
INVARIANTS
  PlanOK
  FitsBudget
  CarriesMaxRungs
PROPERTIES
  HandsOutAll
CHECK_DEADLOCK FALSE
