CONSTANTS
  Tiers <- TwoTiers
  Limit = 4
  Fine = 2
  Whole = 100
  MinTotals = {40}
  Sides = {"BUY"}
  Bases = {20}
  Offsets = {0, 12, 35}
  Counts = {2, 3}
  Totals = {80, 120}
  Fees = {0}
SPECIFICATION Spec
INVARIANTS
  CarriesEveryCount
CHECK_DEADLOCK FALSE
