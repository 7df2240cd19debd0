SPECIFICATION ReconciledSpec
CONSTANTS
  Buys = {b1, b2}
  Sells = {s1}
  Usdt <- MCUsdt
  Gnf <- MCGnf
  Opening <- MCOpening
  Adjustments = {1}
  AggregateBound <- MCAggregateBound
  Takings = {1}
  OwedBound <- MCOwedBound
  Reports = {1}
SYMMETRY OrderSymmetry
INVARIANTS
  NeverNegative
  ReservedIsHeld
  LedgerBacksTreasury
  DriftIsElsewhere
CHECK_DEADLOCK FALSE
