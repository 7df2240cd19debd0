SPECIFICATION DeskSpec
CONSTANTS
  vip = vip
  UsdtUnits = 2
  Bps = 10
  Admins = {a1, a2}
  MaxVersion = 3
  References = {9}
  Buffers <- MCBuffers
  RuleRows <- MCRules
  DefaultSpread <- MCDefaultSpread
  Segments = {vip}
  Least <- MCLeast
  Most <- MCMost
  Requests <- MCRequests
  Deals = {d1, d2}
  Purchases <- MCPurchases
  Quantity <- MCQuantity
  PaidGnf <- MCPaidGnf
  Operators = {o1, o2}
  Settable = {"CONFIRMED", "REJECTED"}
  Orders = {d1, d2}
SYMMETRY DeskSymmetry
INVARIANTS
  NobodyGainsByTurning
  OneActiveConfig
  PurchaseReceivedOnce
  LotsAccountForSales
CHECK_DEADLOCK FALSE
