SPECIFICATION Spec
CONSTANTS
  q1 = q1
  q2 = q2
  Quotes = {q1, q2}
  Amount <- MCAmount
  LevelMax = {3}
  GlobalMax = {9}
  Keys = {k1, k2}
  Requests = {r1, r2, r3}
  Viewers = {v1}
  MaxRestarts = 1
SYMMETRY CheckoutSymmetry
INVARIANTS
  KeyAnswersOneRequest
  ProgressHasRequest
  ConsumedHasOrder
  DayWithinLimit
CHECK_DEADLOCK FALSE
