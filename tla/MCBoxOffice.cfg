SPECIFICATION Spec
CONSTANTS
  Orders = {o1, o2}
  Requests = {r1, r2}
  Operators = {a1, a2}
  Settlements = {s1}
  Quantities = {1, 2}
  Share = 1
  Capacity = 2
SYMMETRY BoxOfficeSymmetry
INVARIANTS
  SeatsFollowOrders
  NeverOversold
  IssuedOnce
  ProceedsAreAccrued
  DebitedIsPaid
  PaidInFull
CHECK_DEADLOCK FALSE
