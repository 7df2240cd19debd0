SPECIFICATION Spec
CONSTANTS
  Workers = {w1, w2}
  Interruptible = {w1, w2}
SYMMETRY WorkerSymmetry
INVARIANTS
  ReservationFollowsOrder
  PaidOrdersAreBookedOnce
  SentOnlyAfterVerified
  SentIsRecorded
PROPERTY KeepsPromise
