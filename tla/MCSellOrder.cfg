SPECIFICATION Spec
CONSTANTS
  Workers = {w1, w2}
  Interruptible = {w1, w2}
  MaxAttempts = 2
  TransferCap = 2
SYMMETRY WorkerSymmetry
INVARIANTS
  PaidOnlyAfterConfirmed
  GnfFollowsOrder
  DepositCreditedOnce
  CompletedIsPaid
PROPERTY KeepsPromise
