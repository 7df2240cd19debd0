SPECIFICATION Spec
CONSTANTS
  Workers = {w1}
  Interruptible = {}
  MaxAttempts = 2
  TransferCap = 2
INVARIANT PayoutRunsOnce
