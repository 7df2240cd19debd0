SPECIFICATION FairSpec
CONSTANTS
  Workers = {w1}
  Interruptible = {w1}
  MaxAttempts = 2
  TransferCap = 2
PROPERTIES
  UndepositedOrdersEnd
  DepositsAndPayoutsProgress
