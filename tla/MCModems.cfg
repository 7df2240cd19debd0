SPECIFICATION Spec
CONSTANTS
  ModemIds = {m1}
  Intents = {i1}
  Payouts = {p1}
  Amount = 1
  Floats = {1}
  DailyLimit = 2
  Workers = {w1, w2}
  MaxStarts = 2
  MaxEvents = 2
SYMMETRY ModemsSymmetry
INVARIANTS
  CounterIsBacked
  FailingModemRests
CHECK_DEADLOCK FALSE
