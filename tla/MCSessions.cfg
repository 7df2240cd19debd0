SPECIFICATION Spec
CONSTANTS
  Tabs = {t1, t2}
  Codes = {1}
  MaxSessions = 1
  MaxTokens = 3
  MaxAttempts = 1
  MaxLosses = 2
SYMMETRY TabSymmetry
INVARIANTS
  StoreIsUsable
  OneLiveToken
  CodeOpensOnce
CHECK_DEADLOCK FALSE
