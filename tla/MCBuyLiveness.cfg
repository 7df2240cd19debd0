SPECIFICATION FairSpec
CONSTANTS
  Workers = {w1}
  Interruptible = {w1}

PROPERTIES
  UnpaidOrdersEnd
  DetectedConcludes
