SPECIFICATION VenueSpec
CONSTANTS
  Users = {u1}
  Changes <- MCChanges
  MaxDecisions = 3
  EventRows = {e1}
  e1 = e1
  Here = e1
  Forms = {t1}
  MaxEdits = 1
  MaxTypes = 1
  Tickets = {k1}
  Elsewhere = {x1}
  Forged = {}
  Scans = {s1, s2}
SYMMETRY VenueSymmetry
INVARIANTS
  PublishedAsReviewed
  AdmittedOnce
PROPERTY DecisionStands
CHECK_DEADLOCK FALSE
