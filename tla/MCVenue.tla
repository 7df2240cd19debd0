------------------------------ MODULE MCVenue ------------------------------
EXTENDS VenueProps, TLC

CONSTANT e1

VenueSymmetry == Permutations(Scans)

MCChanges == {[status |-> "ACTIVE"], [status |-> "CLOSED"], [role |-> "OPERATIONS"]}
=============================================================================
