------------------------------ MODULE MCModems ------------------------------
EXTENDS ModemsProps, TLC

ModemsSymmetry == Permutations(ModemIds) \cup Permutations(Workers)
=============================================================================
