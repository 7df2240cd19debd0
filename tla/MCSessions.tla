----------------------------- MODULE MCSessions -----------------------------
EXTENDS SessionsProps, TLC

TabSymmetry == Permutations(Tabs)
=============================================================================
