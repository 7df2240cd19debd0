----------------------------- MODULE MCTreasury -----------------------------
EXTENDS TreasuryProps, TLC

(* A bucket opens with enough for one order of its side and a half: the     *)
(* second reservation waits for a release or a credit.                      *)
MCUsdt == [o \in Orders |-> 2]
MCGnf == [o \in Orders |-> 2]
MCOpening == [b \in Buckets |-> 3]

(* Only the bucket two orders compete for is adjusted, and downwards.       *)
MCAggregateBound == [b \in Buckets |-> IF b = "HOT" THEN {-1, 0} ELSE {0}]

(* A sale's proceeds come in and are settled.                               *)
MCOwedBound == {0, 1}

OrderSymmetry == Permutations(Buys) \cup Permutations(Sells)
=============================================================================
