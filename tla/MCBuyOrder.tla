----------------------------- MODULE MCBuyOrder -----------------------------
EXTENDS BuyOrderProps, TLC

(* Workers are interchangeable in every safety run.                         *)
WorkerSymmetry == Permutations(Workers)
=============================================================================
