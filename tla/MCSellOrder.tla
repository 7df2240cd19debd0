---------------------------- MODULE MCSellOrder -----------------------------
EXTENDS SellOrderProps, TLC

(* Workers are interchangeable in every safety run.                         *)
WorkerSymmetry == Permutations(Workers)
=============================================================================
