---------------------------- MODULE MCBoxOffice -----------------------------
EXTENDS BoxOfficeProps, TLC

(* Two seats and two orders: either both are sold one, or one is sold both  *)
(* and the other refused.                                                   *)
BoxOfficeSymmetry ==
  Permutations(Requests) \cup Permutations(Operators) \cup Permutations(Settlements)
    \cup Permutations(Orders)
=============================================================================
