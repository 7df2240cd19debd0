------------------------------- MODULE MCDesk -------------------------------
EXTENDS DeskProps, TLC

CONSTANTS vip

DeskSymmetry == Permutations(Admins) \cup Permutations(Deals) \cup Permutations(Operators)

(* A segment's tier below the reference rate, whose fee is more than the    *)
(* amount, and a PROMO that lifts the default spread of sales but has a     *)
(* fee; an admin turns the one into the other.                              *)
MCRules ==
  {[id |-> 1, side |-> "BUY_USDT", minUsdt |-> 3, maxUsdt |-> 6, segment |-> vip,
    rank |-> 1,
    params |-> [spreadAbs |-> -1, spreadPct |-> 1, feeFixed |-> 1, feePct |-> 12]],
   [id |-> 1, side |-> "SELL_USDT", minUsdt |-> 0, maxUsdt |-> None, segment |-> None,
    rank |-> 1,
    params |-> [spreadAbs |-> 0, spreadPct |-> 0, feeFixed |-> 1, feePct |-> 1]]}

(* The admins lower every spread by a negative risk buffer.                *)
MCBuffers == {-1}
MCDefaultSpread == [s \in Sides |-> IF s = "BUY_USDT" THEN 2 ELSE 1]
MCLeast == [g \in Given |-> IF g = "GNF" THEN 5 ELSE 1]
MCMost == [g \in Given |-> IF g = "GNF" THEN 40 ELSE 8]
MCRequests ==
  {[side |-> "BUY_USDT", given |-> "GNF", amount |-> 33, segment |-> vip],
   [side |-> "BUY_USDT", given |-> "USDT", amount |-> 5, segment |-> vip],
   [side |-> "SELL_USDT", given |-> "USDT", amount |-> 5, segment |-> None],
   [side |-> "SELL_USDT", given |-> "GNF", amount |-> 21, segment |-> None]}
MCPurchases == {1}
MCQuantity == [p \in MCPurchases |-> 4]
MCPaidGnf == [p \in MCPurchases |-> 22]
=============================================================================
