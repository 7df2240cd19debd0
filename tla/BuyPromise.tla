----------------------------- MODULE BuyPromise -----------------------------
(***************************************************************************)
(* What a BUY_USDT order promises about money, without its statuses, its   *)
(* workers or its providers: the treasury's USDT is set aside once, and    *)
(* goes back or is spent once; the customer's GNF is booked once, while    *)
(* the USDT is set aside; USDT leaves only for booked GNF; and the amount  *)
(* set aside is spent only for USDT that left.                             *)
(***************************************************************************)
VARIABLES
  coin,       \* the USDT of the order in the treasury
  paid,       \* the GNF is booked to the treasury
  delivered   \* the USDT is on the chain

promise == <<coin, paid, delivered>>

Open == coin = "free" /\ paid = FALSE /\ delivered = FALSE

Hold    == coin = "free" /\ coin' = "held" /\ UNCHANGED <<paid, delivered>>
Pay     == coin = "held" /\ ~paid /\ paid' = TRUE /\ UNCHANGED <<coin, delivered>>
Deliver == paid /\ ~delivered /\ delivered' = TRUE /\ UNCHANGED <<coin, paid>>
Return  == coin = "held" /\ coin' = "returned" /\ UNCHANGED <<paid, delivered>>
Spend   ==
  /\ coin = "held" /\ paid /\ delivered
  /\ coin' = "spent" /\ UNCHANGED <<paid, delivered>>

Promised == Hold \/ Pay \/ Deliver \/ Return \/ Spend

Promise == Open /\ [][Promised]_promise
=============================================================================
