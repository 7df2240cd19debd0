---------------------------- MODULE SellPromise -----------------------------
(***************************************************************************)
(* What a SELL_USDT order promises about money, without its statuses, its  *)
(* workers or its providers: the customer's USDT is booked once and before *)
(* anything else; only then is the treasury's GNF set aside, once, to go   *)
(* back or be spent once; GNF is sent to the customer only after it was    *)
(* set aside; and it is spent only for a payout that is out.               *)
(***************************************************************************)
VARIABLES
  received,   \* the customer's USDT is booked to the treasury
  coin,       \* the GNF of the order in the treasury
  sent        \* the rail has a payout of the order that it did not refuse

promise == <<received, coin, sent>>

Open == received = FALSE /\ coin = "free" /\ sent = FALSE

Receive == ~received /\ received' = TRUE /\ UNCHANGED <<coin, sent>>
Hold    == received /\ coin = "free" /\ coin' = "held" /\ UNCHANGED <<received, sent>>
Send    == coin # "free" /\ ~sent /\ sent' = TRUE /\ UNCHANGED <<received, coin>>
Refuse  == sent /\ sent' = FALSE /\ UNCHANGED <<received, coin>>
Return  == coin = "held" /\ coin' = "returned" /\ UNCHANGED <<received, sent>>
Spend   == coin = "held" /\ sent /\ coin' = "spent" /\ UNCHANGED <<received, sent>>

Promised == Receive \/ Hold \/ Send \/ Refuse \/ Return \/ Spend

Promise == Open /\ [][Promised]_promise
=============================================================================
