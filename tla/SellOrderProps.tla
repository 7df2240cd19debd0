--------------------------- MODULE SellOrderProps ---------------------------
(***************************************************************************)
(* What must hold of SellOrder, and what the repository says of it.        *)
(***************************************************************************)
EXTENDS SellOrder

(* Statuses an order has only after its deposit was confirmed.              *)
ConfirmedStatuses ==
  {"CRYPTO_CONFIRMED", "GNF_RESERVED", "PAYOUT_PENDING", "PAYOUT_PROCESSING",
   "COMPLETED"}

PayoutStatuses == {"GNF_RESERVED", "PAYOUT_PENDING", "PAYOUT_PROCESSING"}

(* README.md:49: GNF is never paid before the crypto reaches the required   *)
(* confirmations, whoever starts the payout: the flow, a RETRY, the payouts *)
(* page or a driver that overtook a review.                                 *)
PaidOnlyAfterConfirmed ==
  (transfers > 0 \/ payout # "NONE") => deposit = "CONFIRMED" /\ credited = 1

(* The GNF reservation follows the order through every path: set aside      *)
(* while a payout is due, spent only by a completed order, and never kept   *)
(* by a closed one.                                                         *)
GnfFollowsOrder ==
  /\ status \in PayoutStatuses => reservation = "HELD"
  /\ (reservation = "CONSUMED") <=> (status = "COMPLETED")
  /\ reservation = "RELEASED" => status \in {"FAILED", "CANCELLED"}
  /\ reservation = "HELD" => status \in PayoutStatuses \cup {"UNDER_REVIEW"}

(* The deposit is credited once, for an order that confirmed it: two        *)
(* drivers, the deposit watcher and the sweep, see the same confirmation.   *)
DepositCreditedOnce ==
  /\ credited = IF "crypto-confirmed" \in events THEN 1 ELSE 0
  /\ status \in ConfirmedStatuses => credited = 1

(* A completed order has a payout the rail settled.                         *)
CompletedIsPaid ==
  status = "COMPLETED" => payout = "PAID" /\ transfers > 0

(* The event row of crypto-confirmed: the deposit is confirmed and booked.  *)
Confirmed == "crypto-confirmed" \in events

(* The places inside the lock payout:<id>.                                  *)
LockPlaces ==
  {"initiate", "accepted", "confirmPayout",
   "adminInitiate", "adminAccepted", "adminConfirm"}

(* The places a worker reaches only with an order that confirmed its        *)
(* deposit, and those from which it moves an order whose GNF is set aside.  *)
ConfirmedPlaces ==
  {"reserve", "retryReserve", "retryPayout", "createPayout", "linkPayout",
   "payoutPending"}

ReservedPlaces == {"createPayout", "linkPayout", "payoutPending", "retryPayout"}

(* What a worker knows at the place where it is, whatever the others did    *)
(* since it read it.                                                        *)
WorkerKnows(w) ==
  /\ ~At(w, "idle") => status # "NONE"
  /\ pc[w] \in {"detectFull", "confirmingFull", "credit"} => deposit = "CONFIRMED"
  /\ pc[w] \in ConfirmedPlaces => Confirmed
  /\ pc[w] \in ReservedPlaces => reservation # "NONE"
  /\ pc[w] \in {"initiate", "accepted", "adminInitiate", "adminAccepted"} =>
       payout = "PENDING"
  /\ pc[w] \in {"confirmPayout", "adminConfirm"} => payout = "PROCESSING"
  /\ At(w, "complete") => payout = "PAID"

(* The order, the deposit and the treasury.                                 *)
OrderInv ==
  /\ GnfFollowsOrder
  /\ DepositCreditedOnce
  /\ status = "NONE" => events = {}
  /\ Confirmed => deposit = "CONFIRMED"
  /\ status = "COMPLETED" => payout = "PAID"

(* The payout: it exists only for a confirmed order with its GNF set aside, *)
(* and it is PAID only for the answer the rail gave last.                   *)
PayoutInv ==
  /\ payout # "NONE" \/ linked => Confirmed /\ reservation # "NONE"
  /\ transfers > 0 => payout # "NONE"
  /\ ref \in {"PENDING", "SETTLED"} => transfers > 0
  /\ payout = "PAID" => ref = "SETTLED"

OneHolder ==
  \A v, w \in Workers : pc[v] \in LockPlaces /\ pc[w] \in LockPlaces => v = w

(* The inductive invariant: the properties above, and what carries them     *)
(* across the gap between a worker's read and its next transaction.         *)
IInv ==
  /\ TypeOK
  /\ OrderInv
  /\ PayoutInv
  /\ \A w \in Workers : WorkerKnows(w)
  /\ OneHolder

(* SellOrder keeps the promise about money.                                 *)
Coin == CASE reservation = "HELD"     -> "held"
          [] reservation = "CONSUMED" -> "spent"
          [] reservation = "RELEASED" -> "returned"
          [] OTHER                    -> "free"

P == INSTANCE SellPromise WITH
       received <- (credited > 0), coin <- Coin, sent <- (transfers > 0)

KeepsPromise == P!Promise

-----------------------------------------------------------------------------
(* Liveness.  Interruptions stop at some point (they are not fair).         *)

Calm == <>[][\A w \in Workers : ~Interrupt(w)]_vars

FairSpec == Spec /\ Fairness

(* An order whose customer never deposits is closed, even one whose request *)
(* died between createSellOrder's transactions.                             *)
UndepositedOrdersEnd ==
  Calm => (status \in {"QUOTE_LOCKED", "AWAITING_CRYPTO"} ~>
             status \notin {"QUOTE_LOCKED", "AWAITING_CRYPTO"})

(* A deposit that has its confirmations is credited, refused or reviewed,   *)
(* and a first payout that is due is attempted, after any interruption.     *)
Unfinished ==
  \/ status \in {"CRYPTO_DETECTED", "CONFIRMING"} /\ deposit = "CONFIRMED"
  \/ status = "PAYOUT_PENDING" /\ "payout-processing" \notin events

DepositsAndPayoutsProgress == Calm => (Unfinished ~> ~Unfinished)

-----------------------------------------------------------------------------
(* What the repository says and the code does not do.                       *)

(* payouts.service.ts:22: "never runs the same money movement twice on      *)
(* retry".                                                                  *)
PayoutRunsOnce == transfers <= 1
=============================================================================
