--------------------------- MODULE BuyOrderProps ----------------------------
(***************************************************************************)
(* What must hold of BuyOrder, and what the repository says of it.         *)
(***************************************************************************)
EXTENDS BuyOrder

(* Statuses an order has only after its payment was verified.               *)
PaidStatuses == {"PAYMENT_VERIFIED", "USDT_PROCESSING", "USDT_SENT", "COMPLETED"}

(* Statuses in which the treasury keeps the order's USDT set aside.         *)
HoldingStatuses ==
  BuyStatuses \ (Terminal \cup {"CREATED", "QUOTE_LOCKED"})

(* The reservation follows the order through every path, whoever moves it:  *)
(* USDT is set aside exactly while the order can still need it, spent only  *)
(* by a completed order, given back only by a closed one, and a failed,     *)
(* expired or cancelled order keeps nothing.                                *)
ReservationFollowsOrder ==
  /\ (reservation = "HELD") <=> (status \in HoldingStatuses)
  /\ (reservation = "CONSUMED") <=> (status = "COMPLETED")
  /\ reservation = "RELEASED" => status \in {"FAILED", "EXPIRED", "CANCELLED"}

(* However an order gets past PAYMENT_VERIFIED (the normal flow, a stale    *)
(* driver after a review, RETRY), its payment was once verified and its GNF *)
(* was booked, once.                                                        *)
PaidOrdersAreBookedOnce ==
  /\ credits \in {0, 1}
  /\ status \in PaidStatuses => verified /\ credits = 1

(* USDT is never sent before a payment is reconciled: a transaction is on   *)
(* the chain only for an order whose payment was verified and booked.       *)
SentOnlyAfterVerified == chain # "NONE" => verified /\ credits = 1

(* An order that says its USDT went out has it on the chain and a           *)
(* withdrawal row to show for it.                                           *)
SentIsRecorded ==
  status \in {"USDT_SENT", "COMPLETED"} => recorded /\ chain # "NONE"

(* Statuses an order has only once its payment intent is linked.            *)
LinkedStatuses ==
  BuyStatuses \ (Terminal \cup {"CREATED", "QUOTE_LOCKED", "USDT_RESERVED"})

Booked == verified /\ credits = 1

(* What a worker knows at the place where it is, whatever the others did    *)
(* since it read it.                                                        *)
WorkerKnows(w) ==
  /\ ~At(w, "idle") => status # "NONE"
  /\ At(w, "awaitPayment") => linked
  /\ pc[w] \in {"detectVerified", "reconcile", "verify"} => verified
  /\ pc[w] \in {"retryPoll", "retryObserved", "retryReconcile"} =>
       verified \/ status \in Terminal \cup {"UNDER_REVIEW"}
  /\ At(w, "retry") => verified \/ status \in Terminal
  /\ pc[w] \in {"processing", "send"} => Booked
  /\ At(w, "recordSend") => chain # "NONE"
  /\ pc[w] \in {"markSent", "complete"} => recorded

(* The inductive invariant: the properties above, and what carries them     *)
(* across the gap between a worker's read and its next transaction.         *)
OrderInv ==
  /\ ReservationFollowsOrder
  /\ PaidOrdersAreBookedOnce
  /\ SentOnlyAfterVerified
  /\ SentIsRecorded
  /\ intent = "PAYMENT_VERIFIED" => verified
  /\ status \in LinkedStatuses => linked
  /\ recorded => chain # "NONE"

IInv ==
  /\ TypeOK
  /\ OrderInv
  /\ \A w \in Workers : WorkerKnows(w)

(* BuyOrder keeps the promise about money.                                  *)
Coin == CASE reservation = "HELD"     -> "held"
          [] reservation = "CONSUMED" -> "spent"
          [] reservation = "RELEASED" -> "returned"
          [] OTHER                    -> "free"

P == INSTANCE BuyPromise WITH
       coin <- Coin, paid <- (credits > 0), delivered <- (chain # "NONE")

KeepsPromise == P!Promise

-----------------------------------------------------------------------------
(* Liveness.  Interruptions stop at some point (they are not fair).         *)

Calm == <>[][\A w \in Workers : ~Interrupt(w)]_vars

FairSpec == Spec /\ Fairness

(* An unpaid order does not hold USDT for ever, even one whose request died *)
(* between createBuyOrder's transactions.                                   *)
UnpaidOrdersEnd ==
  Calm => (status \in {"QUOTE_LOCKED", "USDT_RESERVED", "AWAITING_PAYMENT"} ~>
             status \notin {"QUOTE_LOCKED", "USDT_RESERVED", "AWAITING_PAYMENT"})

(* Once the payment is seen, the sweep brings it to a conclusion: verified, *)
(* refused or in review.                                                    *)
DetectedConcludes ==
  Calm => (status \in {"PAYMENT_DETECTED", "PAYMENT_RECONCILING"} ~>
             status \notin {"PAYMENT_DETECTED", "PAYMENT_RECONCILING"})
=============================================================================
