------------------------------ MODULE BuyOrder ------------------------------
(***************************************************************************)
(* One BUY_USDT order: CryptoService.createBuyOrder, driveBuy, completeBuy,*)
(* failBuy, expireBuy, the admin operations and sweepActiveOrders, with    *)
(* the payment intent, the USDT reservation and the on-chain withdrawal it *)
(* drives (apps/api/src/modules/crypto/crypto.service.ts).                 *)
(*                                                                         *)
(* A worker is any asynchronous execution that can be inside one of these  *)
(* methods: an HTTP handler, the crypto queue's worker, the maintenance    *)
(* worker.  Nothing serialises two workers on the same order except the    *)
(* row lock inside apply() and the Redis lock "intent:<id>", so a step is  *)
(* one transaction or one unlocked read (with the reads that directly      *)
(* follow it, where nothing can tell them apart) and other workers run     *)
(* between any two steps.  Interrupt is an exception or a process restart  *)
(* at any await.                                                           *)
(***************************************************************************)
EXTENDS Naturals, CryptoOrderState

CONSTANTS
  Workers,          \* concurrent executions
  Interruptible     \* the workers an exception or a restart may stop half way

ASSUME WorkersAssumption == Interruptible \subseteq Workers

VARIABLES
  status,           \* CryptoOrder.status
  events,           \* CryptoOrderEvent rows
  intent,           \* PaymentIntent.status, "NONE" before createIntent
  linked,           \* CryptoOrder.paymentIntentId is set
  rail,             \* what the Orange Money rail would report
  verified,         \* history: the intent has once been PAYMENT_VERIFIED
  reservation,      \* the LiquidityReservation of the order
  credits,          \* "buy payment" movements on the GNF PDV_01 bucket
  recorded,         \* the CryptoWithdrawal row keyed <orderId>:send exists
  newestFailed,     \* the newest CryptoWithdrawal row is a FAILED attempt
  chain,            \* the on-chain transaction of the key <orderId>:send
  pc                \* what each worker does next

order    == <<status, events>>
payment  == <<intent, linked, rail, verified>>
funds    == <<reservation, credits>>
delivery == <<recorded, newestFailed, chain>>
vars     == <<order, payment, funds, delivery, pc>>

A == INSTANCE CryptoOrderApply WITH Table <- BuyTransitions

OnceEvents ==
  {"created", "quote-locked", "reserve-usdt", "await-payment",
   "payment-detected", "payment-reconciling", "payment-verified", "failed",
   "payment-review", "usdt-processing", "usdt-send-review", "usdt-sent",
   "usdt-onchain-failed", "completed", "expired", "flagged-for-review",
   "admin:FAILED", "admin:CANCELLED", "admin:UNDER_REVIEW", "admin:fail",
   "admin:cancel"}

IntentStatuses ==
  {"NONE", "CREATED", "AWAITING_PAYMENT", "PAYMENT_DETECTED",
   "PAYMENT_VERIFIED", "PAYMENT_REJECTED", "EXPIRED", "UNDER_REVIEW"}

RailStatuses == {"NOT_STARTED", "PENDING", "SETTLED", "MISPAID", "FAILED"}

Places ==
  {"idle", "lockQuote", "reserve", "createIntent", "linkIntent",
   "awaitPayment", "startCollection", "collecting", "drive", "poll",
   "observed", "reconcileIntent", "detect", "detectReview", "detectVerified",
   "reconcile", "verify", "fail", "review", "read", "processing", "lookup",
   "send", "recordSend", "reviewSend", "markSent", "confirm",
   "onchainFailed", "complete", "recheck", "expireIntent", "expiring",
   "expire", "retryPoll", "retryObserved", "retryReconcile", "retry",
   "failReview", "cancelReview"}

TypeOK ==
  /\ status \in BuyStatuses \cup {"NONE"}
  /\ events \subseteq OnceEvents
  /\ intent \in IntentStatuses
  /\ linked \in BOOLEAN
  /\ rail \in RailStatuses
  /\ verified \in BOOLEAN
  /\ reservation \in {"NONE", "HELD", "RELEASED", "CONSUMED"}
  /\ credits \in Nat
  /\ recorded \in BOOLEAN
  /\ newestFailed \in BOOLEAN
  /\ chain \in {"NONE", "PENDING", "CONFIRMED", "FAILED"}
  /\ pc \in [Workers -> Places]

Init ==
  /\ status = "NONE" /\ events = {}
  /\ intent = "NONE" /\ linked = FALSE /\ rail = "NOT_STARTED"
  /\ verified = FALSE
  /\ reservation = "NONE" /\ credits = 0
  /\ recorded = FALSE /\ newestFailed = FALSE
  /\ chain = "NONE"
  /\ pc = [w \in Workers |-> "idle"]

-----------------------------------------------------------------------------
(* Control of a worker, and apply() as one of its steps.                    *)

Goto(w, next) == pc' = [pc EXCEPT ![w] = next]

At(w, place) == pc[w] = place

(* The worker applies (event, to) and goes on to next; a refused transition *)
(* throws out of the method.  Effect is what mutate() does to the funds.    *)
ApplyThen(w, event, to, Effect, next) ==
  /\ \/ A!Applies(event, to) /\ A!Record(event, to) /\ Effect /\ Goto(w, next)
     \/ A!Skips(event, to) /\ UNCHANGED <<order, funds>> /\ Goto(w, next)
     \/ A!Refuses(event, to) /\ UNCHANGED <<order, funds>> /\ Goto(w, "idle")
  /\ UNCHANGED <<payment, delivery>>

NoEffect == UNCHANGED funds

(* Mutants: the release is forgotten, or not restricted to HELD rows.       *)
ReleaseForgotten == UNCHANGED funds
ReleaseAnyStatus == reservation' = "RELEASED" /\ UNCHANGED credits

(* releaseReservation on every HELD reservation of the order.               *)
ReleaseHeld ==
  /\ reservation' = IF reservation = "HELD" THEN "RELEASED" ELSE reservation
  /\ UNCHANGED credits

(* consumeReservation, if one is HELD.                                      *)
ConsumeHeld ==
  /\ reservation' = IF reservation = "HELD" THEN "CONSUMED" ELSE reservation
  /\ UNCHANGED credits

(* Mutant: the credit does not look for its own movement.                   *)
CreditAlways == credits' = credits + 1 /\ UNCHANGED reservation

(* creditBuyPaymentIfNeeded looks for its own movement before it credits.   *)
CreditPayment ==
  /\ credits' = IF credits = 0 THEN 1 ELSE credits
  /\ UNCHANGED reservation

-----------------------------------------------------------------------------
(* createBuyOrder.                                                          *)

(* The quote row is locked and consumed in the transaction that inserts the *)
(* order: a second request for the quote returns the order it finds.        *)
CreateOrder(w) ==
  /\ At(w, "idle") /\ status = "NONE"
  /\ status' = "CREATED" /\ events' = {"created"}
  /\ Goto(w, "lockQuote")
  /\ UNCHANGED <<payment, funds, delivery>>

LockQuote(w) ==
  /\ At(w, "lockQuote")
  /\ ApplyThen(w, "quote-locked", "QUOTE_LOCKED", NoEffect, "reserve")

HoldUsdt == reservation' = "HELD" /\ UNCHANGED credits

ReserveUsdt(w) ==
  /\ At(w, "reserve")
  /\ ApplyThen(w, "reserve-usdt", "USDT_RESERVED", HoldUsdt, "createIntent")

(* treasury.reserve throws InsufficientLiquidityError: apply rolls back and *)
(* the request fails with the order left QUOTE_LOCKED.                      *)
ReserveRefused(w) ==
  /\ At(w, "reserve")
  /\ A!Applies("reserve-usdt", "USDT_RESERVED")
  /\ Goto(w, "idle")
  /\ UNCHANGED <<order, payment, funds, delivery>>

CreateIntent(w) ==
  /\ At(w, "createIntent")
  /\ intent' = "CREATED"
  /\ Goto(w, "linkIntent")
  /\ UNCHANGED <<order, linked, rail, verified, funds, delivery>>

LinkIntent(w) ==
  /\ At(w, "linkIntent")
  /\ linked' = TRUE
  /\ Goto(w, "awaitPayment")
  /\ UNCHANGED <<order, intent, rail, verified, funds, delivery>>

AwaitPayment(w) ==
  /\ At(w, "awaitPayment")
  /\ ApplyThen(w, "await-payment", "AWAITING_PAYMENT", NoEffect,
               "startCollection")

(* The Redis lock intent:<id>: startCollection, pollIntent and expireIntent *)
(* hold it from their read of the intent to their last write.  adminResolve *)
(* does not take it.                                                        *)
IntentLockFree ==
  \A v \in Workers : pc[v] \notin {"collecting", "observed", "reconcileIntent",
                                   "expiring", "retryObserved", "retryReconcile"}

(* payments.startCollection: a no-op unless the intent is CREATED.          *)
StartCollection(w) ==
  /\ At(w, "startCollection") /\ IntentLockFree
  /\ Goto(w, IF intent = "CREATED" THEN "collecting" ELSE "idle")
  /\ UNCHANGED <<order, payment, funds, delivery>>

(* The modem refuses the collection; or the rail accepts it, and the        *)
(* acceptance is recorded or the request fails before it is.                *)
Collect(w) ==
  /\ At(w, "collecting")
  /\ \/ UNCHANGED <<intent, rail>>
     \/ rail' = "PENDING" /\ intent' \in {intent, "AWAITING_PAYMENT"}
  /\ Goto(w, "idle")
  /\ UNCHANGED <<order, linked, verified, funds, delivery>>

-----------------------------------------------------------------------------
(* driveBuy: the payment half.                                              *)

Polling == {"AWAITING_PAYMENT", "PAYMENT_DETECTED", "PAYMENT_RECONCILING"}

Drive(w) ==
  /\ pc[w] \in {"idle", "drive"} /\ status # "NONE"
  /\ Goto(w, IF status \in Polling /\ linked THEN "poll" ELSE "read")
  /\ UNCHANGED <<order, payment, funds, delivery>>

(* Mutant: the sweep leaves detected payments out.                          *)
SweptUndetected == (Polling \ {"PAYMENT_DETECTED"}) \cup {"USDT_SENT"}

(* sweepActiveOrders picks the order up only in these statuses.             *)
Swept == Polling \cup {"USDT_SENT"}

SweepDrive(w) == status \in Swept /\ At(w, "idle") /\ Drive(w)

(* What follows pollIntent: driveBuy branches on the status it returned;    *)
(* resolveReview(RETRY) goes on when it is PAYMENT_VERIFIED, or when the    *)
(* order has left UNDER_REVIEW meanwhile.                                   *)
AfterPoll(from, p) ==
  CASE from = "retryPoll" ->
         IF p = "PAYMENT_VERIFIED" \/ status # "UNDER_REVIEW"
           THEN "retry" ELSE "idle"
    [] p = "PAYMENT_DETECTED" -> "detect"
    [] p = "UNDER_REVIEW"     -> "detectReview"
    [] p = "PAYMENT_VERIFIED" -> "detectVerified"
    [] p \in {"PAYMENT_REJECTED", "EXPIRED"} -> "fail"
    [] OTHER -> "idle"

PollReturns(w, from, p) == Goto(w, AfterPoll(from, p))

(* pollIntent up to the rail's answer.  An intent that is not open, or a    *)
(* rail that has nothing to say, returns the status as is.                  *)
PollIntent(w) ==
  /\ pc[w] \in {"poll", "retryPoll"} /\ IntentLockFree
  /\ LET retry == pc[w] = "retryPoll" IN
     CASE \/ intent \notin {"AWAITING_PAYMENT", "PAYMENT_DETECTED"}
          \/ rail \in {"NOT_STARTED", "PENDING"} -> PollReturns(w, pc[w], intent)
       [] rail # "FAILED" /\ intent = "PAYMENT_DETECTED" ->
            Goto(w, IF retry THEN "retryReconcile" ELSE "reconcileIntent")
       [] OTHER -> Goto(w, IF retry THEN "retryObserved" ELSE "observed")
  /\ UNCHANGED <<order, payment, funds, delivery>>

(* The transaction that records the answer, whatever became of the intent   *)
(* since it was read.                                                       *)
RecordAnswer(w) ==
  /\ pc[w] \in {"observed", "retryObserved"}
  /\ LET retry == pc[w] = "retryObserved" IN
       \/ /\ rail = "FAILED" /\ intent' = "PAYMENT_REJECTED"
          /\ PollReturns(w, IF retry THEN "retryPoll" ELSE "poll",
                         "PAYMENT_REJECTED")
       \/ /\ rail # "FAILED" /\ intent' = "PAYMENT_DETECTED"
          /\ Goto(w, IF retry THEN "retryReconcile" ELSE "reconcileIntent")
  /\ UNCHANGED <<order, linked, rail, verified, funds, delivery>>

(* reconcileIntent: only a clean match is PAYMENT_VERIFIED.  It rereads the *)
(* intent, which adminResolve may have verified, before or after the read.  *)
ReconcileIntent(w) ==
  /\ pc[w] \in {"reconcileIntent", "retryReconcile"}
  /\ \E result \in {"PAYMENT_VERIFIED", "UNDER_REVIEW"} :
       /\ \/ result = (IF rail = "SETTLED" THEN "PAYMENT_VERIFIED" ELSE "UNDER_REVIEW")
          \/ result = intent /\ result = "PAYMENT_VERIFIED"
       /\ intent' = result
       /\ verified' = (verified \/ result = "PAYMENT_VERIFIED")
       /\ PollReturns(w, IF pc[w] = "retryReconcile" THEN "retryPoll" ELSE "poll",
                      result)
  /\ UNCHANGED <<order, linked, rail, funds, delivery>>

Detecting == {"detect", "detectReview", "detectVerified"}

AfterDetect(place) ==
  CASE place = "detectVerified" -> "reconcile"
    [] place = "detectReview"   -> "review"
    [] OTHER                    -> "idle"

PaymentDetected(w) ==
  /\ pc[w] \in Detecting
  /\ IF status = "AWAITING_PAYMENT"
       THEN ApplyThen(w, "payment-detected", "PAYMENT_DETECTED", NoEffect,
                      AfterDetect(pc[w]))
       ELSE /\ Goto(w, AfterDetect(pc[w]))
            /\ UNCHANGED <<order, payment, funds, delivery>>

PaymentReconciling(w) ==
  /\ At(w, "reconcile")
  /\ IF status = "PAYMENT_DETECTED"
       THEN ApplyThen(w, "payment-reconciling", "PAYMENT_RECONCILING", NoEffect,
                      "verify")
       ELSE /\ Goto(w, "verify")
            /\ UNCHANGED <<order, payment, funds, delivery>>

PaymentVerified(w) ==
  /\ At(w, "verify")
  /\ ApplyThen(w, "payment-verified", "PAYMENT_VERIFIED", CreditPayment, "read")

FailBuy(w) ==
  /\ At(w, "fail")
  /\ ApplyThen(w, "failed", "FAILED", ReleaseHeld, "idle")

PaymentReview(w) ==
  /\ At(w, "review")
  /\ ApplyThen(w, "payment-review", "UNDER_REVIEW", NoEffect, "idle")

-----------------------------------------------------------------------------
(* driveBuy: the delivery half.                                             *)

(* Mutant: delivery does not wait for USDT_PROCESSING.                      *)
NextUnguarded ==
  CASE status = "USDT_SENT" -> "confirm"
    [] OTHER                -> IF recorded THEN "markSent" ELSE "send"

(* The order is reread; only PAYMENT_VERIFIED, USDT_PROCESSING and USDT_SENT*)
(* go further.  In USDT_PROCESSING the withdrawal is looked up: one that    *)
(* did not fail is reused, otherwise USDT is sent.                          *)
NextDelivery ==
  CASE status = "USDT_PROCESSING" -> IF recorded THEN "markSent" ELSE "send"
    [] status = "USDT_SENT"       -> "confirm"
    [] OTHER                      -> "idle"

ReadOrder(w) ==
  /\ At(w, "read")
  /\ Goto(w, IF status = "PAYMENT_VERIFIED" THEN "processing" ELSE NextDelivery)
  /\ UNCHANGED <<order, payment, funds, delivery>>

UsdtProcessing(w) ==
  /\ At(w, "processing")
  /\ ApplyThen(w, "usdt-processing", "USDT_PROCESSING", NoEffect, "lookup")

LookupWithdrawal(w) ==
  /\ At(w, "lookup")
  /\ Goto(w, NextDelivery)
  /\ UNCHANGED <<order, payment, funds, delivery>>

(* chain.sendUsdt with the key <orderId>:send.  The provider answers a      *)
(* repeated key with the transaction it already has.  A send that does not  *)
(* broadcast leaves a FAILED withdrawal row with a key of its own.          *)
SendUsdt(w) ==
  /\ At(w, "send")
  /\ \/ /\ chain' = IF chain = "NONE" THEN "PENDING" ELSE chain
        /\ Goto(w, "recordSend")
        /\ UNCHANGED newestFailed
     \/ /\ newestFailed' = TRUE
        /\ Goto(w, "reviewSend")
        /\ UNCHANGED chain
  /\ UNCHANGED <<order, payment, funds, recorded>>

(* Mutant: any failure of the insert is taken for the unique violation.     *)
RecordSendSwallows(w) ==
  /\ At(w, "recordSend")
  /\ recorded' \in {recorded, TRUE}
  /\ newestFailed' = (newestFailed /\ recorded)
  /\ Goto(w, "markSent")
  /\ UNCHANGED <<order, payment, funds, chain>>

(* The insert; a unique violation (P2002) reuses the row that is there.     *)
RecordSend(w) ==
  /\ At(w, "recordSend")
  /\ recorded' = TRUE
  /\ newestFailed' = (newestFailed /\ recorded)
  /\ Goto(w, "markSent")
  /\ UNCHANGED <<order, payment, funds, chain>>

ReviewSend(w) ==
  /\ At(w, "reviewSend")
  /\ ApplyThen(w, "usdt-send-review", "UNDER_REVIEW", NoEffect, "idle")

MarkSent(w) ==
  /\ At(w, "markSent")
  /\ ApplyThen(w, "usdt-sent", "USDT_SENT", NoEffect, "confirm")

(* The newest withdrawal row is read; without a txHash nothing is asked of  *)
(* the chain and the order is returned as it is, USDT_SENT.                 *)
ConfirmOnChain(w) ==
  /\ At(w, "confirm")
  /\ Goto(w, IF status # "USDT_SENT" THEN "idle"
             ELSE IF newestFailed \/ chain = "PENDING" THEN "recheck"
             ELSE IF chain = "FAILED" THEN "onchainFailed" ELSE "complete")
  /\ UNCHANGED <<order, payment, funds, delivery>>

OnchainFailed(w) ==
  /\ At(w, "onchainFailed")
  /\ ApplyThen(w, "usdt-onchain-failed", "UNDER_REVIEW", NoEffect, "idle")

CompleteBuy(w) ==
  /\ At(w, "complete")
  /\ ApplyThen(w, "completed", "COMPLETED", ConsumeHeld, "idle")

(* The GNF leg carries the absolute value of the margin, so an order sold   *)
(* below its cost and fees makes ledger.post throw UnbalancedJournalError   *)
(* and the whole transition rolls back.  What the lots cost depends on the  *)
(* other orders, so either may happen at each attempt.                      *)
CompleteRefused(w) ==
  /\ At(w, "complete")
  /\ A!Applies("completed", "COMPLETED")
  /\ Goto(w, "idle")
  /\ UNCHANGED <<order, payment, funds, delivery>>

(* WITHDRAWAL_CONFIRM: driveBuy came back USDT_SENT.  The job queues itself *)
(* again, or gives up after MAX_ATTEMPTS and flags the order.               *)
Requeue(w) ==
  /\ At(w, "recheck")
  /\ Goto(w, "idle")
  /\ UNCHANGED <<order, payment, funds, delivery>>

FlagForReview(w) ==
  /\ At(w, "recheck")
  /\ ApplyThen(w, "flagged-for-review", "UNDER_REVIEW", NoEffect, "idle")

-----------------------------------------------------------------------------
(* expireBuy: BUY_PAYMENT_TIMEOUT, and the sweep of stale orders.  Time is  *)
(* not modelled: the window may have elapsed at any moment.                 *)

(* Mutant: an order that holds USDT but awaits no payment yet is forgotten. *)
ExpirableAwaiting == {"QUOTE_LOCKED", "AWAITING_PAYMENT"}

Expirable == {"QUOTE_LOCKED", "USDT_RESERVED", "AWAITING_PAYMENT"}

Expire(w) ==
  /\ At(w, "idle") /\ status \in Expirable
  /\ Goto(w, IF linked THEN "expireIntent" ELSE "expire")
  /\ UNCHANGED <<order, payment, funds, delivery>>

(* payments.expireIntent leaves a closed intent alone.                      *)
ExpireIntent(w) ==
  /\ At(w, "expireIntent") /\ IntentLockFree
  /\ Goto(w, IF intent \in {"PAYMENT_VERIFIED", "PAYMENT_REJECTED", "EXPIRED"}
               THEN "expire" ELSE "expiring")
  /\ UNCHANGED <<order, payment, funds, delivery>>

CloseIntent(w) ==
  /\ At(w, "expiring")
  /\ intent' = "EXPIRED"
  /\ Goto(w, "expire")
  /\ UNCHANGED <<order, linked, rail, verified, funds, delivery>>

ExpireOrder(w) ==
  /\ At(w, "expire")
  /\ ApplyThen(w, "expired", "EXPIRED", ReleaseHeld, "idle")

-----------------------------------------------------------------------------
(* Operators.                                                               *)

(* adminTransition is one apply(): any order, any time.                     *)
AdminTransition(to) ==
  /\ status # "NONE"
  /\ LET event == CASE to = "FAILED" -> "admin:FAILED"
                    [] to = "CANCELLED" -> "admin:CANCELLED"
                    [] OTHER -> "admin:UNDER_REVIEW"
     IN A!Applies(event, to) /\ A!Record(event, to)
  /\ IF to = "UNDER_REVIEW" THEN NoEffect ELSE ReleaseHeld
  /\ UNCHANGED <<payment, delivery, pc>>

AdminTargets == {"FAILED", "CANCELLED", "UNDER_REVIEW"}

(* resolveReview reads the order, unlocked, and acts on what it read.       *)
ResolveReview(w) ==
  /\ At(w, "idle") /\ status = "UNDER_REVIEW"
  /\ \/ Goto(w, IF linked THEN "retryPoll" ELSE "retry")
     \/ recorded /\ Goto(w, "complete")
     \/ Goto(w, "failReview")
     \/ Goto(w, "cancelReview")
  /\ UNCHANGED <<order, payment, funds, delivery>>

(* RETRY: the event name carries Date.now(), so it never meets its own row. *)
RetryReview(w) ==
  /\ At(w, "retry")
  /\ \/ /\ status # "PAYMENT_VERIFIED"
        /\ Can(BuyTransitions, status, "PAYMENT_VERIFIED")
        /\ status' = "PAYMENT_VERIFIED" /\ CreditPayment /\ Goto(w, "drive")
     \/ /\ status = "PAYMENT_VERIFIED"
        /\ Goto(w, "drive") /\ UNCHANGED <<status, funds>>
     \/ /\ status # "PAYMENT_VERIFIED"
        /\ ~Can(BuyTransitions, status, "PAYMENT_VERIFIED")
        /\ Goto(w, "idle") /\ UNCHANGED <<status, funds>>
  /\ UNCHANGED <<events, payment, delivery>>

FailReview(w) ==
  /\ At(w, "failReview")
  /\ ApplyThen(w, "admin:fail", "FAILED", ReleaseHeld, "idle")

CancelReview(w) ==
  /\ At(w, "cancelReview")
  /\ ApplyThen(w, "admin:cancel", "CANCELLED", ReleaseHeld, "idle")

(* payments.adminResolve: no lock and no condition on the intent's status.  *)
AdminResolveIntent(decision) ==
  /\ intent # "NONE"
  /\ intent' = decision
  /\ verified' = (verified \/ decision = "PAYMENT_VERIFIED")
  /\ UNCHANGED <<order, linked, rail, funds, delivery, pc>>

AdminDecisions == {"PAYMENT_VERIFIED", "PAYMENT_REJECTED"}

-----------------------------------------------------------------------------
(* The rail, the chain and failures.                                        *)

RailAnswers ==
  /\ rail = "PENDING"
  /\ rail' \in {"SETTLED", "MISPAID", "FAILED"}
  /\ UNCHANGED <<order, intent, linked, verified, funds, delivery, pc>>

(* A settlement first seen more than an hour after the intent expired is    *)
(* out of window: it no longer matches.                                     *)
WindowElapses ==
  /\ rail = "SETTLED" /\ rail' = "MISPAID"
  /\ UNCHANGED <<order, intent, linked, verified, funds, delivery, pc>>

ChainAnswers ==
  /\ chain = "PENDING"
  /\ chain' \in {"CONFIRMED", "FAILED"}
  /\ UNCHANGED <<order, payment, funds, recorded, newestFailed, pc>>

Interrupt(w) ==
  /\ w \in Interruptible
  /\ pc[w] # "idle"
  /\ Goto(w, "idle")
  /\ UNCHANGED <<order, payment, funds, delivery>>

-----------------------------------------------------------------------------

(* A worker that is inside a method goes on with it.                        *)
Continue(w) ==
  \/ LockQuote(w) \/ ReserveUsdt(w) \/ ReserveRefused(w)
  \/ CreateIntent(w) \/ LinkIntent(w) \/ AwaitPayment(w) \/ StartCollection(w)
  \/ Collect(w) \/ PollIntent(w) \/ RecordAnswer(w) \/ ReconcileIntent(w)
  \/ PaymentDetected(w) \/ PaymentReconciling(w) \/ PaymentVerified(w)
  \/ FailBuy(w) \/ PaymentReview(w)
  \/ ReadOrder(w) \/ UsdtProcessing(w) \/ LookupWithdrawal(w)
  \/ SendUsdt(w) \/ RecordSend(w) \/ ReviewSend(w) \/ MarkSent(w)
  \/ ConfirmOnChain(w) \/ OnchainFailed(w) \/ CompleteBuy(w) \/ CompleteRefused(w)
  \/ Requeue(w) \/ FlagForReview(w)
  \/ ExpireIntent(w) \/ CloseIntent(w) \/ ExpireOrder(w)
  \/ RetryReview(w) \/ FailReview(w) \/ CancelReview(w)

Next ==
  \/ \E w \in Workers :
       \/ CreateOrder(w) \/ Drive(w) \/ Expire(w) \/ ResolveReview(w)
       \/ Continue(w) \/ Interrupt(w)
  \/ \E to \in AdminTargets : AdminTransition(to)
  \/ \E decision \in AdminDecisions : AdminResolveIntent(decision)
  \/ RailAnswers \/ WindowElapses \/ ChainAnswers

Spec == Init /\ [][Next]_vars

(* A method that is running goes on (the event loop does not starve it).    *)
(* The maintenance worker's repeatable jobs come back for ever and it takes *)
(* them in order: a sweep finds the order, and a stale order is expired, if *)
(* they can be again and again.  An interruption is not repeated for ever.  *)
Progress(w) == Continue(w) \/ (At(w, "drive") /\ Drive(w))

Fairness ==
  /\ \A w \in Workers : WF_vars(Progress(w))
  /\ SF_vars(\E w \in Workers : SweepDrive(w))
  /\ SF_vars(\E w \in Workers : Expire(w))
=============================================================================
