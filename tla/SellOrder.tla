------------------------------ MODULE SellOrder ------------------------------
(***************************************************************************)
(* One SELL_USDT order and its payout: CryptoService.createSellOrder,      *)
(* driveSell, completeSell, expireSell, the admin operations and the sweep *)
(* (apps/api/src/modules/crypto/crypto.service.ts), with                   *)
(* PayoutsService.process and confirm                                      *)
(* (apps/api/src/modules/payments/payouts.service.ts).                     *)
(*                                                                         *)
(* Workers, steps and Interrupt are those of BuyOrder.  Each apply() is    *)
(* followed by a read of the order: the two are one step, since the next   *)
(* apply() of the worker runs later anyway and checks the order again.     *)
(***************************************************************************)
EXTENDS Naturals, CryptoOrderState

CONSTANTS
  Workers,          \* concurrent executions
  Interruptible,    \* the workers an exception or a restart may stop half way
  MaxAttempts,      \* MAX_PAYOUT_ATTEMPTS
  TransferCap       \* bound: the rail accepts no more payouts than this at a time

ASSUME SellAssumption ==
  /\ Interruptible \subseteq Workers
  /\ MaxAttempts \in Nat \ {0} /\ TransferCap \in Nat \ {0}

VARIABLES
  status,           \* CryptoOrder.status
  events,           \* CryptoOrderEvent rows
  deposit,          \* the customer's USDT at the deposit address
  credited,         \* the deposit is booked: HOT bucket, inventory lot, ledger
  reservation,      \* the GNF LiquidityReservation of the order
  payout,           \* Payout.status, "NONE" before createOrGet
  linked,           \* CryptoOrder.payoutId is set
  attempts,         \* Payout.attempts
  ref,              \* what the rail reports of the newest payout it accepted
  transfers,        \* payouts the rail accepted and did not refuse
  pc                \* what each worker does next

order == <<status, events>>
funds == <<credited, reservation>>
pay   == <<payout, linked, attempts, ref, transfers>>
vars  == <<order, deposit, funds, pay, pc>>

A == INSTANCE CryptoOrderApply WITH Table <- SellTransitions

OnceEvents ==
  {"created", "quote-locked", "await-crypto", "deposit-mismatch",
   "crypto-detected", "confirming", "crypto-confirmed", "reserve-gnf",
   "flagged-for-review", "payout-pending", "payout-processing",
   "payout-failed-review", "completed", "expired", "admin:FAILED",
   "admin:CANCELLED", "admin:UNDER_REVIEW", "admin:fail", "admin:cancel"}

Places ==
  {"idle", "lockQuote", "awaitCrypto", "drive", "mismatch", "detect",
   "detectFull", "confirming", "confirmingFull", "credit", "recheck",
   "reserve", "flag", "createPayout", "linkPayout", "payoutPending",
   "payoutProcessing", "process", "initiate", "accepted", "confirmPayout",
   "payoutFailed", "complete", "expire", "retryPayout", "retryReserve",
   "failReview", "cancelReview", "adminInitiate", "adminAccepted",
   "adminConfirm"}

TypeOK ==
  /\ status \in SellStatuses \cup {"NONE"}
  /\ events \subseteq OnceEvents
  /\ deposit \in {"NONE", "SEEN", "CONFIRMED", "MISMATCH"}
  /\ credited \in Nat
  /\ reservation \in {"NONE", "HELD", "RELEASED", "CONSUMED"}
  /\ payout \in {"NONE", "PENDING", "PROCESSING", "PAID", "FAILED"}
  /\ linked \in BOOLEAN
  /\ attempts \in 0 .. MaxAttempts
  /\ ref \in {"NONE", "PENDING", "SETTLED", "FAILED"}
  /\ transfers \in 0 .. TransferCap
  /\ pc \in [Workers -> Places]

Init ==
  /\ status = "NONE" /\ events = {}
  /\ deposit = "NONE" /\ credited = 0 /\ reservation = "NONE"
  /\ payout = "NONE" /\ linked = FALSE /\ attempts = 0
  /\ ref = "NONE" /\ transfers = 0
  /\ pc = [w \in Workers |-> "idle"]

-----------------------------------------------------------------------------
(* Control of a worker, and apply() as one of its steps.                    *)

Goto(w, next) == pc' = [pc EXCEPT ![w] = next]

At(w, place) == pc[w] = place

(* A refused transition throws: to the catch of driveSell, or out of it.    *)
ApplyOr(w, event, to, Effect, next, thrown) ==
  /\ \/ A!Applies(event, to) /\ A!Record(event, to) /\ Effect /\ Goto(w, next)
     \/ A!Skips(event, to) /\ UNCHANGED <<order, funds>> /\ Goto(w, next)
     \/ A!Refuses(event, to) /\ UNCHANGED <<order, funds>> /\ Goto(w, thrown)
  /\ UNCHANGED <<deposit, pay>>

ApplyThen(w, event, to, Effect, next) ==
  ApplyOr(w, event, to, Effect, next, "idle")

NoEffect == UNCHANGED funds

(* Mutants: the release is forgotten, or not restricted to HELD rows.       *)
ReleaseForgotten == UNCHANGED funds
ReleaseAnyStatus == reservation' = "RELEASED" /\ UNCHANGED credited

ReleaseHeld ==
  /\ reservation' = IF reservation = "HELD" THEN "RELEASED" ELSE reservation
  /\ UNCHANGED credited

ConsumeHeld ==
  /\ reservation' = IF reservation = "HELD" THEN "CONSUMED" ELSE reservation
  /\ UNCHANGED credited

CreditDeposit == credited' = credited + 1 /\ UNCHANGED reservation

(* reserveSellGnfIfNeeded: a reservation of any status is enough.           *)
HoldGnf ==
  /\ reservation' = IF reservation = "NONE" THEN "HELD" ELSE reservation
  /\ UNCHANGED credited

Watched == {"AWAITING_CRYPTO", "CRYPTO_DETECTED", "CONFIRMING"}

(* Mutant: a deposit is credited before it has its confirmations.           *)
NextUnconfirmed(s, full) ==
  CASE s = "CRYPTO_DETECTED"      -> "confirming"
    [] s = "CONFIRMING"           -> "credit"
    [] s = "CRYPTO_CONFIRMED"     -> "reserve"
    [] s = "GNF_RESERVED"         -> "createPayout"
    [] s = "PAYOUT_PENDING"       -> "payoutProcessing"
    [] s = "PAYOUT_PROCESSING"    -> "process"
    [] OTHER                      -> "idle"

(* Where driveSell goes with an order it just read in status s; full: the   *)
(* deposit it saw has the required confirmations.                           *)
NextSell(s, full) ==
  CASE s = "CRYPTO_DETECTED"      -> IF full THEN "confirmingFull" ELSE "confirming"
    [] s = "CONFIRMING" /\ full   -> "credit"
    [] s = "CONFIRMING" /\ ~full  -> "recheck"
    [] s = "CRYPTO_CONFIRMED"     -> "reserve"
    [] s = "GNF_RESERVED"         -> "createPayout"
    [] s = "PAYOUT_PENDING"       -> "payoutProcessing"
    [] s = "PAYOUT_PROCESSING"    -> "process"
    [] OTHER                      -> "idle"

-----------------------------------------------------------------------------
(* createSellOrder.                                                         *)

CreateOrder(w) ==
  /\ At(w, "idle") /\ status = "NONE"
  /\ status' = "CREATED" /\ events' = {"created"}
  /\ Goto(w, "lockQuote")
  /\ UNCHANGED <<deposit, funds, pay>>

LockQuote(w) ==
  /\ At(w, "lockQuote")
  /\ ApplyThen(w, "quote-locked", "QUOTE_LOCKED", NoEffect, "awaitCrypto")

AwaitCrypto(w) ==
  /\ At(w, "awaitCrypto")
  /\ ApplyThen(w, "await-crypto", "AWAITING_CRYPTO", NoEffect, "idle")

-----------------------------------------------------------------------------
(* driveSell: the deposit half.                                             *)

(* The order and, while it waits for crypto, the chain are read.            *)
AfterRead ==
  IF status \notin Watched THEN NextSell(status, FALSE)
  ELSE CASE deposit = "NONE"     -> "recheck"
         [] deposit = "MISMATCH" -> "mismatch"
         [] OTHER -> IF status # "AWAITING_CRYPTO"
                       THEN NextSell(status, deposit = "CONFIRMED")
                     ELSE IF deposit = "CONFIRMED" THEN "detectFull" ELSE "detect"

Drive(w) ==
  /\ pc[w] \in {"idle", "drive"} /\ status # "NONE"
  /\ Goto(w, AfterRead)
  /\ UNCHANGED <<order, deposit, funds, pay>>

(* Mutant: the sweep leaves confirming deposits and pending payouts out.    *)
SweptUnfinished == {"AWAITING_CRYPTO", "CRYPTO_DETECTED", "PAYOUT_PROCESSING"}

(* sweepActiveOrders picks the order up only in these statuses.             *)
Swept == Watched \cup {"PAYOUT_PENDING", "PAYOUT_PROCESSING"}

SweepDrive(w) == status \in Swept /\ At(w, "idle") /\ Drive(w)

DepositMismatch(w) ==
  /\ At(w, "mismatch")
  /\ ApplyThen(w, "deposit-mismatch", "UNDER_REVIEW", NoEffect, "idle")

CryptoDetected(w) ==
  /\ pc[w] \in {"detect", "detectFull"}
  /\ ApplyThen(w, "crypto-detected", "CRYPTO_DETECTED", NoEffect,
               NextSell(status', At(w, "detectFull")))

Confirming(w) ==
  /\ pc[w] \in {"confirming", "confirmingFull"}
  /\ ApplyThen(w, "confirming", "CONFIRMING", NoEffect,
               NextSell(status', At(w, "confirmingFull")))

CryptoConfirmed(w) ==
  /\ At(w, "credit")
  /\ ApplyThen(w, "crypto-confirmed", "CRYPTO_CONFIRMED", CreditDeposit,
               NextSell(status', TRUE))

(* SELL_WATCH_DEPOSIT: driveSell left the order watched.  The job queues    *)
(* itself again, or gives up after MAX_ATTEMPTS and flags the order.        *)
Requeue(w) ==
  /\ At(w, "recheck")
  /\ Goto(w, "idle")
  /\ UNCHANGED <<order, deposit, funds, pay>>

FlagWatched(w) ==
  /\ At(w, "recheck")
  /\ ApplyThen(w, "flagged-for-review", "UNDER_REVIEW", NoEffect, "idle")

-----------------------------------------------------------------------------
(* driveSell: the payout half.                                              *)

(* Any error of the reservation, a refused transition too, is caught and    *)
(* the order flagged.                                                       *)
ReserveGnf(w) ==
  /\ At(w, "reserve")
  /\ ApplyOr(w, "reserve-gnf", "GNF_RESERVED", HoldGnf,
             NextSell(status', TRUE), "flag")

ReserveRefused(w) ==
  /\ At(w, "reserve")
  /\ A!Applies("reserve-gnf", "GNF_RESERVED") /\ reservation = "NONE"
  /\ Goto(w, "flag")
  /\ UNCHANGED <<order, deposit, funds, pay>>

FlagUnreserved(w) ==
  /\ At(w, "flag")
  /\ ApplyThen(w, "flagged-for-review", "UNDER_REVIEW", NoEffect, "idle")

(* payouts.createOrGet, keyed crypto_order:<orderId>.                       *)
CreatePayout(w) ==
  /\ At(w, "createPayout")
  /\ payout' = IF payout = "NONE" THEN "PENDING" ELSE payout
  /\ Goto(w, "linkPayout")
  /\ UNCHANGED <<order, deposit, funds, linked, attempts, ref, transfers>>

LinkPayout(w) ==
  /\ At(w, "linkPayout")
  /\ linked' = TRUE
  /\ Goto(w, "payoutPending")
  /\ UNCHANGED <<order, deposit, funds, payout, attempts, ref, transfers>>

PayoutPending(w) ==
  /\ At(w, "payoutPending")
  /\ ApplyThen(w, "payout-pending", "PAYOUT_PENDING", NoEffect,
               NextSell(status', TRUE))

(* The result is not read: process follows whatever status it left.         *)
PayoutProcessing(w) ==
  /\ At(w, "payoutProcessing")
  /\ ApplyThen(w, "payout-processing", "PAYOUT_PROCESSING", NoEffect, "process")

-----------------------------------------------------------------------------
(* payouts.process and payouts.confirm, under the Redis lock payout:<id>.   *)
(* The admin places are the same code called by the payouts controller,     *)
(* which does nothing with the result.                                      *)

PayoutLockFree ==
  \A v \in Workers : pc[v] \notin {"initiate", "accepted", "confirmPayout",
                                   "adminInitiate", "adminAccepted", "adminConfirm"}

(* Only a PENDING or FAILED payout is initiated, and a FAILED one not for   *)
(* ever.  driveSell completes an order whose payout is PAID.                *)
ProcessFrom(w, initiate, paid) ==
  /\ PayoutLockFree /\ payout # "NONE"
  /\ \/ /\ payout \in {"PAID", "PROCESSING"}
        /\ Goto(w, IF payout = "PAID" THEN paid ELSE "idle")
        /\ UNCHANGED payout
     \/ /\ payout = "FAILED" /\ attempts >= MaxAttempts
        /\ Goto(w, "idle") /\ UNCHANGED payout
     \/ /\ payout = "PENDING" \/ (payout = "FAILED" /\ attempts < MaxAttempts)
        /\ payout' = "PENDING" /\ Goto(w, initiate)
  /\ UNCHANGED <<order, deposit, funds, linked, attempts, ref, transfers>>

Process(w) == At(w, "process") /\ ProcessFrom(w, "initiate", "complete")

AdminProcess(w) == At(w, "idle") /\ ProcessFrom(w, "adminInitiate", "idle")

ByAdmin(w) == pc[w] \in {"adminInitiate", "adminAccepted", "adminConfirm"}

AfterFailed(w) == IF ByAdmin(w) THEN "idle" ELSE "payoutFailed"

(* attempts saturates only in the model: a PENDING payout that failed to be *)
(* initiated is not tried again at the bound.                               *)
OneMoreAttempt == attempts' = IF attempts < MaxAttempts THEN attempts + 1 ELSE attempts

(* No modem: the payout stays PENDING.  The rail throws or answers FAILED:  *)
(* the payout is FAILED.  Otherwise the rail has accepted a transfer.       *)
InitiatePayout(w) ==
  /\ pc[w] \in {"initiate", "adminInitiate"}
  /\ \/ Goto(w, "idle") /\ UNCHANGED <<payout, attempts, ref, transfers>>
     \/ /\ payout' = "FAILED" /\ OneMoreAttempt
        /\ Goto(w, AfterFailed(w)) /\ UNCHANGED <<ref, transfers>>
     \/ /\ transfers < TransferCap
        /\ ref' = "PENDING" /\ transfers' = transfers + 1
        /\ Goto(w, IF ByAdmin(w) THEN "adminAccepted" ELSE "accepted")
        /\ UNCHANGED <<payout, attempts>>
  /\ UNCHANGED <<order, deposit, funds, linked>>

(* The session row is inserted, then the payout is PROCESSING; the catch    *)
(* around the insert takes its failure for a failure of the payout.         *)
RecordPayout(w) ==
  /\ pc[w] \in {"accepted", "adminAccepted"}
  /\ \/ /\ payout' = "PROCESSING"
        /\ Goto(w, IF ByAdmin(w) THEN "adminConfirm" ELSE "confirmPayout")
     \/ payout' = "FAILED" /\ Goto(w, AfterFailed(w))
  /\ OneMoreAttempt
  /\ UNCHANGED <<order, deposit, funds, linked, ref, transfers>>

ConfirmPayout(w) ==
  /\ pc[w] \in {"confirmPayout", "adminConfirm"}
  /\ \/ ref = "PENDING" /\ Goto(w, "idle") /\ UNCHANGED payout
     \/ ref = "FAILED" /\ payout' = "FAILED" /\ Goto(w, AfterFailed(w))
     \/ /\ ref = "SETTLED" /\ payout' = "PAID"
        /\ Goto(w, IF ByAdmin(w) THEN "idle" ELSE "complete")
  /\ UNCHANGED <<order, deposit, funds, linked, attempts, ref, transfers>>

PayoutFailed(w) ==
  /\ At(w, "payoutFailed")
  /\ ApplyThen(w, "payout-failed-review", "UNDER_REVIEW", NoEffect, "idle")

CompleteSell(w) ==
  /\ At(w, "complete")
  /\ ApplyThen(w, "completed", "COMPLETED", ConsumeHeld, "idle")

-----------------------------------------------------------------------------
(* expireSell: the timeout job and the sweep of stale orders.               *)

(* Mutant: the order that never got its deposit address is forgotten.       *)
ExpirableAwaiting == {"AWAITING_CRYPTO"}

Expirable == {"QUOTE_LOCKED", "AWAITING_CRYPTO"}

Expire(w) ==
  /\ At(w, "idle") /\ status \in Expirable
  /\ Goto(w, "expire")
  /\ UNCHANGED <<order, deposit, funds, pay>>

ExpireOrder(w) ==
  /\ At(w, "expire")
  /\ ApplyThen(w, "expired", "EXPIRED", NoEffect, "idle")

-----------------------------------------------------------------------------
(* Operators.                                                               *)

AdminTransition(to) ==
  /\ status # "NONE"
  /\ LET event == CASE to = "FAILED" -> "admin:FAILED"
                    [] to = "CANCELLED" -> "admin:CANCELLED"
                    [] OTHER -> "admin:UNDER_REVIEW"
     IN A!Applies(event, to) /\ A!Record(event, to)
  /\ IF to = "UNDER_REVIEW" THEN NoEffect ELSE ReleaseHeld
  /\ UNCHANGED <<deposit, pay, pc>>

AdminTargets == {"FAILED", "CANCELLED", "UNDER_REVIEW"}

(* Mutants: RETRY does not look for a confirmed deposit, FORCE_COMPLETE not *)
(* for a PAID payout.                                                       *)
ResolveUnconfirmed(w) ==
  /\ At(w, "idle") /\ status = "UNDER_REVIEW"
  /\ \/ Goto(w, IF linked THEN "retryPayout" ELSE "retryReserve")
     \/ linked /\ payout = "PAID" /\ Goto(w, "complete")
  /\ UNCHANGED <<order, deposit, funds, pay>>

ResolveUnpaid(w) ==
  /\ At(w, "idle") /\ status = "UNDER_REVIEW"
  /\ linked /\ Goto(w, "complete")
  /\ UNCHANGED <<order, deposit, funds, pay>>

(* resolveReview acts on the order it read.  RETRY wants the event row of   *)
(* the confirmed deposit, FORCE_COMPLETE a payout that is PAID.             *)
ResolveReview(w) ==
  /\ At(w, "idle") /\ status = "UNDER_REVIEW"
  /\ \/ /\ "crypto-confirmed" \in events
        /\ Goto(w, IF linked THEN "retryPayout" ELSE "retryReserve")
     \/ linked /\ payout = "PAID" /\ Goto(w, "complete")
     \/ Goto(w, "failReview")
     \/ Goto(w, "cancelReview")
  /\ UNCHANGED <<order, deposit, funds, pay>>

(* RETRY: the event name carries Date.now(), so it never meets its own row. *)
RetryTo(w, to, Effect) ==
  /\ \/ status # to /\ Can(SellTransitions, status, to)
        /\ status' = to /\ Effect /\ Goto(w, "drive")
     \/ status = to /\ Goto(w, "drive") /\ UNCHANGED <<status, funds>>
     \/ /\ status # to /\ ~Can(SellTransitions, status, to)
        /\ Goto(w, "idle") /\ UNCHANGED <<status, funds>>
  /\ UNCHANGED <<events, deposit, pay>>

RetryPayout(w) ==
  At(w, "retryPayout") /\ RetryTo(w, "PAYOUT_PENDING", NoEffect)

RetryReserve(w) ==
  At(w, "retryReserve") /\ RetryTo(w, "GNF_RESERVED", HoldGnf)

(* The reservation of the RETRY throws: there is no GNF to set aside.       *)
RetryUnreserved(w) ==
  /\ At(w, "retryReserve")
  /\ status # "GNF_RESERVED" /\ Can(SellTransitions, status, "GNF_RESERVED")
  /\ reservation = "NONE"
  /\ Goto(w, "idle")
  /\ UNCHANGED <<order, deposit, funds, pay>>

FailReview(w) ==
  /\ At(w, "failReview")
  /\ ApplyThen(w, "admin:fail", "FAILED", ReleaseHeld, "idle")

CancelReview(w) ==
  /\ At(w, "cancelReview")
  /\ ApplyThen(w, "admin:cancel", "CANCELLED", ReleaseHeld, "idle")

-----------------------------------------------------------------------------
(* The customer, the rail and failures.                                     *)

(* USDT reaches the deposit address, in the quoted amount or another, and   *)
(* gets its confirmations.                                                  *)
CustomerDeposits ==
  /\ status # "NONE"
  /\ \/ deposit = "NONE" /\ deposit' \in {"SEEN", "MISMATCH"}
     \/ deposit = "SEEN" /\ deposit' = "CONFIRMED"
  /\ UNCHANGED <<order, funds, pay, pc>>

RailAnswers ==
  /\ ref = "PENDING"
  /\ \/ ref' = "SETTLED" /\ UNCHANGED transfers
     \/ ref' = "FAILED" /\ transfers' = transfers - 1
  /\ UNCHANGED <<order, deposit, funds, payout, linked, attempts, pc>>

Interrupt(w) ==
  /\ w \in Interruptible
  /\ pc[w] # "idle"
  /\ Goto(w, "idle")
  /\ UNCHANGED <<order, deposit, funds, pay>>

-----------------------------------------------------------------------------

(* A worker that is inside a method goes on with it.                        *)
Continue(w) ==
  \/ LockQuote(w) \/ AwaitCrypto(w)
  \/ DepositMismatch(w) \/ CryptoDetected(w) \/ Confirming(w) \/ CryptoConfirmed(w)
  \/ Requeue(w) \/ FlagWatched(w)
  \/ ReserveGnf(w) \/ ReserveRefused(w) \/ FlagUnreserved(w)
  \/ CreatePayout(w) \/ LinkPayout(w) \/ PayoutPending(w) \/ PayoutProcessing(w)
  \/ Process(w) \/ InitiatePayout(w) \/ RecordPayout(w) \/ ConfirmPayout(w)
  \/ PayoutFailed(w) \/ CompleteSell(w) \/ ExpireOrder(w)
  \/ RetryPayout(w) \/ RetryReserve(w) \/ RetryUnreserved(w)
  \/ FailReview(w) \/ CancelReview(w)

Next ==
  \/ \E w \in Workers :
       \/ CreateOrder(w) \/ Drive(w) \/ Expire(w) \/ AdminProcess(w)
       \/ ResolveReview(w) \/ Continue(w) \/ Interrupt(w)
  \/ \E to \in AdminTargets : AdminTransition(to)
  \/ CustomerDeposits \/ RailAnswers

Spec == Init /\ [][Next]_vars

(* As for BuyOrder: running methods go on; the repeatable jobs come back.   *)
Progress(w) == Continue(w) \/ (At(w, "drive") /\ Drive(w))

Fairness ==
  /\ \A w \in Workers : WF_vars(Progress(w))
  /\ SF_vars(\E w \in Workers : SweepDrive(w))
  /\ SF_vars(\E w \in Workers : Expire(w))
=============================================================================
