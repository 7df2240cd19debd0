----------------------------- MODULE BoxOffice ------------------------------
(***************************************************************************)
(* The seats of one ticket type and the event orders that buy them         *)
(* (apps/api/src/modules/tickets/tickets.service.ts), composed with the    *)
(* settlements their proceeds are accrued to.                              *)
(*                                                                         *)
(* createOrder locks the TicketType row and is one step.  driveOrder runs  *)
(* under the Redis lock event-order:<id>, which expires: the order itself  *)
(* is read without a lock and, when it is written, locked from there to    *)
(* the commit.  A request is one execution of driveOrder.  It may stop at  *)
(* any await; a restart leaves its lock behind until it expires, which     *)
(* only delays the next one and is not told apart from an exception.       *)
(*                                                                         *)
(* An intent is polled in one step, under the intent's lock; BuyOrder has  *)
(* its inside.  USDT orders, which nothing drives, are orders whose intent *)
(* is never paid.                                                          *)
(***************************************************************************)
EXTENDS Settlements, FiniteSets

CONSTANTS
  Orders,           \* event orders of the one event
  Quantities,       \* the numbers of seats a customer may ask for
  Share,            \* the organiser's share of the price of a seat
  Capacity,         \* TicketType.quantity
  Requests          \* executions of driveOrder

ASSUME BoxOfficeAssumption ==
  /\ Quantities \subseteq Nat \ {0}
  /\ Share \in Nat \ {0} /\ Capacity \in Nat
  /\ IsFiniteSet(Orders) /\ IsFiniteSet(Settlements)
  /\ "free" \notin Requests

VARIABLES
  sold,             \* TicketType.quantitySold
  sale,             \* TicketType.status
  order,            \* EventOrder.status
  quantity,         \* the quantity of the order's item
  intent,           \* PaymentIntent.status of the order's intent
  tickets,          \* tickets issued for the order
  credited,         \* what the journals of the order gave ORGANIZER_PAYABLE
  request,          \* where each request is, and what it read
  lock,             \* the request that holds event-order:<id>, or "free"
  outlived,         \* history: orders whose lock expired under a request
  overwritten       \* history: an accrual wrote over another one

seats == <<sold, sale>>
sales == <<order, quantity, intent, tickets, credited>>
vars  == <<seats, sales, request, lock, outlived, overwritten, settlementVars>>

Net(o) == Share * quantity[o]

Final == {"ISSUED", "FAILED", "EXPIRED", "CANCELLED", "REFUNDED"}

Waiting == [at |-> "idle"]

(* found: the settlement accrue read ("none" if there was none), its total. *)
RequestState ==
  {Waiting}
    \cup [at : {"poll", "issue", "fail"}, on : Orders]
    \cup [at : {"book"}, on : Orders, found : Settlements \cup {"none"}, total : Nat]

TypeOK ==
  /\ SettlementsTypeOK
  /\ sold \in Int /\ sale \in {"ACTIVE", "SOLD_OUT"}
  /\ order \in [Orders -> {"NONE", "AWAITING_PAYMENT", "ISSUED", "FAILED"}]
  /\ quantity \in [Orders -> Nat]
  /\ intent \in [Orders -> {"NONE", "CREATED", "AWAITING_PAYMENT",
                            "PAYMENT_VERIFIED", "PAYMENT_REJECTED", "UNDER_REVIEW"}]
  /\ tickets \in [Orders -> Nat] /\ credited \in [Orders -> Nat]
  /\ request \in [Requests -> RequestState]
  /\ lock \in [Orders -> Requests \cup {"free"}]
  /\ outlived \subseteq Orders
  /\ overwritten \in BOOLEAN

Init ==
  /\ SettlementsInit
  /\ sold = 0 /\ sale = "ACTIVE"
  /\ order = [o \in Orders |-> "NONE"] /\ quantity = [o \in Orders |-> 0]
  /\ intent = [o \in Orders |-> "NONE"]
  /\ tickets = [o \in Orders |-> 0] /\ credited = [o \in Orders |-> 0]
  /\ request = [r \in Requests |-> Waiting]
  /\ lock = [o \in Orders |-> "free"]
  /\ outlived = {}
  /\ overwritten = FALSE

-----------------------------------------------------------------------------
(* Checkout and payment.                                                    *)

SaleAfter(n) == IF n >= Capacity THEN "SOLD_OUT" ELSE "ACTIVE"

(* Mutant: a sale is refused only once the type is sold out.                *)
CreateUnchecked(o, q) ==
  /\ order[o] = "NONE" /\ sale = "ACTIVE"
  /\ sold' = sold + q
  /\ quantity' = [quantity EXCEPT ![o] = q]
  /\ sale' = SaleAfter(sold')
  /\ order' = [order EXCEPT ![o] = "AWAITING_PAYMENT"]
  /\ intent' = [intent EXCEPT ![o] = "CREATED"]
  /\ UNCHANGED <<tickets, credited, request, lock, outlived, overwritten,
                 settlementVars>>

CreateOrder(o, q) ==
  /\ order[o] = "NONE" /\ sale = "ACTIVE"
  /\ sold + q <= Capacity
  /\ sold' = sold + q
  /\ quantity' = [quantity EXCEPT ![o] = q]
  /\ sale' = SaleAfter(sold')
  /\ order' = [order EXCEPT ![o] = "AWAITING_PAYMENT"]
  /\ intent' = [intent EXCEPT ![o] = "CREATED"]
  /\ UNCHANGED <<tickets, credited, request, lock, outlived, overwritten,
                 settlementVars>>

SetIntent(o, status) ==
  /\ intent' = [intent EXCEPT ![o] = status]
  /\ UNCHANGED <<seats, order, quantity, tickets, credited, outlived, overwritten,
                 settlementVars>>

(* startPayment; when the modem refuses, the intent stays CREATED.          *)
StartPaymentOf(o) ==
  /\ intent[o] = "CREATED"
  /\ SetIntent(o, "AWAITING_PAYMENT")
  /\ UNCHANGED <<request, lock>>

(* adminResolve looks at no status.                                         *)
AdminResolve(o) ==
  /\ intent[o] # "NONE"
  /\ \E decision \in {"PAYMENT_VERIFIED", "PAYMENT_REJECTED"} : SetIntent(o, decision)
  /\ UNCHANGED <<request, lock>>

-----------------------------------------------------------------------------
(* driveOrder.                                                              *)

Continue(r, state) == request' = [request EXCEPT ![r] = state]

(* The lock is released if it is still the request's own.                   *)
Finish(r) ==
  LET o == request[r].on IN
    /\ Continue(r, Waiting)
    /\ lock' = IF lock[o] = r THEN [lock EXCEPT ![o] = "free"] ELSE lock

(* Mutant: the lock is taken whoever holds it.                              *)
DriveUnlocked(r, o) ==
  /\ request[r] = Waiting
  /\ lock' = [lock EXCEPT ![o] = r]
  /\ order[o] \notin Final \cup {"NONE"}
  /\ Continue(r, [at |-> "poll", on |-> o])
  /\ UNCHANGED <<seats, sales, outlived, overwritten, settlementVars>>

(* An order in a final status is returned, which changes nothing.           *)
Drive(r, o) ==
  /\ request[r] = Waiting
  /\ lock[o] = "free" /\ lock' = [lock EXCEPT ![o] = r]
  /\ order[o] \notin Final \cup {"NONE"}
  /\ Continue(r, [at |-> "poll", on |-> o])
  /\ UNCHANGED <<seats, sales, outlived, overwritten, settlementVars>>

PollAnswers(o) ==
  IF intent[o] = "AWAITING_PAYMENT"
    THEN {"AWAITING_PAYMENT", "PAYMENT_VERIFIED", "PAYMENT_REJECTED", "UNDER_REVIEW"}
    ELSE {intent[o]}

(* The order as the transaction of failOrder or issueTickets first reads it *)
(* decides whether that goes on: an order moved between the poll and this   *)
(* query is returned, as if the request had been abandoned.                 *)
Poll(r) ==
  LET o == request[r].on
      goOn(done, next) ==
        IF order[o] \in done
          THEN Finish(r)
          ELSE Continue(r, [at |-> next, on |-> o]) /\ UNCHANGED lock
  IN
    /\ request[r].at = "poll"
    /\ \E status \in PollAnswers(o) :
         /\ SetIntent(o, status)
         /\ CASE status = "PAYMENT_VERIFIED" -> goOn({"ISSUED"}, "issue")
              [] status = "PAYMENT_REJECTED" -> goOn(Final \ {"EXPIRED"}, "fail")
              [] OTHER -> Finish(r)

(* The row of the order is locked from its update to the commit.            *)
RowIsFree(o) == \A r \in Requests : ~(request[r].at = "book" /\ request[r].on = o)

(* Mutant: the type stays SOLD_OUT.                                         *)
FailKeepingSoldOut(r) ==
  LET o == request[r].on IN
    /\ request[r].at = "fail" /\ RowIsFree(o)
    /\ sold' = sold - quantity[o]
    /\ order' = [order EXCEPT ![o] = "FAILED"]
    /\ Finish(r)
    /\ UNCHANGED <<sale, quantity, intent, tickets, credited, outlived, overwritten,
                   settlementVars>>

(* The seats go back on sale and the order fails.                           *)
FailOrder(r) ==
  LET o == request[r].on IN
    /\ request[r].at = "fail" /\ RowIsFree(o)
    /\ sold' = sold - quantity[o] /\ sale' = "ACTIVE"
    /\ order' = [order EXCEPT ![o] = "FAILED"]
    /\ Finish(r)
    /\ UNCHANGED <<quantity, intent, tickets, credited, outlived, overwritten,
                   settlementVars>>

(* Tickets, the order's update and the journal, not committed yet; accrue   *)
(* reads the pending settlement.                                            *)
BookProceeds(r) ==
  LET o == request[r].on
      booking(found, total) ==
        [at |-> "book", on |-> o, found |-> found, total |-> total]
  IN
    /\ request[r].at = "issue" /\ RowIsFree(o)
    /\ IF Pending = {}
         THEN Continue(r, booking("none", 0))
         ELSE \E s \in Pending : Continue(r, booking(s, settlement[s].net))
    /\ UNCHANGED <<seats, sales, lock, outlived, overwritten, settlementVars>>

(* Mutant: the share replaces the total.                                    *)
AccrueLast(found, total, net) ==
  IF found = "none"
    THEN (\E s \in Settlements : OpenWith(s, net)) /\ UNCHANGED overwritten
    ELSE /\ AddTo(found, net)
         /\ overwritten' = (overwritten \/ settlement[found].net # total)

(* What accrue writes.                                                      *)
Accrue(found, total, net) ==
  IF found = "none"
    THEN (\E s \in Settlements : OpenWith(s, net)) /\ UNCHANGED overwritten
    ELSE /\ AddTo(found, total + net)
         /\ overwritten' = (overwritten \/ settlement[found].net # total)

(* The commit of issueTickets.                                              *)
IssueTickets(r) ==
  LET o == request[r].on IN
    /\ request[r].at = "book"
    /\ Accrue(request[r].found, request[r].total, Net(o))
    /\ order' = [order EXCEPT ![o] = "ISSUED"]
    /\ tickets' = [tickets EXCEPT ![o] = @ + quantity[o]]
    /\ credited' = [credited EXCEPT ![o] = @ + Net(o)]
    /\ Finish(r)
    /\ UNCHANGED <<seats, quantity, intent, outlived>>

(* An exception or a restart: an open transaction is rolled back.           *)
Abandon(r) ==
  /\ request[r] # Waiting
  /\ Finish(r)
  /\ UNCHANGED <<seats, sales, outlived, overwritten, settlementVars>>

(* The 15 s of the lock are over and its request is not.                    *)
LockExpires(o) ==
  /\ lock[o] # "free"
  /\ lock' = [lock EXCEPT ![o] = "free"]
  /\ outlived' = outlived \cup {o}
  /\ UNCHANGED <<seats, sales, request, overwritten, settlementVars>>

Next ==
  \/ \E o \in Orders, q \in Quantities : CreateOrder(o, q)
  \/ \E o \in Orders : StartPaymentOf(o) \/ AdminResolve(o) \/ LockExpires(o)
  \/ \E r \in Requests, o \in Orders : Drive(r, o)
  \/ \E r \in Requests :
       \/ Poll(r) \/ FailOrder(r)
       \/ BookProceeds(r) \/ IssueTickets(r) \/ Abandon(r)
  \/ OperatorStep /\ UNCHANGED <<seats, sales, request, lock, outlived, overwritten>>

Spec == Init /\ [][Next]_vars
=============================================================================
