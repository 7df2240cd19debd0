--------------------------- MODULE BoxOfficeProps ---------------------------
(***************************************************************************)
(* What must hold of BoxOffice and its settlements.                        *)
(***************************************************************************)
EXTENDS BoxOffice, Sums

Live == {o \in Orders : order[o] \in {"AWAITING_PAYMENT", "ISSUED"}}

(* Every seat sold belongs to an order that waits for its payment or has    *)
(* its tickets, and the type is off sale exactly when all are sold: seats   *)
(* come back once when an order fails, however requests, operators and the  *)
(* rail interleave, as long as no request outlives its lock.  A type made   *)
(* with no seats, which nothing refuses, has none to sell and stays on sale.*)
SeatsFollowOrders ==
  outlived = {} =>
    /\ sold = SumOver(quantity, Live)
    /\ Capacity > 0 => sale = SaleAfter(sold)

(* README.md:138 "DB-level oversell protection": no more tickets exist or   *)
(* are promised than there are seats, as long as no request outlives its    *)
(* lock; a second failure of the same order is what the row does not stop.  *)
NeverOversold ==
  outlived = {} =>
    SumOver(tickets, Orders)
      + SumOver(quantity, {o \in Live : tickets[o] = 0}) <= Capacity

(* tickets.service.ts:134: driving an order is idempotent.  Its tickets and *)
(* its journal exist once, exactly when it is ISSUED, unless the lock of    *)
(* that very order expired under a request.                                 *)
IssuedOnce ==
  \A o \in Orders \ outlived :
    /\ tickets[o] = IF order[o] = "ISSUED" THEN quantity[o] ELSE 0
    /\ credited[o] = IF order[o] = "ISSUED" THEN Net(o) ELSE 0

(* The settlements of the event add up to what the journals of its orders   *)
(* credited to the organiser, even when an order was issued twice, unless   *)
(* an accrual wrote over another one: that race is the only way to lose     *)
(* proceeds.                                                                *)
ProceedsAreAccrued ==
  ~overwritten =>
    SumOver([s \in Settlements |-> settlement[s].net], Settlements)
      = SumOver(credited, Orders)

(* Whatever operators, retries and stops interleave, the organiser's        *)
(* account is only debited for a payout that was paid, and a settlement     *)
(* that reads PAID has its journal.                                         *)
DebitedIsPaid ==
  \A s \in Settlements :
    /\ debited[s] > 0 => payout[s].status = "PAID"
    /\ settlement[s].status = "PAID" => debited[s] > 0

(* A settlement that no two operators handled at once, and to which nothing *)
(* was accrued once its payout was begun, is debited once, by the amount    *)
(* that was paid out; and a PAID one is settled to the last franc.          *)
PaidInFull ==
  \A s \in Settlements \ (contested \cup late) :
    /\ debited[s] \in {0, payout[s].amount}
    /\ settlement[s].status = "PAID" =>
         debited[s] = settlement[s].net /\ payout[s].amount = settlement[s].net

-----------------------------------------------------------------------------
(* The inductive invariant behind IssuedOnce and DebitedIsPaid.             *)

OrderHasSeats(o) == order[o] # "NONE" => quantity[o] > 0

(* A request has the lock of its order to itself, and what it read of the   *)
(* order still holds, unless the lock expired under a request.              *)
RequestKnows(r) ==
  request[r] # Waiting =>
    LET o == request[r].on IN
      /\ order[o] # "NONE"
      /\ o \notin outlived => lock[o] = r /\ order[o] = "AWAITING_PAYMENT"

RowHasNet(s) == settlement[s].status # "NONE" => settlement[s].net > 0

(* An operator who is about to record a payment knows it was paid; nobody   *)
(* takes that back.                                                         *)
OperatorKnows(a) ==
  operator[a] # Away =>
    LET s == operator[a].on IN
      /\ settlement[s].status # "NONE"
      /\ operator[a].net > 0
      /\ operator[a].at = "paid" => payout[s].status = "PAID"

IInv ==
  /\ TypeOK
  /\ IssuedOnce /\ DebitedIsPaid
  /\ \A o \in Orders : OrderHasSeats(o)
  /\ \A r \in Requests : RequestKnows(r)
  /\ \A s \in Settlements : RowHasNet(s)
  /\ \A a \in Operators : OperatorKnows(a)

-----------------------------------------------------------------------------
(* What the other four need besides IInv.                                   *)

(* Only a sale that was checked adds to the seats sold.                     *)
SeatsInv == SeatsFollowOrders /\ sold <= Capacity

(* The row an accrual has found exists, and a row that does not has nothing.*)
ProceedsInv ==
  /\ ProceedsAreAccrued
  /\ \A s \in Settlements : settlement[s].status = "NONE" => settlement[s].net = 0
  /\ \A r \in Requests :
       request[r] # Waiting /\ request[r].at = "book" /\ request[r].found # "none" =>
         settlement[request[r].found].status # "NONE"

(* The status a row has while its one operator is there.                    *)
StatusAt(place) ==
  CASE place = "approve"        -> "PENDING"
    [] place \in {"pay", "mark"} -> "APPROVED"
    [] OTHER                    -> "PROCESSING"

(* An operator nobody joined is alone on a row that has the status the      *)
(* steps so far gave it; what was read of it holds until something is       *)
(* accrued.                                                                 *)
OperatorIsAlone(a) ==
  operator[a] # Away =>
    LET s == operator[a].on IN
      /\ operator[a].at \notin {"approve", "pay"} => payout[s] # NoPayout
      /\ s \notin contested =>
           /\ settlement[s].status = StatusAt(operator[a].at)
           /\ AtWorkOn(s) \subseteq {a}
      /\ s \notin late /\ operator[a].at # "approve" => operator[a].net = settlement[s].net

RowIsSettled(s) ==
  /\ payout[s] # NoPayout => settlement[s].status # "NONE"
  /\ s \notin late /\ payout[s] # NoPayout => payout[s].amount = settlement[s].net
  /\ s \notin contested /\ debited[s] > 0 => settlement[s].status = "PAID"
  /\ s \notin contested \cup late => debited[s] \in {0, settlement[s].net}

PaymentInv ==
  /\ \A a \in Operators : OperatorIsAlone(a)
  /\ \A s \in Settlements : RowIsSettled(s)
=============================================================================
