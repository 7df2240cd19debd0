-------------------------------- MODULE Desk --------------------------------
(***************************************************************************)
(* The trading desk: the stock of USDT and what it cost, beside the price  *)
(* list.  Purchases from suppliers and USDT bought from customers make     *)
(* lots, sales consume them first in, first out                            *)
(* (apps/api/src/modules/suppliers/inventory.service.ts,                   *)
(* suppliers.service.ts).  A sale is the transaction completeBuy of        *)
(* crypto.service.ts, a deposit the crypto-confirmed transaction of its    *)
(* driveSell.  A quote that becomes an order is sold from the stock, or    *)
(* adds to it; the order's own life, between the two, is in BuyOrder and   *)
(* SellOrder.                                                              *)
(***************************************************************************)
EXTENDS Pricing, Sequences

CONSTANTS
  Purchases,        \* SupplierPurchase rows
  Quantity,         \* [Purchases -> Nat]: quantityUsdt, in units
  PaidGnf,          \* [Purchases -> Nat]: purchaseAmount, in francs
  Operators,        \* operators who set the status of a purchase
  Settable,         \* statuses they set; REJECTED stands for all but CONFIRMED
  Orders            \* customers' orders

(* 0 is the purchase of a lot that comes from a customer.                  *)
ASSUME InventoryAssumption ==
  /\ 0 \notin Purchases /\ IsFiniteSet(Orders)
  /\ Quantity \in [Purchases -> Nat \ {0}] /\ PaidGnf \in [Purchases -> Nat \ {0}]
  /\ Settable \subseteq {"CONFIRMED", "REJECTED", "CANCELLED", "PENDING"}

VARIABLES
  purchase,         \* SupplierPurchase status
  setting,          \* where each operator's request is
  lots,             \* InventoryLot rows, in order of creation
  cold,             \* history: USDT credited to the COLD bucket, by purchase
  sale,             \* each order's completion
  overlapped        \* history: two sales had read the lots at once

inventoryVars == <<purchase, setting, lots, cold, sale, overlapped>>

PurchaseStatus == {"NONE", "PENDING", "CONFIRMED", "REJECTED", "CANCELLED"}

InventoryInit ==
  /\ purchase = [p \in Purchases |-> "NONE"]
  /\ setting = [o \in Operators |-> [at |-> "idle"]]
  /\ lots = <<>>
  /\ cold = [p \in Purchases |-> 0]
  /\ sale = [d \in Orders |-> [at |-> "NONE"]]
  /\ overlapped = FALSE

-----------------------------------------------------------------------------
(* Purchases.                                                              *)

CreatePurchase(p) ==
  /\ purchase[p] = "NONE"
  /\ purchase' = [purchase EXCEPT ![p] = "PENDING"]
  /\ UNCHANGED <<setting, lots, cold, sale, overlapped>>

(* createPurchase: the cost of a dollar, rounded to whole francs.          *)
UnitCost(p) == HalfUp(PaidGnf[p] * UsdtUnits, Quantity[p])

(* setPurchaseStatus reads the row outside the transaction.                *)
ReadPurchase(o, p, status) ==
  /\ setting[o].at = "idle" /\ purchase[p] \notin {"NONE", "CONFIRMED"}
  /\ setting' = [setting EXCEPT ![o] = [at |-> "write", purchase |-> p, status |-> status]]
  /\ UNCHANGED <<purchase, lots, cold, sale, overlapped>>

WriteStatus(o) ==
  /\ setting[o].at = "write" /\ setting[o].status # "CONFIRMED"
  /\ purchase' = [purchase EXCEPT ![setting[o].purchase] = setting[o].status]
  /\ setting' = [setting EXCEPT ![o] = [at |-> "idle"]]
  /\ UNCHANGED <<lots, cold, sale, overlapped>>

LotOf(p) == {i \in DOMAIN lots : lots[i].purchase = p}

(* addLot: the cost is kept in whole francs.                               *)
AddLot(source, quantity, cost) ==
  lots' = Append(lots, [purchase |-> source, quantity |-> quantity,
                        remaining |-> quantity, cost |-> cost])

(* Mutant: InventoryLot.purchaseId is not unique.                          *)
ConfirmAgain(o) ==
  LET p == setting[o].purchase
  IN  /\ setting[o].at = "write" /\ setting[o].status = "CONFIRMED"
      /\ purchase' = [purchase EXCEPT ![p] = "CONFIRMED"]
      /\ AddLot(p, Quantity[p], UnitCost(p))
      /\ cold' = [cold EXCEPT ![p] = @ + Quantity[p]]
      /\ setting' = [setting EXCEPT ![o] = [at |-> "idle"]]
      /\ UNCHANGED <<sale, overlapped>>

(* The transaction that receives a purchase: it is rolled back if the      *)
(* purchase has a lot (purchaseId is unique).                              *)
Confirm(o) ==
  LET p == setting[o].purchase
  IN  /\ setting[o].at = "write" /\ setting[o].status = "CONFIRMED"
      /\ LotOf(p) = {}
      /\ purchase' = [purchase EXCEPT ![p] = "CONFIRMED"]
      /\ AddLot(p, Quantity[p], UnitCost(p))
      /\ cold' = [cold EXCEPT ![p] = @ + Quantity[p]]
      /\ setting' = [setting EXCEPT ![o] = [at |-> "idle"]]
      /\ UNCHANGED <<sale, overlapped>>

(* The request fails, or the server stops: nothing is written.             *)
DropSetting(o) ==
  /\ setting[o].at = "write"
  /\ setting' = [setting EXCEPT ![o] = [at |-> "idle"]]
  /\ UNCHANGED <<purchase, lots, cold, sale, overlapped>>

-----------------------------------------------------------------------------
(* Sales.  A sale's transaction locks the HOT account for as long as it    *)
(* runs, when it consumes a reservation that is still HELD.                *)

Reading == {d \in Orders : sale[d].at = "read"}
HotLocked == \E d \in Reading : sale[d].held

(* An order's USDT has left, its completion can begin.                     *)
OpenSale(d, held) ==
  /\ sale[d].at = "NONE"
  /\ sale' = [sale EXCEPT ![d] = [at |-> "open", held |-> held]]
  /\ UNCHANGED <<purchase, setting, lots, cold, overlapped>>

(* Mutant: the lots are read before the reservation is consumed.           *)
ReadLotsUnlocked(d) ==
  /\ sale[d].at = "open"
  /\ sale' = [sale EXCEPT ![d] =
       [at |-> "read", held |-> @.held, left |-> [i \in DOMAIN lots |-> lots[i].remaining]]]
  /\ overlapped' = (overlapped \/ (Reading # {} /\ ~(sale[d].held /\ HotLocked)))
  /\ UNCHANGED <<purchase, setting, lots, cold>>

(* completeBuy, consumeReservation then consumeFifo's query of the lots.   *)
ReadLots(d) ==
  /\ sale[d].at = "open" /\ (sale[d].held => ~HotLocked)
  /\ sale' = [sale EXCEPT ![d] =
       [at |-> "read", held |-> @.held, left |-> [i \in DOMAIN lots |-> lots[i].remaining]]]
  /\ overlapped' = (overlapped \/ Reading # {})
  /\ UNCHANGED <<purchase, setting, lots, cold>>

(* consumeFifo: a lot gives what the older ones leave to take, up to what  *)
(* it holds.                                                               *)
Before(left, i) == MapThenSumSet(LAMBDA j : left[j], 1 .. i - 1)
Take(left, need, i) ==
  IF need <= Before(left, i) THEN 0
  ELSE IF need - Before(left, i) <= left[i] THEN need - Before(left, i) ELSE left[i]

Taken(left, need) == [i \in DOMAIN left |-> Take(left, need, i)]
Total(amount) == MapThenSumSet(LAMBDA i : amount[i], DOMAIN amount)

(* The cost of the goods sold: what is short is costed at the sale's rate. *)
Cogs(took, need, rate) ==
  HalfUp(MapThenSumSet(LAMBDA i : took[i] * lots[i].cost * Bps, DOMAIN took)
           + (need - Total(took)) * rate,
         Bps * UsdtUnits)

Margin(q, took) == q.gnf - Cogs(took, q.usdt, q.rate) - q.fees

(* LedgerService.post refuses a journal whose debits and credits differ:   *)
(* here francs received against cost, fees and the margin's absolute value.*)
(* It refuses a negative line as well, which only the fees may be.         *)
Balances(q, took) ==
  LET margin == Margin(q, took)
  IN  q.fees >= 0 /\ q.gnf = Cogs(took, q.usdt, q.rate) + q.fees + (IF margin < 0 THEN - margin ELSE margin)

Complete(d, q) ==
  LET took == Taken(sale[d].left, q.usdt)
  IN  /\ sale[d].at = "read" /\ Balances(q, took)
      /\ lots' = [i \in DOMAIN lots |->
           IF i \in DOMAIN took /\ took[i] > 0
           THEN [lots[i] EXCEPT !.remaining = sale[d].left[i] - took[i]] ELSE lots[i]]
      /\ sale' = [sale EXCEPT ![d] =
           [at |-> "done", took |-> took, cogs |-> Cogs(took, q.usdt, q.rate)]]
      /\ UNCHANGED <<purchase, setting, cold, overlapped>>

(* The transaction is rolled back: the journal does not balance, or the    *)
(* server stops.  The order is driven again later.                         *)
RollBack(d) ==
  /\ sale[d].at = "read"
  /\ sale' = [sale EXCEPT ![d] = [at |-> "open", held |-> @.held]]
  /\ UNCHANGED <<purchase, setting, lots, cold, overlapped>>

(* A customer's USDT is confirmed: credited to HOT, whose lock it waits    *)
(* for, and a lot at the rate, rounded to whole francs.  creditAvailable   *)
(* refuses an amount that is not positive.                                 *)
Deposit(d, q) ==
  /\ sale[d].at = "open" /\ ~HotLocked /\ q.usdt > 0
  /\ AddLot(0, q.usdt, HalfUp(q.rate, Bps))
  /\ sale' = [sale EXCEPT ![d] = [at |-> "lot"]]
  /\ UNCHANGED <<purchase, setting, cold, overlapped>>

-----------------------------------------------------------------------------
(* The desk: the price list and the stock, joined by the orders.           *)

ASSUME DeskAssumption == Orders = Deals

deskVars == <<pricingVars, inventoryVars>>

DeskInit == PricingInit /\ InventoryInit

(* An order whose USDT has left (BUY) or has come (SELL); its reservation  *)
(* may have been released on the way.  The payment of a BUY is refused when *)
(* it is not positive, and nothing is sent (creditBuyPaymentIfNeeded).     *)
Traded(d) ==
  /\ quote[d].at = "ACTIVE" /\ (quote[d].side = "BUY_USDT" => quote[d].gnf > 0)
  /\ \E held \in BOOLEAN : OpenSale(d, held)
  /\ UNCHANGED pricingVars

SellFromStock(d) ==
  /\ quote[d].at = "ACTIVE" /\ quote[d].side = "BUY_USDT"
  /\ ReadLots(d) \/ Complete(d, quote[d]) \/ RollBack(d)
  /\ UNCHANGED pricingVars

BuyIntoStock(d) ==
  /\ quote[d].at = "ACTIVE" /\ quote[d].side = "SELL_USDT"
  /\ Deposit(d, quote[d])
  /\ UNCHANGED pricingVars

Supply ==
  /\ \/ \E p \in Purchases : CreatePurchase(p)
     \/ \E o \in Operators, p \in Purchases, status \in Settable :
          ReadPurchase(o, p, status)
     \/ \E o \in Operators : WriteStatus(o) \/ Confirm(o) \/ DropSetting(o)
  /\ UNCHANGED pricingVars

DeskNext ==
  \/ PricingNext /\ UNCHANGED inventoryVars
  \/ \E d \in Orders : Traded(d) \/ SellFromStock(d) \/ BuyIntoStock(d)
  \/ Supply

DeskSpec == DeskInit /\ [][DeskNext]_deskVars
=============================================================================
