----------------------------- MODULE DeskProps -----------------------------
(* What the desk's books promise.                                          *)
EXTENDS Desk, Sums

QuoteRow == {d \in Deals : quote[d].at = "ACTIVE"}

(* A customer who buys and sells back at the prices of one configuration   *)
(* never gains by it, whatever rules the admins wrote, as long as the two   *)
(* quotes show spreads that do not cross and fees that are not negative:    *)
(* the roundings of pricing.math.ts, of amounts and of fees, are against    *)
(* the customer.  The figures are those the quotes keep (PriceQuote); a     *)
(* rule may make them negative, and the code refuses none.                  *)
NobodyGainsByTurning ==
  \A b, s \in QuoteRow :
    /\ quote[b].side = "BUY_USDT" /\ quote[s].side = "SELL_USDT"
    /\ quote[b].version = quote[s].version
    /\ quote[s].usdt <= quote[b].usdt
    /\ quote[b].spread + quote[s].spread >= 0
    /\ quote[b].fees >= 0 /\ quote[s].fees >= 0
    => quote[s].gnf <= quote[b].gnf

(* Whatever admins update at once, one version of the configuration is     *)
(* active, the last (pricing.service.ts updateConfig).                     *)
OneActiveConfig == ActiveConfigs = {LastConfig}

Quantities == [i \in DOMAIN lots |-> lots[i].quantity]

(* A purchase is credited to cold storage when it gets its lot, once,      *)
(* whatever operators set its status at once (suppliers.service.ts).       *)
PurchaseReceivedOnce ==
  \A p \in Purchases :
    /\ Cardinality(LotOf(p)) <= 1
    /\ cold[p] = SumOver(Quantities, LotOf(p))
    /\ purchase[p] = "CONFIRMED" => LotOf(p) # {}

(* What a lot no longer holds was sold, to orders whose cost of goods      *)
(* counts it: two sales never take the same dollars from it, but when one  *)
(* of them had no reservation to lock the account (inventory.service.ts    *)
(* consumeFifo reads and writes the lots without a lock of its own).       *)
SalesFrom(i) == {d \in Orders : sale[d].at = "done" /\ i \in DOMAIN sale[d].took}

SoldFrom(i) == SumOver([d \in SalesFrom(i) |-> sale[d].took[i]], SalesFrom(i))

LotsAccountForSales ==
  \A i \in DOMAIN lots :
    /\ lots[i].remaining \in 0 .. lots[i].quantity
    /\ ~overlapped => lots[i].quantity - lots[i].remaining = SoldFrom(i)

-----------------------------------------------------------------------------
(* The inductive invariant behind them, in three parts.                    *)

(* The versions written are 1 .. n, the last is active; an update whose    *)
(* next version is still free has found that one active.                   *)
ConfigRow == [row : BOOLEAN, active : BOOLEAN, reference : Nat, buffer : Int]

Newest(n) ==
  /\ n \in Versions /\ config \in [Versions -> ConfigRow]
  /\ \A v \in Versions : /\ config[v].row <=> v <= n
                         /\ config[v].active <=> v = n
  /\ \A a \in Admins :
       updating[a].at = "begun" =>
         updating[a].last \in 1 .. n /\ (updating[a].last = n => updating[a].rows = {n})

ConfigOK == DOMAIN updating = Admins /\ \E n \in Versions : Newest(n)

(* The rate is the reference of the quote's version, which stays what it    *)
(* was, with the spread shown; and when the fee shown is not negative, the  *)
(* amounts are, within half a franc, no better than that rate.              *)
AgainstCustomer(q) ==
  LET value == 2 * (q.usdt * q.rate)
      unit == Bps * UsdtUnits
  IN  /\ q.side = "BUY_USDT" => value < (2 * q.gnf + 1) * unit
      /\ q.side = "SELL_USDT" => q.gnf <= 0 \/ (2 * q.gnf - 1) * unit < value

Active(q) ==
  /\ q.at = "ACTIVE" /\ q.side \in Sides /\ q.version \in Configs
  /\ q.rate \in Nat \ {0} /\ q.spread \in Int
  /\ q.gnf \in Int /\ q.usdt \in Int /\ q.fees \in Int
  /\ LET reference == config[q.version].reference * Bps
     IN  /\ q.side = "BUY_USDT" => q.rate = reference + q.spread /\ q.usdt \in Nat
         /\ q.side = "SELL_USDT" => q.rate = reference - q.spread
  /\ q.fees >= 0 => AgainstCustomer(q)

Asked(q) == q.at = "ASKED" /\ q.request \in Requests /\ q.version \in Configs

QuotesOK ==
  /\ rules \subseteq RuleRows /\ IsFiniteSet(rules)
  /\ DOMAIN quote = Deals
  /\ \A d \in Deals : quote[d] = NoQuote \/ Asked(quote[d]) \/ Active(quote[d])

(* Lots are only added; a sale that has read them read the first ones, as  *)
(* they still are unless another sale read them too.                       *)
LotRow == [purchase : Purchases \cup {0}, quantity : Nat, remaining : Nat, cost : Int]

LotsRead(d) ==
  LET left == sale[d].left
  IN  \E k \in 0 .. Len(lots) :
        /\ left \in [1 .. k -> Nat]
        /\ \A i \in 1 .. k : left[i] <= lots[i].quantity
                             /\ (~overlapped => left[i] = lots[i].remaining)

StockOK ==
  /\ lots \in Seq(LotRow) /\ overlapped \in BOOLEAN
  /\ purchase \in [Purchases -> PurchaseStatus] /\ cold \in [Purchases -> Nat]
  /\ setting \in [Operators -> {[at |-> "idle"]}
                    \cup [at : {"write"}, purchase : Purchases, status : Settable]]
  /\ DOMAIN sale = Orders
  /\ \A d \in Reading : LotsRead(d)
  /\ ~overlapped => \A d, e \in Reading : d = e
  /\ \A d \in Orders :
       sale[d].at = "done" => \E k \in 0 .. Len(lots) : sale[d].took \in [1 .. k -> Nat]

DeskInv ==
  ConfigOK /\ QuotesOK /\ StockOK /\ PurchaseReceivedOnce /\ LotsAccountForSales
=============================================================================
