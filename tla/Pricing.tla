------------------------------ MODULE Pricing ------------------------------
(***************************************************************************)
(* The price list of the exchange and the quotes it gives                  *)
(* (apps/api/src/modules/pricing/pricing.service.ts, pricing.math.ts,      *)
(* packages/money): versions of the configuration written by admins, rules *)
(* switched on and off, quotes made from both.  What becomes of a quote is *)
(* in Checkout.                                                            *)
(*                                                                         *)
(* The code computes on decimals of 40 digits and rounds the result to the *)
(* asset's scale: here the same results are quotients of integers.  GNF    *)
(* amounts are whole francs, USDT amounts are counted in the smallest      *)
(* unit, 1 / UsdtUnits of a dollar; percentages are counted in 1 / Bps; a  *)
(* rate or a spread, GNF per USDT, is counted in 1 / Bps of a franc.       *)
(***************************************************************************)
EXTENDS Integers, FiniteSets, FiniteSetsExt

CONSTANTS
  UsdtUnits,        \* 10^6 in assets.ts
  Bps,              \* 10000
  Admins,           \* admins who update the configuration
  MaxVersion,       \* bound: versions of the configuration
  References,       \* reference rates the admins enter, in francs
  Buffers,          \* risk buffers they enter, in 1 / Bps, of either sign
  RuleRows,         \* rows the admins write in PricingRule
  DefaultSpread,    \* [Sides -> Nat]: buySpreadBps and sellSpreadBps
  Segments,         \* client segments and promo codes
  Least, Most,      \* [Given -> Nat]: minGnfAmount, maxGnfAmount and USDT's
  Requests,         \* what customers ask for
  Deals             \* quotes the customers ask for

None == -1
Versions == 1 .. MaxVersion

Sides == {"BUY_USDT", "SELL_USDT"}
Given == {"GNF", "USDT"}

(* The parameters of a rule: RuleDto takes any figures, and a PROMO may     *)
(* have a spread or a fee below zero.                                       *)
Params == [spreadAbs : Int, spreadPct : Int, feeFixed : Int, feePct : Int]

(* A negative maxUsdt is as good as no rule: no volume fits.               *)
Rule == [id : Nat, side : Sides, minUsdt : Int, maxUsdt : Nat \cup {None},
         segment : Segments \cup {None}, rank : Nat, params : Params]

Request == [side : Sides, given : Given, amount : Nat, segment : Segments \cup {None}]

(* The DTO takes no sign for the reference and the bounds, and the          *)
(* environment's default spreads are non-negative (env.validation.ts).      *)
ASSUME PricingAssumption ==
  /\ UsdtUnits \in Nat \ {0} /\ Bps \in Nat \ {0}
  /\ MaxVersion \in Nat \ {0}
  /\ References \subseteq Nat /\ Buffers \subseteq Int
  /\ RuleRows \subseteq Rule /\ DefaultSpread \in [Sides -> Nat]
  /\ Least \in [Given -> Nat] /\ Most \in [Given -> Nat]
  /\ Requests \subseteq Request

VARIABLES
  config,           \* PricingConfig rows, by version
  updating,         \* where each admin's updateConfig is
  rules,            \* the active rows of PricingRule
  quote             \* PriceQuote rows, and the requests being answered

pricingVars == <<config, updating, rules, quote>>

NoConfig == [row |-> FALSE, active |-> FALSE, reference |-> 0, buffer |-> 0]
NoQuote == [at |-> "NONE"]
NoUpdate == [at |-> "idle"]

Configs == {v \in Versions : config[v].row}
ActiveConfigs == {v \in Versions : config[v].active}
LastConfig == IF Configs = {} THEN 0 ELSE Max(Configs)

(* The seed's configuration, and no rule.                                  *)
PricingInit ==
  /\ \E r \in References, b \in Buffers :
       config = [v \in Versions |->
         IF v = 1 THEN [row |-> TRUE, active |-> TRUE, reference |-> r, buffer |-> b]
                  ELSE NoConfig]
  /\ updating = [a \in Admins |-> NoUpdate]
  /\ rules = {}
  /\ quote = [d \in Deals |-> NoQuote]

-----------------------------------------------------------------------------
(* updateConfig, a transaction: read the last version; mark inactive the   *)
(* rows that were active when the statement began; create the next version.*)
(* The locks of the rows make the second of two admins wait for the first's*)
(* commit, so the writes are one step.  So are the reads: when an admin    *)
(* commits between them the version is taken, whichever rows were found.   *)

BeginUpdate(a) ==
  /\ updating[a].at = "idle" /\ LastConfig < MaxVersion
  /\ updating' = [updating EXCEPT ![a] =
       [at |-> "begun", last |-> LastConfig, rows |-> ActiveConfigs]]
  /\ UNCHANGED <<config, rules, quote>>

(* The rows are updated if they are still active once the lock is had.     *)
Deactivated(rows) ==
  [v \in Versions |-> [config[v] EXCEPT !.active = @ /\ v \notin rows]]

(* Mutant: the version is not unique, the second admin writes the next one.*)
CreateNext(a) ==
  /\ updating[a].at = "begun" /\ LastConfig < MaxVersion
  /\ \E r \in References, b \in Buffers :
       config' = [Deactivated(updating[a].rows) EXCEPT ![LastConfig + 1] =
                    [row |-> TRUE, active |-> TRUE, reference |-> r, buffer |-> b]]
  /\ updating' = [updating EXCEPT ![a] = NoUpdate]
  /\ UNCHANGED <<rules, quote>>

CreateVersion(a) ==
  /\ updating[a].at = "begun" /\ updating[a].last + 1 \in Versions \ Configs
  /\ \E r \in References, b \in Buffers :
       config' = [Deactivated(updating[a].rows) EXCEPT ![updating[a].last + 1] =
                    [row |-> TRUE, active |-> TRUE, reference |-> r, buffer |-> b]]
  /\ updating' = [updating EXCEPT ![a] = NoUpdate]
  /\ UNCHANGED <<rules, quote>>

(* The version exists (@@unique([version])), or the server stops: the      *)
(* transaction is rolled back.                                             *)
DropUpdate(a) ==
  /\ updating[a].at # "idle"
  /\ updating' = [updating EXCEPT ![a] = NoUpdate]
  /\ UNCHANGED <<config, rules, quote>>

(* upsertRule writes a row, in the place of the one with its id; deleteRule*)
(* marks one inactive.                                                     *)
UpsertRule(r) ==
  /\ rules' = {s \in rules : s.id # r.id} \cup {r}
  /\ UNCHANGED <<config, updating, quote>>

DeleteRule(r) ==
  /\ r \in rules
  /\ rules' = rules \ {r}
  /\ UNCHANGED <<config, updating, quote>>

-----------------------------------------------------------------------------
(* effectiveRate and computePrice (pricing.math.ts).                       *)

Abs(a) == IF a < 0 THEN - a ELSE a

(* a / b is rounded by its magnitude, whatever the signs; b # 0.           *)
Signed(a, b, magnitude) == IF (a < 0) # (b < 0) THEN - magnitude ELSE magnitude

(* toDecimalPlaces(_, ROUND_DOWN), ROUND_UP, and quantize's ROUND_HALF_UP. *)
Down(a, b) == Signed(a, b, Abs(a) \div Abs(b))
Up(a, b) == Signed(a, b, - ((- Abs(a)) \div Abs(b)))
HalfUp(a, b) == Signed(a, b, (2 * Abs(a) + Abs(b)) \div (2 * Abs(b)))

(* The total spread, the risk buffer included.                             *)
Spread(reference, buffer, rule) ==
  reference * (rule.spreadPct + buffer) + rule.spreadAbs * Bps

(* Mutant: the spread is on the other side.                                *)
EffectiveRateSwapped(side, reference, buffer, rule) ==
  IF side = "SELL_USDT" THEN reference * Bps + Spread(reference, buffer, rule)
                        ELSE reference * Bps - Spread(reference, buffer, rule)

EffectiveRate(side, reference, buffer, rule) ==
  IF side = "BUY_USDT" THEN reference * Bps + Spread(reference, buffer, rule)
                       ELSE reference * Bps - Spread(reference, buffer, rule)

(* What is left of gnf francs after the fees, in 1 / Bps of a franc.       *)
AfterFees(gnf, rule) == gnf * (Bps - rule.feePct) - rule.feeFixed * Bps

UsdtBought(gnf, rate, rule) == Down(AfterFees(gnf, rule) * UsdtUnits, rate)

GnfToPay(usdt, rate, rule) ==
  Up(usdt * rate + rule.feeFixed * (Bps * UsdtUnits), UsdtUnits * (Bps - rule.feePct))

(* The fees of a sale of USDT, in 1 / Bps^2 / UsdtUnits of a franc.        *)
FeesOfSale(usdt, rate, rule) ==
  rule.feeFixed * (Bps * Bps * UsdtUnits) + usdt * rate * rule.feePct

GnfPaidOut(usdt, rate, rule) ==
  Down(usdt * rate * Bps - FeesOfSale(usdt, rate, rule), Bps * Bps * UsdtUnits)

UsdtToSell(gnf, rate, rule) ==
  Up((gnf + rule.feeFixed) * Bps * (Bps * UsdtUnits), (Bps - rule.feePct) * rate)

(* The two amounts of a price: gnf and usdt.                               *)
Amounts(side, given, amount, rate, rule) ==
  IF side = "BUY_USDT"
  THEN IF given = "GNF"
       THEN [gnf |-> amount, usdt |-> UsdtBought(amount, rate, rule)]
       ELSE [gnf |-> GnfToPay(amount, rate, rule), usdt |-> amount]
  ELSE IF given = "USDT"
       THEN [gnf |-> GnfPaidOut(amount, rate, rule), usdt |-> amount]
       ELSE [gnf |-> amount, usdt |-> UsdtToSell(amount, rate, rule)]

(* The fee a quote shows, in whole francs: what separates the GNF amount   *)
(* from the value of the USDT at the rate.                                 *)
FeesGnf(side, given, amount, rate, rule) ==
  CASE side = "BUY_USDT" /\ given = "GNF" ->
         HalfUp(rule.feeFixed * Bps + amount * rule.feePct, Bps)
    [] side = "BUY_USDT" /\ given = "USDT" ->
         HalfUp(GnfToPay(amount, rate, rule) * (Bps * UsdtUnits) - amount * rate,
                Bps * UsdtUnits)
    [] side = "SELL_USDT" /\ given = "USDT" ->
         HalfUp(FeesOfSale(amount, rate, rule), Bps * Bps * UsdtUnits)
    [] OTHER ->
         HalfUp((amount + rule.feeFixed) * Bps - amount * (Bps - rule.feePct),
                Bps - rule.feePct)

(* computePrice answers: it refuses a rate that is not positive and an     *)
(* amount the fees use up; a fee of exactly the whole divides by zero, and *)
(* Money.of refuses the result.                                            *)
Priced(side, given, amount, rate, rule) ==
  /\ rate > 0
  /\ side = "BUY_USDT" /\ given = "GNF" => AfterFees(amount, rule) > 0
  /\ side = "SELL_USDT" /\ given = "USDT" => GnfPaidOut(amount, rate, rule) > 0
  /\ <<side, given>> \in {<<"BUY_USDT", "USDT">>, <<"SELL_USDT", "GNF">>} => rule.feePct # Bps

-----------------------------------------------------------------------------
(* quote.                                                                  *)

DefaultRule(side) ==
  [spreadAbs |-> 0, spreadPct |-> DefaultSpread[side], feeFixed |-> 0, feePct |-> 0]

(* pickRule: of the active rules for the volume and the segment, the first *)
(* by priority; the default spread if there is none.  Their validity dates *)
(* are left to the admins, who switch them.                                *)
Fits(r, side, volume, segment) ==
  /\ r.side = side /\ r.segment \in {None, segment}
  /\ r.minUsdt <= volume /\ (r.maxUsdt # None => volume <= r.maxUsdt)

PickRule(side, volume, segment) ==
  LET fitting == {r \in rules : Fits(r, side, volume, segment)}
  IN  IF fitting = {} THEN DefaultRule(side)
      ELSE (CHOOSE r \in fitting : \A s \in fitting : s.rank <= r.rank).params

(* getActiveConfig, and the bounds on the amount given.                    *)
AskQuote(d, r) ==
  /\ quote[d] = NoQuote /\ ActiveConfigs # {}
  /\ Least[r.given] <= r.amount /\ r.amount <= Most[r.given]
  /\ quote' = [quote EXCEPT ![d] =
       [at |-> "ASKED", request |-> r, version |-> Max(ActiveConfigs)]]
  /\ UNCHANGED <<config, updating, rules>>

(* computePrice for a request, with one rule.                              *)
SpreadOf(q, rule) == Spread(config[q.version].reference, config[q.version].buffer, rule)

RateOf(q, rule) ==
  EffectiveRate(q.request.side, config[q.version].reference, config[q.version].buffer, rule)

Computes(q, rule) ==
  Priced(q.request.side, q.request.given, q.request.amount, RateOf(q, rule), rule)

ComputePrice(q, rule) ==
  Amounts(q.request.side, q.request.given, q.request.amount, RateOf(q, rule), rule)

(* The tier is chosen by the volume the default rule gives; the price is   *)
(* then computed with its rule and is not sent back to the tiers.          *)
RuleOf(q) ==
  PickRule(q.request.side, ComputePrice(q, DefaultRule(q.request.side)).usdt,
           q.request.segment)

QuoteAnswers(q) ==
  /\ Computes(q, DefaultRule(q.request.side))
  /\ Computes(q, RuleOf(q)) /\ ComputePrice(q, RuleOf(q)).usdt # 0

GiveQuote(d) ==
  LET q == quote[d]
      rule == RuleOf(q)
      price == ComputePrice(q, rule)
  IN  /\ q.at = "ASKED" /\ QuoteAnswers(q)
      /\ quote' = [quote EXCEPT ![d] =
           [at |-> "ACTIVE", side |-> q.request.side, version |-> q.version,
            rate |-> RateOf(q, rule), spread |-> SpreadOf(q, rule),
            gnf |-> price.gnf, usdt |-> price.usdt,
            fees |-> FeesGnf(q.request.side, q.request.given, q.request.amount,
                             RateOf(q, rule), rule)]]
      /\ UNCHANGED <<config, updating, rules>>

(* The request is refused: no price, or an amount too small for one.       *)
RefuseQuote(d) ==
  /\ quote[d].at = "ASKED" /\ ~QuoteAnswers(quote[d])
  /\ quote' = [quote EXCEPT ![d] = NoQuote]
  /\ UNCHANGED <<config, updating, rules>>

PricingNext ==
  \/ \E a \in Admins :
       BeginUpdate(a) \/ CreateVersion(a) \/ DropUpdate(a)
  \/ \E r \in RuleRows : UpsertRule(r) \/ DeleteRule(r)
  \/ \E d \in Deals : (\E r \in Requests : AskQuote(d, r)) \/ GiveQuote(d) \/ RefuseQuote(d)

=============================================================================
