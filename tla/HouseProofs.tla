----------------------------- MODULE HouseProofs ----------------------------
(***************************************************************************)
(* Proofs about what the house keeps: the price list and the stock of the  *)
(* Desk, for any admins, rates, rules, purchases, operators and orders;    *)
(* then the Modems, for any modems, workers, intents and payouts.          *)
(***************************************************************************)
EXTENDS DeskProps, ModemsProps, TLAPS

-----------------------------------------------------------------------------
(* The last version is the largest that was written.                       *)
LEMMA NewestIsLast ==
  ASSUME NEW n \in Versions,
         \A v \in Versions : /\ config[v].row <=> v <= n
                             /\ config[v].active <=> v = n
  PROVE  LastConfig = n /\ ActiveConfigs = {n} /\ Configs # {}
<1>1. ActiveConfigs = {n} /\ n \in Configs /\ \A v \in Configs : v \in Versions /\ v <= n
  <2>1. ASSUME NEW v PROVE v \in ActiveConfigs <=> v = n
    BY Zenon DEF ActiveConfigs
  <2>2. n \in Configs
    BY PricingAssumption DEF Configs, Versions
  <2>3. ASSUME NEW v \in Configs PROVE v \in Versions /\ v <= n
    BY Zenon DEF Configs
  <2> QED BY <2>1, <2>2, <2>3
<1>2. \A x \in Configs : (\A y \in Configs : x >= y) => x = n
  BY <1>1 DEF Versions
<1>3. \A y \in Configs : n >= y
  BY <1>1 DEF Versions
<1>4. Max(Configs) = n
  BY <1>1, <1>2, <1>3 DEF Max
<1> QED BY <1>1, <1>4 DEF LastConfig

(* An update that finds the next version free found the last one active.   *)
LEMMA ConfigStep == ConfigOK /\ [DeskNext]_deskVars => ConfigOK'
<1> SUFFICES ASSUME ConfigOK, [DeskNext]_deskVars PROVE ConfigOK'
  OBVIOUS
<1> PICK n \in Versions : Newest(n)
  BY DEF ConfigOK
<1>0. LastConfig = n /\ ActiveConfigs = {n}
  BY NewestIsLast DEF Newest
<1>1. CASE UNCHANGED <<config, updating>>
  BY <1>1 DEF ConfigOK, Newest
<1>2. ASSUME NEW a \in Admins, BeginUpdate(a) PROVE ConfigOK'
  <2>1. /\ config' = config
        /\ updating' = [updating EXCEPT ![a] = [at |-> "begun", last |-> n, rows |-> {n}]]
    BY <1>0, <1>2 DEF BeginUpdate
  <2>2. /\ updating'[a] = [at |-> "begun", last |-> n, rows |-> {n}]
        /\ \A b \in Admins : b # a => updating'[b] = updating[b]
        /\ DOMAIN updating' = Admins
    BY <2>1 DEF ConfigOK
  <2>3. n \in 1 .. n
    BY PricingAssumption DEF Versions
  <2>4. \A b \in Admins :
          updating'[b].at = "begun" =>
            updating'[b].last \in 1 .. n /\ (updating'[b].last = n => updating'[b].rows = {n})
    <3> SUFFICES ASSUME NEW b \in Admins, updating'[b].at = "begun"
                 PROVE  /\ updating'[b].last \in 1 .. n
                        /\ updating'[b].last = n => updating'[b].rows = {n}
      OBVIOUS
    <3>1. CASE b = a
      BY <2>2, <2>3, <3>1
    <3>2. CASE b # a
      BY <2>2, <3>2 DEF Newest
    <3> QED BY <3>1, <3>2
  <2>5. Newest(n)'
    BY <2>1, <2>4 DEF Newest
  <2> QED BY <2>2, <2>5 DEF ConfigOK
<1>3. ASSUME NEW a \in Admins, DropUpdate(a) PROVE ConfigOK'
  BY <1>3 DEF DropUpdate, NoUpdate, ConfigOK, Newest
<1>4. ASSUME NEW a \in Admins, CreateVersion(a) PROVE ConfigOK'
  <2>1. /\ updating[a].at = "begun" /\ updating[a].last + 1 \in Versions \ Configs
        /\ updating' = [updating EXCEPT ![a] = NoUpdate]
    BY <1>4 DEF CreateVersion
  <2>2. updating[a].last = n /\ updating[a].rows = {n} /\ n + 1 \in Versions
    BY <2>1, PricingAssumption DEF Newest, Configs, Versions
  <2>3. PICK r \in References, b \in Buffers :
          config' = [Deactivated({n}) EXCEPT ![n + 1] =
                      [row |-> TRUE, active |-> TRUE, reference |-> r, buffer |-> b]]
    BY <1>4, <2>2 DEF CreateVersion
  <2>4. /\ config' \in [Versions -> ConfigRow] /\ config'[n + 1].row /\ config'[n + 1].active
        /\ \A v \in Versions : v # n + 1 =>
             /\ config'[v].row <=> config[v].row
             /\ config'[v].active <=> config[v].active /\ v # n
    <3>1. \A v \in Versions :
            /\ [config[v] EXCEPT !.active = @ /\ v \notin {n}] \in ConfigRow
            /\ [config[v] EXCEPT !.active = @ /\ v \notin {n}].row <=> config[v].row
            /\ [config[v] EXCEPT !.active = @ /\ v \notin {n}].active <=>
                 config[v].active /\ v # n
      BY DEF Newest, ConfigRow
    <3>2. /\ Deactivated({n}) \in [Versions -> ConfigRow]
          /\ \A v \in Versions : /\ Deactivated({n})[v].row <=> config[v].row
                                 /\ Deactivated({n})[v].active <=> config[v].active /\ v # n
      BY <3>1 DEF Deactivated
    <3>3. [row |-> TRUE, active |-> TRUE, reference |-> r, buffer |-> b] \in ConfigRow
      BY PricingAssumption DEF ConfigRow
    <3> QED BY <2>2, <2>3, <3>2, <3>3
  <2>5. \A c \in Admins : updating'[c].at = "begun" =>
          updating'[c] = updating[c] /\ updating[c].last \in 1 .. n
    BY <2>1 DEF ConfigOK, Newest, NoUpdate
  <2>6. Newest(n + 1)'
    <3>1. \A v \in Versions : /\ config'[v].row <=> v <= n + 1
                              /\ config'[v].active <=> v = n + 1
      <4> SUFFICES ASSUME NEW v \in Versions
                   PROVE  /\ config'[v].row <=> v <= n + 1
                          /\ config'[v].active <=> v = n + 1
        OBVIOUS
      <4>1. n \in Int /\ v \in Int
        BY PricingAssumption DEF Versions
      <4>2. CASE v = n + 1
        BY <2>4, <4>1, <4>2
      <4>3. CASE v # n + 1
        <5>1. (v <= n + 1 <=> v <= n) /\ ~(v = n /\ v # n)
          BY <4>1, <4>3
        <5> QED BY <2>4, <4>3, <5>1 DEF Newest
      <4> QED BY <4>2, <4>3
    <3>2. \A c \in Admins : updating'[c].at = "begun" =>
            updating'[c].last \in 1 .. n + 1 /\ updating'[c].last # n + 1
      BY <2>5, PricingAssumption DEF Versions
    <3>3. n + 1 \in Versions /\ config' \in [Versions -> ConfigRow]
      BY <2>2, <2>4
    <3>4. \A c \in Admins : updating'[c].at = "begun" =>
            /\ updating'[c].last \in 1 .. n + 1
            /\ updating'[c].last = n + 1 => updating'[c].rows = {n + 1}
      BY <3>2
    <3> QED BY <3>1, <3>3, <3>4 DEF Newest
  <2> QED BY <2>1, <2>2, <2>6 DEF ConfigOK
<1>5. CASE PricingNext
  <2>1. \A r \in RuleRows : UpsertRule(r) \/ DeleteRule(r) => UNCHANGED <<config, updating>>
    BY DEF UpsertRule, DeleteRule
  <2>2. \A d \in Deals :
          (\E r \in Requests : AskQuote(d, r)) \/ GiveQuote(d) \/ RefuseQuote(d) =>
            UNCHANGED <<config, updating>>
    BY DEF AskQuote, GiveQuote, RefuseQuote
  <2> QED BY <1>1, <1>2, <1>3, <1>4, <1>5, <2>1, <2>2 DEF PricingNext
<1>6. CASE UNCHANGED pricingVars
  BY <1>1, <1>6 DEF pricingVars
<1> QED
  BY <1>5, <1>6 DEF DeskNext, Traded, SellFromStock, BuyIntoStock, Supply, deskVars

-----------------------------------------------------------------------------
(* What rounding down, up and half up leave, where the amounts need it.    *)
LEMMA DownOfNat ==
  ASSUME NEW a \in Nat, NEW b \in Nat \ {0}
  PROVE  Down(a, b) \in Nat /\ Down(a, b) * b <= a
<1>1. Down(a, b) = a \div b
  BY DEF Down, Signed, Abs
<1> QED BY <1>1

LEMMA DownInt ==
  ASSUME NEW a \in Int, NEW b \in Nat \ {0}
  PROVE  /\ Down(a, b) \in Int
         /\ Down(a, b) > 0 => Down(a, b) * b <= a
<1>1. CASE a >= 0
  BY <1>1, DownOfNat
<1>2. CASE a < 0
  <2>1. (- a) \div b \in Nat
    BY <1>2
  <2>2. Down(a, b) = - ((- a) \div b)
    BY <1>2 DEF Down, Signed, Abs
  <2> QED BY <2>1, <2>2
<1> QED BY <1>1, <1>2

(* A negative divisor is the same as both signs changed.                   *)
LEMMA SignsCancel ==
  ASSUME NEW a \in Int \ {0}, NEW b \in Int, b < 0
  PROVE  /\ Up(a, b) = Up(- a, - b)
         /\ HalfUp(a, b) = HalfUp(- a, - b)
<1>1. Abs(a) = Abs(- a) /\ Abs(b) = Abs(- b)
  BY DEF Abs
<1>2. \A m : Signed(a, b, m) = Signed(- a, - b, m)
  BY DEF Signed
<1> QED BY <1>1, <1>2 DEF Up, HalfUp

LEMMA UpOfNat ==
  ASSUME NEW a \in Nat, NEW b \in Nat \ {0}
  PROVE  Up(a, b) \in Nat /\ a <= Up(a, b) * b
<1> DEFINE c == (- a) \div b
<1>1. c \in Int /\ c * b <= - a
  OBVIOUS
<1>2. c <= 0
  <2>1. c > 0 => c * b > 0
    BY <1>1
  <2> QED BY <1>1, <2>1
<1>3. (- c) * b = - (c * b) /\ c * b \in Int
  BY <1>1
<1>4. Up(a, b) = - c
  BY DEF Up, Signed, Abs
<1> HIDE DEF c
<1> QED BY <1>1, <1>2, <1>3, <1>4

LEMMA UpInt ==
  ASSUME NEW a \in Int, NEW b \in Int \ {0} PROVE Up(a, b) \in Int
<1>1. Abs(a) \in Nat /\ Abs(b) \in Nat \ {0}
  BY DEF Abs
<1>2. (- Abs(a)) \div Abs(b) \in Int
  BY <1>1
<1> QED BY <1>2 DEF Up, Signed

LEMMA HalfUpInt ==
  ASSUME NEW a \in Int, NEW b \in Int \ {0} PROVE HalfUp(a, b) \in Int
<1>1. Abs(a) \in Nat /\ Abs(b) \in Nat \ {0}
  BY DEF Abs
<1>2. (2 * Abs(a) + Abs(b)) \div (2 * Abs(b)) \in Int
  BY <1>1
<1> QED BY <1>2 DEF HalfUp, Signed

(* What rounds to no less than zero is more than minus a half.             *)
LEMMA HalfUpSign ==
  ASSUME NEW a \in Int, NEW b \in Nat \ {0}, HalfUp(a, b) >= 0
  PROVE  2 * a + b > 0
<1>1. CASE a >= 0
  BY <1>1
<1>2. CASE a < 0
  <2> DEFINE m == (2 * (- a) + b) \div (2 * b)
  <2>1. HalfUp(a, b) = - m
    BY <1>2 DEF HalfUp, Signed, Abs
  <2>2. m \in Nat /\ 2 * (- a) + b < (m + 1) * (2 * b)
    BY <1>2
  <2>3. m = 0
    <3> HIDE DEF m
    <3> QED BY <2>1, <2>2
  <2>4. 2 * (- a) + b < 2 * b
    <3> HIDE DEF m
    <3> QED BY <2>2, <2>3
  <2> QED BY <2>4
<1> QED BY <1>1, <1>2

LEMMA MulMono ==
  ASSUME NEW a \in Int, NEW b \in Int, NEW c \in Nat, a <= b
  PROVE  a * c <= b * c /\ c * a <= c * b
OBVIOUS

LEMMA MulStrict ==
  ASSUME NEW a \in Int, NEW b \in Int, NEW c \in Nat \ {0}, a < b
  PROVE  a * c < b * c
OBVIOUS

LEMMA MulCancel ==
  ASSUME NEW a \in Int, NEW b \in Int, NEW c \in Nat \ {0}, a * c < b * c
  PROVE  a < b
OBVIOUS

LEMMA MulNat ==
  ASSUME NEW a \in Nat, NEW b \in Nat
  PROVE  a * b \in Nat
OBVIOUS

LEMMA MulPos ==
  ASSUME NEW a \in Nat \ {0}, NEW b \in Nat \ {0}
  PROVE  a * b \in Nat \ {0}
OBVIOUS

LEMMA MulInt ==
  ASSUME NEW a \in Int, NEW b \in Int, NEW c \in Int
  PROVE  /\ a * b \in Int /\ a * b = b * a
         /\ a * (b * c) = (a * b) * c /\ a * (b * c) = (a * c) * b
         /\ (a + b) * c = a * c + b * c /\ (a - b) * c = a * c - b * c
OBVIOUS

-----------------------------------------------------------------------------
(* The four ways to price an amount.  What each proves of its amounts: if   *)
(* the fee shown is not negative, they are no better for the customer than  *)
(* the rate, but for half a franc.                                          *)

LEMMA BuyOfGnf ==
  ASSUME NEW amount \in Nat, NEW rate \in Nat \ {0}, NEW rule \in Params,
         AfterFees(amount, rule) > 0
  PROVE  LET u == UsdtBought(amount, rate, rule)
             fees == HalfUp(rule.feeFixed * Bps + amount * rule.feePct, Bps)
         IN  /\ u \in Nat /\ fees \in Int
             /\ fees >= 0 => 2 * (u * rate) < (2 * amount + 1) * (Bps * UsdtUnits)
<1> PICK B \in Nat \ {0}, U \in Nat \ {0} : B = Bps /\ U = UsdtUnits
  BY PricingAssumption
<1> PICK f \in Int : f = rule.feeFixed * Bps + amount * rule.feePct
  BY PricingAssumption DEF Params
<1> PICK left \in Nat \ {0} : left = AfterFees(amount, rule) /\ left = amount * B - f
  BY PricingAssumption DEF Params, AfterFees
<1> PICK u \in Nat : u = UsdtBought(amount, rate, rule) /\ u * rate <= left * U
  <2>1. left * U \in Nat
    BY MulNat
  <2> QED BY <2>1, DownOfNat DEF UsdtBought
<1>1. ASSUME HalfUp(f, B) >= 0 PROVE 2 * (u * rate) < (2 * amount + 1) * (B * U)
  <2>1. 2 * f + B > 0
    BY <1>1, HalfUpSign
  <2>2. 2 * left < (2 * amount + 1) * B
    BY <2>1
  <2>3. (2 * left) * U < ((2 * amount + 1) * B) * U
    <3>1. 2 * left \in Int /\ (2 * amount + 1) * B \in Int
      OBVIOUS
    <3> QED BY <2>2, <3>1, MulStrict
  <2>4. ((2 * amount + 1) * B) * U = (2 * amount + 1) * (B * U)
    BY MulInt
  <2>5. (2 * left) * U = 2 * (left * U) /\ left * U \in Int /\ u * rate \in Int
    BY MulInt
  <2> QED BY <2>3, <2>4, <2>5
<1> QED BY <1>1, HalfUpInt

LEMMA BuyOfUsdt ==
  ASSUME NEW amount \in Nat, NEW rate \in Nat \ {0}, NEW rule \in Params,
         rule.feePct # Bps
  PROVE  LET g == GnfToPay(amount, rate, rule)
             fees == HalfUp(g * (Bps * UsdtUnits) - amount * rate, Bps * UsdtUnits)
         IN  /\ g \in Int /\ fees \in Int
             /\ fees >= 0 => 2 * (amount * rate) < (2 * g + 1) * (Bps * UsdtUnits)
<1> PICK unit \in Nat \ {0} : unit = Bps * UsdtUnits
  BY PricingAssumption, MulPos
<1> PICK value \in Nat : value = amount * rate
  BY MulNat
<1> PICK g \in Int : g = GnfToPay(amount, rate, rule)
  <2>1. value + rule.feeFixed * unit \in Int
    BY MulInt DEF Params
  <2>2. UsdtUnits * (Bps - rule.feePct) \in Int \ {0}
    <3>1. UsdtUnits \in Nat \ {0} /\ Bps - rule.feePct \in Int \ {0}
      BY PricingAssumption DEF Params
    <3> QED BY <3>1
  <2> QED BY <2>1, <2>2, UpInt DEF GnfToPay
<1>1. g * unit - value \in Int
  OBVIOUS
<1>2. ASSUME HalfUp(g * unit - value, unit) >= 0 PROVE 2 * value < (2 * g + 1) * unit
  <2>1. 2 * (g * unit - value) + unit > 0
    BY <1>1, <1>2, HalfUpSign
  <2>2. g * unit \in Int /\ (2 * g + 1) * unit = 2 * (g * unit) + unit
    BY MulInt
  <2> QED BY <2>1, <2>2
<1> QED BY <1>1, <1>2, HalfUpInt

LEMMA SaleOfUsdt ==
  ASSUME NEW amount \in Nat, NEW rate \in Nat \ {0}, NEW rule \in Params,
         GnfPaidOut(amount, rate, rule) > 0
  PROVE  LET g == GnfPaidOut(amount, rate, rule)
             fees == HalfUp(FeesOfSale(amount, rate, rule), Bps * Bps * UsdtUnits)
         IN  /\ g \in Int /\ fees \in Int
             /\ fees >= 0 => (2 * g - 1) * (Bps * UsdtUnits) < 2 * (amount * rate)
<1> PICK B \in Nat \ {0}, unit \in Nat \ {0} : B = Bps /\ unit = Bps * UsdtUnits
  BY PricingAssumption, MulPos
<1> PICK w \in Nat \ {0} : w = Bps * Bps * UsdtUnits /\ w = unit * B
  <2>1. Bps * Bps * UsdtUnits = unit * B
    BY PricingAssumption, MulInt
  <2> QED BY <2>1, MulPos
<1> PICK value \in Nat : value = amount * rate
  BY MulNat
<1> PICK f \in Int : f = FeesOfSale(amount, rate, rule)
  BY MulInt DEF FeesOfSale, Params
<1> PICK out \in Int : out = value * B - f
  BY MulInt
<1>1. GnfPaidOut(amount, rate, rule) = Down(out, w)
  BY DEF GnfPaidOut
<1> PICK g \in Nat \ {0} : g = GnfPaidOut(amount, rate, rule) /\ g * w <= out
  <2>1. Down(out, w) > 0
    BY <1>1
  <2>2. Down(out, w) \in Int /\ Down(out, w) * w <= out
    BY <2>1, DownInt
  <2> QED BY <1>1, <2>1, <2>2
<1>2. ASSUME HalfUp(f, w) >= 0 PROVE (2 * g - 1) * unit < 2 * value
  <2>1. 2 * f + w > 0
    BY <1>2, HalfUpSign
  <2>2. 2 * (g * w) - w < 2 * (value * B)
    <3>1. g * w \in Int /\ value * B \in Int
      BY MulInt
    <3> QED BY <2>1, <3>1
  <2>3. 2 * (g * w) - w = ((2 * g - 1) * unit) * B /\ 2 * (value * B) = (2 * value) * B
    <3>1. (2 * g - 1) * w = 2 * (g * w) - w
      BY MulInt
    <3>2. (2 * g - 1) * (unit * B) = ((2 * g - 1) * unit) * B
      BY MulInt
    <3> QED BY <3>1, <3>2, MulInt
  <2>4. (2 * g - 1) * unit \in Int /\ 2 * value \in Int
    BY MulInt
  <2> QED BY <2>2, <2>3, <2>4, MulCancel
<1> QED BY <1>2, HalfUpInt

LEMMA SaleForGnf ==
  ASSUME NEW amount \in Nat, NEW rate \in Nat \ {0}, NEW rule \in Params,
         rule.feePct # Bps
  PROVE  LET u == UsdtToSell(amount, rate, rule)
             fees == HalfUp((amount + rule.feeFixed) * Bps - amount * (Bps - rule.feePct),
                            Bps - rule.feePct)
         IN  /\ u \in Int /\ fees \in Int
             /\ fees >= 0 =>
                  amount <= 0 \/ (2 * amount - 1) * (Bps * UsdtUnits) < 2 * (u * rate)
<1> PICK unit \in Nat \ {0} : unit = Bps * UsdtUnits
  BY PricingAssumption, MulPos
<1> PICK d \in Int \ {0} : d = Bps - rule.feePct
  BY PricingAssumption DEF Params
<1> PICK gross \in Int : gross = (amount + rule.feeFixed) * Bps
  BY PricingAssumption DEF Params
<1>1. /\ UsdtToSell(amount, rate, rule) = Up(gross * unit, d * rate)
      /\ gross * unit \in Int /\ d * rate \in Int \ {0}
  BY MulInt DEF UsdtToSell
<1> PICK u \in Int : u = Up(gross * unit, d * rate) /\ u = UsdtToSell(amount, rate, rule)
  BY <1>1, UpInt
<1>2. gross - amount * d \in Int
  OBVIOUS
(* With the signs of both changed when the divisor is negative.            *)
<1>3. ASSUME NEW G \in Int, NEW D \in Nat \ {0}, amount > 0,
             HalfUp(G - amount * D, D) >= 0,
             G > 0 => u = Up(G * unit, D * rate)
      PROVE  (2 * amount - 1) * unit < 2 * (u * rate)
  <2>1. (2 * amount - 1) * D < 2 * G
    <3>1. amount * D \in Int /\ (2 * amount - 1) * D = 2 * (amount * D) - D
      BY MulInt
    <3>2. 2 * (G - amount * D) + D > 0
      BY <1>3, <3>1, HalfUpSign
    <3> QED BY <3>1, <3>2
  <2>2. G \in Nat \ {0}
    <3>1. (2 * amount - 1) * D \in Nat
      <4>1. 2 * amount - 1 \in Nat
        BY <1>3
      <4> QED BY <4>1, MulNat
    <3> QED BY <2>1, <3>1
  <2>3. G * unit <= u * (D * rate)
    <3>1. G * unit \in Nat /\ D * rate \in Nat \ {0}
      BY <2>2, MulPos
    <3> QED BY <1>3, <2>2, <3>1, UpOfNat
  <2>4. ((2 * amount - 1) * D) * unit < (2 * G) * unit
    <3>1. (2 * amount - 1) * D \in Int /\ 2 * G \in Int
      BY MulInt
    <3> QED BY <2>1, <3>1, MulStrict
  <2>5. /\ ((2 * amount - 1) * D) * unit = ((2 * amount - 1) * unit) * D
        /\ (2 * G) * unit = 2 * (G * unit) /\ G * unit \in Int
        /\ u * (D * rate) = (u * rate) * D /\ (u * rate) * D \in Int
        /\ 2 * ((u * rate) * D) = (2 * (u * rate)) * D
        /\ (2 * amount - 1) * unit \in Int /\ 2 * (u * rate) \in Int
    BY MulInt
  <2>6. ((2 * amount - 1) * unit) * D < (2 * (u * rate)) * D
    BY <2>3, <2>4, <2>5
  <2> QED BY <2>5, <2>6, MulCancel
<1>4. ASSUME HalfUp(gross - amount * d, d) >= 0, amount > 0
      PROVE  (2 * amount - 1) * unit < 2 * (u * rate)
  <2>1. CASE d > 0
    <3>1. d \in Nat \ {0}
      BY <2>1
    <3> QED BY <1>3, <1>4, <3>1
  <2>2. CASE d < 0
    <3>1. /\ - gross \in Int /\ - d \in Nat \ {0}
          /\ - (gross - amount * d) = (- gross) - amount * (- d)
      <4>1. - gross \in Int /\ - d \in Nat \ {0}
        BY <2>2
      <4>2. amount * (- d) = - (amount * d) /\ amount * d \in Int
        OBVIOUS
      <4> QED BY <4>1, <4>2
    <3>2. HalfUp((- gross) - amount * (- d), - d) >= 0
      <4>1. CASE gross - amount * d = 0
        <5>1. (- gross) - amount * (- d) = 0
          BY <3>1, <4>1
        <5>2. HalfUp(0, - d) = Signed(0, - d, (- d) \div (2 * (- d)))
          BY <3>1 DEF HalfUp, Abs
        <5>3. (- d) \div (2 * (- d)) \in Nat
          BY <3>1
        <5>4. Signed(0, - d, (- d) \div (2 * (- d))) = (- d) \div (2 * (- d))
          BY <3>1 DEF Signed
        <5> QED BY <5>1, <5>2, <5>3, <5>4
      <4>2. CASE gross - amount * d # 0
        BY <1>2, <1>4, <2>2, <3>1, <4>2, SignsCancel
      <4> QED BY <4>1, <4>2
    <3>3. - gross > 0 => u = Up((- gross) * unit, (- d) * rate)
      <4> SUFFICES ASSUME - gross > 0 PROVE u = Up((- gross) * unit, (- d) * rate)
        OBVIOUS
      <4>1. gross * unit # 0 /\ gross * unit \in Int
        OBVIOUS
      <4>2. d * rate < 0 /\ d * rate \in Int
        BY <2>2
      <4>3. - (gross * unit) = (- gross) * unit /\ - (d * rate) = (- d) * rate
        OBVIOUS
      <4> QED BY <4>1, <4>2, <4>3, SignsCancel
    <3> QED BY <1>3, <1>4, <3>1, <3>2, <3>3
  <2> QED BY <2>1, <2>2
<1> QED BY <1>2, <1>4, HalfUpInt

(* A price as quote keeps it.                                              *)
LEMMA PriceAgainst ==
  ASSUME NEW side \in Sides, NEW given \in Given, NEW amount \in Nat,
         NEW rate \in Int, NEW rule \in Params,
         Priced(side, given, amount, rate, rule)
  PROVE  LET a == Amounts(side, given, amount, rate, rule)
             fees == FeesGnf(side, given, amount, rate, rule)
             unit == Bps * UsdtUnits
         IN  /\ a.gnf \in Int /\ a.usdt \in Int /\ fees \in Int
             /\ side = "BUY_USDT" =>
                  a.usdt \in Nat /\ (fees >= 0 => 2 * (a.usdt * rate) < (2 * a.gnf + 1) * unit)
             /\ side = "SELL_USDT" /\ fees >= 0 =>
                  a.gnf <= 0 \/ (2 * a.gnf - 1) * unit < 2 * (a.usdt * rate)
<1>1. rate \in Nat \ {0}
  BY DEF Priced
<1>2. CASE side = "BUY_USDT" /\ given = "GNF"
  <2>1. AfterFees(amount, rule) > 0
    BY <1>2 DEF Priced
  <2> QED BY <1>1, <1>2, <2>1, BuyOfGnf DEF Amounts, FeesGnf
<1>3. CASE side = "BUY_USDT" /\ given = "USDT"
  <2>1. rule.feePct # Bps
    BY <1>3 DEF Priced
  <2> QED BY <1>1, <1>3, <2>1, BuyOfUsdt DEF Amounts, FeesGnf
<1>4. CASE side = "SELL_USDT" /\ given = "USDT"
  <2>1. GnfPaidOut(amount, rate, rule) > 0
    BY <1>4 DEF Priced
  <2> QED BY <1>1, <1>4, <2>1, SaleOfUsdt DEF Amounts, FeesGnf
<1>5. CASE side = "SELL_USDT" /\ given = "GNF"
  <2>1. rule.feePct # Bps
    BY <1>5 DEF Priced
  <2> QED BY <1>1, <1>5, <2>1, SaleForGnf DEF Amounts, FeesGnf
<1> QED BY <1>2, <1>3, <1>4, <1>5 DEF Sides, Given

(* effectiveRate is the reference and the spread it answers with.          *)
LEMMA RateIsSpread ==
  ASSUME NEW side \in Sides, NEW reference \in Nat, NEW buffer \in Int,
         NEW rule \in Params
  PROVE  LET rate == EffectiveRate(side, reference, buffer, rule)
             spread == Spread(reference, buffer, rule)
         IN  /\ rate \in Int /\ spread \in Int
             /\ side = "BUY_USDT" => rate = reference * Bps + spread
             /\ side = "SELL_USDT" => rate = reference * Bps - spread
<1>1. rule.spreadPct + buffer \in Int /\ rule.spreadAbs \in Int /\ Bps \in Nat
  BY PricingAssumption DEF Params
<1>2. reference * (rule.spreadPct + buffer) \in Int /\ rule.spreadAbs * Bps \in Int
      /\ reference * Bps \in Nat
  BY <1>1
<1>3. Spread(reference, buffer, rule) \in Int
  BY <1>2 DEF Spread
<1> QED BY <1>2, <1>3 DEF EffectiveRate, Sides

(* Of finitely many rules one has the highest rank.                        *)
LEMMA HighestRank ==
  ASSUME NEW S, IsFiniteSet(S), S # {}, \A r \in S : r.rank \in Nat
  PROVE  \E r \in S : \A s \in S : s.rank <= r.rank
<1> DEFINE Top(T) == \E r \in T : \A s \in T : s.rank <= r.rank
           Bad == {T \in SUBSET S : T # {} /\ ~Top(T)}
<1> SUFFICES ASSUME Bad # {} PROVE FALSE
  <2>1. S \notin Bad => Top(S)
    <3> HIDE DEF Top
    <3> QED OBVIOUS
  <2> QED BY <2>1
<1>1. PICK T \in Bad : \A U \in Bad : ~(U \subseteq T /\ U # T)
  <2>1. Bad \in SUBSET SUBSET S
    OBVIOUS
  <2> HIDE DEF Bad
  <2> QED BY <2>1, SmallestSubset
<1>2. PICK x \in T : TRUE
  BY <1>1
<1>3. CASE T \ {x} = {}
  <2>1. T = {x} /\ x.rank \in Nat
    BY <1>2, <1>3
  <2>2. Top(T)
    BY <2>1
  <2> HIDE DEF Top
  <2> QED BY <2>2
<1>4. CASE T \ {x} # {}
  <2>1. Top(T \ {x})
    <3>1. T \ {x} \in SUBSET S /\ T \ {x} \subseteq T /\ T \ {x} # T
      OBVIOUS
    <3>2. T \ {x} \notin Bad
      <4> HIDE DEF Bad
      <4> QED BY <1>1, <3>1
    <3> HIDE DEF Top
    <3> QED BY <1>4, <3>1, <3>2
  <2>2. PICK m \in T \ {x} : \A s \in T \ {x} : s.rank <= m.rank
    BY <2>1
  <2>3. m \in T /\ \A s \in T : s.rank \in Nat
    OBVIOUS
  <2>4. CASE x.rank <= m.rank
    <3>1. \A s \in T : s.rank <= m.rank
      BY <2>2, <2>4
    <3>2. Top(T)
      BY <2>3, <3>1
    <3> HIDE DEF Top
    <3> QED BY <3>2
  <2>5. CASE ~(x.rank <= m.rank)
    <3>1. \A s \in T : s.rank <= x.rank
      BY <2>2, <2>3, <2>5
    <3>2. Top(T)
      BY <3>1
    <3> HIDE DEF Top
    <3> QED BY <3>2
  <2> QED BY <2>4, <2>5
<1> QED BY <1>3, <1>4

LEMMA PickedRule ==
  ASSUME QuotesOK, NEW side \in Sides, NEW volume, NEW segment
  PROVE  PickRule(side, volume, segment) \in Params
<1> DEFINE fitting == {r \in rules : Fits(r, side, volume, segment)}
<1>1. \A r \in rules : r.rank \in Nat /\ r.params \in Params
  BY PricingAssumption DEF QuotesOK, Rule
<1>2. DefaultRule(side) \in Params
  BY PricingAssumption DEF DefaultRule, Params
<1>3. IsFiniteSet(fitting)
  BY FS_Subset DEF QuotesOK
<1>4. fitting # {} =>
        (CHOOSE r \in fitting : \A s \in fitting : s.rank <= r.rank) \in fitting
  <2>1. fitting # {} => \E r \in fitting : \A s \in fitting : s.rank <= r.rank
    <3>1. \A r \in fitting : r.rank \in Nat
      BY <1>1
    <3> HIDE DEF fitting
    <3> QED BY <1>3, <3>1, HighestRank
  <2> HIDE DEF fitting
  <2> QED BY <2>1
<1> QED BY <1>1, <1>2, <1>4 DEF PickRule

(* A quote is given at a price that is against the customer.               *)
LEMMA QuoteAgainst ==
  ASSUME NEW n \in Versions, Newest(n), QuotesOK,
         NEW d \in Deals, GiveQuote(d)
  PROVE  Asked(quote[d]) /\ Active(quote'[d])
<1> DEFINE q == quote[d]
           rule == RuleOf(q)
           price == ComputePrice(q, rule)
           rate == RateOf(q, rule)
           spread == SpreadOf(q, rule)
           fees == FeesGnf(q.request.side, q.request.given, q.request.amount, rate, rule)
           reference == config[q.version].reference
<1>1. Asked(q) /\ DOMAIN quote = Deals
  BY DEF GiveQuote, QuotesOK, NoQuote, Active
<1>2. /\ q.request.side \in Sides /\ q.request.given \in Given
      /\ q.request.amount \in Nat /\ q.version \in Configs
  BY <1>1, PricingAssumption DEF Asked, Request
<1>3. reference \in Nat /\ config[q.version].buffer \in Int
  BY <1>2 DEF Newest, Configs, ConfigRow
<1>4. rule \in Params
  BY <1>2, PickedRule DEF RuleOf
<1>5. /\ Computes(q, rule)
      /\ quote'[d].at = "ACTIVE" /\ quote'[d].side = q.request.side
      /\ quote'[d].version = q.version /\ quote'[d].rate = rate
      /\ quote'[d].spread = spread /\ quote'[d].fees = fees
      /\ quote'[d].gnf = price.gnf /\ quote'[d].usdt = price.usdt
  BY <1>1 DEF GiveQuote, QuoteAnswers
<1>6. /\ rate \in Int /\ spread \in Int
      /\ q.request.side = "BUY_USDT" => rate = reference * Bps + spread
      /\ q.request.side = "SELL_USDT" => rate = reference * Bps - spread
  <2> HIDE DEF q, rule
  <2> QED BY <1>2, <1>3, <1>4, RateIsSpread DEF RateOf, SpreadOf
<1>7. Priced(q.request.side, q.request.given, q.request.amount, rate, rule)
  BY <1>5 DEF Computes
<1>8. /\ price.gnf \in Int /\ price.usdt \in Int /\ fees \in Int
      /\ q.request.side = "BUY_USDT" =>
           /\ price.usdt \in Nat
           /\ fees >= 0 =>
                2 * (price.usdt * rate) < (2 * price.gnf + 1) * (Bps * UsdtUnits)
      /\ q.request.side = "SELL_USDT" /\ fees >= 0 =>
           \/ price.gnf <= 0
           \/ (2 * price.gnf - 1) * (Bps * UsdtUnits) < 2 * (price.usdt * rate)
  <2>1. price = Amounts(q.request.side, q.request.given, q.request.amount, rate, rule)
    BY DEF ComputePrice
  <2> HIDE DEF q, rule, rate, price
  <2> QED BY <1>2, <1>4, <1>6, <1>7, <2>1, PriceAgainst
<1>9. rate \in Nat \ {0}
  BY <1>6, <1>7 DEF Priced
<1>10. config' = config
  BY DEF GiveQuote
<1> HIDE DEF q, rule, rate, spread, price, fees
<1>11. quote'[d].version \in Configs /\ config[quote'[d].version].reference = reference
  BY <1>2, <1>5
<1>12. quote'[d].fees >= 0 => AgainstCustomer(quote'[d])
  BY <1>2, <1>5, <1>8 DEF AgainstCustomer
<1>13. Active(quote'[d])
  BY <1>2, <1>5, <1>6, <1>8, <1>9, <1>11, <1>12 DEF Active
<1> QED BY <1>1, <1>13 DEF q

(* A version that was written keeps its figures.                           *)
LEMMA ReferencesStay ==
  ASSUME ConfigOK, [DeskNext]_deskVars
  PROVE  /\ Configs \subseteq Configs'
         /\ \A v \in Configs : config'[v].reference = config[v].reference
<1> PICK n \in Versions : Newest(n)
  BY DEF ConfigOK
<1>1. CASE config' = config
  BY <1>1 DEF Configs
<1>2. ASSUME NEW a \in Admins, CreateVersion(a)
      PROVE  /\ Configs \subseteq Configs'
             /\ \A v \in Configs : config'[v].reference = config[v].reference
  <2> DEFINE w == updating[a].last + 1
             D == Deactivated(updating[a].rows)
  <2>1. w \in Versions \ Configs
    BY <1>2 DEF CreateVersion
  <2>2. PICK row : config' = [D EXCEPT ![w] = row]
    BY <1>2 DEF CreateVersion
  <2>3. \A v \in Versions : /\ D[v].row = config[v].row
                            /\ D[v].reference = config[v].reference
    BY DEF Deactivated, Newest, ConfigRow
  <2>4. DOMAIN D = Versions
    BY DEF Deactivated
  <2> HIDE DEF D, w
  <2>5. \A v \in Configs : v \in Versions /\ v # w /\ config[v].row
    BY <2>1 DEF Configs
  <2>6. \A v \in Configs : config'[v] = D[v]
    BY <2>2, <2>4, <2>5
  <2>7. \A v \in Configs : config'[v].row /\ v \in Versions
    BY <2>3, <2>5, <2>6
  <2>8. \A v \in Configs : v \in Configs'
    BY <2>7 DEF Configs
  <2> QED BY <2>3, <2>5, <2>6, <2>8
<1>3. CASE PricingNext
  <2>1. \A a \in Admins : BeginUpdate(a) \/ DropUpdate(a) => config' = config
    BY DEF BeginUpdate, DropUpdate
  <2>2. \A r \in RuleRows : UpsertRule(r) \/ DeleteRule(r) => config' = config
    BY DEF UpsertRule, DeleteRule
  <2>3. \A d \in Deals :
          (\E r \in Requests : AskQuote(d, r)) \/ GiveQuote(d) \/ RefuseQuote(d) =>
            config' = config
    BY DEF AskQuote, GiveQuote, RefuseQuote
  <2> QED BY <1>1, <1>2, <1>3, <2>1, <2>2, <2>3 DEF PricingNext
<1>4. CASE UNCHANGED pricingVars
  BY <1>1, <1>4 DEF pricingVars
<1> QED
  BY <1>3, <1>4 DEF DeskNext, Traded, SellFromStock, BuyIntoStock, Supply, deskVars

(* A quote stays at the prices it was given.                               *)
LEMMA QuotesStep ==
  ASSUME ConfigOK, QuotesOK, [DeskNext]_deskVars
  PROVE  QuotesOK'
<1> PICK n \in Versions : Newest(n)
  BY DEF ConfigOK
<1>0. /\ Configs \subseteq Configs'
      /\ \A v \in Configs : config'[v].reference = config[v].reference
  BY ReferencesStay
<1>1. /\ \A q : Asked(q) => Asked(q)'
      /\ \A q : Active(q) => Active(q)'
  BY <1>0 DEF Asked, Active, AgainstCustomer
<1>2. CASE UNCHANGED <<rules, quote>>
  <2>3. ASSUME NEW d \in Deals
        PROVE  (quote[d] = NoQuote \/ Asked(quote[d]) \/ Active(quote[d]))'
    <3>1. PICK q : q = quote[d]
      OBVIOUS
    <3>2. quote'[d] = q /\ (q = NoQuote \/ Asked(q) \/ Active(q))
      BY <1>2, <3>1 DEF QuotesOK
    <3>3. q = NoQuote \/ Asked(q)' \/ Active(q)'
      BY <1>1, <3>2
    <3> QED BY <3>2, <3>3 DEF NoQuote, Asked, Active, AgainstCustomer
  <2> QED BY <1>2, <2>3 DEF QuotesOK
<1>3. ASSUME NEW r \in RuleRows, UpsertRule(r) \/ DeleteRule(r)
      PROVE  QuotesOK'
  <2>1. config' = config /\ quote' = quote
    BY <1>3 DEF UpsertRule, DeleteRule
  <2>2. rules' \subseteq RuleRows /\ IsFiniteSet(rules')
    <3>1. CASE UpsertRule(r)
      <4> DEFINE kept == {s \in rules : s.id # r.id}
      <4>1. IsFiniteSet(kept) /\ kept \subseteq RuleRows
        BY FS_Subset DEF QuotesOK
      <4>2. rules' = kept \cup {r}
        BY <3>1 DEF UpsertRule
      <4> HIDE DEF kept
      <4> QED BY <4>1, <4>2, FS_AddElement
    <3>2. CASE DeleteRule(r)
      BY <3>2, FS_Subset DEF DeleteRule, QuotesOK
    <3> QED BY <1>3, <3>1, <3>2
  <2> QED BY <2>1, <2>2 DEF QuotesOK, Asked, Active, AgainstCustomer, Configs
<1>4. ASSUME NEW d \in Deals, NEW r \in Requests, AskQuote(d, r)
      PROVE  QuotesOK'
  <2>1. n \in Configs /\ Max(ActiveConfigs) = n
    <3>1. ActiveConfigs = {n}
      BY NewestIsLast DEF Newest
    <3>2. n \in Configs
      BY PricingAssumption DEF Newest, Configs, Versions
    <3>3. Max({n}) = n
      BY PricingAssumption DEF Max, Versions
    <3> QED BY <3>1, <3>2, <3>3
  <2>2. /\ config' = config /\ rules' = rules
        /\ quote' = [quote EXCEPT ![d] = [at |-> "ASKED", request |-> r, version |-> n]]
    BY <1>4, <2>1 DEF AskQuote
  <2>3. Asked([at |-> "ASKED", request |-> r, version |-> n])
    BY <2>1 DEF Asked
  <2> QED BY <2>2, <2>3 DEF QuotesOK, Asked, Active, AgainstCustomer, Configs
<1>5. ASSUME NEW d \in Deals, GiveQuote(d)
      PROVE  QuotesOK'
  <2>1. Active(quote'[d])
    BY <1>5, QuoteAgainst
  <2>2. /\ config' = config /\ rules' = rules
        /\ \A e \in Deals : e # d => quote'[e] = quote[e]
        /\ DOMAIN quote' = Deals
    BY <1>5 DEF GiveQuote, QuotesOK
  <2> QED BY <2>1, <2>2 DEF QuotesOK, Asked, Active, AgainstCustomer, Configs
<1>6. ASSUME NEW d \in Deals, RefuseQuote(d)
      PROVE  QuotesOK'
  <2>1. config' = config /\ rules' = rules /\ quote' = [quote EXCEPT ![d] = NoQuote]
    BY <1>6 DEF RefuseQuote
  <2> QED BY <2>1 DEF QuotesOK, Asked, Active, AgainstCustomer, Configs
<1>7. CASE PricingNext
  <2>1. \A a \in Admins :
          BeginUpdate(a) \/ CreateVersion(a) \/ DropUpdate(a) => UNCHANGED <<rules, quote>>
    BY DEF BeginUpdate, CreateVersion, DropUpdate
  <2> QED BY <1>2, <1>3, <1>4, <1>5, <1>6, <1>7, <2>1 DEF PricingNext
<1>8. CASE UNCHANGED pricingVars
  BY <1>2, <1>8 DEF pricingVars
<1> QED
  BY <1>7, <1>8 DEF DeskNext, Traded, SellFromStock, BuyIntoStock, Supply, deskVars

(* Buying and selling back goes through the reference rate twice, and loses *)
(* less than a franc by rounding: none, as amounts are whole.               *)
LEMMA TurningLoses ==
  ASSUME ConfigOK, QuotesOK PROVE NobodyGainsByTurning
<1> PICK n \in Versions : Newest(n)
  BY DEF ConfigOK
<1> SUFFICES ASSUME NEW b \in QuoteRow, NEW s \in QuoteRow,
                    quote[b].side = "BUY_USDT", quote[s].side = "SELL_USDT",
                    quote[b].version = quote[s].version,
                    quote[s].usdt <= quote[b].usdt,
                    quote[b].spread + quote[s].spread >= 0,
                    quote[b].fees >= 0, quote[s].fees >= 0
             PROVE  quote[s].gnf <= quote[b].gnf
  BY DEF NobodyGainsByTurning
<1>1. Active(quote[b]) /\ Active(quote[s])
  BY DEF QuoteRow, QuotesOK, NoQuote, Asked
<1> PICK unit \in Nat \ {0} : unit = Bps * UsdtUnits
  BY PricingAssumption, MulPos
<1> PICK reference \in Int : reference = config[quote[b].version].reference * Bps
  <2>1. config[quote[b].version].reference \in Nat
    BY <1>1 DEF Active, Newest, Configs, ConfigRow
  <2> QED BY <2>1, PricingAssumption
<1> PICK bu \in Nat, br \in Nat \ {0}, bg \in Int, bs \in Int :
      /\ bu = quote[b].usdt /\ br = quote[b].rate /\ bg = quote[b].gnf
      /\ bs = quote[b].spread /\ br = reference + bs
      /\ 2 * (bu * br) < (2 * bg + 1) * unit
  BY <1>1 DEF Active, AgainstCustomer
<1> PICK su \in Int, sr \in Nat \ {0}, sg \in Int, ss \in Int :
      /\ su = quote[s].usdt /\ sr = quote[s].rate /\ sg = quote[s].gnf
      /\ ss = quote[s].spread /\ sr = reference - ss
      /\ sg <= 0 \/ (2 * sg - 1) * unit < 2 * (su * sr)
  BY <1>1 DEF Active, AgainstCustomer
<1>2. su * sr <= bu * br /\ su * sr \in Int /\ bu * br \in Nat
  <2>1. su <= bu /\ sr <= br
    OBVIOUS
  <2>2. su * sr <= bu * sr
    <3>1. sr \in Nat /\ bu \in Int
      OBVIOUS
    <3> QED BY <2>1, <3>1, MulMono
  <2>4. bu * sr <= bu * br
    <3>1. sr \in Int /\ br \in Int
      OBVIOUS
    <3> QED BY <2>1, <3>1, MulMono
  <2>3. su * sr \in Int /\ bu * sr \in Int /\ bu * br \in Nat
    BY MulInt, MulNat
  <2> QED BY <2>2, <2>3, <2>4
<1>3. (2 * bg + 1) * unit \in Int /\ (2 * sg - 1) * unit \in Int
  BY MulInt
<1>4. CASE sg <= 0
  <2>1. 0 * unit < (2 * bg + 1) * unit
    BY <1>2, <1>3
  <2>2. 0 < 2 * bg + 1
    BY <2>1, MulCancel
  <2> QED BY <1>4, <2>2
<1>5. CASE sg > 0
  <2>1. (2 * sg - 1) * unit < (2 * bg + 1) * unit
    BY <1>2, <1>3, <1>5
  <2>2. 2 * sg - 1 < 2 * bg + 1
    BY <2>1, MulCancel
  <2> QED BY <2>2
<1> QED BY <1>4, <1>5

LEMMA PricesStart == DeskInit => ConfigOK /\ QuotesOK
<1> SUFFICES ASSUME DeskInit PROVE ConfigOK /\ QuotesOK
  OBVIOUS
<1>1. 1 \in Versions
  BY PricingAssumption DEF Versions
<1>2. Newest(1)
  BY <1>1, PricingAssumption
     DEF DeskInit, PricingInit, Newest, ConfigRow, NoConfig, NoUpdate, Versions
<1>3. QuotesOK
  BY FS_EmptySet DEF DeskInit, PricingInit, QuotesOK
<1> QED BY <1>1, <1>2, <1>3 DEF DeskInit, PricingInit, ConfigOK

-----------------------------------------------------------------------------
Books == StockOK /\ PurchaseReceivedOnce /\ LotsAccountForSales

(* What has been sold stays what it was.                                   *)
SalesStay ==
  \A e \in Orders : /\ sale'[e].at = "done" <=> sale[e].at = "done"
                    /\ sale[e].at = "done" => sale'[e].took = sale[e].took

LEMMA SoldStays ==
  ASSUME SalesStay, NEW i
  PROVE  SoldFrom(i)' = SoldFrom(i)
<1>1. SalesFrom(i)' = SalesFrom(i)
  BY DEF SalesFrom, SalesStay
<1>2. \A d \in SalesFrom(i) : sale'[d].took[i] = sale[d].took[i]
  BY DEF SalesFrom, SalesStay
<1>3. [d \in SalesFrom(i)' |-> sale'[d].took[i]] = [d \in SalesFrom(i) |-> sale[d].took[i]]
  BY <1>1, <1>2
<1>4. SumOver([d \in SalesFrom(i)' |-> sale'[d].took[i]], SalesFrom(i)')
        = SumOver([d \in SalesFrom(i) |-> sale[d].took[i]], SalesFrom(i))
  BY <1>1, <1>3, Zenon
<1> QED BY <1>4 DEF SoldFrom

LEMMA BooksStay ==
  ASSUME PurchaseReceivedOnce, LotsAccountForSales, UNCHANGED <<lots, cold>>,
         overlapped => overlapped', SalesStay,
         \A p \in Purchases : purchase'[p] = "CONFIRMED" => purchase[p] = "CONFIRMED"
  PROVE  PurchaseReceivedOnce' /\ LotsAccountForSales'
<1>1. Quantities' = Quantities /\ \A p : LotOf(p)' = LotOf(p)
  BY DEF Quantities, LotOf
<1>2. PurchaseReceivedOnce'
  <2>1. \A p : SumOver(Quantities', LotOf(p)') = SumOver(Quantities, LotOf(p))
    BY <1>1, Zenon
  <2> QED BY <1>1, <2>1 DEF PurchaseReceivedOnce
<1>3. \A i : SoldFrom(i)' = SoldFrom(i)
  BY SoldStays
<1> QED BY <1>2, <1>3 DEF LotsAccountForSales

(* The lots of a purchase are some of the lots.                            *)
LEMMA LotsAreLots ==
  ASSUME StockOK
  PROVE  /\ DOMAIN lots = 1 .. Len(lots) /\ Len(lots) \in Nat
         /\ \A i \in 1 .. Len(lots) : lots[i] \in LotRow
         /\ \A p : IsFiniteSet(LotOf(p)) /\ LotOf(p) \subseteq 1 .. Len(lots)
<1>1. DOMAIN lots = 1 .. Len(lots) /\ Len(lots) \in Nat
      /\ \A i \in 1 .. Len(lots) : lots[i] \in LotRow
  BY DEF StockOK
<1>2. \A p : LotOf(p) \subseteq 1 .. Len(lots)
  BY <1>1 DEF LotOf
<1>3. IsFiniteSet(1 .. Len(lots))
  BY <1>1, FS_Interval
<1>4. \A p : IsFiniteSet(LotOf(p))
  BY <1>2, <1>3, FS_Subset
<1> QED BY <1>1, <1>2, <1>4

(* The lots that stay keep their purchase and what it brought.             *)
LEMMA ReceiptsStay ==
  ASSUME StockOK, DOMAIN lots \subseteq DOMAIN lots',
         \A i \in DOMAIN lots : /\ lots'[i].purchase = lots[i].purchase
                                /\ lots'[i].quantity = lots[i].quantity,
         NEW p, \A i \in DOMAIN lots' \ DOMAIN lots : lots'[i].purchase # p
  PROVE  /\ LotOf(p)' = LotOf(p)
         /\ SumOver(Quantities', LotOf(p)') = SumOver(Quantities, LotOf(p))
<1>1. LotOf(p)' = LotOf(p)
  BY DEF LotOf
<1>2. \A i \in LotOf(p) : Quantities'[i] = Quantities[i]
  BY DEF LotOf, Quantities
<1>3. SumOver(Quantities', LotOf(p)) = SumOver(Quantities, LotOf(p))
  <2> DEFINE f == Quantities
             g == Quantities'
  <2> HIDE DEF f, g
  <2>1. \A i \in LotOf(p) : g[i] = f[i]
    BY <1>2 DEF f, g
  <2>2. SumOver(g, LotOf(p)) = SumOver(f, LotOf(p))
    BY <2>1, LotsAreLots, SumSame
  <2> QED BY <2>2 DEF f, g
<1> QED BY <1>1, <1>3, Zenon

(* A lot joins the others.                                                 *)
LEMMA LotJoins ==
  ASSUME StockOK, LotsAccountForSales, NEW row \in LotRow, row.remaining = row.quantity,
         lots' = Append(lots, row), overlapped' = overlapped, SalesStay
  PROVE  /\ lots' \in Seq(LotRow) /\ Len(lots') = Len(lots) + 1
         /\ DOMAIN lots' = DOMAIN lots \cup {Len(lots) + 1}
         /\ Len(lots) + 1 \notin DOMAIN lots
         /\ \A i \in DOMAIN lots : lots'[i] = lots[i]
         /\ lots'[Len(lots) + 1] = row
         /\ LotsAccountForSales'
<1> PICK n : n = Len(lots) + 1
  OBVIOUS
<1>1. DOMAIN lots = 1 .. Len(lots) /\ Len(lots) \in Nat
  BY LotsAreLots
<1>2. /\ lots' \in Seq(LotRow) /\ Len(lots') = n
      /\ \A i \in 1 .. Len(lots) : lots'[i] = lots[i]
      /\ lots'[n] = row
  BY DEF StockOK
<1>3. DOMAIN lots' = 1 .. n
  BY <1>2
<1>4. DOMAIN lots' = DOMAIN lots \cup {n} /\ n \notin DOMAIN lots
  BY <1>1, <1>3
<1>5. SoldFrom(n)' = 0
  <2>1. SalesFrom(n) = {}
    <3>1. \A d \in Orders : sale[d].at = "done" => n \notin DOMAIN sale[d].took
      BY <1>1 DEF StockOK
    <3> QED BY <3>1 DEF SalesFrom
  <2>2. SoldFrom(n) = 0
    BY <2>1, SumEmpty DEF SoldFrom
  <2> QED BY <2>2, SoldStays
<1>6. ASSUME NEW i \in DOMAIN lots'
      PROVE  /\ lots'[i].remaining \in 0 .. lots'[i].quantity
             /\ ~overlapped' => lots'[i].quantity - lots'[i].remaining = SoldFrom(i)'
  <2>1. CASE i \in DOMAIN lots
    BY <1>1, <1>2, <2>1, SoldStays DEF LotsAccountForSales
  <2>2. CASE i = n
    <3>1. row.remaining \in Nat /\ row.quantity \in Nat
      BY DEF LotRow
    <3> QED BY <1>2, <1>5, <2>2, <3>1
  <2> QED BY <1>4, <2>1, <2>2
<1>7. LotsAccountForSales'
  BY <1>6 DEF LotsAccountForSales
<1> QED BY <1>1, <1>2, <1>4, <1>7

(* What a sale takes from a lot is no more than it read there.             *)
LEMMA TakenWithin ==
  ASSUME NEW k \in Nat, NEW left \in [1 .. k -> Nat], NEW need \in Nat
  PROVE  /\ Taken(left, need) \in [1 .. k -> Nat]
         /\ \A i \in 1 .. k : Taken(left, need)[i] <= left[i]
<1>1. ASSUME NEW i \in 1 .. k
      PROVE  Take(left, need, i) \in Nat /\ Take(left, need, i) <= left[i]
  <2>1. Before(left, i) = SumOver(left, 1 .. i - 1)
    BY DEF Before, SumOver
  <2>2. IsFiniteSet(1 .. i - 1) /\ \A j \in 1 .. i - 1 : left[j] \in Int
    BY FS_Interval
  <2>3. Before(left, i) \in Int
    BY <2>1, <2>2, SumTakeOut
  <2>4. left[i] \in Nat
    OBVIOUS
  <2> QED BY <2>3, <2>4 DEF Take
<1>2. Taken(left, need) = [i \in 1 .. k |-> Take(left, need, i)]
  BY DEF Taken
<1> QED BY <1>1, <1>2

(* A sale is completed: the lots it took from hold as much less, and the   *)
(* order is of those that took it.                                         *)
LEMMA CompleteStep ==
  ASSUME QuotesOK, Books, NEW d \in Orders, quote[d].at = "ACTIVE",
         quote[d].side = "BUY_USDT", Complete(d, quote[d])
  PROVE  Books'
<1> USE DEF Books
<1> DEFINE left == sale[d].left
<1> PICK took : took = Taken(left, quote[d].usdt)
  OBVIOUS
<1>1. /\ sale[d].at = "read"
      /\ UNCHANGED <<purchase, setting, cold, overlapped>>
      /\ sale'[d].at = "done" /\ sale'[d].took = took
      /\ \A e \in Orders : e # d => sale'[e] = sale[e]
      /\ DOMAIN sale' = Orders
  BY DEF Complete, StockOK
<1>2. PICK k \in 0 .. Len(lots) :
        /\ left \in [1 .. k -> Nat]
        /\ \A i \in 1 .. k : left[i] <= lots[i].quantity
                             /\ (~overlapped => left[i] = lots[i].remaining)
  BY <1>1 DEF StockOK, LotsRead, Reading
<1>3. quote[d].usdt \in Nat
  <2>1. Active(quote[d])
    BY DeskAssumption DEF QuotesOK, Asked, NoQuote
  <2> QED BY <2>1 DEF Active
<1>4. k \in Nat /\ k <= Len(lots) /\ Len(lots) \in Nat /\ DOMAIN lots = 1 .. Len(lots)
  BY LotsAreLots
<1>5. took \in [1 .. k -> Nat] /\ \A i \in 1 .. k : took[i] <= left[i]
  <2> HIDE DEF left
  <2> QED BY <1>2, <1>3, <1>4, TakenWithin
<1>6. lots' = [i \in DOMAIN lots |->
                 IF i \in 1 .. k /\ took[i] > 0
                 THEN [lots[i] EXCEPT !.remaining = left[i] - took[i]] ELSE lots[i]]
  <2>1. DOMAIN took = 1 .. k
    BY <1>5
  <2>2. lots' = [i \in DOMAIN lots |->
                   IF i \in DOMAIN took /\ took[i] > 0
                   THEN [lots[i] EXCEPT !.remaining = left[i] - took[i]] ELSE lots[i]]
    BY DEF Complete
  <2> QED BY <2>1, <2>2
<1> HIDE DEF left
<1>7. ASSUME NEW i \in 1 .. Len(lots)
      PROVE  /\ lots'[i] \in LotRow
             /\ lots'[i].purchase = lots[i].purchase
             /\ lots'[i].quantity = lots[i].quantity
             /\ lots'[i].remaining \in 0 .. lots[i].quantity
             /\ ~overlapped => lots'[i].remaining
                                 = lots[i].remaining - (IF i \in 1 .. k THEN took[i] ELSE 0)
  <2>1. /\ lots[i] \in LotRow /\ lots[i].remaining \in 0 .. lots[i].quantity
    BY LotsAreLots, <1>4 DEF LotsAccountForSales
  <2>2. CASE i \in 1 .. k /\ took[i] > 0
    <3>1. /\ left[i] \in Nat /\ took[i] \in Nat /\ took[i] <= left[i]
          /\ left[i] <= lots[i].quantity /\ lots[i].quantity \in Nat
          /\ ~overlapped => left[i] = lots[i].remaining
      BY <1>2, <1>5, <2>1, <2>2 DEF LotRow
    <3>2. lots'[i] = [lots[i] EXCEPT !.remaining = left[i] - took[i]]
      BY <1>4, <1>6, <2>2
    <3>3. left[i] - took[i] \in 0 .. lots[i].quantity /\ left[i] - took[i] \in Nat
      BY <3>1
    <3>4. /\ lots'[i] \in LotRow /\ lots'[i].remaining = left[i] - took[i]
          /\ lots'[i].purchase = lots[i].purchase /\ lots'[i].quantity = lots[i].quantity
      BY <2>1, <3>2, <3>3 DEF LotRow
    <3> QED BY <2>2, <3>1, <3>3, <3>4
  <2>3. CASE ~(i \in 1 .. k /\ took[i] > 0)
    <3>1. lots'[i] = lots[i]
      BY <1>4, <1>6, <2>3
    <3>2. i \in 1 .. k => took[i] = 0
      BY <1>5, <2>3
    <3>3. lots[i].remaining \in Int
      BY <2>1 DEF LotRow
    <3> QED BY <2>1, <3>1, <3>2, <3>3
  <2> QED BY <2>2, <2>3
<1>8. /\ lots' \in Seq(LotRow) /\ Len(lots') = Len(lots) /\ DOMAIN lots' = DOMAIN lots
  <2>1. DOMAIN lots' = 1 .. Len(lots)
    BY <1>4, <1>6
  <2>2. lots' = [i \in 1 .. Len(lots) |-> lots'[i]]
    BY <1>4, <1>6
  <2>3. lots' \in [1 .. Len(lots) -> LotRow]
    BY <1>7, <2>2
  <2> QED BY <1>4, <2>1, <2>3
<1>9. StockOK'
  <2>1. Reading' = Reading \ {d}
    BY <1>1 DEF Reading
  <2>2. \A e \in Reading' : LotsRead(e)'
    <3> SUFFICES ASSUME NEW e \in Reading' PROVE LotsRead(e)'
      OBVIOUS
    <3>1. e \in Reading /\ d \in Reading /\ e # d /\ sale'[e] = sale[e]
      BY <1>1, <2>1 DEF Reading
    <3>2. overlapped
      BY <3>1 DEF StockOK
    <3>3. PICK h \in 0 .. Len(lots) :
            /\ sale[e].left \in [1 .. h -> Nat]
            /\ \A i \in 1 .. h : sale[e].left[i] <= lots[i].quantity
      BY <3>1 DEF StockOK, LotsRead
    <3>4. \A i \in 1 .. h : lots'[i].quantity = lots[i].quantity
      BY <1>4, <1>7, <3>3
    <3> QED BY <1>1, <1>8, <3>1, <3>2, <3>3, <3>4 DEF LotsRead
  <2>3. ~overlapped' => \A e, f \in Reading' : e = f
    BY <1>1, <2>1 DEF StockOK
  <2>4. \A e \in Orders : sale'[e].at = "done" =>
          \E h \in 0 .. Len(lots') : sale'[e].took \in [1 .. h -> Nat]
    BY <1>1, <1>2, <1>5, <1>8 DEF StockOK
  <2> QED BY <1>1, <1>8, <2>2, <2>3, <2>4 DEF StockOK
<1>10. PurchaseReceivedOnce'
  <2>1. \A p : LotOf(p)' = LotOf(p) /\ SumOver(Quantities', LotOf(p)') = SumOver(Quantities, LotOf(p))
    <3>1. /\ DOMAIN lots \subseteq DOMAIN lots'
          /\ \A i \in DOMAIN lots : /\ lots'[i].purchase = lots[i].purchase
                                    /\ lots'[i].quantity = lots[i].quantity
          /\ \A p : \A i \in DOMAIN lots' \ DOMAIN lots : lots'[i].purchase # p
      BY <1>4, <1>7, <1>8
    <3> QED BY <3>1, ReceiptsStay
  <2> QED BY <1>1, <2>1 DEF PurchaseReceivedOnce
<1>11. ASSUME NEW i \in 1 .. Len(lots), ~overlapped
       PROVE  SoldFrom(i)' = SoldFrom(i) + (IF i \in 1 .. k THEN took[i] ELSE 0)
  <2> DEFINE S == SalesFrom(i)
             f == [e \in S |-> sale[e].took[i]]
  <2>1. /\ IsFiniteSet(S) /\ d \notin S
        /\ \A e \in S : sale[e].took[i] \in Nat /\ sale'[e] = sale[e]
    <3>1. S \subseteq Orders /\ d \notin S
      BY <1>1 DEF SalesFrom
    <3>2. IsFiniteSet(S)
      <4> HIDE DEF S
      <4> QED BY <3>1, InventoryAssumption, FS_Subset
    <3>3. \A e \in S : sale[e].took[i] \in Nat
      BY DEF SalesFrom, StockOK
    <3> QED BY <1>1, <3>1, <3>2, <3>3
  <2>2. CASE i \in 1 .. k
    <3> DEFINE T == S \cup {d}
               g == [e \in T |-> sale'[e].took[i]]
    <3>1. SalesFrom(i)' = T
      BY <1>1, <1>5, <2>2 DEF SalesFrom
    <3>2. SoldFrom(i)' = SumOver(g, T)
      <4>1. [e \in SalesFrom(i)' |-> sale'[e].took[i]] = g
        BY <3>1
      <4> HIDE DEF T, g
      <4>2. SumOver([e \in SalesFrom(i)' |-> sale'[e].took[i]], SalesFrom(i)') = SumOver(g, T)
        BY <3>1, <4>1, Zenon
      <4> QED BY <4>2 DEF SoldFrom
    <3>3. /\ \A e \in S : g[e] = f[e] /\ g[e] \in Int
          /\ g[d] = took[i] /\ took[i] \in Int
      BY <1>1, <1>5, <2>1, <2>2
    <3>4. SumOver(g, T) = SumOver(g, S) + g[d]
      <4>1. \A e \in S \cup {d} : g[e] \in Int
        BY <3>3
      <4> HIDE DEF g, S
      <4> QED BY <2>1, <4>1, SumJoin
    <3>5. SumOver(g, S) = SumOver(f, S)
      <4> HIDE DEF f, g, S
      <4> QED BY <2>1, <3>3, SumSame
    <3>6. SoldFrom(i) = SumOver(f, S)
      BY Zenon DEF SoldFrom
    <3> HIDE DEF f, g, S, T
    <3> QED BY <2>2, <3>2, <3>3, <3>4, <3>5, <3>6
  <2>3. CASE i \notin 1 .. k
    <3>1. SalesFrom(i)' = S
      BY <1>1, <1>5, <2>3 DEF SalesFrom
    <3>2. [e \in SalesFrom(i)' |-> sale'[e].took[i]] = f
      BY <2>1, <3>1
    <3>3. SoldFrom(i)' = SoldFrom(i)
      <4>1. SoldFrom(i) = SumOver(f, S)
        BY Zenon DEF SoldFrom
      <4> HIDE DEF f, S
      <4>2. SumOver([e \in SalesFrom(i)' |-> sale'[e].took[i]], SalesFrom(i)') = SumOver(f, S)
        BY <3>1, <3>2, Zenon
      <4> QED BY <4>1, <4>2 DEF SoldFrom
    <3>4. SoldFrom(i) \in Int
      <4>1. SoldFrom(i) = SumOver(f, S)
        BY Zenon DEF SoldFrom
      <4>2. \A e \in S : f[e] \in Int
        BY <2>1
      <4> HIDE DEF f, S
      <4> QED BY <2>1, <4>1, <4>2, SumTakeOut
    <3> QED BY <2>3, <3>3, <3>4
  <2> QED BY <2>2, <2>3
<1>12. LotsAccountForSales'
  <2> SUFFICES ASSUME NEW i \in DOMAIN lots'
               PROVE  /\ lots'[i].remaining \in 0 .. lots'[i].quantity
                      /\ ~overlapped' =>
                           lots'[i].quantity - lots'[i].remaining = SoldFrom(i)'
    BY DEF LotsAccountForSales
  <2>1. i \in 1 .. Len(lots)
    BY <1>4, <1>8
  <2>2. lots'[i].remaining \in 0 .. lots'[i].quantity
    BY <1>7, <2>1
  <2>3. ASSUME ~overlapped
        PROVE  lots'[i].quantity - lots'[i].remaining = SoldFrom(i)'
    <3> DEFINE t == IF i \in 1 .. k THEN took[i] ELSE 0
    <3>1. t \in Int /\ lots[i].quantity \in Int /\ lots[i].remaining \in Int
      BY <1>5, <2>1, LotsAreLots DEF LotRow
    <3>2. lots[i].quantity - lots[i].remaining = SoldFrom(i)
      BY <1>4, <2>1, <2>3 DEF LotsAccountForSales
    <3>3. /\ lots'[i].quantity = lots[i].quantity
          /\ lots'[i].remaining = lots[i].remaining - t
          /\ SoldFrom(i)' = SoldFrom(i) + t
      BY <1>7, <1>11, <2>1, <2>3
    <3> HIDE DEF t
    <3> QED BY <3>1, <3>2, <3>3
  <2> QED BY <1>1, <2>2, <2>3
<1> QED BY <1>9, <1>10, <1>12

(* A reader's lots are the first ones still, when another lot is added.    *)
LEMMA ReadersStay ==
  ASSUME StockOK, lots' \in Seq(LotRow), Len(lots') = Len(lots) + 1,
         \A i \in DOMAIN lots : lots'[i] = lots[i],
         overlapped' = overlapped, NEW e, sale'[e] = sale[e], LotsRead(e)
  PROVE  LotsRead(e)'
<1>1. PICK k \in 0 .. Len(lots) :
        /\ sale[e].left \in [1 .. k -> Nat]
        /\ \A i \in 1 .. k : sale[e].left[i] <= lots[i].quantity
                             /\ (~overlapped => sale[e].left[i] = lots[i].remaining)
  BY DEF LotsRead
<1>2. k \in 0 .. Len(lots') /\ \A i \in 1 .. k : lots'[i] = lots[i]
  BY LotsAreLots
<1> QED BY <1>1, <1>2 DEF LotsRead

(* One order moves, not to or from a completed sale.                       *)
LEMMA SaleMoves ==
  ASSUME Books, NEW d \in Orders, NEW row, sale[d].at # "done", row.at # "done",
         sale' = [sale EXCEPT ![d] = row]
  PROVE  /\ DOMAIN sale' = Orders /\ sale'[d] = row /\ SalesStay
         /\ \A e \in Orders : e # d => sale'[e] = sale[e]
<1>1. DOMAIN sale' = Orders /\ sale'[d] = row /\ \A e \in Orders : e # d => sale'[e] = sale[e]
  BY DEF Books, StockOK
<1> QED BY <1>1 DEF SalesStay

LEMMA ReadLotsStep ==
  ASSUME Books, NEW d \in Orders, ReadLots(d)
  PROVE  Books'
<1> USE DEF Books
<1> PICK row : row = [at |-> "read", held |-> sale[d].held,
                      left |-> [i \in DOMAIN lots |-> lots[i].remaining]]
  OBVIOUS
<1>1. /\ UNCHANGED <<purchase, setting, lots, cold>>
      /\ sale' = [sale EXCEPT ![d] = row] /\ sale[d].at = "open"
      /\ overlapped' = (overlapped \/ Reading # {})
  BY DEF ReadLots
<1>2. /\ DOMAIN sale' = Orders /\ sale'[d] = row /\ SalesStay
      /\ \A e \in Orders : e # d => sale'[e] = sale[e]
  BY <1>1, SaleMoves
<1>3. Reading' = Reading \cup {d}
  BY <1>2 DEF Reading
<1>4. LotsRead(d)'
  <2>1. /\ sale'[d].left = [i \in 1 .. Len(lots) |-> lots[i].remaining]
        /\ Len(lots) \in 0 .. Len(lots)
    BY <1>2, LotsAreLots
  <2>2. \A i \in 1 .. Len(lots) : lots[i].remaining \in Nat /\ lots[i].quantity \in Nat
                                  /\ lots[i].remaining <= lots[i].quantity
    BY LotsAreLots DEF LotRow, LotsAccountForSales
  <2>3. /\ sale'[d].left \in [1 .. Len(lots) -> Nat]
        /\ \A i \in 1 .. Len(lots) : sale'[d].left[i] <= lots'[i].quantity
                                     /\ sale'[d].left[i] = lots'[i].remaining
    BY <1>1, <2>1, <2>2
  <2>4. Len(lots) \in 0 .. Len(lots')
    BY <1>1, <2>1
  <2> QED BY <2>3, <2>4 DEF LotsRead
<1>5. ASSUME NEW e \in Reading', e # d PROVE LotsRead(e)'
  <2>1. e \in Reading /\ LotsRead(e) /\ overlapped'
    BY <1>1, <1>3, <1>5 DEF StockOK
  <2>2. sale'[e] = sale[e]
    BY <1>2, <1>5 DEF Reading
  <2> QED BY <1>1, <2>1, <2>2 DEF LotsRead
<1>6. ~overlapped' => \A e, f \in Reading' : e = f
  BY <1>1, <1>3
<1>7. overlapped' \in BOOLEAN
  BY <1>1
<1>8. \A e \in Orders : sale'[e].at = "done" =>
        \E k \in 0 .. Len(lots') : sale'[e].took \in [1 .. k -> Nat]
  BY <1>1, <1>2 DEF StockOK
<1>9. StockOK'
  BY <1>1, <1>2, <1>4, <1>5, <1>6, <1>7, <1>8 DEF StockOK
<1>10. PurchaseReceivedOnce' /\ LotsAccountForSales'
  BY <1>1, <1>2, BooksStay
<1> QED BY <1>9, <1>10

(* OpenSale and RollBack: the order has read no lots.                      *)
LEMMA OpenStep ==
  ASSUME Books, NEW d \in Orders, NEW row, row.at = "open",
         sale[d].at \in {"NONE", "read"}, sale' = [sale EXCEPT ![d] = row],
         UNCHANGED <<purchase, setting, lots, cold, overlapped>>
  PROVE  Books'
<1> USE DEF Books
<1>1. /\ DOMAIN sale' = Orders /\ sale'[d] = row /\ SalesStay
      /\ \A e \in Orders : e # d => sale'[e] = sale[e]
  BY SaleMoves
<1>2. Reading' = Reading \ {d}
  BY <1>1 DEF Reading
<1>3. ASSUME NEW e \in Reading' PROVE LotsRead(e)'
  <2>1. e \in Reading /\ LotsRead(e) /\ sale'[e] = sale[e]
    BY <1>1, <1>2 DEF StockOK, Reading
  <2> QED BY <2>1 DEF LotsRead
<1>4. \A e \in Orders : sale'[e].at = "done" =>
        \E k \in 0 .. Len(lots') : sale'[e].took \in [1 .. k -> Nat]
  BY <1>1 DEF StockOK
<1>5. StockOK'
  BY <1>1, <1>2, <1>3, <1>4 DEF StockOK
<1>6. PurchaseReceivedOnce' /\ LotsAccountForSales'
  BY <1>1, BooksStay
<1> QED BY <1>5, <1>6

LEMMA DepositStep ==
  ASSUME QuotesOK, Books, NEW d \in Orders, quote[d].at = "ACTIVE", Deposit(d, quote[d])
  PROVE  Books'
<1> USE DEF Books
<1> PICK row : row = [purchase |-> 0, quantity |-> quote[d].usdt,
                      remaining |-> quote[d].usdt, cost |-> HalfUp(quote[d].rate, Bps)]
  OBVIOUS
<1>1. /\ sale[d].at = "open" /\ sale' = [sale EXCEPT ![d] = [at |-> "lot"]]
      /\ lots' = Append(lots, row) /\ UNCHANGED <<purchase, setting, cold, overlapped>>
  BY DEF Deposit, AddLot
<1>2. row \in LotRow /\ row.remaining = row.quantity
  <2>1. Active(quote[d]) /\ quote[d].usdt > 0
    BY DeskAssumption DEF Deposit, QuotesOK, Asked, NoQuote
  <2>2. quote[d].usdt \in Nat /\ quote[d].rate \in Int /\ Bps \in Int \ {0}
    BY <2>1, PricingAssumption DEF Active
  <2>3. HalfUp(quote[d].rate, Bps) \in Int
    BY <2>2, HalfUpInt
  <2> QED BY <2>2, <2>3 DEF LotRow
<1>3. /\ DOMAIN sale' = Orders /\ sale'[d] = [at |-> "lot"] /\ SalesStay
      /\ \A e \in Orders : e # d => sale'[e] = sale[e]
  <2>1. \E lot : lot = [at |-> "lot"]
    OBVIOUS
  <2> QED BY <1>1, <2>1, SaleMoves
<1>4. /\ lots' \in Seq(LotRow) /\ Len(lots') = Len(lots) + 1
      /\ DOMAIN lots' = DOMAIN lots \cup {Len(lots) + 1}
      /\ Len(lots) + 1 \notin DOMAIN lots
      /\ \A i \in DOMAIN lots : lots'[i] = lots[i]
      /\ lots'[Len(lots) + 1] = row
      /\ LotsAccountForSales'
  BY <1>1, <1>2, <1>3, LotJoins
<1>5. \A p \in Purchases : /\ LotOf(p)' = LotOf(p)
                           /\ SumOver(Quantities', LotOf(p)') = SumOver(Quantities, LotOf(p))
  <2> SUFFICES ASSUME NEW p \in Purchases
               PROVE  /\ LotOf(p)' = LotOf(p)
                      /\ SumOver(Quantities', LotOf(p)') = SumOver(Quantities, LotOf(p))
    OBVIOUS
  <2>1. \A i \in DOMAIN lots' \ DOMAIN lots : lots'[i].purchase # p
    BY <1>4, InventoryAssumption
  <2>2. \A i \in DOMAIN lots : /\ lots'[i].purchase = lots[i].purchase
                               /\ lots'[i].quantity = lots[i].quantity
    BY <1>4
  <2> QED BY <1>4, <2>1, <2>2, ReceiptsStay
<1>6. PurchaseReceivedOnce'
  BY <1>1, <1>5 DEF PurchaseReceivedOnce
<1>7. Reading' = Reading
  BY <1>1, <1>3 DEF Reading
<1>8. \A e \in Reading' : LotsRead(e)'
  <2>1. \A e \in Reading : sale'[e] = sale[e]
    BY <1>1, <1>3 DEF Reading
  <2> QED BY <1>1, <1>4, <1>7, <2>1, ReadersStay DEF StockOK
<1>9. \A e \in Orders : sale'[e].at = "done" =>
        \E k \in 0 .. Len(lots') : sale'[e].took \in [1 .. k -> Nat]
  <2>1. Len(lots) \in Nat /\ 0 .. Len(lots) \subseteq 0 .. Len(lots')
    BY <1>4, LotsAreLots
  <2>2. \A e \in Orders : sale'[e].at = "done" => sale[e].at = "done" /\ sale'[e] = sale[e]
    BY <1>3
  <2>3. \A e \in Orders : sale'[e].at = "done" =>
          \E k \in 0 .. Len(lots) : sale'[e].took \in [1 .. k -> Nat]
    BY <2>2 DEF StockOK
  <2> QED BY <2>1, <2>3
<1>10. StockOK'
  BY <1>1, <1>3, <1>4, <1>7, <1>8, <1>9 DEF StockOK
<1> QED BY <1>4, <1>6, <1>10

(* A purchase is received: it had no lot, and has one.                     *)
LEMMA ConfirmStep ==
  ASSUME Books, NEW o \in Operators, Confirm(o)
  PROVE  Books'
<1> USE DEF Books
<1> PICK p : p = setting[o].purchase
  OBVIOUS
<1>1. p \in Purchases
  BY DEF Confirm, StockOK
<1> PICK row : row = [purchase |-> p, quantity |-> Quantity[p],
                      remaining |-> Quantity[p], cost |-> UnitCost(p)]
  OBVIOUS
<1>2. /\ LotOf(p) = {} /\ purchase' = [purchase EXCEPT ![p] = "CONFIRMED"]
      /\ lots' = Append(lots, row) /\ cold' = [cold EXCEPT ![p] = @ + Quantity[p]]
      /\ setting' = [setting EXCEPT ![o] = [at |-> "idle"]]
      /\ sale' = sale /\ overlapped' = overlapped
  BY DEF Confirm, AddLot
<1>3. row \in LotRow /\ row.remaining = row.quantity
  <2>1. PaidGnf[p] \in Nat /\ UsdtUnits \in Nat /\ Quantity[p] \in Nat \ {0}
    BY <1>1, InventoryAssumption, PricingAssumption
  <2>2. UnitCost(p) \in Int
    <3>1. PaidGnf[p] * UsdtUnits \in Int /\ Quantity[p] \in Int \ {0}
      BY <2>1, MulNat
    <3> QED BY <3>1, HalfUpInt DEF UnitCost
  <2> QED BY <1>1, <2>1, <2>2 DEF LotRow
<1>4. SalesStay
  BY <1>2 DEF SalesStay
<1>5. /\ lots' \in Seq(LotRow) /\ Len(lots') = Len(lots) + 1
      /\ DOMAIN lots' = DOMAIN lots \cup {Len(lots) + 1}
      /\ Len(lots) + 1 \notin DOMAIN lots
      /\ \A i \in DOMAIN lots : lots'[i] = lots[i]
      /\ lots'[Len(lots) + 1] = row
      /\ LotsAccountForSales'
  BY <1>2, <1>3, <1>4, LotJoins
<1>6. ASSUME NEW x \in Purchases, x # p
      PROVE  /\ LotOf(x)' = LotOf(x)
             /\ SumOver(Quantities', LotOf(x)') = SumOver(Quantities, LotOf(x))
  <2>1. \A i \in DOMAIN lots' \ DOMAIN lots : lots'[i].purchase # x
    BY <1>5, <1>6
  <2>2. \A i \in DOMAIN lots : /\ lots'[i].purchase = lots[i].purchase
                               /\ lots'[i].quantity = lots[i].quantity
    BY <1>5
  <2> QED BY <1>5, <2>1, <2>2, ReceiptsStay
<1>7. /\ Cardinality(LotOf(p)') = 1 /\ LotOf(p)' # {}
      /\ cold'[p] = SumOver(Quantities', LotOf(p)')
  <2> PICK n : n = Len(lots) + 1
    OBVIOUS
  <2>1. LotOf(p)' = {n}
    <3>1. \A i \in DOMAIN lots : lots[i].purchase # p
      BY <1>2 DEF LotOf
    <3> QED BY <1>5, <3>1 DEF LotOf
  <2>2. Quantities'[n] = Quantity[p] /\ Quantity[p] \in Int
    BY <1>1, <1>5, InventoryAssumption DEF Quantities
  <2>3. SumOver(Quantities', {n}) = Quantity[p]
    <3> DEFINE f == Quantities'
    <3>1. f[n] = Quantity[p] /\ f[n] \in Int
      BY <2>2
    <3> HIDE DEF f
    <3>2. SumOver(f, {n}) = f[n]
      BY <3>1, SumOne
    <3> QED BY <3>1, <3>2 DEF f
  <2>4. cold[p] = 0
    <3>1. SumOver(Quantities, LotOf(p)) = SumOver(Quantities, {})
      BY <1>2, Zenon
    <3> QED BY <1>1, <3>1, SumEmpty DEF PurchaseReceivedOnce
  <2>5. cold'[p] = Quantity[p]
    BY <1>1, <1>2, <2>2, <2>4 DEF StockOK
  <2>6. SumOver(Quantities', LotOf(p)') = Quantity[p]
    BY <2>1, <2>3, Zenon
  <2> QED BY <2>1, <2>5, <2>6, FS_Singleton
<1>8. PurchaseReceivedOnce'
  <2>1. ASSUME NEW x \in Purchases, x # p
        PROVE  cold'[x] = cold[x] /\ purchase'[x] = purchase[x]
    BY <1>2, <2>1 DEF StockOK
  <2> SUFFICES ASSUME NEW x \in Purchases
               PROVE  /\ Cardinality(LotOf(x)') <= 1
                      /\ cold'[x] = SumOver(Quantities', LotOf(x)')
                      /\ purchase'[x] = "CONFIRMED" => LotOf(x)' # {}
    BY DEF PurchaseReceivedOnce
  <2>2. CASE x = p
    BY <1>7, <2>2
  <2>3. CASE x # p
    BY <1>6, <2>1, <2>3 DEF PurchaseReceivedOnce
  <2> QED BY <2>2, <2>3
<1>9. Reading' = Reading
  BY <1>2 DEF Reading
<1>10. \A e \in Reading' : LotsRead(e)'
  BY <1>2, <1>5, <1>9, ReadersStay DEF StockOK
<1>11. \A e \in Orders : sale'[e].at = "done" =>
         \E k \in 0 .. Len(lots') : sale'[e].took \in [1 .. k -> Nat]
  <2>1. Len(lots) \in Nat /\ 0 .. Len(lots) \subseteq 0 .. Len(lots')
    BY <1>5, LotsAreLots
  <2> QED BY <1>2, <2>1 DEF StockOK
<1>12. /\ purchase' \in [Purchases -> PurchaseStatus] /\ cold' \in [Purchases -> Nat]
       /\ setting' \in [Operators -> {[at |-> "idle"]}
                     \cup [at : {"write"}, purchase : Purchases, status : Settable]]
  <2>1. Quantity[p] \in Nat
    BY <1>1, InventoryAssumption
  <2> QED BY <1>1, <1>2, <2>1 DEF StockOK, PurchaseStatus
<1>13. StockOK'
  BY <1>2, <1>5, <1>9, <1>10, <1>11, <1>12 DEF StockOK
<1> QED BY <1>5, <1>8, <1>13

(* The steps of the operators that bring nothing.                          *)
LEMMA SupplyStep ==
  ASSUME Books, Supply
  PROVE  Books'
<1> USE DEF Books
<1>1. ASSUME UNCHANGED <<lots, cold, sale, overlapped>>,
             purchase' \in [Purchases -> PurchaseStatus],
             setting' \in [Operators -> {[at |-> "idle"]}
                     \cup [at : {"write"}, purchase : Purchases, status : Settable]],
             \A p \in Purchases : purchase'[p] = "CONFIRMED" => purchase[p] = "CONFIRMED"
      PROVE  Books'
  <2>1. SalesStay
    BY <1>1 DEF SalesStay
  <2>2. Reading' = Reading /\ \A e \in Reading : LotsRead(e)'
    <3>1. Reading' = Reading
      BY <1>1 DEF Reading
    <3>2. ASSUME NEW e \in Reading PROVE LotsRead(e)'
      <4>1. LotsRead(e)
        BY DEF StockOK
      <4> QED BY <1>1, <4>1 DEF LotsRead
    <3> QED BY <3>1, <3>2
  <2>3. StockOK'
    BY <1>1, <2>2 DEF StockOK
  <2> QED BY <1>1, <2>1, <2>3, BooksStay
<1>2. ASSUME NEW p \in Purchases, CreatePurchase(p) PROVE Books'
  <2>1. /\ purchase' = [purchase EXCEPT ![p] = "PENDING"]
        /\ UNCHANGED <<setting, lots, cold, sale, overlapped>>
    BY <1>2 DEF CreatePurchase
  <2>2. /\ purchase' \in [Purchases -> PurchaseStatus]
        /\ \A x \in Purchases : purchase'[x] = "CONFIRMED" => purchase[x] = "CONFIRMED"
    BY <2>1 DEF StockOK, PurchaseStatus
  <2>3. setting' \in [Operators -> {[at |-> "idle"]}
                     \cup [at : {"write"}, purchase : Purchases, status : Settable]]
    BY <2>1 DEF StockOK
  <2> QED BY <1>1, <2>1, <2>2, <2>3
<1>3. ASSUME NEW o \in Operators, NEW p \in Purchases, NEW status \in Settable,
             ReadPurchase(o, p, status)
      PROVE  Books'
  <2>1. /\ setting' = [setting EXCEPT ![o] = [at |-> "write", purchase |-> p, status |-> status]]
        /\ UNCHANGED <<purchase, lots, cold, sale, overlapped>>
    BY <1>3 DEF ReadPurchase
  <2>2. setting' \in [Operators -> {[at |-> "idle"]}
                     \cup [at : {"write"}, purchase : Purchases, status : Settable]]
    BY <2>1 DEF StockOK
  <2>3. purchase' \in [Purchases -> PurchaseStatus]
    BY <2>1 DEF StockOK
  <2> QED BY <1>1, <2>1, <2>2, <2>3
<1>4. ASSUME NEW o \in Operators, WriteStatus(o) PROVE Books'
  <2>1. /\ setting[o].at = "write" /\ setting[o].status # "CONFIRMED"
        /\ purchase' = [purchase EXCEPT ![setting[o].purchase] = setting[o].status]
        /\ setting' = [setting EXCEPT ![o] = [at |-> "idle"]]
        /\ UNCHANGED <<lots, cold, sale, overlapped>>
    BY <1>4 DEF WriteStatus
  <2>2. setting[o].status \in Settable
    BY <2>1 DEF StockOK
  <2>3. /\ purchase' \in [Purchases -> PurchaseStatus]
        /\ \A x \in Purchases : purchase'[x] = "CONFIRMED" => purchase[x] = "CONFIRMED"
    BY <2>1, <2>2, InventoryAssumption DEF StockOK, PurchaseStatus
  <2>4. setting' \in [Operators -> {[at |-> "idle"]}
                     \cup [at : {"write"}, purchase : Purchases, status : Settable]]
    BY <2>1 DEF StockOK
  <2> QED BY <1>1, <2>1, <2>3, <2>4
<1>5. ASSUME NEW o \in Operators, DropSetting(o) PROVE Books'
  <2>1. /\ setting' = [setting EXCEPT ![o] = [at |-> "idle"]]
        /\ UNCHANGED <<purchase, lots, cold, sale, overlapped>>
    BY <1>5 DEF DropSetting
  <2>2. /\ setting' \in [Operators -> {[at |-> "idle"]}
                     \cup [at : {"write"}, purchase : Purchases, status : Settable]]
        /\ purchase' \in [Purchases -> PurchaseStatus]
    BY <2>1 DEF StockOK
  <2> QED BY <1>1, <2>1, <2>2
<1> QED BY <1>2, <1>3, <1>4, <1>5, ConfirmStep DEF Supply

LEMMA BooksStep ==
  ASSUME QuotesOK, Books, [DeskNext]_deskVars
  PROVE  Books'
<1>1. CASE UNCHANGED inventoryVars
  <2>1. SalesStay
    BY <1>1 DEF SalesStay, inventoryVars
  <2>2. StockOK'
    BY <1>1 DEF Books, StockOK, Reading, LotsRead, inventoryVars
  <2>3. PurchaseReceivedOnce' /\ LotsAccountForSales'
    BY <1>1, <2>1, BooksStay DEF Books, inventoryVars
  <2> QED BY <2>2, <2>3 DEF Books
<1>2. ASSUME NEW d \in Orders, Traded(d) PROVE Books'
  <2>1. PICK held : OpenSale(d, held)
    BY <1>2 DEF Traded
  <2> PICK row : row = [at |-> "open", held |-> held]
    OBVIOUS
  <2>2. /\ sale[d].at = "NONE" /\ row.at = "open" /\ sale' = [sale EXCEPT ![d] = row]
        /\ UNCHANGED <<purchase, setting, lots, cold, overlapped>>
    BY <2>1 DEF OpenSale
  <2> QED BY <2>2, OpenStep
<1>3. ASSUME NEW d \in Orders, SellFromStock(d) PROVE Books'
  <2>1. quote[d].at = "ACTIVE"
    BY <1>3 DEF SellFromStock
  <2>2. RollBack(d) => Books'
    <3> SUFFICES ASSUME RollBack(d) PROVE Books'
      OBVIOUS
    <3> PICK row : row = [at |-> "open", held |-> sale[d].held]
      OBVIOUS
    <3>1. /\ sale[d].at = "read" /\ row.at = "open" /\ sale' = [sale EXCEPT ![d] = row]
          /\ UNCHANGED <<purchase, setting, lots, cold, overlapped>>
      BY DEF RollBack
    <3> QED BY <3>1, OpenStep
  <2> QED BY <1>3, <2>1, <2>2, ReadLotsStep, CompleteStep DEF SellFromStock
<1>4. ASSUME NEW d \in Orders, BuyIntoStock(d) PROVE Books'
  BY <1>4, DepositStep DEF BuyIntoStock
<1> QED
  BY <1>1, <1>2, <1>3, <1>4, SupplyStep DEF DeskNext, deskVars

LEMMA BooksStart == DeskInit => Books
<1> SUFFICES ASSUME DeskInit PROVE Books
  OBVIOUS
<1>1. /\ purchase = [p \in Purchases |-> "NONE"]
      /\ setting = [o \in Operators |-> [at |-> "idle"]]
      /\ lots = <<>> /\ cold = [p \in Purchases |-> 0]
      /\ sale = [d \in Orders |-> [at |-> "NONE"]] /\ overlapped = FALSE
  BY DEF DeskInit, InventoryInit
<1>2. Reading = {}
  BY <1>1 DEF Reading
<1>3. StockOK
  <2>1. lots \in Seq(LotRow) /\ overlapped \in BOOLEAN
    <3>1. <<>> \in Seq(LotRow)
      OBVIOUS
    <3> QED BY <1>1, <3>1
  <2>2. purchase \in [Purchases -> PurchaseStatus] /\ cold \in [Purchases -> Nat]
    BY <1>1 DEF PurchaseStatus
  <2>3. setting \in [Operators -> {[at |-> "idle"]}
                    \cup [at : {"write"}, purchase : Purchases, status : Settable]]
    BY <1>1
  <2>4. DOMAIN sale = Orders /\ \A d \in Orders : sale[d].at = "NONE"
    BY <1>1
  <2> QED BY <1>2, <2>1, <2>2, <2>3, <2>4 DEF StockOK
<1>4. \A p : LotOf(p) = {}
  BY <1>1 DEF LotOf
<1>5. PurchaseReceivedOnce
  <2>1. \A p : SumOver(Quantities, LotOf(p)) = SumOver(Quantities, {})
    BY <1>4, Zenon
  <2>2. \A p : SumOver(Quantities, LotOf(p)) = 0
    BY <2>1, SumEmpty
  <2>3. \A p : Cardinality(LotOf(p)) <= 1
    BY <1>4, FS_EmptySet
  <2> QED BY <1>1, <2>2, <2>3 DEF PurchaseReceivedOnce
<1>6. LotsAccountForSales
  BY <1>1 DEF LotsAccountForSales
<1> QED BY <1>3, <1>5, <1>6 DEF Books

-----------------------------------------------------------------------------
(* The inductive invariant of the desk: prices and stock stay in order      *)
(* through every update of the configuration, quote, purchase and sale.     *)
THEOREM DeskInvariant == DeskSpec => []DeskInv
<1>1. DeskInit => DeskInv
  BY PricesStart, BooksStart DEF DeskInv, Books
<1>2. DeskInv /\ [DeskNext]_deskVars => DeskInv'
  BY ConfigStep, QuotesStep, BooksStep DEF DeskInv, Books
<1> QED BY <1>1, <1>2, PTL DEF DeskSpec

(* OneActiveConfig, for any admins, versions, rules and orders.            *)
THEOREM OneConfigIsActive == DeskSpec => []OneActiveConfig
<1>1. DeskInv => OneActiveConfig
  BY NewestIsLast DEF DeskInv, ConfigOK, Newest, OneActiveConfig
<1> QED BY <1>1, DeskInvariant, PTL

(* NobodyGainsByTurning, for any rates and amounts, and for rules and      *)
(* buffers of either sign, as long as the two quotes show spreads that do  *)
(* not cross and fees that are not negative.                               *)
THEOREM TurningNeverGains == DeskSpec => []NobodyGainsByTurning
<1>1. DeskInv => NobodyGainsByTurning
  BY TurningLoses DEF DeskInv
<1> QED BY <1>1, DeskInvariant, PTL

(* PurchaseReceivedOnce, for any number of operators.                      *)
THEOREM PurchasesAreReceivedOnce == DeskSpec => []PurchaseReceivedOnce
<1>1. DeskInv => PurchaseReceivedOnce
  BY DEF DeskInv
<1> QED BY <1>1, DeskInvariant, PTL

(* LotsAccountForSales, for any orders, lots and quotes.                   *)
THEOREM SalesLeaveTheLots == DeskSpec => []LotsAccountForSales
<1>1. DeskInv => LotsAccountForSales
  BY DEF DeskInv
<1> QED BY <1>1, DeskInvariant, PTL

-----------------------------------------------------------------------------
USE ModemsAssumption

-----------------------------------------------------------------------------
(* What is said of a use that is named, if one is.                          *)
Known(assigned) == assigned # NoUse => WasGiven(assigned.use)

WorkersKnow == \A w \in Workers : worker[w].at \in NamesUse => Known(worker[w].from)

LEMMA NoUseIsNone == NoUse \notin Assignment
BY DEF NoUse, Assignment, Nothing

(* What a state of a worker holds.                                          *)
LEMMA StateFields ==
  ASSUME NEW s \in WorkerState
  PROVE  /\ s.at # "idle" => s.on \in Jobs
         /\ s.at \in {"initiate", "record", "poll", "release", "write"} => s.from \in Assignment
         /\ s.at = "match" => s.from \in Assigned
         /\ s.at \in {"reconcile", "match"} => s.exact \in BOOLEAN
         /\ s.at \in {"release", "write"} => s.success \in BOOLEAN /\ s.threw \in BOOLEAN
         /\ s.at = "write" => s.read \in Modem
<1>1. CASE s \in {Idle}
  BY <1>1 DEF Idle
<1>2. CASE s \in [at : {"allocate"}, on : Jobs]
  BY <1>2
<1>3. CASE s \in [at : {"initiate"}, on : Jobs, from : Assignment]
  BY <1>3
<1>4. CASE s \in [at : {"record"}, on : Jobs, from : Assignment, refused : BOOLEAN]
  BY <1>4
<1>5. CASE s \in [at : {"poll"}, on : Jobs, from : Assignment, read : JobStatus]
  BY <1>5
<1>6. CASE s \in [at : {"reconcile"}, on : Jobs, exact : BOOLEAN]
  BY <1>6
<1>7. CASE s \in [at : {"match"}, on : Jobs, from : Assigned, exact : BOOLEAN]
  BY <1>7
<1>8. CASE s \in [at : {"release"}, on : Jobs, from : Assignment, success : BOOLEAN, threw : BOOLEAN]
  BY <1>8
<1>9. CASE s \in [at : {"write"}, on : Jobs, from : Assignment, success : BOOLEAN, threw : BOOLEAN,
                  read : Modem]
  BY <1>9
<1> QED BY <1>1, <1>2, <1>3, <1>4, <1>5, <1>6, <1>7, <1>8, <1>9 DEF WorkerState

(* A worker that enters a state which names a use that was given.           *)
LEMMA WorkerGoes ==
  ASSUME TypeOK, NEW w \in Workers, NEW s \in WorkerState, Go(w, s)
  PROVE  /\ worker' \in [Workers -> WorkerState]
         /\ \A v \in Workers : worker'[v] = IF v = w THEN s ELSE worker[v]
BY DEF TypeOK, Go

LEMMA WorkerKnows ==
  ASSUME TypeOK, WorkersKnow, NEW w \in Workers, NEW s \in WorkerState, Go(w, s),
         s.at # "write", s.at \in NamesUse => Known(s.from)
  PROVE  /\ worker' \in [Workers -> WorkerState]
         /\ \A v \in Workers : worker'[v].at \in NamesUse => Known(worker'[v].from)
         /\ \A v \in Workers : worker'[v].at = "write" => worker'[v] = worker[v]
BY WorkerGoes DEF WorkersKnow

LEMMA WorkerLeaves ==
  ASSUME TypeOK, WorkersKnow, NEW w \in Workers, Leave(w)
  PROVE  /\ worker' \in [Workers -> WorkerState]
         /\ holder' \in [Jobs -> Workers \cup {Nothing}]
         /\ \A v \in Workers : worker'[v] = IF v = w THEN Idle ELSE worker[v]
         /\ \A v \in Workers : worker'[v].at \in NamesUse => Known(worker'[v].from)
         /\ \A v \in Workers : worker'[v].at = "write" => worker'[v] = worker[v]
<1>1. Idle \in WorkerState /\ Idle.at \notin NamesUse /\ Idle.at # "write" /\ Go(w, Idle)
  BY DEF Leave, WorkerState, Idle, NamesUse
<1>2. holder' \in [Jobs -> Workers \cup {Nothing}]
  BY DEF Leave, TypeOK
<1> QED BY <1>1, <1>2, WorkerKnows, WorkerGoes

(* It leaves, or goes on to release what the row named.                     *)
LEMMA ThenReleases ==
  ASSUME TypeOK, WorkersKnow, NEW w \in Workers, NEW j \in Jobs, NEW assigned \in Assigned,
         Known(assigned), NEW success \in BOOLEAN, ThenRelease(w, j, assigned, success)
  PROVE  /\ worker' \in [Workers -> WorkerState]
         /\ holder' \in [Jobs -> Workers \cup {Nothing}]
         /\ \A v \in Workers : worker'[v].at \in NamesUse => Known(worker'[v].from)
         /\ \A v \in Workers : worker'[v].at = "write" => worker'[v] = worker[v]
<1>1. CASE assigned = NoUse
  BY <1>1, WorkerLeaves DEF ThenRelease
<1>2. CASE assigned # NoUse
  <2> DEFINE s == ReleaseOf(j, assigned, success, FALSE)
  <2>1. s \in [at : {"release"}, on : Jobs, from : Assignment, success : BOOLEAN, threw : BOOLEAN]
    BY <1>2 DEF ReleaseOf, Assigned, Assignment
  <2>2. s \in WorkerState /\ s.at = "release" /\ s.from = assigned
    BY <2>1 DEF WorkerState, ReleaseOf
  <2>3. Go(w, s) /\ holder' = holder
    BY <1>2 DEF ThenRelease
  <2> HIDE DEF s
  <2> QED BY <2>2, <2>3, WorkerKnows DEF TypeOK
<1> QED BY <1>1, <1>2

LEMMA RowsAndWorkersKnow ==
  UsesAreGiven <=> /\ \A i \in ModemIds : IsFiniteSet(open[i]) /\ \A use \in open[i] : WasGiven(use)
                   /\ \A j \in Jobs : Known(job[j].assigned)
                   /\ WorkersKnow
BY DEF UsesAreGiven, WorkersKnow, Known

(* A step that leaves the counters, the failures and the uses as they are,  *)
(* and starts no release.                                                   *)
LEMMA QuietStep ==
  ASSUME IInv, TypeOK', open' = open, streak' = streak, underflow' = underflow,
         \A i \in ModemIds : /\ modem'[i].activeJobs = modem[i].activeJobs
                             /\ modem'[i].recentFailures = modem[i].recentFailures,
         \A j \in Jobs : job'[j].starts = job[j].starts /\ Known(job'[j].assigned),
         \A v \in Workers : worker'[v].at \in NamesUse => Known(worker'[v].from),
         \A v \in Workers : worker'[v].at = "write" => worker'[v] = worker[v]
  PROVE  IInv'
<1>1. ASSUME NEW use \in Uses, WasGiven(use) PROVE WasGiven(use)'
  BY <1>1 DEF WasGiven, Uses
<1>2. ASSUME NEW assigned \in Assigned, Known(assigned) PROVE Known(assigned)'
  <2>1. CASE assigned = NoUse
    BY <2>1 DEF Known
  <2>2. CASE assigned # NoUse
    <3>1. assigned.use \in Uses
      BY <2>2 DEF Assigned
    <3> QED BY <1>1, <1>2, <2>2, <3>1 DEF Known
  <2> QED BY <2>1, <2>2
<1>3. UsesAreGiven'
  <2>1. \A i \in ModemIds : IsFiniteSet(open'[i]) /\ \A use \in open'[i] : WasGiven(use)'
    BY <1>1 DEF IInv, UsesAreGiven, TypeOK
  <2>2. ASSUME NEW j \in Jobs PROVE Known(job[j].assigned)'
    <3>1. job'[j].assigned \in Assigned
      BY DEF TypeOK, JobRow
    <3> QED BY <1>2, <3>1 DEF Known, WasGiven
  <2>3. ASSUME NEW v \in Workers, worker'[v].at \in NamesUse
        PROVE  Known(worker[v].from)'
    <3>1. worker'[v] \in WorkerState
      BY DEF TypeOK
    <3>2. worker'[v].from \in Assigned
      BY <2>3, <3>1, StateFields DEF NamesUse, Assignment, Assigned
    <3> QED BY <1>2, <2>3, <3>2 DEF Known, WasGiven
  <2> QED BY <2>1, <2>2, <2>3 DEF UsesAreGiven, Known
<1>4. ASSUME NEW i \in ModemIds \ underflow'
      PROVE  /\ modem'[i].activeJobs >= 0
             /\ \A w \in Workers : Releases(w, i)' => worker'[w].read.activeJobs >= 0
             /\ modem'[i].activeJobs + Cardinality(Uncounted(i)') <= Cardinality(open'[i])
  <2>1. /\ modem[i].activeJobs >= 0 /\ modem'[i].activeJobs = modem[i].activeJobs
        /\ \A w \in Workers : Releases(w, i) => worker[w].read.activeJobs >= 0
        /\ modem[i].activeJobs + Cardinality(Uncounted(i)) <= Cardinality(open[i])
    BY <1>4 DEF IInv, CounterInv
  <2>2. Uncounted(i)' \subseteq Uncounted(i) /\ IsFiniteSet(Uncounted(i))
    <3>1. IsFiniteSet(open[i]) /\ Uncounted(i) \subseteq open[i]
      BY <1>4 DEF IInv, UsesAreGiven, Uncounted
    <3>2. Uncounted(i)' \subseteq Uncounted(i)
      BY DEF Uncounted, Releases
    <3> QED BY <3>1, <3>2, FS_Subset
  <2>3. /\ Cardinality(Uncounted(i)') <= Cardinality(Uncounted(i))
        /\ Cardinality(Uncounted(i)') \in Nat /\ Cardinality(Uncounted(i)) \in Nat
    BY <2>2, FS_Subset, FS_CardinalityType
  <2>4. Cardinality(open[i]) \in Nat /\ modem[i].activeJobs \in Int
    BY <1>4, FS_CardinalityType DEF IInv, UsesAreGiven, TypeOK, Modem
  <2>5. \A w \in Workers : Releases(w, i)' => worker'[w].read.activeJobs >= 0
    BY <2>1 DEF Releases
  <2> QED BY <2>1, <2>3, <2>4, <2>5
<1>5. CounterInv'
  BY <1>4 DEF CounterInv
<1>6. StreakIsCounted'
  BY DEF IInv, StreakIsCounted
<1> QED BY <1>3, <1>5, <1>6 DEF IInv

-----------------------------------------------------------------------------
(* The steps that move no counter.                                          *)

LEMMA TypeParts ==
  IInv => /\ TypeOK /\ WorkersKnow
          /\ \A j \in Jobs : job[j] \in JobRow /\ Known(job[j].assigned)
          /\ \A w \in Workers : worker[w] \in WorkerState
BY RowsAndWorkersKnow DEF IInv, TypeOK

(* One with the rows of the modems unchanged and one worker, or none,       *)
(* moving on.                                                               *)
LEMMA QuietForRows ==
  ASSUME IInv, UNCHANGED rows,
         job' \in [Jobs -> JobRow], holder' \in [Jobs -> Workers \cup {Nothing}],
         worker' \in [Workers -> WorkerState],
         DOMAIN health' \subseteq ModemIds, \A i \in DOMAIN health' : health'[i] \in Modem,
         \A j \in Jobs : job'[j].starts = job[j].starts /\ Known(job'[j].assigned),
         \A v \in Workers : worker'[v].at \in NamesUse => Known(worker'[v].from),
         \A v \in Workers : worker'[v].at = "write" => worker'[v] = worker[v]
  PROVE  IInv'
<1>1. modem' = modem /\ open' = open /\ streak' = streak /\ underflow' = underflow
  BY DEF rows
<1>2. TypeOK'
  BY <1>1 DEF IInv, TypeOK
<1> QED BY <1>1, <1>2, QuietStep

(* The workers that stay where they are know what they knew.                *)
LEMMA WorkersStay ==
  ASSUME IInv, UNCHANGED worker
  PROVE  /\ worker' \in [Workers -> WorkerState]
         /\ \A v \in Workers : worker'[v].at \in NamesUse => Known(worker'[v].from)
         /\ \A v \in Workers : worker'[v].at = "write" => worker'[v] = worker[v]
BY TypeParts DEF TypeOK, WorkersKnow

LEMMA RowsStay ==
  ASSUME IInv
  PROVE  /\ \A j \in Jobs : /\ job[j] \in JobRow /\ Known(job[j].assigned)
                            /\ job[j].assigned \in Assigned
         /\ UNCHANGED job => /\ job' \in [Jobs -> JobRow]
                             /\ \A j \in Jobs : job'[j].starts = job[j].starts /\ Known(job'[j].assigned)
         /\ UNCHANGED holder => holder' \in [Jobs -> Workers \cup {Nothing}]
         /\ UNCHANGED health => DOMAIN health' \subseteq ModemIds /\ \A i \in DOMAIN health' : health'[i] \in Modem
BY TypeParts DEF TypeOK, JobRow

LEMMA StatusSet ==
  ASSUME IInv, NEW j \in Jobs, NEW status \in JobStatus, SetStatus(j, status)
  PROVE  /\ job' \in [Jobs -> JobRow]
         /\ \A k \in Jobs : job'[k].starts = job[k].starts /\ Known(job'[k].assigned)
<1>1. job \in [Jobs -> JobRow] /\ \A k \in Jobs : Known(job[k].assigned)
  BY TypeParts DEF TypeOK
<1>2. job' = [job EXCEPT ![j].status = status]
  BY DEF SetStatus
<1>3. job' \in [Jobs -> JobRow]
  BY <1>1, <1>2 DEF JobRow
<1>4. ASSUME NEW k \in Jobs
      PROVE  job'[k].starts = job[k].starts /\ job'[k].assigned = job[k].assigned
  BY <1>1, <1>2 DEF JobRow
<1> QED BY <1>1, <1>3, <1>4

LEMMA StartKeeps ==
  ASSUME IInv, NEW w \in Workers, NEW j \in Jobs, Start(w, j)
  PROVE  IInv'
<1> DEFINE s == [at |-> "allocate", on |-> j]
<1>1. s \in WorkerState /\ s.at = "allocate" /\ s.at \notin NamesUse
  <2>1. s \in [at : {"allocate"}, on : Jobs]
    OBVIOUS
  <2> QED BY <2>1 DEF WorkerState, NamesUse
<1>2. /\ Go(w, s) /\ holder' = [holder EXCEPT ![j] = w] /\ UNCHANGED <<rows, health>>
      /\ SetStatus(j, "PENDING") \/ UNCHANGED job
  BY DEF Start, Enter
<1>3. holder' \in [Jobs -> Workers \cup {Nothing}]
  BY <1>2, TypeParts DEF TypeOK
<1>4. "PENDING" \in JobStatus
  BY DEF JobStatus
<1> HIDE DEF s
<1> QED BY <1>1, <1>2, <1>3, <1>4, TypeParts, WorkerKnows, StatusSet, RowsStay, QuietForRows

LEMMA PollKeeps ==
  ASSUME IInv, NEW w \in Workers, NEW j \in Jobs, Poll(w, j)
  PROVE  IInv'
<1> DEFINE s == [at |-> "poll", on |-> j, read |-> job[j].status, from |-> job[j].assigned]
<1>1. job[j].assigned \in Assignment /\ Known(job[j].assigned) /\ job[j].status \in JobStatus
  BY TypeParts DEF Poll, JobRow, Assigned, Assignment
<1>2. s \in WorkerState /\ s.at = "poll" /\ Known(s.from)
  <2>1. s \in [at : {"poll"}, on : Jobs, from : Assignment, read : JobStatus]
    BY <1>1
  <2> QED BY <1>1, <2>1 DEF WorkerState
<1>3. Go(w, s) /\ holder' = [holder EXCEPT ![j] = w] /\ UNCHANGED <<job, rows, health>>
  BY DEF Poll, Enter
<1>4. holder' \in [Jobs -> Workers \cup {Nothing}]
  BY <1>3, TypeParts DEF TypeOK
<1> HIDE DEF s
<1> QED BY <1>2, <1>3, <1>4, TypeParts, WorkerKnows, RowsStay, QuietForRows

(* What a release of a use that was given starts with.                      *)
LEMMA ReleaseState ==
  ASSUME NEW j \in Jobs, NEW from \in Assignment, NEW success \in BOOLEAN, NEW threw \in BOOLEAN
  PROVE  LET s == ReleaseOf(j, from, success, threw)
         IN  s \in WorkerState /\ s.at = "release" /\ s.from = from
<1> DEFINE s == ReleaseOf(j, from, success, threw)
<1>1. s \in [at : {"release"}, on : Jobs, from : Assignment, success : BOOLEAN, threw : BOOLEAN]
  BY DEF ReleaseOf
<1> QED BY <1>1 DEF WorkerState, ReleaseOf

LEMMA ExpireKeeps ==
  ASSUME IInv, NEW w \in Workers, NEW j \in Jobs, ExpireIntent(w, j)
  PROVE  IInv'
<1> DEFINE s == ReleaseOf(j, job[j].assigned, FALSE, FALSE)
<1>1. SetStatus(j, "EXPIRED") /\ "EXPIRED" \in JobStatus /\ UNCHANGED <<rows, health>>
  BY DEF ExpireIntent, JobStatus, Final
<1>2. CASE job[j].assigned = NoUse
  <2>1. UNCHANGED <<worker, holder>>
    BY <1>2 DEF ExpireIntent
  <2> QED BY <1>1, <2>1, WorkersStay, StatusSet, RowsStay, QuietForRows
<1>3. CASE job[j].assigned # NoUse
  <2>1. Go(w, s) /\ holder' = [holder EXCEPT ![j] = w]
    BY <1>3 DEF ExpireIntent
  <2>2. job[j].assigned \in Assignment /\ Known(job[j].assigned)
    BY <1>3, TypeParts DEF JobRow, Assigned, Assignment
  <2>3. s \in WorkerState /\ s.at = "release" /\ Known(s.from)
    BY <2>2, ReleaseState
  <2>4. holder' \in [Jobs -> Workers \cup {Nothing}]
    BY <2>1, TypeParts DEF TypeOK
  <2> HIDE DEF s
  <2> QED BY <1>1, <2>1, <2>3, <2>4, TypeParts, WorkerKnows, StatusSet, RowsStay, QuietForRows
<1> QED BY <1>2, <1>3

LEMMA ResolveKeeps ==
  ASSUME IInv, NEW w \in Workers, NEW j \in Jobs, NEW d, AdminResolve(w, j, d)
  PROVE  IInv'
<1> DEFINE s == ReleaseOf(j, job[j].assigned, TRUE, FALSE)
<1>1. PICK status \in JobStatus : SetStatus(j, status)
  BY DEF AdminResolve, JobStatus, Final
<1>2. UNCHANGED <<rows, holder, health>> /\ (UNCHANGED worker \/ (job[j].assigned # NoUse /\ Go(w, s)))
  BY DEF AdminResolve
<1>3. CASE UNCHANGED worker
  BY <1>1, <1>2, <1>3, WorkersStay, StatusSet, RowsStay, QuietForRows
<1>4. CASE job[j].assigned # NoUse /\ Go(w, s)
  <2>1. job[j].assigned \in Assignment /\ Known(job[j].assigned)
    BY <1>4, TypeParts DEF JobRow, Assigned, Assignment
  <2>2. s \in WorkerState /\ s.at = "release" /\ Known(s.from)
    BY <2>1, ReleaseState
  <2> HIDE DEF s
  <2> QED BY <1>1, <1>2, <1>4, <2>2, TypeParts, WorkerKnows, StatusSet, RowsStay, QuietForRows
<1> QED BY <1>2, <1>3, <1>4

LEMMA InitiateKeeps ==
  ASSUME IInv, NEW w \in Workers, Initiate(w)
  PROVE  IInv'
<1> DEFINE j == worker[w].on
           from == worker[w].from
           t == ReleaseOf(j, from, FALSE, j \in Payouts)
<1>1. j \in Jobs /\ from \in Assignment /\ Known(from)
  BY TypeParts, StateFields DEF Initiate, WorkersKnow, NamesUse
<1>2. UNCHANGED <<job, rows, holder, health>>
  BY DEF Initiate
<1>3. ASSUME NEW refused \in BOOLEAN,
             Go(w, [at |-> "record", on |-> j, from |-> from, refused |-> refused])
      PROVE  IInv'
  <2> DEFINE s == [at |-> "record", on |-> j, from |-> from, refused |-> refused]
  <2>1. s \in WorkerState /\ s.at = "record" /\ Known(s.from)
    <3>1. s \in [at : {"record"}, on : Jobs, from : Assignment, refused : BOOLEAN]
      BY <1>1
    <3> QED BY <1>1, <3>1 DEF WorkerState
  <2>2. Go(w, s)
    BY <1>3
  <2> HIDE DEF s
  <2> QED BY <1>2, <2>1, <2>2, TypeParts, WorkerKnows, RowsStay, QuietForRows
<1>4. ASSUME Go(w, t) PROVE IInv'
  <2>1. t \in WorkerState /\ t.at = "release" /\ Known(t.from)
    <3> DEFINE pays == j \in Payouts
    <3>1. pays \in BOOLEAN
      OBVIOUS
    <3> HIDE DEF pays, j, from
    <3>2. LET s == ReleaseOf(j, from, FALSE, pays)
          IN  s \in WorkerState /\ s.at = "release" /\ s.from = from
      BY <1>1, <3>1, ReleaseState, Zenon
    <3> QED BY <1>1, <3>2 DEF pays, j, from
  <2> HIDE DEF t
  <2> QED BY <1>2, <1>4, <2>1, TypeParts, WorkerKnows, RowsStay, QuietForRows
<1>5. \/ Go(w, t)
      \/ \E refused \in BOOLEAN :
           Go(w, [at |-> "record", on |-> j, from |-> from, refused |-> refused])
  BY DEF Initiate
<1> QED BY <1>3, <1>4, <1>5

LEMMA RecordKeeps ==
  ASSUME IInv, NEW w \in Workers, RecordStart(w)
  PROVE  IInv'
<1> DEFINE j == worker[w].on
           from == worker[w].from
           t == ReleaseOf(j, from, FALSE, FALSE)
           p == [at |-> "poll", on |-> j, read |-> "PROCESSING", from |-> from]
<1>1. j \in Jobs /\ from \in Assignment /\ Known(from)
  BY TypeParts, StateFields DEF RecordStart, WorkersKnow, NamesUse
<1>2. UNCHANGED <<rows, health>>
  BY DEF RecordStart
<1>3. /\ job' \in [Jobs -> JobRow]
      /\ \A k \in Jobs : job'[k].starts = job[k].starts /\ Known(job'[k].assigned)
  <2>1. PICK status \in JobStatus, attempts \in Nat :
          job' = [job EXCEPT ![j].status = status, ![j].assigned = from, ![j].attempts = attempts]
    <3>1. job[j].attempts \in Nat /\ job[j].attempts + 1 \in Nat
      BY <1>1, TypeParts DEF JobRow
    <3>2. {"AWAITING_PAYMENT", "FAILED", "PROCESSING"} \subseteq JobStatus
      BY DEF JobStatus
    <3>3. job' = [job EXCEPT
              ![j].status = IF j \in Intents THEN "AWAITING_PAYMENT"
                            ELSE IF worker[w].refused THEN "FAILED" ELSE "PROCESSING",
              ![j].assigned = from,
              ![j].attempts = IF j \in Payouts THEN job[j].attempts + 1 ELSE job[j].attempts]
      BY <1>1, TypeParts DEF RecordStart, TypeOK, JobRow
    <3> QED BY <3>1, <3>2, <3>3
  <2>2. from \in Assigned
    BY <1>1 DEF Assignment, Assigned
  <2> HIDE DEF j, from
  <2>3. job \in [Jobs -> JobRow]
    BY TypeParts DEF TypeOK
  <2>4. job' \in [Jobs -> JobRow]
    BY <1>1, <2>1, <2>2, <2>3 DEF JobRow
  <2>5. ASSUME NEW k \in Jobs
        PROVE  job'[k].starts = job[k].starts
               /\ (job'[k].assigned = from \/ job'[k].assigned = job[k].assigned)
    BY <1>1, <2>1, <2>3 DEF JobRow
  <2>6. \A k \in Jobs : Known(job[k].assigned)
    BY TypeParts
  <2>7. ASSUME NEW k \in Jobs PROVE Known(job'[k].assigned)
    <3>1. CASE job'[k].assigned = from
      BY <1>1, <3>1
    <3>2. CASE job'[k].assigned = job[k].assigned
      BY <2>6, <3>2
    <3> QED BY <2>5, <3>1, <3>2
  <2> QED BY <2>4, <2>5, <2>7
<1>4. CASE Leave(w)
  BY <1>2, <1>3, <1>4, TypeParts, WorkerLeaves, RowsStay, QuietForRows
<1>5. CASE Go(w, t) /\ UNCHANGED holder
  <2>1. t \in WorkerState /\ t.at = "release" /\ Known(t.from)
    BY <1>1, ReleaseState
  <2> HIDE DEF t
  <2> QED BY <1>2, <1>3, <1>5, <2>1, TypeParts, WorkerKnows, RowsStay, QuietForRows
<1>6. CASE Go(w, p) /\ UNCHANGED holder
  <2>1. p \in WorkerState /\ p.at = "poll" /\ Known(p.from)
    <3>1. p \in [at : {"poll"}, on : Jobs, from : Assignment, read : JobStatus]
      BY <1>1 DEF JobStatus
    <3> QED BY <1>1, <3>1 DEF WorkerState
  <2> HIDE DEF p
  <2> QED BY <1>2, <1>3, <1>6, <2>1, TypeParts, WorkerKnows, RowsStay, QuietForRows
<1>7. Leave(w) \/ (Go(w, t) /\ UNCHANGED holder) \/ (Go(w, p) /\ UNCHANGED holder)
  BY DEF RecordStart
<1> QED BY <1>4, <1>5, <1>6, <1>7

LEMMA AnswerKeeps ==
  ASSUME IInv, NEW w \in Workers, Answer(w)
  PROVE  IInv'
<1> DEFINE j == worker[w].on
           from == worker[w].from
<1>1. j \in Jobs /\ from \in Assignment /\ from \in Assigned /\ Known(from)
  BY TypeParts, StateFields DEF Answer, WorkersKnow, NamesUse, Assignment, Assigned
<1>2. UNCHANGED <<rows, health>>
  BY DEF Answer
<1>3. CASE Leave(w) /\ UNCHANGED job
  BY <1>2, <1>3, TypeParts, WorkerLeaves, RowsStay, QuietForRows
<1>4. ASSUME NEW status \in JobStatus, NEW success \in BOOLEAN,
             SetStatus(j, status), ThenRelease(w, j, from, success)
      PROVE  IInv'
  <2> HIDE DEF j, from
  <2> QED BY <1>1, <1>2, <1>4, TypeParts, ThenReleases, StatusSet, RowsStay, QuietForRows
<1>5. ASSUME NEW exact \in BOOLEAN,
             SetStatus(j, "PAYMENT_DETECTED") \/ UNCHANGED job, UNCHANGED holder,
             Go(w, [at |-> "reconcile", on |-> j, exact |-> exact])
      PROVE  IInv'
  <2> DEFINE s == [at |-> "reconcile", on |-> j, exact |-> exact]
  <2>1. s \in WorkerState /\ s.at = "reconcile" /\ s.at \notin NamesUse
    <3>1. s \in [at : {"reconcile"}, on : Jobs, exact : BOOLEAN]
      BY <1>1
    <3> QED BY <3>1 DEF WorkerState, NamesUse
  <2>2. Go(w, s) /\ "PAYMENT_DETECTED" \in JobStatus
    BY <1>5 DEF JobStatus
  <2> HIDE DEF s, j
  <2> QED BY <1>1, <1>2, <1>5, <2>1, <2>2, TypeParts, WorkerKnows, StatusSet, RowsStay, QuietForRows
<1>6. {"PAYMENT_REJECTED", "FAILED", "PAID"} \subseteq JobStatus
  BY DEF JobStatus, Final
<1>7. \/ Leave(w) /\ UNCHANGED job
      \/ \E status \in {"PAYMENT_REJECTED", "FAILED", "PAID"}, success \in BOOLEAN :
           SetStatus(j, status) /\ ThenRelease(w, j, from, success)
      \/ \E exact \in BOOLEAN :
           /\ SetStatus(j, "PAYMENT_DETECTED") \/ UNCHANGED job
           /\ UNCHANGED holder
           /\ Go(w, [at |-> "reconcile", on |-> j, exact |-> exact])
  BY DEF Answer
<1> QED BY <1>3, <1>4, <1>5, <1>6, <1>7

LEMMA ReadIntentKeeps ==
  ASSUME IInv, NEW w \in Workers, ReadIntent(w)
  PROVE  IInv'
<1> DEFINE j == worker[w].on
           s == [at |-> "match", on |-> j, exact |-> worker[w].exact, from |-> job[j].assigned]
<1>1. j \in Jobs /\ worker[w].exact \in BOOLEAN
  BY TypeParts, StateFields DEF ReadIntent
<1>2. UNCHANGED <<job, rows, health>>
  BY DEF ReadIntent
<1>3. CASE Leave(w)
  BY <1>2, <1>3, TypeParts, WorkerLeaves, RowsStay, QuietForRows
<1>4. CASE Go(w, s) /\ UNCHANGED holder
  <2>1. s \in WorkerState /\ s.at = "match" /\ Known(s.from)
    <3>1. job[j].assigned \in Assigned /\ Known(job[j].assigned)
      BY <1>1, RowsStay
    <3>2. s \in [at : {"match"}, on : Jobs, from : Assigned, exact : BOOLEAN]
      BY <1>1, <3>1
    <3> QED BY <3>1, <3>2 DEF WorkerState
  <2> HIDE DEF s
  <2> QED BY <1>2, <1>4, <2>1, TypeParts, WorkerKnows, RowsStay, QuietForRows
<1> QED BY <1>3, <1>4 DEF ReadIntent

LEMMA ReconcileKeeps ==
  ASSUME IInv, NEW w \in Workers, Reconcile(w)
  PROVE  IInv'
<1> DEFINE j == worker[w].on
           from == worker[w].from
<1>1. j \in Jobs /\ worker[w].exact \in BOOLEAN /\ from \in Assigned /\ Known(from)
  BY TypeParts, StateFields DEF Reconcile, WorkersKnow, NamesUse
<1>2. PICK withinWindow \in BOOLEAN :
        LET matched == worker[w].exact /\ withinWindow
        IN  /\ SetStatus(j, IF matched THEN "PAYMENT_VERIFIED" ELSE "UNDER_REVIEW")
            /\ ThenRelease(w, j, from, matched)
  BY DEF Reconcile
<1> DEFINE matched == worker[w].exact /\ withinWindow
           status == IF matched THEN "PAYMENT_VERIFIED" ELSE "UNDER_REVIEW"
<1>3. UNCHANGED <<rows, health>> /\ matched \in BOOLEAN /\ status \in JobStatus
  BY DEF Reconcile, JobStatus, Final
<1>4. SetStatus(j, status) /\ ThenRelease(w, j, from, matched)
  BY <1>2
<1> HIDE DEF j, from, status, matched
<1> QED BY <1>1, <1>3, <1>4, TypeParts, ThenReleases, StatusSet, RowsStay, QuietForRows

LEMMA CrashKeeps ==
  ASSUME IInv, NEW w \in Workers, Crash(w)
  PROVE  IInv'
<1>1. Idle \in WorkerState /\ Idle.at \notin NamesUse /\ Idle.at # "write"
  BY DEF WorkerState, Idle, NamesUse
<1> QED BY <1>1, TypeParts, WorkerKnows, RowsStay, QuietForRows DEF Crash

LEMMA LockExpiryKeeps ==
  ASSUME IInv, NEW j \in Jobs, LockExpires(j)
  PROVE  IInv'
<1>1. holder' \in [Jobs -> Workers \cup {Nothing}]
  BY TypeParts DEF LockExpires, TypeOK
<1> QED BY <1>1, WorkersStay, RowsStay, QuietForRows DEF LockExpires

LEMMA ReadAllKeeps == ASSUME IInv, ReadAll PROVE IInv'
<1>1. DOMAIN health' \subseteq ModemIds /\ \A i \in DOMAIN health' : health'[i] \in Modem
  BY TypeParts DEF ReadAll, TypeOK
<1> QED BY <1>1, WorkersStay, RowsStay, QuietForRows DEF ReadAll

(* Health checks and operators write the status and the balance, which no   *)
(* counter depends on.                                                      *)
LEMMA StatusKeeps ==
  ASSUME IInv, NEW i \in ModemIds, NEW m \in Modem,
         m.activeJobs = modem[i].activeJobs, m.recentFailures = modem[i].recentFailures,
         modem' = [modem EXCEPT ![i] = m],
         DOMAIN health' \subseteq ModemIds, \A k \in DOMAIN health' : health'[k] \in Modem,
         UNCHANGED <<job, worker, holder, open, streak, underflow>>
  PROVE  IInv'
<1>1. modem \in [ModemIds -> Modem]
  BY TypeParts DEF TypeOK
<1>2. modem' \in [ModemIds -> Modem]
  BY <1>1
<1>3. \A k \in ModemIds : /\ modem'[k].activeJobs = modem[k].activeJobs
                          /\ modem'[k].recentFailures = modem[k].recentFailures
  BY <1>1
<1>4. TypeOK'
  BY <1>2, TypeParts DEF TypeOK
<1> QED BY <1>3, <1>4, WorkersStay, RowsStay, QuietStep

LEMMA WriteHealthKeeps ==
  ASSUME IInv, NEW i \in ModemIds, WriteHealth(i)
  PROVE  IInv'
<1>1. modem \in [ModemIds -> Modem] /\ modem[i] \in Modem /\ i \in DOMAIN health /\ health[i] \in Modem
  BY TypeParts DEF TypeOK, WriteHealth
<1>2. DOMAIN health' \subseteq ModemIds /\ \A k \in DOMAIN health' : health'[k] \in Modem
  BY TypeParts DEF TypeOK, WriteHealth
<1>3. PICK status \in ModemStatus, balance \in Nat :
        modem' = [modem EXCEPT ![i] = [modem[i] EXCEPT !.status = status, !.balance = balance]]
  <2>1. CASE \E h \in HealthAnswers(health[i]) :
               modem' = [modem EXCEPT ![i].status = HealthStatus(health[i], h.online),
                                      ![i].balance = h.balance]
    <3>1. PICK h \in HealthAnswers(health[i]) :
               modem' = [modem EXCEPT ![i].status = HealthStatus(health[i], h.online),
                                      ![i].balance = h.balance]
      BY <2>1
    <3>2. h.balance \in Nat /\ HealthStatus(health[i], h.online) \in ModemStatus
      BY <1>1 DEF HealthAnswers, HealthStatus, ModemStatus, Modem
    <3> QED BY <1>1, <3>1, <3>2 DEF Modem
  <2>2. CASE modem' = [modem EXCEPT ![i].status = "USSD_ERROR"]
    <3>1. modem[i].balance \in Nat /\ "USSD_ERROR" \in ModemStatus
      BY <1>1 DEF Modem, ModemStatus
    <3>2. modem' = [modem EXCEPT ![i] = [modem[i] EXCEPT !.status = "USSD_ERROR",
                                                         !.balance = modem[i].balance]]
      BY <1>1, <2>2 DEF Modem
    <3> QED BY <3>1, <3>2
  <2> QED BY <2>1, <2>2 DEF WriteHealth
<1> DEFINE m == [modem[i] EXCEPT !.status = status, !.balance = balance]
<1>4. m \in Modem /\ m.activeJobs = modem[i].activeJobs /\ m.recentFailures = modem[i].recentFailures
  BY <1>1 DEF Modem
<1>5. UNCHANGED <<job, worker, holder, open, streak, underflow>>
  BY DEF WriteHealth
<1>6. modem' = [modem EXCEPT ![i] = m]
  BY <1>3
<1> HIDE DEF m
<1> QED BY <1>2, <1>4, <1>5, <1>6, StatusKeeps

LEMMA SetModemKeeps ==
  ASSUME IInv, NEW i \in ModemIds, SetModemState(i)
  PROVE  IInv'
<1>1. modem \in [ModemIds -> Modem] /\ modem[i] \in Modem
  BY TypeParts DEF TypeOK
<1>2. PICK enabled \in BOOLEAN, status \in ModemStatus :
        modem' = [modem EXCEPT ![i].enabled = enabled, ![i].status = status]
  <2>1. PICK to \in {[enabled |-> TRUE, status |-> "ONLINE"], [enabled |-> FALSE, status |-> "OFFLINE"],
                     [enabled |-> FALSE, status |-> "MAINTENANCE"]} :
          modem' = [modem EXCEPT ![i].enabled = to.enabled, ![i].status = to.status]
    BY DEF SetModemState
  <2>2. to.enabled \in BOOLEAN /\ to.status \in ModemStatus
    <3>1. CASE to = [enabled |-> TRUE, status |-> "ONLINE"]
      BY <3>1 DEF ModemStatus
    <3>2. CASE to = [enabled |-> FALSE, status |-> "OFFLINE"]
      BY <3>2 DEF ModemStatus
    <3>3. CASE to = [enabled |-> FALSE, status |-> "MAINTENANCE"]
      BY <3>3 DEF ModemStatus
    <3> QED BY <3>1, <3>2, <3>3
  <2> QED BY <2>1, <2>2
<1> DEFINE m == [modem[i] EXCEPT !.enabled = enabled, !.status = status]
<1>3. m \in Modem /\ m.activeJobs = modem[i].activeJobs /\ m.recentFailures = modem[i].recentFailures
  BY <1>1 DEF Modem
<1>4. modem' = [modem EXCEPT ![i] = m]
  BY <1>1, <1>2
<1>5. UNCHANGED <<job, worker, holder, open, streak, underflow>> /\ UNCHANGED health
  BY DEF SetModemState
<1> HIDE DEF m
<1> QED BY <1>3, <1>4, <1>5, StatusKeeps, RowsStay

-----------------------------------------------------------------------------
(* The steps that move a counter or a reading of one.                       *)

(* What a step does to the uses that are given, whatever else it does.      *)
LEMMA GivenGrows ==
  ASSUME IInv, TypeOK',
         \A j \in Jobs : job'[j].starts >= job[j].starts /\ job'[j].assigned = job[j].assigned,
         \A i \in ModemIds : IsFiniteSet(open'[i]) /\ \A use \in open'[i] : WasGiven(use)',
         \A v \in Workers : worker'[v].at \in NamesUse => Known(worker[v].from)'
  PROVE  UsesAreGiven'
<1>1. ASSUME NEW use \in Uses, WasGiven(use) PROVE WasGiven(use)'
  <2>1. /\ use[1] \in Jobs /\ use[2] \in Int
        /\ job[use[1]].starts \in Int /\ job'[use[1]].starts \in Int
    BY DEF IInv, TypeOK, Uses, JobRow
  <2>2. job'[use[1]].starts >= job[use[1]].starts
    BY <2>1
  <2> QED BY <1>1, <2>1, <2>2 DEF WasGiven
<1>2. ASSUME NEW j \in Jobs PROVE Known(job[j].assigned)'
  <2>1. /\ job'[j].assigned = job[j].assigned /\ job[j].assigned \in Assigned
        /\ Known(job[j].assigned)
    BY RowsStay
  <2>2. CASE job[j].assigned = NoUse
    BY <2>1, <2>2 DEF Known
  <2>3. CASE job[j].assigned # NoUse
    <3>1. job[j].assigned.use \in Uses
      BY <2>1, <2>3 DEF Assigned
    <3>2. WasGiven(job[j].assigned.use)
      BY <2>1, <2>3 DEF Known
    <3> QED BY <1>1, <2>1, <3>1, <3>2 DEF Known, WasGiven
  <2> QED BY <2>2, <2>3
<1> QED BY <1>2 DEF UsesAreGiven, Known

(* A modem whose counter, uses and uncounted uses do not grow apart.        *)
LEMMA UncountedIsFinite ==
  ASSUME IInv, NEW i \in ModemIds
  PROVE  /\ IsFiniteSet(open[i]) /\ IsFiniteSet(Uncounted(i))
         /\ Cardinality(open[i]) \in Nat /\ Cardinality(Uncounted(i)) \in Nat
         /\ Cardinality(Uncounted(i)) <= Cardinality(open[i])
         /\ \A S \in SUBSET Uncounted(i) :
              Cardinality(S) \in Nat /\ Cardinality(S) <= Cardinality(Uncounted(i))
<1>1. IsFiniteSet(open[i]) /\ Uncounted(i) \subseteq open[i]
  BY DEF IInv, UsesAreGiven, Uncounted
<1>2. IsFiniteSet(Uncounted(i)) /\ Cardinality(Uncounted(i)) <= Cardinality(open[i])
  BY <1>1, FS_Subset
<1>3. ASSUME NEW S \in SUBSET Uncounted(i)
      PROVE  Cardinality(S) \in Nat /\ Cardinality(S) <= Cardinality(Uncounted(i))
  BY <1>2, FS_Subset, FS_CardinalityType
<1> QED BY <1>1, <1>2, <1>3, FS_CardinalityType

LEMMA CounterStays ==
  ASSUME IInv, NEW i \in ModemIds \ underflow,
         modem'[i].activeJobs = modem[i].activeJobs, open'[i] = open[i],
         \A w \in Workers : Releases(w, i)' => worker'[w] = worker[w]
  PROVE  /\ modem'[i].activeJobs >= 0
         /\ \A w \in Workers : Releases(w, i)' => worker'[w].read.activeJobs >= 0
         /\ modem'[i].activeJobs + Cardinality(Uncounted(i)') <= Cardinality(open'[i])
<1>1. /\ modem[i].activeJobs >= 0 /\ modem[i].activeJobs \in Int
      /\ \A w \in Workers : Releases(w, i) => worker[w].read.activeJobs >= 0
      /\ modem[i].activeJobs + Cardinality(Uncounted(i)) <= Cardinality(open[i])
  BY DEF IInv, CounterInv, TypeOK, Modem
<1>2. Uncounted(i)' \in SUBSET Uncounted(i)
  BY DEF Uncounted, Releases
<1>3. \A w \in Workers : Releases(w, i)' => worker'[w].read.activeJobs >= 0
  BY <1>1 DEF Releases
<1>4. /\ Cardinality(Uncounted(i)') \in Nat /\ Cardinality(Uncounted(i)) \in Nat
      /\ Cardinality(Uncounted(i)') <= Cardinality(Uncounted(i))
      /\ Cardinality(open[i]) \in Nat
  BY <1>2, UncountedIsFinite
<1> QED BY <1>1, <1>3, <1>4

(* An allocation adds a use that no row or worker names yet.                *)
LEMMA AllocateKeeps ==
  ASSUME IInv, NEW w \in Workers, AllocateOrFail(w)
  PROVE  IInv'
<1>1. PICK j \in Jobs : j = worker[w].on /\ job[j] \in JobRow
  BY TypeParts, StateFields DEF AllocateOrFail
<1>2. CASE Leave(w) /\ UNCHANGED <<job, rows>>
  BY <1>2, TypeParts, WorkerLeaves, RowsStay, QuietForRows DEF AllocateOrFail
<1> PICK use : use = <<j, job[j].starts + 1>>
  OBVIOUS
<1>3. ASSUME NEW i \in ModemIds, job[j].starts < MaxStarts, Allocate(i, use),
             job' = [job EXCEPT ![j].starts = job[j].starts + 1],
             Go(w, [at |-> "initiate", on |-> j, from |-> [on |-> i, use |-> use]]),
             UNCHANGED holder, UNCHANGED health
      PROVE  IInv'
  <2> DEFINE s == [at |-> "initiate", on |-> j, from |-> [on |-> i, use |-> use]]
  <2>1. use \in Uses /\ use[1] = j /\ use[2] = job[j].starts + 1
    BY <1>1, <1>3 DEF Uses, JobRow
  <2>2. /\ modem' = [modem EXCEPT ![i].activeJobs = modem[i].activeJobs + 1, ![i].status = "BUSY"]
        /\ open' = [open EXCEPT ![i] = open[i] \cup {use}]
        /\ streak' = streak /\ underflow' = underflow
    BY <1>3, TypeParts DEF Allocate, TypeOK, Modem
  <2>3. ~WasGiven(use)
    BY <1>1, <2>1 DEF WasGiven, JobRow
  <2>4. s \in WorkerState
    <3>1. s \in [at : {"initiate"}, on : Jobs, from : Assignment]
      BY <1>1, <2>1 DEF Assignment
    <3> QED BY <3>1 DEF WorkerState
  <2>5. \A v \in Workers : worker'[v] = IF v = w THEN s ELSE worker[v]
    <3> HIDE DEF s
    <3> QED BY <1>3, <2>4, TypeParts, WorkerGoes DEF s
  <2>6. TypeOK'
    <3>1. worker' \in [Workers -> WorkerState]
      <4> HIDE DEF s
      <4> QED BY <1>3, <2>4, TypeParts, WorkerGoes DEF s
    <3>2. modem' \in [ModemIds -> Modem]
      <4> DEFINE m == [modem[i] EXCEPT !.activeJobs = modem[i].activeJobs + 1, !.status = "BUSY"]
      <4>1. modem \in [ModemIds -> Modem] /\ modem[i] \in Modem
        BY TypeParts DEF TypeOK
      <4>2. m \in Modem
        <5>1. modem[i].activeJobs + 1 \in Int /\ "BUSY" \in ModemStatus
          BY <4>1 DEF Modem, ModemStatus
        <5> HIDE DEF ModemStatus
        <5> QED BY <4>1, <5>1 DEF Modem
      <4>3. modem' = [modem EXCEPT ![i] = m]
        BY <2>2, <4>1
      <4> HIDE DEF m
      <4> QED BY <4>1, <4>2, <4>3
    <3>3. job' \in [Jobs -> JobRow]
      BY <1>1, <1>3, TypeParts DEF TypeOK, JobRow
    <3>4. open' \in [ModemIds -> SUBSET Uses]
      BY <2>1, <2>2, TypeParts DEF TypeOK
    <3> QED BY <1>3, <2>2, <3>1, <3>2, <3>3, <3>4, TypeParts DEF TypeOK
  <2>7. \A k \in Jobs : job'[k].starts >= job[k].starts /\ job'[k].assigned = job[k].assigned
    BY <1>1, <1>3, TypeParts DEF TypeOK, JobRow
  <2>8. WasGiven(use)' /\ \A u \in Uses : WasGiven(u) => WasGiven(u)'
    <3>1. job'[j].starts = job[j].starts + 1
      BY <1>1, <1>3, TypeParts DEF TypeOK, JobRow
    <3>2. WasGiven(use)'
      BY <1>1, <2>1, <3>1 DEF WasGiven, JobRow
    <3>3. ASSUME NEW u \in Uses, WasGiven(u) PROVE WasGiven(u)'
      <4>1. /\ u[1] \in Jobs /\ u[2] \in Int
            /\ job[u[1]].starts \in Int /\ job'[u[1]].starts \in Int
        BY <2>6, TypeParts DEF TypeOK, Uses, JobRow
      <4>2. job'[u[1]].starts >= job[u[1]].starts
        BY <2>7, <4>1
      <4> QED BY <3>3, <4>1, <4>2 DEF WasGiven
    <3> QED BY <3>2, <3>3
  <2>9. UsesAreGiven'
    <3>1. ASSUME NEW k \in ModemIds
          PROVE  IsFiniteSet(open'[k]) /\ \A u \in open'[k] : WasGiven(u)'
      <4>1. IsFiniteSet(open[k]) /\ open[k] \subseteq Uses /\ \A u \in open[k] : WasGiven(u)
        BY DEF IInv, UsesAreGiven, TypeOK
      <4>2. open'[k] = IF k = i THEN open[k] \cup {use} ELSE open[k]
        BY <2>2, TypeParts DEF TypeOK
      <4>3. IsFiniteSet(open[k] \cup {use})
        BY <4>1, FS_AddElement
      <4> QED BY <2>8, <4>1, <4>2, <4>3
    <3>2. ASSUME NEW v \in Workers, worker'[v].at \in NamesUse PROVE Known(worker[v].from)'
      <4>1. CASE v = w
        BY <2>5, <2>8, <4>1 DEF Known, WasGiven
      <4>2. CASE v # w
        <5>1. worker'[v] = worker[v] /\ Known(worker[v].from) /\ worker[v].from \in Assigned
          BY <2>5, <3>2, <4>2, TypeParts, StateFields DEF WorkersKnow, NamesUse, Assignment, Assigned
        <5>2. worker[v].from # NoUse => worker[v].from.use \in Uses
          BY <5>1 DEF Assigned
        <5> QED BY <2>8, <5>1, <5>2 DEF Known, WasGiven
      <4> QED BY <4>1, <4>2
    <3> QED BY <2>6, <2>7, <3>1, <3>2, GivenGrows DEF Known, WasGiven
  <2>10. ASSUME NEW k \in ModemIds \ underflow'
         PROVE  /\ modem'[k].activeJobs >= 0
                /\ \A v \in Workers : Releases(v, k)' => worker'[v].read.activeJobs >= 0
                /\ modem'[k].activeJobs + Cardinality(Uncounted(k)') <= Cardinality(open'[k])
    <3>1. k \in ModemIds \ underflow /\ \A v \in Workers : Releases(v, k)' => worker'[v] = worker[v]
      BY <2>2, <2>5, <2>10 DEF Releases
    <3>2. CASE k # i
      <4>1. modem'[k].activeJobs = modem[k].activeJobs /\ open'[k] = open[k]
        BY <2>2, <2>10, <3>2, TypeParts DEF TypeOK
      <4> QED BY <3>1, <4>1, CounterStays
    <3>3. CASE k = i
      <4>1. /\ modem[k].activeJobs >= 0 /\ modem[k].activeJobs \in Int
            /\ \A v \in Workers : Releases(v, k) => worker[v].read.activeJobs >= 0
            /\ modem[k].activeJobs + Cardinality(Uncounted(k)) <= Cardinality(open[k])
        BY <3>1 DEF IInv, CounterInv, TypeOK, Modem
      <4>2. modem'[k].activeJobs = modem[k].activeJobs + 1
        BY <2>2, <2>10, <3>3, TypeParts DEF TypeOK, Modem
      <4>3. use \notin open[k]
        BY <2>3, <2>10 DEF IInv, UsesAreGiven
      <4>4. Cardinality(open'[k]) = Cardinality(open[k]) + 1 /\ Cardinality(open[k]) \in Nat
        <5>1. open'[k] = open[k] \cup {use} /\ IsFiniteSet(open[k])
          BY <2>2, <2>10, <3>3, TypeParts, UncountedIsFinite DEF TypeOK
        <5>2. Cardinality(open[k] \cup {use}) = Cardinality(open[k]) + 1
          BY <4>3, <5>1, FS_AddElement
        <5>3. Cardinality(open[k]) \in Nat
          BY <5>1, FS_CardinalityType
        <5> QED BY <5>1, <5>2, <5>3
      <4>5. Uncounted(k)' \in SUBSET Uncounted(k)
        <5>1. ASSUME NEW u \in Uncounted(k)' PROVE u \in Uncounted(k)
          <6>1. PICK v \in Workers : /\ Releases(v, k)' /\ worker'[v].from.use = u
                                     /\ worker'[v].read.activeJobs = 0
            BY <5>1 DEF Uncounted
          <6>2. worker'[v] = worker[v] /\ Releases(v, k)
            BY <3>1, <6>1 DEF Releases
          <6>3. WasGiven(u)
            <7>1. worker[v].from \in Assignment /\ Known(worker[v].from)
              BY <6>2, TypeParts, StateFields DEF Releases, WorkersKnow, NamesUse
            <7> QED BY <6>1, <6>2, <7>1, NoUseIsNone DEF Known
          <6>4. u \in open[k]
            <7>1. u \in open'[k] /\ open'[k] = open[k] \cup {use}
              BY <2>2, <2>10, <3>3, <5>1, TypeParts DEF Uncounted, TypeOK
            <7> QED BY <2>3, <6>3, <7>1
          <6> QED BY <6>1, <6>2, <6>4 DEF Uncounted
        <5> QED BY <5>1
      <4>6. /\ Cardinality(Uncounted(k)') \in Nat /\ Cardinality(Uncounted(k)) \in Nat
            /\ Cardinality(Uncounted(k)') <= Cardinality(Uncounted(k))
        BY <2>10, <4>5, UncountedIsFinite
      <4>7. \A v \in Workers : Releases(v, k)' => worker'[v].read.activeJobs >= 0
        BY <3>1, <4>1 DEF Releases
      <4> QED BY <4>1, <4>2, <4>4, <4>6, <4>7
    <3> QED BY <3>2, <3>3
  <2>11. StreakIsCounted'
    BY <2>2, TypeParts DEF IInv, StreakIsCounted, TypeOK, Modem
  <2> QED BY <2>6, <2>9, <2>10, <2>11 DEF IInv, CounterInv
<1>4. \/ Leave(w) /\ UNCHANGED <<job, rows>>
      \/ \E i \in ModemIds :
           /\ job[j].starts < MaxStarts /\ Allocate(i, use)
           /\ job' = [job EXCEPT ![j].starts = job[j].starts + 1]
           /\ Go(w, [at |-> "initiate", on |-> j, from |-> [on |-> i, use |-> use]])
           /\ UNCHANGED holder /\ UNCHANGED health
  <2>1. \A b : Best(b) \subseteq ModemIds
    BY DEF Best
  <2> QED BY <1>1, <2>1, TypeParts DEF AllocateOrFail, TypeOK, JobRow
<1> QED BY <1>2, <1>3, <1>4

(* A worker that reads a counter of zero reads it while no use is counted.  *)
LEMMA ReadKeeps ==
  ASSUME IInv, NEW w \in Workers, ReadForRelease(w)
  PROVE  IInv'
<1>1. PICK i \in ModemIds, old \in WorkerState :
        /\ old = worker[w] /\ old.at = "release" /\ old.from \in Assignment /\ old.from.on = i
        /\ old.on \in Jobs /\ old.success \in BOOLEAN /\ old.threw \in BOOLEAN
        /\ Known(old.from) /\ modem[i] \in Modem
  <2>1. worker[w] \in WorkerState /\ worker[w].at = "release"
    BY TypeParts DEF ReadForRelease
  <2>2. worker[w].from \in Assignment /\ Known(worker[w].from)
    BY <2>1, TypeParts, StateFields DEF WorkersKnow, NamesUse
  <2>3. worker[w].from.on \in ModemIds
    BY <2>2 DEF Assignment
  <2> QED BY <2>1, <2>2, <2>3, TypeParts, StateFields DEF TypeOK
<1>2. PICK s : s = [at |-> "write", on |-> old.on, from |-> old.from, success |-> old.success,
                    threw |-> old.threw, read |-> modem[i]]
  OBVIOUS
<1>3. s \in WorkerState /\ s.at = "write" /\ s.from = old.from /\ s.read = modem[i]
  <2>1. s \in [at : {"write"}, on : Jobs, from : Assignment, success : BOOLEAN, threw : BOOLEAN,
               read : Modem]
    BY <1>1, <1>2
  <2> QED BY <1>2, <2>1 DEF WorkerState
<1>4. Go(w, s) /\ UNCHANGED <<job, rows, holder, health>>
  BY <1>1, <1>2 DEF ReadForRelease
<1>5. /\ worker' \in [Workers -> WorkerState]
      /\ \A v \in Workers : worker'[v] = IF v = w THEN s ELSE worker[v]
  BY <1>3, <1>4, TypeParts, WorkerGoes
<1>6. /\ TypeOK' /\ modem' = modem /\ open' = open /\ underflow' = underflow
      /\ streak' = streak /\ job' = job
  BY <1>4, <1>5, TypeParts DEF rows, TypeOK
<1>7. UsesAreGiven'
  <2>1. \A k \in ModemIds : IsFiniteSet(open'[k]) /\ \A u \in open'[k] : WasGiven(u)'
    BY <1>6 DEF IInv, UsesAreGiven, WasGiven
  <2>2. ASSUME NEW v \in Workers, worker'[v].at \in NamesUse PROVE Known(worker[v].from)'
    BY <1>1, <1>3, <1>5, <1>6, <2>2, TypeParts DEF WorkersKnow, Known, WasGiven
  <2>3. \A j \in Jobs : job'[j].starts >= job[j].starts /\ job'[j].assigned = job[j].assigned
    BY <1>6, TypeParts DEF JobRow
  <2> QED BY <1>6, <2>1, <2>2, <2>3, GivenGrows
<1>8. ASSUME NEW k \in ModemIds \ underflow'
      PROVE  /\ modem'[k].activeJobs >= 0
             /\ \A v \in Workers : Releases(v, k)' => worker'[v].read.activeJobs >= 0
             /\ modem'[k].activeJobs + Cardinality(Uncounted(k)') <= Cardinality(open'[k])
  <2>0. k \in ModemIds \ underflow
    BY <1>6, <1>8
  <2>1. CASE k # i
    <3>1. \A v \in Workers : Releases(v, k)' => worker'[v] = worker[v]
      BY <1>1, <1>3, <1>5, <2>1 DEF Releases
    <3> QED BY <1>6, <2>0, <3>1, CounterStays
  <2>2. CASE k = i
    <3>1. /\ modem[k].activeJobs >= 0 /\ modem[k].activeJobs \in Int
          /\ \A v \in Workers : Releases(v, k) => worker[v].read.activeJobs >= 0
          /\ modem[k].activeJobs + Cardinality(Uncounted(k)) <= Cardinality(open[k])
      BY <2>0 DEF IInv, CounterInv, TypeOK, Modem
    <3>2. \A v \in Workers : Releases(v, k)' => worker'[v].read.activeJobs >= 0
      BY <1>3, <1>5, <2>2, <3>1 DEF Releases
    <3>3. /\ Uncounted(k)' \in SUBSET open[k]
          /\ modem[k].activeJobs # 0 => Uncounted(k)' \in SUBSET Uncounted(k)
      <4>1. Uncounted(k)' \in SUBSET open[k]
        BY <1>6 DEF Uncounted
      <4>2. ASSUME modem[k].activeJobs # 0, NEW u \in Uncounted(k)' PROVE u \in Uncounted(k)
        <5>1. PICK v \in Workers : /\ Releases(v, k)' /\ worker'[v].from.use = u
                                   /\ worker'[v].read.activeJobs = 0
          BY <4>2 DEF Uncounted
        <5>2. v # w
          BY <1>3, <1>5, <2>2, <4>2, <5>1
        <5>3. worker'[v] = worker[v] /\ Releases(v, k)
          BY <1>5, <5>1, <5>2 DEF Releases
        <5> QED BY <4>1, <4>2, <5>1, <5>3 DEF Uncounted
      <4> QED BY <4>1, <4>2
    <3>4. /\ Cardinality(Uncounted(k)') \in Nat /\ Cardinality(Uncounted(k)) \in Nat
          /\ Cardinality(open[k]) \in Nat /\ Cardinality(Uncounted(k)') <= Cardinality(open[k])
          /\ modem[k].activeJobs # 0 => Cardinality(Uncounted(k)') <= Cardinality(Uncounted(k))
      BY <2>0, <3>3, UncountedIsFinite, FS_Subset, FS_CardinalityType
    <3> QED BY <1>6, <3>1, <3>2, <3>4
  <2> QED BY <2>1, <2>2
<1> QED BY <1>6, <1>7, <1>8 DEF IInv, CounterInv, StreakIsCounted

(* What a release writes.                                                   *)
LEMMA ReleasedRow ==
  ASSUME NEW m \in Modem, NEW read \in Modem, NEW success \in BOOLEAN
  PROVE  /\ Released(m, read, success) \in Modem
         /\ Released(m, read, success).activeJobs = m.activeJobs - Step(read)
         /\ Released(m, read, success).recentFailures
              = IF success THEN 0 ELSE m.recentFailures + 1
         /\ Step(read) \in Int
<1> DEFINE enabled == m.enabled /\ (success \/ ~TripsBreaker(read))
           jobs == m.activeJobs - Step(read)
           status == StatusAfter(read, success)
           failures == IF success THEN 0 ELSE m.recentFailures + 1
           volume == IF success THEN m.volume + Amount ELSE m.volume
<1>1. enabled \in BOOLEAN
  OBVIOUS
<1>2. Step(read) \in Int /\ jobs \in Int /\ failures \in Nat /\ volume \in Nat
  BY DEF Modem, Step
<1>3. status \in ModemStatus
  BY DEF StatusAfter, ModemStatus
<1>4. Released(m, read, success) =
        [m EXCEPT !.activeJobs = jobs, !.status = status, !.recentFailures = failures,
                  !.volume = volume, !.enabled = enabled]
  BY DEF Released, Modem
<1> HIDE DEF enabled, jobs, status, failures, volume
<1>5. /\ Released(m, read, success) \in Modem
      /\ Released(m, read, success).activeJobs = jobs
      /\ Released(m, read, success).recentFailures = failures
  BY <1>1, <1>2, <1>3, <1>4 DEF Modem
<1> QED BY <1>2, <1>5 DEF jobs, failures

(* A release takes its use out, and one off the counter unless it read zero.*)
LEMMA WriteKeeps ==
  ASSUME IInv, NEW w \in Workers, WriteRelease(w)
  PROVE  IInv'
<1>1. PICK i \in ModemIds, j \in Jobs, use \in Uses, read \in Modem, success \in BOOLEAN,
           threw \in BOOLEAN :
        /\ worker[w].at = "write" /\ worker[w].on = j /\ worker[w].from.on = i
        /\ worker[w].from.use = use /\ worker[w].read = read
        /\ worker[w].success = success /\ worker[w].threw = threw
  <2>1. worker[w] \in WorkerState /\ worker[w].at = "write"
    BY TypeParts DEF WriteRelease
  <2>2. worker[w].from.on \in ModemIds /\ worker[w].from.use \in Uses
    BY <2>1, StateFields DEF Assignment
  <2> QED BY <2>1, <2>2, StateFields
<1>2. PICK written \in Modem :
        /\ written = Released(modem[i], read, success)
        /\ written.activeJobs = modem[i].activeJobs - Step(read)
        /\ written.recentFailures = IF success THEN 0 ELSE modem[i].recentFailures + 1
  BY TypeParts, ReleasedRow DEF TypeOK
<1>3. /\ modem' = [modem EXCEPT ![i] = written]
      /\ open' = [open EXCEPT ![i] = open[i] \ {use}]
      /\ streak' = [streak EXCEPT ![i] = IF success THEN 0 ELSE streak[i] + 1]
      /\ underflow' = IF written.activeJobs < 0 THEN underflow \cup {i} ELSE underflow
      /\ Leave(w) /\ health' = health
      /\ \/ job' = job
         \/ job' = [job EXCEPT ![j].status = "FAILED", ![j].attempts = job[j].attempts + 1]
  BY <1>1, <1>2, TypeParts DEF WriteRelease, TypeOK, JobRow
<1>4. /\ worker' \in [Workers -> WorkerState]
      /\ holder' \in [Jobs -> Workers \cup {Nothing}]
      /\ \A v \in Workers : worker'[v] = IF v = w THEN Idle ELSE worker[v]
      /\ Idle.at = "idle"
  BY <1>3, TypeParts, WorkerLeaves DEF Idle
<1>5. /\ modem \in [ModemIds -> Modem] /\ open \in [ModemIds -> SUBSET Uses]
      /\ streak \in [ModemIds -> Nat] /\ job \in [Jobs -> JobRow]
      /\ underflow \subseteq ModemIds
  BY TypeParts DEF TypeOK
<1>6. TypeOK'
  <2>1. job' \in [Jobs -> JobRow]
    <3>1. job[j].attempts + 1 \in Nat /\ "FAILED" \in JobStatus
      BY <1>5 DEF JobRow, JobStatus
    <3> QED BY <1>3, <1>5, <3>1 DEF JobRow
  <2>2. /\ modem' \in [ModemIds -> Modem] /\ open' \in [ModemIds -> SUBSET Uses]
        /\ underflow' \subseteq ModemIds
    BY <1>3, <1>5
  <2>3. streak' \in [ModemIds -> Nat]
    BY <1>3, <1>5
  <2> QED BY <1>3, <1>4, <2>1, <2>2, <2>3, TypeParts DEF TypeOK
<1>7. \A k \in Jobs : job'[k].starts = job[k].starts /\ job'[k].assigned = job[k].assigned
  BY <1>3, <1>5 DEF JobRow
<1>8. UsesAreGiven'
  <2>1. ASSUME NEW u \in Uses PROVE WasGiven(u)' <=> WasGiven(u)
    BY <1>7 DEF WasGiven, Uses
  <2>2. ASSUME NEW k \in ModemIds
        PROVE  IsFiniteSet(open'[k]) /\ \A u \in open'[k] : WasGiven(u)'
    <3>1. IsFiniteSet(open[k]) /\ open[k] \subseteq Uses /\ \A u \in open[k] : WasGiven(u)
      BY <1>5 DEF IInv, UsesAreGiven
    <3>2. open'[k] \subseteq open[k]
      BY <1>3, <1>5
    <3> QED BY <2>1, <3>1, <3>2, FS_Subset
  <2>3. ASSUME NEW v \in Workers, worker'[v].at \in NamesUse PROVE Known(worker[v].from)'
    <3>1. worker'[v] = worker[v] /\ Known(worker[v].from) /\ worker[v].from \in Assigned
      BY <1>4, <2>3, TypeParts, StateFields DEF WorkersKnow, NamesUse, Assignment, Assigned
    <3>2. worker[v].from # NoUse => worker[v].from.use \in Uses
      BY <3>1 DEF Assigned
    <3> QED BY <2>1, <3>1, <3>2 DEF Known, WasGiven
  <2>4. \A k \in Jobs : job'[k].starts >= job[k].starts /\ job'[k].assigned = job[k].assigned
    BY <1>5, <1>7 DEF JobRow
  <2> QED BY <1>6, <2>2, <2>3, <2>4, GivenGrows
<1>9. ASSUME NEW k \in ModemIds \ underflow'
      PROVE  /\ modem'[k].activeJobs >= 0
             /\ \A v \in Workers : Releases(v, k)' => worker'[v].read.activeJobs >= 0
             /\ modem'[k].activeJobs + Cardinality(Uncounted(k)') <= Cardinality(open'[k])
  <2>0. k \in ModemIds \ underflow /\ (k = i => written.activeJobs >= 0)
    <3>1. written.activeJobs \in Int
      BY DEF Modem
    <3> QED BY <1>3, <1>9, <3>1
  <2>1. \A v \in Workers : Releases(v, k)' => worker'[v] = worker[v] /\ v # w
    BY <1>4 DEF Releases
  <2>2. CASE k # i
    <3>1. modem'[k].activeJobs = modem[k].activeJobs /\ open'[k] = open[k]
      BY <1>3, <1>5, <2>0, <2>2
    <3> QED BY <2>0, <2>1, <3>1, CounterStays
  <2>3. CASE k = i
    <3>1. /\ modem[k].activeJobs >= 0 /\ modem[k].activeJobs \in Int
          /\ \A v \in Workers : Releases(v, k) => worker[v].read.activeJobs >= 0
          /\ modem[k].activeJobs + Cardinality(Uncounted(k)) <= Cardinality(open[k])
      BY <2>0 DEF IInv, CounterInv, TypeOK, Modem
    <3>2. read.activeJobs >= 0 /\ read.activeJobs \in Int
      BY <1>1, <2>3, <3>1 DEF Releases, Modem
    <3>3. /\ modem'[k].activeJobs = modem[k].activeJobs - Step(read)
          /\ open'[k] = open[k] \ {use}
      BY <1>2, <1>3, <1>5, <2>3
    <3>4. Step(read) = IF read.activeJobs = 0 THEN 0 ELSE 1
      BY <3>2 DEF Step
    <3>5. \A v \in Workers : Releases(v, k)' => worker'[v].read.activeJobs >= 0
      BY <2>1, <3>1 DEF Releases
    <3>6. Uncounted(k)' \in SUBSET (Uncounted(k) \ {use})
      <4>1. ASSUME NEW u \in Uncounted(k)' PROVE u \in Uncounted(k) /\ u # use
        <5>1. u \in open'[k]
          BY <4>1 DEF Uncounted
        <5>2. PICK v \in Workers : /\ Releases(v, k)' /\ worker'[v].from.use = u
                                   /\ worker'[v].read.activeJobs = 0
          BY <4>1 DEF Uncounted
        <5>3. worker'[v] = worker[v] /\ Releases(v, k)
          BY <2>1, <5>2 DEF Releases
        <5> QED BY <3>3, <5>1, <5>2, <5>3 DEF Uncounted
      <4> QED BY <4>1
    <3>7. /\ IsFiniteSet(open[k]) /\ IsFiniteSet(Uncounted(k))
          /\ Cardinality(open[k]) \in Nat /\ Cardinality(Uncounted(k)) \in Nat
      BY <2>0, UncountedIsFinite
    <3>8. /\ Cardinality(open[k] \ {use}) =
               IF use \in open[k] THEN Cardinality(open[k]) - 1 ELSE Cardinality(open[k])
          /\ IsFiniteSet(Uncounted(k) \ {use})
          /\ Cardinality(Uncounted(k) \ {use}) =
               IF use \in Uncounted(k) THEN Cardinality(Uncounted(k)) - 1
               ELSE Cardinality(Uncounted(k))
      BY <3>7, FS_RemoveElement
    <3>9. /\ Cardinality(Uncounted(k)') \in Nat
          /\ Cardinality(Uncounted(k)') <= Cardinality(Uncounted(k) \ {use})
      BY <3>6, <3>8, FS_Subset, FS_CardinalityType
    <3>10. read.activeJobs = 0 /\ use \in open[k] => use \in Uncounted(k)
      BY <1>1, <2>3 DEF Uncounted, Releases
    <3>11. modem'[k].activeJobs >= 0
      BY <1>2, <2>0, <2>3, <3>3
    <3>12. modem'[k].activeJobs + Cardinality(Uncounted(k)') <= Cardinality(open'[k])
      <4>1. CASE read.activeJobs = 0
        BY <3>1, <3>3, <3>4, <3>7, <3>8, <3>9, <3>10, <4>1
      <4>2. CASE read.activeJobs # 0
        BY <3>1, <3>3, <3>4, <3>7, <3>8, <3>9, <4>2
      <4> QED BY <4>1, <4>2
    <3> QED BY <3>5, <3>11, <3>12
  <2> QED BY <2>2, <2>3
<1>10. StreakIsCounted'
  <2>1. ASSUME NEW k \in ModemIds PROVE modem'[k].recentFailures = streak'[k]
    <3>1. modem[k].recentFailures = streak[k]
      BY DEF IInv, StreakIsCounted
    <3>2. CASE k = i
      BY <1>2, <1>3, <1>5, <3>1, <3>2
    <3>3. CASE k # i
      BY <1>3, <1>5, <3>1, <3>3
    <3> QED BY <3>2, <3>3
  <2> QED BY <2>1 DEF StreakIsCounted
<1> QED BY <1>6, <1>8, <1>9, <1>10 DEF IInv, CounterInv

-----------------------------------------------------------------------------
LEMMA ModemsStart == Init => IInv
<1> SUFFICES ASSUME Init PROVE IInv OBVIOUS
<1>1. TypeOK
  <2>1. modem \in [ModemIds -> Modem]
    BY DEF Init, Modem, ModemStatus
  <2>2. job \in [Jobs -> JobRow]
    BY DEF Init, JobRow, JobStatus, Assigned
  <2>3. worker \in [Workers -> WorkerState]
    BY DEF Init, WorkerState
  <2> QED BY <2>1, <2>2, <2>3 DEF Init, TypeOK
<1>2. UsesAreGiven
  <2>1. \A w \in Workers : worker[w].at \notin NamesUse
    BY DEF Init, Idle, NamesUse
  <2> QED BY <2>1, FS_EmptySet DEF Init, UsesAreGiven
<1>3. CounterInv
  <2>1. ASSUME NEW i \in ModemIds
        PROVE  /\ modem[i].activeJobs = 0 /\ open[i] = {} /\ Uncounted(i) = {}
               /\ \A w \in Workers : ~Releases(w, i)
    BY DEF Init, Uncounted, Releases, Idle
  <2>2. Cardinality({}) = 0
    BY FS_EmptySet
  <2>3. ASSUME NEW i \in ModemIds
        PROVE  /\ Cardinality(Uncounted(i)) = 0 /\ Cardinality(open[i]) = 0
               /\ modem[i].activeJobs + Cardinality(Uncounted(i)) <= Cardinality(open[i])
    <3>1. Cardinality(Uncounted(i)) = 0 /\ Cardinality(open[i]) = 0
      BY <2>1, <2>2
    <3> QED BY <2>1, <3>1
  <2>4. ASSUME NEW i \in ModemIds PROVE modem[i].activeJobs >= 0
    BY <2>1
  <2> QED BY <2>1, <2>3, <2>4 DEF CounterInv
<1>4. StreakIsCounted
  BY DEF Init, StreakIsCounted
<1> QED BY <1>1, <1>2, <1>3, <1>4 DEF IInv

LEMMA ModemsStep == IInv /\ [Next]_vars => IInv'
<1> SUFFICES ASSUME IInv, [Next]_vars PROVE IInv' OBVIOUS
<1>1. CASE UNCHANGED vars
  BY <1>1, WorkersStay, RowsStay, QuietForRows DEF vars, rows
<1>2. ASSUME NEW w \in Workers, WorkerStep(w) \/ Crash(w) PROVE IInv'
  BY <1>2, AllocateKeeps, InitiateKeeps, RecordKeeps, AnswerKeeps, ReadIntentKeeps,
     ReconcileKeeps, ReadKeeps, WriteKeeps, CrashKeeps DEF WorkerStep
<1>3. ASSUME NEW w \in Workers, NEW j \in Jobs,
             Start(w, j) \/ Poll(w, j) \/ ExpireIntent(w, j)
      PROVE  IInv'
  BY <1>3, StartKeeps, PollKeeps, ExpireKeeps
<1>4. ASSUME NEW w \in Workers, NEW j \in Jobs, NEW d, AdminResolve(w, j, d) PROVE IInv'
  BY <1>4, ResolveKeeps
<1>5. ASSUME NEW i \in ModemIds, WriteHealth(i) \/ SetModemState(i) PROVE IInv'
  BY <1>5, WriteHealthKeeps, SetModemKeeps
<1>6. CASE Next
  BY <1>2, <1>3, <1>4, <1>5, <1>6, ReadAllKeeps, LockExpiryKeeps DEF Next
<1> QED BY <1>1, <1>6

(* The inductive invariant of the modems: types, uses, counters and streaks *)
(* stay in order through allocations, unlocked releases and crashes.        *)
THEOREM ModemsInvariant == Spec => []IInv
<1> QED BY ModemsStart, ModemsStep, PTL DEF Spec

(* A modem's counter never counts more than the uses that are out, for any  *)
(* number of modems, jobs, workers and crashes, unless it went below zero:  *)
(* a release that took nothing off had read a counter of zero, and at that  *)
(* time no use was counted.                                                 *)
THEOREM CounterStaysBacked == Spec => []CounterIsBacked
<1>1. IInv => CounterIsBacked
  <2> SUFFICES ASSUME IInv, NEW i \in ModemIds \ underflow
               PROVE  modem[i].activeJobs <= Cardinality(open[i])
    BY DEF CounterIsBacked
  <2>1. modem[i].activeJobs + Cardinality(Uncounted(i)) <= Cardinality(open[i])
    BY DEF IInv, CounterInv
  <2>2. modem[i].activeJobs \in Int
    BY DEF IInv, TypeOK, Modem
  <2> QED BY <2>1, <2>2, UncountedIsFinite
<1> QED BY <1>1, ModemsInvariant, PTL

(* A modem that failed three times in a row is given no new job, whatever   *)
(* workers, health checks and operators write in between.                   *)
THEOREM FailingModemsRest == Spec => []FailingModemRests
<1>1. IInv => FailingModemRests
  BY DEF IInv, TypeOK, Modem, StreakIsCounted, FailingModemRests, Eligible,
         MaxRecentFailures
<1> QED BY <1>1, ModemsInvariant, PTL
=============================================================================
