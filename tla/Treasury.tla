------------------------------ MODULE Treasury ------------------------------
(***************************************************************************)
(* Treasury buckets, reservations and the asset accounts of the ledger     *)
(* (apps/api/src/modules/treasury/treasury.service.ts), with the           *)
(* transactions that move them: those of the crypto orders                 *)
(* (apps/api/src/modules/crypto/crypto.service.ts), and the journals of    *)
(* ticket sales and settlements, which move GNF_PDV_01 and no bucket       *)
(* (tickets.service.ts, settlements.service.ts).                           *)
(*                                                                         *)
(* A transaction locks the TreasuryAccount row FOR UPDATE and keeps it to  *)
(* its commit, so what it does from there on is one step.  But             *)
(* releaseReservation and consumeReservation read the account before they  *)
(* lock it and write what they computed from that read: they take two      *)
(* steps, and transactions of other orders commit in between.  Two         *)
(* transactions of one order exclude each other by the order's row lock.   *)
(*                                                                         *)
(* Each asset has the one bucket the orders use; COLD, which a supplier's  *)
(* purchase credits together with its account, is in Desk.  Of a journal   *)
(* only the asset account is kept, and what a ticket sale or a settlement  *)
(* puts against it; the other lines are the contra accounts that make it   *)
(* balance.                                                                *)
(***************************************************************************)
EXTENDS Integers, FiniteSets

CONSTANTS
  Buys, Sells,      \* BUY_USDT and SELL_USDT orders
  Usdt, Gnf,        \* the amounts of each order
  Opening,          \* the opening balance of each bucket
  Adjustments,      \* the amounts an operator may adjust a bucket by
  AggregateBound,   \* bound: the values each aggregate account takes
  Takings,          \* what a ticket sale brings in, what a settlement pays
  OwedBound         \* bound: the values owed takes

Orders  == Buys \cup Sells
Buckets == {"HOT", "PDV_01"}

ASSUME TreasuryAssumption ==
  /\ IsFiniteSet(Buys) /\ IsFiniteSet(Sells) /\ Buys \cap Sells = {}
  /\ Usdt \in [Orders -> Nat \ {0}] /\ Gnf \in [Orders -> Nat \ {0}]
  /\ Opening \in [Buckets -> Nat]
  /\ Adjustments \subseteq Nat \ {0}
  /\ AggregateBound \in [Buckets -> SUBSET Int]
  /\ Takings \subseteq Nat \ {0} /\ OwedBound \subseteq Int

VARIABLES
  available,        \* TreasuryAccount.available
  reserved,         \* TreasuryAccount.reserved
  reservation,      \* LiquidityReservation.status of each order's reservation
  credited,         \* the orders whose payment or deposit is booked
  pending,          \* the order's open transaction: "none", "release", "consume"
  seen,             \* the account as the open transaction of the order read it
  outdated,         \* history: the orders whose open transaction read an account
                    \* that was written since
  wallet,           \* ledger balance of USDT_HOT_WALLET, GNF_PDV_01
  aggregate,        \* ledger balance of ASSET_USDT, ASSET_GNF
  owed,             \* ledger balances of ORGANIZER_PAYABLE and PLATFORM_REVENUE,
                    \* together
  unposted,         \* history: GNF credited with no journal for it yet
  torn              \* history: buckets written from an outdated reading

account == <<available, reserved>>
open    == <<pending, seen>>
ledger  == <<wallet, aggregate, owed, unposted>>
vars    == <<account, reservation, credited, open, outdated, ledger, torn>>

(* Where the order's reservation is, and its amount.                        *)
Bucket(o) == IF o \in Buys THEN "HOT" ELSE "PDV_01"
Amount(o) == IF o \in Buys THEN Usdt[o] ELSE Gnf[o]

Reading == [available : Int, reserved : Int]

Nothing == [available |-> 0, reserved |-> 0]

TypeOK ==
  /\ available \in [Buckets -> Int]
  /\ reserved \in [Buckets -> Int]
  /\ reservation \in [Orders -> {"NONE", "HELD", "RELEASED", "CONSUMED"}]
  /\ credited \subseteq Orders
  /\ pending \in [Orders -> {"none", "release", "consume"}]
  /\ seen \in [Orders -> Reading]
  /\ outdated \subseteq Orders
  /\ wallet \in [Buckets -> Int] /\ aggregate \in [Buckets -> Int]
  /\ owed \in Int /\ unposted \in Int
  /\ torn \subseteq Buckets

(* The seed posts the opening balances to the wallets.                      *)
Init ==
  /\ available = Opening
  /\ reserved = [b \in Buckets |-> 0]
  /\ reservation = [o \in Orders |-> "NONE"]
  /\ credited = {}
  /\ pending = [o \in Orders |-> "none"]
  /\ seen = [o \in Orders |-> Nothing]
  /\ outdated = {}
  /\ wallet = Opening
  /\ aggregate = [b \in Buckets |-> 0]
  /\ owed = 0 /\ unposted = 0
  /\ torn = {}

-----------------------------------------------------------------------------
(* Updates of one account.                                                  *)

Idle(o) == pending[o] = "none"

(* The open transactions that have read bucket b without locking it.        *)
Readers(b) == {o \in Orders : ~Idle(o) /\ Bucket(o) = b}

(* treasuryAccount.update with the balances the code computed.              *)
Write(b, newAvailable, newReserved) ==
  /\ available' = [available EXCEPT ![b] = newAvailable]
  /\ reserved' = [reserved EXCEPT ![b] = newReserved]

(* moveAvailable, and the update of reserve, of the account as it is.       *)
Move(b, toAvailable, toReserved) ==
  /\ Write(b, available[b] + toAvailable, reserved[b] + toReserved)
  /\ outdated' = outdated \cup Readers(b)

(* treasury.reserve: checked and written under the lock.                    *)
ReserveFunds(o) ==
  /\ reservation[o] = "NONE"
  /\ available[Bucket(o)] >= Amount(o)
  /\ Move(Bucket(o), -Amount(o), Amount(o))
  /\ reservation' = [reservation EXCEPT ![o] = "HELD"]

(* Mutant: a reservation is released whatever its status.                   *)
ReadAnyStatus(o, operation) ==
  /\ Idle(o) /\ reservation[o] # "NONE"
  /\ pending' = [pending EXCEPT ![o] = operation]
  /\ seen' = [seen EXCEPT ![o] = [available |-> available[Bucket(o)],
                                  reserved |-> reserved[Bucket(o)]]]
  /\ UNCHANGED <<account, reservation, credited, outdated, ledger, torn>>

(* The unlocked read of releaseReservation and consumeReservation.          *)
ReadAccount(o, operation) ==
  /\ Idle(o) /\ reservation[o] = "HELD"
  /\ pending' = [pending EXCEPT ![o] = operation]
  /\ seen' = [seen EXCEPT ![o] = [available |-> available[Bucket(o)],
                                  reserved |-> reserved[Bucket(o)]]]
  /\ UNCHANGED <<account, reservation, credited, outdated, ledger, torn>>

Close(o) ==
  /\ pending' = [pending EXCEPT ![o] = "none"]
  /\ seen' = [seen EXCEPT ![o] = Nothing]

(* Mutant: nothing asserts that reserved stays positive.                    *)
CommitUnasserted(o, newAvailable, newStatus) ==
  LET b == Bucket(o) IN
    /\ Write(b, newAvailable, seen[o].reserved - Amount(o))
    /\ reservation' = [reservation EXCEPT ![o] = newStatus]
    /\ Close(o)
    /\ outdated' = (outdated \cup Readers(b)) \ {o}
    /\ torn' = IF o \in outdated THEN torn \cup {b} ELSE torn

(* The account row is locked, and written as computed from the read.        *)
(* assertNonNegative('reserved') throws: the transaction rolls back.        *)
CommitReservation(o, newAvailable, newStatus) ==
  LET b == Bucket(o) IN
    /\ seen[o].reserved >= Amount(o)
    /\ Write(b, newAvailable, seen[o].reserved - Amount(o))
    /\ reservation' = [reservation EXCEPT ![o] = newStatus]
    /\ Close(o)
    /\ outdated' = (outdated \cup Readers(b)) \ {o}
    /\ torn' = IF o \in outdated THEN torn \cup {b} ELSE torn

-----------------------------------------------------------------------------
(* The transactions of a BUY order.                                         *)

ReserveUsdt(o) ==
  /\ o \in Buys /\ Idle(o)
  /\ ReserveFunds(o)
  /\ UNCHANGED <<credited, open, ledger, torn>>

(* creditBuyPaymentIfNeeded: the bucket is credited, no journal is posted.  *)
CreditPayment(o) ==
  /\ o \in Buys /\ Idle(o) /\ reservation[o] = "HELD" /\ o \notin credited
  /\ Move("PDV_01", Gnf[o], 0)
  /\ credited' = credited \cup {o}
  /\ unposted' = unposted + Gnf[o]
  /\ UNCHANGED <<reservation, open, wallet, aggregate, owed, torn>>

(* Mutant: the GNF leg of the settlement is left out.                       *)
CompleteUnposted(o) ==
  /\ o \in Buys /\ pending[o] = "consume"
  /\ CommitReservation(o, available["HOT"], "CONSUMED")
  /\ wallet' = [wallet EXCEPT !["HOT"] = @ - Usdt[o]]
  /\ unposted' = unposted - Gnf[o]
  /\ UNCHANGED <<credited, aggregate, owed>>

(* completeBuy: the USDT leaves the bucket and the wallet; the GNF of the   *)
(* payment is posted to GNF_PDV_01 only now.                                *)
CompleteBuy(o) ==
  /\ o \in Buys /\ pending[o] = "consume"
  /\ CommitReservation(o, available["HOT"], "CONSUMED")
  /\ wallet' = [wallet EXCEPT !["HOT"] = @ - Usdt[o], !["PDV_01"] = @ + Gnf[o]]
  /\ unposted' = unposted - Gnf[o]
  /\ UNCHANGED <<credited, aggregate, owed>>

-----------------------------------------------------------------------------
(* The transactions of a SELL order.                                        *)

CreditDeposit(o) ==
  /\ o \in Sells /\ o \notin credited
  /\ Move("HOT", Usdt[o], 0)
  /\ credited' = credited \cup {o}
  /\ wallet' = [wallet EXCEPT !["HOT"] = @ + Usdt[o]]
  /\ UNCHANGED <<reservation, open, aggregate, owed, unposted, torn>>

ReserveGnf(o) ==
  /\ o \in Sells \cap credited /\ Idle(o)
  /\ ReserveFunds(o)
  /\ UNCHANGED <<credited, open, ledger, torn>>

CompleteSell(o) ==
  /\ o \in Sells /\ pending[o] = "consume"
  /\ CommitReservation(o, available["PDV_01"], "CONSUMED")
  /\ wallet' = [wallet EXCEPT !["PDV_01"] = @ - Gnf[o]]
  /\ UNCHANGED <<credited, aggregate, owed, unposted>>

-----------------------------------------------------------------------------
(* Both.                                                                    *)

(* A BUY is completed only after its payment was credited.                  *)
StartConsume(o) == o \in credited /\ ReadAccount(o, "consume")

StartRelease(o) == ReadAccount(o, "release")

Release(o) ==
  /\ pending[o] = "release"
  /\ CommitReservation(o, seen[o].available + Amount(o), "RELEASED")
  /\ UNCHANGED <<credited, ledger>>

(* An exception (assertNonNegative, an unbalanced journal) or a restart.    *)
Rollback(o) ==
  /\ ~Idle(o)
  /\ Close(o)
  /\ outdated' = outdated \ {o}
  /\ UNCHANGED <<account, reservation, credited, ledger, torn>>

(* treasury.adjust, by an operator: the journal goes to the aggregate       *)
(* account of the asset.                                                    *)
Adjust(b, delta) ==
  /\ available[b] + delta >= 0
  /\ aggregate[b] + delta \in AggregateBound[b]
  /\ Move(b, delta, 0)
  /\ aggregate' = [aggregate EXCEPT ![b] = @ + delta]
  /\ UNCHANGED <<reservation, credited, open, wallet, owed, unposted, torn>>

-----------------------------------------------------------------------------
(* The journals on GNF_PDV_01 that move no bucket.                          *)

(* issueTickets: what was paid is the organiser's and the platform's.       *)
SellTickets(gross) ==
  /\ owed + gross \in OwedBound
  /\ wallet' = [wallet EXCEPT !["PDV_01"] = @ + gross]
  /\ owed' = owed + gross
  /\ UNCHANGED <<account, reservation, credited, open, outdated, aggregate, unposted, torn>>

(* settlements.pay, once the payout is PAID.  How often one settlement may  *)
(* be posted is in Settlements: here its journal may exceed what is owed.   *)
PaySettlement(net) ==
  /\ owed - net \in OwedBound
  /\ wallet' = [wallet EXCEPT !["PDV_01"] = @ - net]
  /\ owed' = owed - net
  /\ UNCHANGED <<account, reservation, credited, open, outdated, aggregate, unposted, torn>>

Next ==
  \/ \E o \in Orders :
       \/ ReserveUsdt(o) \/ CreditPayment(o) \/ CompleteBuy(o)
       \/ CreditDeposit(o) \/ ReserveGnf(o) \/ CompleteSell(o)
       \/ StartConsume(o) \/ StartRelease(o) \/ Release(o) \/ Rollback(o)
  \/ \E b \in Buckets, amount \in Adjustments :
       Adjust(b, amount) \/ Adjust(b, -amount)
  \/ \E amount \in Takings : SellTickets(amount) \/ PaySettlement(amount)

Spec == Init /\ [][Next]_vars
=============================================================================
