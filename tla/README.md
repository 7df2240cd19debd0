# Formal verification of the bndcoin exchange

This directory holds TLA+ specifications of the back end in `apps/api`, and of the
parts of `apps/web` that keep state of their own: models checked by TLC on small
instances, and theorems about them proved with TLAPS for every value of their
constants. Source paths below are relative to `apps/api/src` unless they start with
`apps`, `packages` or `README`.

    tlc -workers 2 -config MCBuyOrder.cfg MCBuyOrder.tla      # model-check
    tlapm BuyOrderProofs.tla                                  # prove

`PROJECT.json` is the index: components, runs, the source lines each definition
stands for, the mutants that show each property can fail, findings, hazards and
theorems.

## 1. The system

A NestJS monolith exchanges USDT for Guinean francs (GNF) and sells event
tickets. One process serves HTTP, works the BullMQ queues and runs the repeatable
maintenance jobs. Everything is asynchronous, so any two executions interleave at
every `await`, and a restart stops all of them anywhere. State is in Postgres
(read-committed transactions, row locks taken by hand); Redis holds advisory
locks with a time to live and the queues. The Orange Money rail (through modems)
and the blockchain are outside.

| component | state | operations | works with | what makes it correct | module |
|---|---|---|---|---|---|
| state machines (`common/state-machine`, `crypto-order.state.ts`) | two constant tables | `can`, `assert` | every change of an order's status | no status is left but by a listed step | `CryptoOrderState`, `CryptoOrderApply` |
| crypto orders (`modules/crypto`) | order status, event rows, withdrawal and deposit rows | create, drive, complete, fail, expire, sweep, admin transition, review | payments, payouts, treasury, inventory, ledger, chain; jobs and HTTP call them | money moves once, in order, and is given back when the order ends | `BuyOrder`, `SellOrder` |
| payment intents (`payments.service.ts`) | intent status | create, collect, poll, reconcile, expire, admin resolve | rail, modems, intent lock; orders poll them | only a clean match, or an operator, verifies | `BuyOrder`, `Modems` |
| payouts (`payouts.service.ts`) | payout status, attempts | createOrGet, process, confirm | rail, modems, payout lock; SELL orders, settlements, operators | one movement per payout, and its outcome is learnt | `SellOrder`, `Modems` |
| treasury (`modules/treasury`) | available and reserved per bucket, reservations, movements | reserve, release, consume, credit, debit, adjust, reconcile | the orders' transactions, the ledger, alerts | reserved is what is held; nothing goes below zero; agrees with the ledger | `Treasury`, `Reconciliation` |
| ledger (`common/ledger`) | journals, entries | post, balance, integrityCheck | all money operations | each journal balances and is posted once | in `Treasury`, `Desk` |
| inventory, suppliers (`modules/suppliers`) | lots, purchases | addLot, consumeFifo, setPurchaseStatus | order completion, deposits | quantities conserved, oldest first, one lot per purchase | `Desk` |
| quotes, pricing (`modules/pricing`, `packages/money`) | configuration versions, rules, quotes | updateConfig, rules, quote, lockForOrder, markConsumed, expireStale | order creation | rounding and fees are against the customer; one configuration is active; a quote is used once | `Pricing`, `Checkout` |
| modems (`modules/orange`) | active jobs, failures, status | allocate, release, healthcheckAll, operator commands | payments, payouts | a counter is backed by jobs, a failing modem rests | `Modems` |
| tickets (`modules/tickets`, `apps/web/src/app/scan`) | seats sold, event orders, tickets, check-ins | create, drive, fail, issue, check in | payments, settlements | never oversold, issued once, admitted once | `BoxOffice`, `Gate` |
| events, organizers (`modules/events`, `organizers`) | events, types, profiles | create, edit, submit, decide | tickets, accounts | what is published was seen, but for edits under way | `Events`, `Accounts` |
| settlements (`modules/settlements`) | totals, status | accrue, approve, pay | tickets, payouts, ledger | organisers get what was sold, once | `Settlements` |
| HTTP idempotency (`common/idempotency`) | keys | begin, replay, complete, abort | marked endpoints | one answer per key, no key stuck | `Checkout` |
| authentication (`modules/auth`, `apps/web/src/lib`) | codes, sessions, refresh tokens; the browser's token store | request and verify code, login, refresh, logout, revoke | everything | a code opens once, one token in hand, nobody locked out | `Sessions` |
| users, KYC (`modules/users`) | accounts, KYC records, limits | register, submit, review, administer, check limits | orders | operators' decisions stand; limits are kept | `Accounts`, `Checkout` |
| Redis locks (`common/redis`) | keys with a TTL | withLock | all of the above | excludes until its TTL is over | in `BoxOffice`, `Modems`, `Checkout` |
| queues, jobs (`common/queue`, `modules/system`) | delayed and repeatable jobs | process | all of the above | what must go on is taken up again | steps and fairness |
| audit, alerts, notifications, settings | rows that are written and listed | record, raise, resolve | everything | alerts are raised once | alerts in `Reconciliation` |

Hard behaviours: several drivers of one order (HTTP poll, per-order job, sweep,
operator) between whose transactions nothing is locked; the event-row rule that
makes a transition happen once per order, ever; crashes between two transactions
that belong together; rails that answer late or never; rows read before they are
locked, or never locked; locks that expire under their holder; operators and
customers who write over each other. `PROJECT.json` lists them as hazards, at their
lines, each with the properties about it.

## 2. The modules

    CryptoOrderState     the two transition tables
    CryptoOrderApply     CryptoService.apply: skip, apply or refuse      (INSTANCEd below)
    BuyOrder             one BUY order with its intent, reservation, withdrawal
    BuyPromise           what a BUY order promises about money
    SellOrder, SellPromise                    the same for SELL, with its payout
    Treasury             buckets, reservations, asset accounts
    Reconciliation       EXTENDS Treasury: the comparison with the ledger
    Settlements          accrue, approve and pay, with the payout
    BoxOffice            EXTENDS Settlements: seats, event orders, their tickets
    Modems               modems with the collections and payouts that hold them
    Sessions             codes, sessions and tokens, and the tabs that use them
    Pricing              configuration, rules, the computation of a price, quotes
    Desk                 EXTENDS Pricing: purchases, lots and FIFO sales, at a quote's price
    Checkout             a quote becomes an order under an idempotency key
    Accounts             accounts, KYC, organizer profiles
    Events               EXTENDS Accounts: events and their review
    Gate                 scans of tickets
    Venue                EXTENDS Events, Gate: from an account to a gate
    *Props               properties, inductive invariants, refinement mappings
    Sums                 the sum over a set, and lemmas about it
    *Proofs              theorems: BuyOrder, SellOrder, Treasury, BoxOffice, Checkout;
                         AccessProofs has those of Sessions and Venue, HouseProofs
                         those of Modems and Desk
    MC*                  symmetry sets and constant values for TLC

A definition whose comment begins with "Mutant:" belongs to no specification: it is
a plausible mistake in the definition after it, used to show that a property fails
when the code does.

### BuyOrder

`order` is the row's status and its event rows, `payment` the intent and what the
rail would report, `funds` the reservation and the number of times the GNF was
credited, `delivery` the withdrawal rows and the transaction on the chain. A
*worker* is any asynchronous execution inside a method of the service; `pc` is
where it will go on. One step is one transaction, or one unlocked read together
with the reads that directly follow it. `apply()` holds the order row for its
whole transaction and is one step: `ApplyThen(w, event, to, Effect, next)`, where
`Effect` is its `mutate` callback. A worker's decision after a read is kept in its
`pc` and used later, when the order may have changed: that is where the races are.
`Interrupt` is an exception or a restart at any await. Time is not modelled: a
timeout may happen at any moment, a window may have elapsed. `adminResolve` takes
no lock and is a step of its own. The event name of a RETRY holds `Date.now()`,
so `RetryReview` never meets its own row. `newestFailed` keeps what the query for
the newest withdrawal sees when a FAILED attempt was recorded after the broadcast.

### SellOrder

The same workers and steps, over the deposit, the GNF reservation and the payout.
`transfers` counts the payouts the rail accepted and has not refused; `ref` is what
it reports of the newest one. `Process`, `AdminProcess` (the payouts page),
`InitiatePayout`, `RecordPayout` and `ConfirmPayout` are `PayoutsService.process`
under its Redis lock, cut where it awaits the rail or the database. The catch around
the initiation also covers the insert of the session row, hence the second branch of
`RecordPayout`.

### Treasury and Reconciliation

Each asset has the one bucket the orders use. A transaction that locks the account
keeps it to its commit and is one step; `releaseReservation` and
`consumeReservation` read the account before they lock it, so they are
`StartRelease`/`StartConsume` and `Release`/`CompleteBuy`/`CompleteSell`, and other
orders commit in between. `outdated` and `torn` are history variables: who has read
an account that was written since, and which buckets were written from such a
reading. Of a journal only the asset account is kept. The seed and the orders post
to `USDT_HOT_WALLET` and `GNF_PDV_01` (`wallet`), adjustments to `ASSET_USDT` and
`ASSET_GNF` (`aggregate`), and the GNF of a BUY reaches its bucket at
payment-verified and the ledger only at completion (`unposted`). Two more operations
post to `GNF_PDV_01` and move no bucket: the sale of a ticket (`SellTickets`,
`tickets.service.ts:211-223`) and the payment of a settlement (`PaySettlement`,
`settlements.service.ts:112-121`). What they put against it, organisers' and platform's
accounts together, is `owed`; how a sale comes to be issued and a settlement to be
paid is in `BoxOffice` and `Settlements`, so here either may be posted at any time, a
settlement also twice. A supplier's purchase, which credits COLD and its account
together, is in `Desk`. The orders appear
by their transactions: `StartConsume` requires a HELD reservation and a credited
payment, which is what `ReservationFollowsOrder`, `PaidOrdersAreBookedOnce` and
their SELL counterparts establish of an order that completes. An order that is
credited and then closed keeps its `unposted` GNF: the code posts no journal for it.

`Reconciliation` adds `reconcile`: it reads the buckets, then the aggregate account,
then looks for an open alert and creates one, each a step between the orders'
transactions. `moved` marks the comparisons during which anything was written.

### Settlements and BoxOffice

`settlement` holds the rows of one event and organiser with `organizerNetGnf`,
`payout` the payout keyed to each, `debited` what its journals took from
`ORGANIZER_PAYABLE`. `approve` and `pay` lock nothing: an *operator* carries the
amount of the first query through `StartPayment`, `CreatePayout`, `MarkProcessing`,
`Process` and `RecordPaid`/`RecordFailed`, and may stop at any await. `ProcessPayout`
is `PayoutsService.process` as one step, for it holds the payout's lock; `SellOrder`
has its inside. `accrue` belongs to the transaction of its caller: `BookProceeds`
takes its query and `IssueTickets` its write, so two orders may read the same total.

`BoxOffice` has the orders of one ticket type. `createOrder` locks the type's row
and is one step. A *request* is one execution of `driveOrder`, which holds
`event-order:<id>` from `Drive` until it ends or the lock's 15 s are over
(`LockExpires`; the request goes on). `Poll` is `pollIntent` and the first query of
`failOrder` or `issueTickets`, both unlocked reads that lead to the same decision.
`issueTickets` updates the order before it accrues and so holds its row from
`BookProceeds` to its commit: `RowIsFree`.

Four history variables name the races the code is exposed to, so that the
properties can say what holds without them: `outlived` (orders whose lock expired
under a request), `overwritten` (an accrual wrote over another), `contested` (two
operators at work on one settlement), `late` (an accrual after the payout began).
TLC reaches each of them, and behind them two issues of one order, seats given back
twice, lost proceeds and a journal posted twice.

### Modems

`modem` has the rows, `job` the intents and payouts with the modem each row names.
`allocate` locks the table and is one step; `release` is a read and a write, the
health check reads all rows and writes them one by one, and the operator's commands
write blindly. A *worker* is one execution of an operation on an intent or payout
under its Redis lock, which `LockExpires` takes away. `open` is the set of uses that
were allocated and not released, `streak` the failed releases since the last good
one, `underflow` the modems a double release counted below zero. The numbers of
`Score` are those of the code at a scale of 1 000 GNF.

### Sessions

`otp`, `session` and `token` are the rows, `store` the refresh token in the browser's
localStorage, which its tabs share, and `tab` where each tab's request is in the
handler. No handler runs in a transaction except `logoutAll`, so a refresh is
`ReadToken`, `IssueToken`, `RevokeOld` and `StoreTokens`. A tab and the server stop
separately. `LoseConnection` runs the catch of `apps/web/src/lib/api-client.ts:73-75`,
which clears the store; `ClosePage` runs nothing and leaves the store as it is; after
either the server goes on with the request, and `DropAnswer` is its answer to nobody
(`away`). `Stop` is a server that stops between two writes, which the tab sees as an
error. Lifetimes are choices. `raced`, `orphaned`, `left` and `overlapped` name what the
code leaves open: two requests that rotated one token at once, tokens whose answer was
lost, tokens whose page was closed during their refresh, and codes that two
verifications read, or that `SENT` made active again after their use. A token in `left`
may be one the server has revoked, of a session that lives on; `StoreIsUsable` says that
no other is.

### Pricing and Desk

`Pricing` states `pricing.math.ts` as quotients of integers rounded down, up or half
up, where the code rounds decimals of 40 digits to the asset's scale; a rounding goes by
the magnitude, whatever the sign. `RuleDto` takes any figures and the risk buffer is not
validated, so spreads, fees and buffers are integers of either sign, and a fee may be
more than the whole; `Priced` refuses what the code refuses, and no more. The reference,
the bounds and the default spreads are validated and are not negative. A quote keeps the
spread and the fee it shows, as `PriceQuote` does. `updateConfig`'s two writes are one
step after its reads, because the row locks make a second admin wait; a quote reads the
configuration and then the rules. `Desk` has the lots as a sequence, oldest first: a sale
reads them, and writes what it computed in the transaction that completes the order. What
the lots lack is costed at the sale's own rate; the transaction rolls back when the
journal does not balance or has a negative fee (`Balances`). Sales of orders with a HELD
reservation
serialize on the account's row; those without do not (`overlapped`). It sells at the
price of a quote and from the stock.

### Checkout

A *request* goes through the interceptor (`Begin`, `CreateKey`), the quote's lock, the
check of the limits, the transaction that locks the quote and creates the order, and the
completion or abort of its key, which run in the background. `Restart` cuts off all
requests. The quote's expiry is a fact (`past`) that the job, or a reader of the quote,
writes later: `overtaken` marks the quotes a reader wrote EXPIRED over CONSUMED.
`LevelMax` and `GlobalMax` are sets of at most one number, for a level or a setting that
may not exist. Quotes with an amount that is not positive, which a rule below zero can
give, are left out: `reserve` and `creditAvailable` refuse their orders.

### Accounts, Events, Gate and Venue

An account and its KYC record are two rows that registration, a submission and a review
write with unlocked reads before; `overtaken` marks those an operator decided about
during a submission. Of an event the model keeps the edits that were written to it, each
known by the number it got when it passed the check of the status (`begun`), and how many
ticket types it has. `seen` is what the operator's list shows of both, `reviewed` what it
showed at the last publication, and `late` the edits that were then written and not shown,
or read and not yet written. An edit may land on a published event, then, and
`PublishedAsReviewed` says which: those in `late`. A ticket type may be added at any
status, and the property says nothing against it. A scan
is `Send`, the conditional UPDATE of `checkIn` (`Use`), the row it writes and the answer,
which may be lost, and the phone sends the code it sees again. `Venue` joins the three:
tickets are of published events, and phones list what was published when the page opened.

## 3. What the runs check

| run | shows | distinct states |
|---|---|---|
| `MCBuyOrder` | safety of a BUY order and the refinement of `BuyPromise` | 1.4 million |
| `MCBuyLiveness` | unpaid orders end, detected payments are concluded | 36 thousand |
| `MCSellOrder` | safety of a SELL order and the refinement of `SellPromise` | 525 thousand |
| `MCSellLiveness` | undeposited orders end, deposits and payouts move on | 22 thousand |
| `MCTreasury` | balances, reservations, ledger and its comparison under unlocked readings, ticket sales and settlements | 2.2 million |
| `MCBoxOffice` | seats, tickets, proceeds and their settlement | 2.2 million |
| `MCModems` | a modem's counter and its circuit breaker | 2.2 million |
| `MCSessions` | codes and tokens of a browser with two tabs, closed pages included | 6.0 million |
| `MCDesk` | prices, configuration, purchases and lots | 2.0 million |
| `MCCheckout` | keys, quotes and the daily limit | 2.0 million |
| `MCVenue` | decisions on accounts, the review of events, entries | 2.7 million |
| `SellPayoutRunsOnce` | expects a violation: the finding of section 5 | |

**BUY and SELL orders.** Two workers, either of which may stop anywhere: every race
named in the hazards is between two executions, and operators, the rail and the chain
are actors besides them. Workers are symmetric. Events are a set of names and the
statuses finite, so `BuyOrder` needs no other bound. `SellOrder` has
`MaxAttempts = 2` (5 in the code; two are enough for a first failure, a retry and an
exhausted payout) and `TransferCap = 2` (the rail accepts no third transfer: one more
than `PayoutRunsOnce` allows).

**Treasury.** Two BUY orders, which compete for one bucket, and a SELL, which uses both;
the opening balance covers one and a half orders, so a second reservation is refused
until something is credited or released; an operator adjusts the USDT down by one and
back (`AggregateBound`); tickets bring in a franc and a settlement pays it, again and
again (`OwedBound`); one comparison runs at any time, and an old alert may be open.

**Box office.** Two orders for one or two of two seats (the second order is refused,
fits, or must wait for the first to fail), two requests and two operators, the least
that can race, and one settlement row: rows share nothing but the journal account, which
is kept per row. What it leaves out is a second pending row opened by two first accruals
at once, which loses nothing. An order that finds no row to accrue to does not commit,
which bounds the run.

**Modems.** One modem, one collection and one payout, two workers: a race of releases
needs two jobs on one modem. `MaxStarts = 2` gives four uses, one more than the three
failures that take a modem out. `MaxEvents = 2` bounds together crashes, expired locks,
operators' commands and health checks: one of them and one that meets its result.

**Sessions.** `MCSessions` has two tabs, one code, the session it opens, three tokens (the
first, and the replacements of two rotations that race), one wrong attempt and two losses,
say a page that is closed and a server that stops. `opened` counts when a code is found
right, so that one session is enough to see it opened twice; tabs are symmetric. A second
code would only hide the first, which is a way for it to be refused.

**Desk.** Two deals, a tariff of small numbers (`Bps = 10`, two units to a dollar) with
one rule whose tier and segment some requests match, so that every rounding is inexact:
the rule has a spread below zero and a fee above the whole, or lifts the spread of sales,
and the risk buffer is negative; two admins and three versions; one purchase set by two operators.

**Checkout.** Two quotes of 2 under a daily limit of 3, two keys, three requests, a reader
and a restart: two orders pass the limit, one request meets another's key, and a third
comes after the restart.

**Venue.** One user, one event edited once, with one ticket type, an organiser's tab, three
decisions (approve, publish, and one to undo); a ticket and one of another event, which
stands for forged codes too as the model treats them alike, and two scans. One edit is
enough: it may be seen, written unseen, under way at the publication, or begin after it.
Its parts share only the standing of an account and the status of an event.

Runs that may come to an end (final statuses, used-up bounds) say
`CHECK_DEADLOCK FALSE`: nothing waits for ever in them but on the bound.

**Liveness** runs have one interruptible worker. `Fairness` is weak for a method
that is running, the event loop does not starve it, and strong for the sweep and the
expiry of stale orders, which the maintenance queue repeats for ever
(`modules/system/maintenance.processor.ts:31-75`); a sweep may find the order
already moved, hence strong. The properties assume that interruptions stop
(`Calm`): a process that is restarted for ever gets nothing done. No fairness is
assumed of customers, operators, the rail or the chain.

## 4. What is proved

Every safety property that a passing run checks is also a theorem, for every value of the
constants. Sets of rows that are summed are assumed finite, as the rows of a database are
(`IsFiniteSet` in `TreasuryAssumption`, `BoxOfficeAssumption`, `CheckoutAssumption`,
`InventoryAssumption`); workers, requests, tabs and operators may be any set.

`BuyOrderProofs`, for any set of workers: type correctness and the four safety
properties of `BuyOrder`, from the inductive invariant `IInv` of `BuyOrderProps`.
The properties alone are not inductive: a worker carries a decision from an unlocked
read to a later transaction, so `WorkerKnows` says what remains true at each place
whatever the others do (a worker about to send knows the payment to be booked, for
bookings are never undone; one about to record knows the transaction to be on the
chain), and `OrderInv` adds that a verified intent was verified and that statuses
past the reservation have a linked intent. A second part proves that every
step of `BuyOrder` is a step of `BuyPromise` or a stutter. The only assumption is
that the interruptible workers are workers.

`SellOrderProofs`, the same for `SellOrder` and `SellPromise`, for any workers, any
number of attempts and of transfers at once: type correctness, the four safety
properties and the refinement. `WorkerKnows` says here that a worker that reserves GNF
or opens a payout has an order whose deposit is confirmed (its event row is never taken
back), that one about to complete it knows the payout to be PAID, and what the payout is
while a worker holds its lock. PAID is final because only the holder of the lock, or a
process that finds it free and the payout unpaid, changes a payout (`OneHolder`, `Kept`),
and what the rail answered last stays with it (`PayoutInv`): so a completed order has its
transfer, even if an earlier attempt at it was forgotten. `SellAssumption` also says that
the two bounds are positive.

`Sums` is about the fold the models sum with, `MapThenSumSet` of the community modules:
its recursive function is well defined on a finite set, a sum does not depend on the order
of its elements, moves by what one value moves by, and adds up over a partition. The
induction it takes is done by hand, on the smallest subset without the claimed property
(`SmallestSubset`, from the well-founded order of strict inclusion), for the library's
induction rule takes an operator.

`TreasuryProofs`, for any finite sets of orders, any positive amounts and
any opening balances: balances never go below zero, and a bucket that was not torn
differs from its asset accounts by the unposted francs and the tickets' money (`owed`)
and by nothing else, and holds in reserve what its HELD reservations add up to. The
invariant
adds `ReadIsCurrent`: an open transaction that is not
outdated has read the account as it is, so writing what it computed is the same as
computing under the lock; `HeldInv` adds that a reservation stays HELD while a release or
a consumption of it is open, so that the sum loses one term once. The assumptions
(`TreasuryAssumption`) say that BUY and
SELL orders are different orders, that amounts are positive (`assertPositive` in
`reserve` and `moveAvailable`) and that balances open at zero or more.
`ReconciliationOnlyReads` shows that the treasury with comparisons beside it implements
the treasury without them, which carries these theorems over to the specification the
run checks; `DriftIsAlwaysElsewhere` says what an undisturbed comparison reports.

`BoxOfficeProofs`, for any orders, requests, operators and settlements and any
positive quantities and share: type correctness and the run's six properties.
`RequestKnows` says that a request at work has the lock of its order and that the
order is still awaiting its payment, unless that lock expired; without it an issue
that was decided on an old reading could follow another. `OperatorKnows` says that an
operator about to record a payment knows the payout to be PAID, which no retry takes
back, and `RowHasNet` that the amount recorded is not zero. The proof is cut in two,
`SalesOK` and `SettlementsOK`, which meet only in `IssueTickets`. Three invariants more
stand on these. `SeatsInv`: a failure gives back the seats of an order that had them.
`ProceedsInv`: a row that an accrual has found exists, and one that does not exist has no
amount, so that opening it forgets none. `PaymentInv`: an operator nobody joined is alone
on a row with the status of its last step (`OperatorIsAlone`), and the payout has the
row's amount unless something was accrued later (`RowIsSettled`). `BoxOfficeAssumption`
also says that a request is not called "free". The capacity may be 0, as nothing validates
a ticket type's quantity (`events.service.ts:143`): such a type stays on sale with nothing
to sell, hence the condition in `SeatsFollowOrders`.

`HouseProofs` has the modems and the desk. Modems, for any modems, jobs, workers, limits
and numbers of crashes: `CounterIsBacked` is not inductive, for a release that read a
counter of zero takes a use out and nothing off the counter. `CounterInv` counts those uses
(`Uncounted`): the counter and they together are no more than the uses that are out, since
no use was counted when the zero was read, and `UsesAreGiven` makes the next use of a
job a new one. `FailingModemRests` needs `StreakIsCounted`: `recentFailures`, which only
releases write, is the streak itself.

The desk, for any prices, rules, purchases, admins and operators: `OneActiveConfig`
(`Newest`: the versions written are 1 .. n, and an update whose next version is still free
has found the last one active). `NobodyGainsByTurning` compares two quotes made at
different moments, by different rules of either sign. It assumes of the two quotes what
they show: spreads that do not cross and fees that are not negative, for the code refuses
neither and with them turning may gain. What makes it inductive is `Active`: a quote's rate
is the reference of its version, which no update changes, with its own spread added or
taken off, and `AgainstCustomer`: as long as its fee is not negative, its amounts are,
within the half franc by which the fee is rounded, no better than that rate. Two amounts in
whole francs that differ by less than one are not better for the customer. The provers
have little arithmetic of products, so the roundings (`DownBounds`, `UpBounds`)
and the monotony of products are lemmas of their own, and `AmountsAgainst` takes the four
ways of giving an amount one by one. `PurchaseReceivedOnce` and `LotsAccountForSales` stand
on `StockOK`: a sale that has read the lots read the first ones, as they still are unless
another sale read them too (`LotsRead`), and one sale reads at a time while no two
overlapped. `InventoryAssumption` says that no purchase is called 0, the name of a lot
that came from a customer.

`CheckoutProofs`, for any quotes, keys, requests, readers, limits and restarts:
`KeyAnswersOneRequest`, `ProgressHasRequest` and `ConsumedHasOrder`. `OwnKey`: a request
past `CreateKey` has a key of its own, in progress and for its quote; `AnsweredFor`: a key
that was answered for stays, with the body it was answered for. `DayWithinLimit` needs
`DayHasRoom`: as long as no two requests met between check and order, one alone is there,
and the day still has room for what it checked, because meanwhile orders only close.

`AccessProofs` has the sessions and the venue. Sessions, for any tabs, codes, sessions,
tokens, closed pages and losses: `StoreIsUsable`,
`OneLiveToken` and `CodeOpensOnce`. The second needs `TokensOK`: a new
token belongs to one tab until it is stored and is good while its session is (`FreshOK`);
of a session nobody raced for, one tab rotates at a time, and what it rotates is the token
in hand (`RotationOK`); a token that left the browser does not come back (`Gone`). The
first stands on it (`StoreOK`): what a tab that still waits rotates is the token in the
store or one that is gone, and a token whose tab was closed is in `left`. For
the codes, `CodeOK` says that a used code has no verification on its way and that its
`SENT` was written, or finds it VERIFIED.

The venue, for any users, events, operators' changes, tickets, codes and scans:
`AdmittedOnce` (`TicketOK`: one scan at most takes a ticket, and its row and its screen
follow in order), `PublishedAsReviewed` (`EventOK`: what the list shows stays in the event, and a published
event has no edit on its way that is not in `late`) and `DecisionStands` (`AccountOK`: an open submission was let in
before the decision, or is overtaken). The three invariants meet only in `InitOK`.

Only model-checked: the four liveness properties (`UnpaidOrdersEnd`, `DetectedConcludes`,
`UndepositedOrdersEnd`, `DepositsAndPayoutsProgress`), which need ENABLED and a
well-founded measure of progress, beyond TLAPS; and the run that expects a violation.

## 5. Where the code and its documentation disagree

TLC must find one run violated; `PROJECT.json` has the quotation.
`SellPayoutRunsOnce`: a payout whose initiation was not recorded is initiated again.

Of the same kind and kept as notes:

- `README.md:46` calls the buckets a cache of the ledger, but a ticket sale
  (`tickets.service.ts:211-223`) and a settlement (`settlements.service.ts:112-121`) are
  posted to `GNF_PDV_01` and to no bucket: from the first sale on they differ, and
  `LedgerBacksTreasury` says by how much;
- the sweep that "re-drives every non-terminal order" (`crypto.service.ts:826`) omits
  `PAYMENT_VERIFIED`, `USDT_PROCESSING`, `CRYPTO_CONFIRMED` and `GNF_RESERVED`: a crash
  there strands a paid order;
- RETRY (`crypto.service.ts:719`) does not resume an order that was `USDT_PROCESSING`
  once, because `apply` skips recorded events (68-71); a RETRY of a SELL whose payout is
  already PAID leaves it `PAYOUT_PENDING`;
- an admin FAILED (`crypto.service.ts:679-686`) is legal while the USDT is on its way, and
  releases the reservation;
- a payout is polled once (`payouts.service.ts:70`, `141`) and PAYOUT_CONFIRM is never
  enqueued; a later settlement is never seen;
- balances are computed from a reading taken before the lock (`treasury.service.ts:168`,
  `196`) that `prisma.service.ts:24` says protects them;
- `reconcile` (`treasury.service.ts:34`) compares the buckets with `ASSET_*`, to which only
  adjustments post: it reports the whole position as drift, which `DriftIsElsewhere`
  states; two reports at once may open one alert twice, as `alerts.raise` finds and then
  creates;
- an expired order may have a payment or a deposit that arrived; `sendUsdt` may be called
  twice by two drivers and relies on the provider's own key;
- `common/redis/redis-lock.service.ts:20` says "the authoritative concurrency guard is
  always the database row lock", and `README.md:138` claims "DB-level oversell protection":
  `failOrder` and `issueTickets` read the order without its row lock, so once the Redis
  lock has expired under a request an order can be issued twice or its seats given back
  twice (hence `outlived` in `SeatsFollowOrders`, `NeverOversold` and `IssuedOnce`);
- two operators who pay one settlement at once make one payout and two journals; when a
  settlement's first payout fails, no later `pay` is accepted, even after the payout was
  retried with success;
- a modem stays BUSY when a worker stops between `allocate` and the row that names it;
  `dailyVolume` is never reset; ENABLE does not reset `recentFailures`; an intent rejected
  by `adminResolve` keeps its modem;
- two tabs that refresh at once leave two live tokens of a session (`raced`); a lost answer
  leaves one nobody has (`orphaned`); a page closed in the middle of a refresh keeps a
  token the server revokes, of a session that lives on (`left`), and the next refresh ends
  in a login; `apps/web/src/lib/auth.tsx:43` clears the tokens on
  any failure of the profile request at page load;
- a code becomes active again when its SMS is recorded after its use (`auth.service.ts:150`);
- a restart leaves a key in progress for good, for `IdempotencyKey.expiresAt` is enforced
  nowhere; `getQuote` (`pricing.service.ts:180`) may write EXPIRED over CONSUMED; the daily
  limit is summed outside the transaction (`users.service.ts:74`);
- a sale below cost and fees never completes, after its USDT was sent: its journal does
  not balance (`crypto.service.ts:355`); nor does one whose quote shows a negative fee;
- rules with spreads or fees below zero, and fees above the whole, are stored and priced
  (`pricing.controller.ts:17-31`): customers may then gain by buying and selling back, and
  a quote may have a negative amount of francs (`pricing.math.ts:63-69`);
- a KYC submission writes over a decision taken meanwhile (`kyc.service.ts:53`), and a
  review that rejects leaves the KYC level;
- `submitForApproval` takes any status and unpublishes an event; ticket types are added to
  published events unreviewed (`events.service.ts:132-147`), and an edit read before a
  publication is written after it; `checkIn` does not look at the event's status; the organiser
  branch of `scannerEvents` is not reached.

## 6. Not modelled, and why

- The expiry of `intent:<id>` and `payout:<id>` inside `BuyOrder` and `SellOrder`, which
  take those locks as exclusion: `Modems` has it, for the same operations.
- Several ticket types in one order, `maxPerOrder`; gross and fee of a settlement.
- Several crypto orders at once, except in the treasury and on the desk; the 200-row limit
  of the sweeps; seats that unpaid event orders keep, as no job ends them.
- `ledger.post`'s idempotency and `integrityCheck`, a query; `treasury.transfer`, which has
  no caller.
- The permission table of the roles, audit, SMS, settings and the controllers that only
  query or hand on: no state these properties depend on.
- Decimal formatting and parsing; the seed, but for the balances, roles and configuration
  it leaves; `packages/shared-types` and the order page's display.
- The live blockchain and rail providers: they are their answers.

## 7. Plan

Done: all of the components above but those of section 6, and the proofs of section 4.
Next, in this order:

1. **An abstract box office** that sells a seat once and owes its price, implemented by
   `BoxOffice` as long as no lock is outlived, and the same for the desk's stock.
2. **Orders together**: `Checkout` with `BuyOrder` and `Treasury`, and sweeps that take a
   bounded number of orders; the treasury's orders as those the promises allow.
