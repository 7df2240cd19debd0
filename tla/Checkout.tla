------------------------------ MODULE Checkout ------------------------------
(***************************************************************************)
(* From a quote to an order: the HTTP requests of POST /crypto/orders/buy  *)
(* and /sell, the idempotency interceptor they pass (common/idempotency),  *)
(* the Redis lock of the quote and the transaction that creates the order  *)
(* (createBuyOrder and createSellOrder of crypto.service.ts, lockForOrder  *)
(* of pricing.service.ts, assertWithinLimits of users.service.ts).  All    *)
(* quotes are of one customer and one day.  What the order does next is in *)
(* BuyOrder and SellOrder, how the quote was priced in Pricing.            *)
(***************************************************************************)
EXTENDS Integers, FiniteSets, FiniteSetsExt

CONSTANTS
  Quotes,           \* PriceQuote rows
  Amount,           \* [Quotes -> Nat]: gnfAmount
  LevelMax,         \* dailyMax of the active TransactionLimit of the KYC level
  GlobalMax,        \* and of the GLOBAL one: sets of at most one number
  Keys,             \* Idempotency-Key headers
  Requests,         \* requests the server can have open at once
  Viewers,          \* GET /quotes/:id requests open at once
  MaxRestarts       \* bound: restarts of the server

None == [is |-> "none"]

ASSUME CheckoutAssumption ==
  /\ Amount \in [Quotes -> Nat \ {0}] /\ IsFiniteSet(Quotes) /\ MaxRestarts \in Nat
  /\ LevelMax \subseteq Nat /\ Cardinality(LevelMax) <= 1
  /\ GlobalMax \subseteq Nat /\ Cardinality(GlobalMax) <= 1

VARIABLES
  quote,            \* PriceQuote.status
  past,             \* quotes whose expiresAt has passed
  order,            \* the order of each quote: NONE, LIVE, CLOSED when FAILED,
                    \* EXPIRED or CANCELLED
  key,              \* IdempotencyKey rows
  call,             \* where each request is
  holder,           \* lock:quote:<id> in Redis
  view,             \* where each getQuote is
  restarts,         \* bound
  answered,         \* history: <<key, quote asked, order answered>>
  stranded,         \* history: keys of requests a restart cut
  overtaken,        \* history: quotes getQuote found expired while an order
                    \* was being made of them
  overlapped        \* history: two requests were between limit and order

history == <<answered, stranded, overtaken, overlapped>>
rows == <<quote, past, order>>
vars == <<rows, key, call, holder, view, restarts, history>>

Idle == [at |-> "idle"]
Stages == {"begin", "create", "wait", "look", "lock", "limit", "commit", "follow",
           "answer", "complete", "abort"}
CallState == {Idle} \cup [at : Stages, key : Keys, quote : Quotes]

At(r, stage) == call[r].at = stage
Go(r, stage) == call' = [call EXCEPT ![r].at = stage]
End(r) == call' = [call EXCEPT ![r] = Idle]

(* The calls that hold the row lock of a quote, inside the transaction.    *)
InTransaction(q) == {r \in Requests : call[r].at \in {"limit", "commit"} /\ call[r].quote = q}

Init ==
  /\ quote = [q \in Quotes |-> "ACTIVE"] /\ past = {}
  /\ order = [q \in Quotes |-> "NONE"]
  /\ key = [k \in Keys |-> None]
  /\ call = [r \in Requests |-> Idle]
  /\ holder = [q \in Quotes |-> None]
  /\ view = [v \in Viewers |-> None]
  /\ restarts = 0
  /\ answered = {} /\ stranded = {} /\ overtaken = {} /\ overlapped = FALSE

-----------------------------------------------------------------------------
(* A customer submits a quote.  The web panel makes a new key at each      *)
(* submit; another client may send one again.                              *)
Submit(r, k, q) ==
  /\ call[r] = Idle
  /\ call' = [call EXCEPT ![r] = [at |-> "begin", key |-> k, quote |-> q]]
  /\ UNCHANGED <<rows, key, holder, view, restarts, history>>

-----------------------------------------------------------------------------
(* The interceptor.                                                        *)

(* Mutant: a known key is answered without a look at the request's hash.   *)
BeginUnhashed(r) ==
  LET row == key[call[r].key]
  IN  /\ At(r, "begin")
      /\ IF row = None THEN Go(r, "create") /\ UNCHANGED answered
         ELSE /\ End(r)
              /\ answered' = answered \cup
                   (IF row.status = "COMPLETED" THEN {<<call[r].key, call[r].quote, row.body>>}
                    ELSE {})
      /\ UNCHANGED <<rows, key, holder, view, restarts, stranded, overtaken, overlapped>>

(* begin reads the key: it is another request's, or in progress, and the   *)
(* request is refused; or it is completed, and its answer is replayed.     *)
Begin(r) ==
  LET row == key[call[r].key]
      replays == row # None /\ row.body = call[r].quote /\ row.status = "COMPLETED"
  IN  /\ At(r, "begin")
      /\ IF row = None THEN Go(r, "create") ELSE End(r)
      /\ answered' = answered \cup
           (IF replays THEN {<<call[r].key, call[r].quote, row.body>>} ELSE {})
      /\ UNCHANGED <<rows, key, holder, view, restarts, stranded, overtaken, overlapped>>

(* The key is created; a second request that creates it is refused.        *)
CreateKey(r) ==
  /\ At(r, "create")
  /\ IF key[call[r].key] = None
     THEN /\ key' = [key EXCEPT ![call[r].key] =
                       [status |-> "IN_PROGRESS", body |-> call[r].quote]]
          /\ Go(r, "wait")
     ELSE End(r) /\ UNCHANGED key
  /\ UNCHANGED <<rows, holder, view, restarts, history>>

(* complete and abort run after the answer, in the background.             *)
CompleteKey(r) ==
  /\ At(r, "complete")
  /\ key' = [key EXCEPT ![call[r].key].status = "COMPLETED"]
  /\ End(r)
  /\ UNCHANGED <<rows, holder, view, restarts, history>>

(* Mutant: a failed request leaves its key as it is.                       *)
AbortNothing(r) ==
  /\ At(r, "abort")
  /\ End(r)
  /\ UNCHANGED <<rows, key, holder, view, restarts, history>>

AbortKey(r) ==
  /\ At(r, "abort")
  /\ key' = [key EXCEPT ![call[r].key] = IF @.status = "IN_PROGRESS" THEN None ELSE @]
  /\ End(r)
  /\ UNCHANGED <<rows, holder, view, restarts, history>>

-----------------------------------------------------------------------------
(* createBuyOrder and createSellOrder, under the quote's lock.             *)

(* withLock's finally: the lock is deleted if it is still the request's.   *)
Unlocked(r) ==
  LET mine == holder[call[r].quote] = [is |-> "held", request |-> r]
  IN  IF mine THEN [holder EXCEPT ![call[r].quote] = None] ELSE holder

(* The handler throws: the transaction is rolled back, the lock released.  *)
Fail(r) == Go(r, "abort") /\ holder' = Unlocked(r)

TakeLock(r) ==
  /\ At(r, "wait") /\ holder[call[r].quote] = None
  /\ holder' = [holder EXCEPT ![call[r].quote] = [is |-> "held", request |-> r]]
  /\ Go(r, "look")
  /\ UNCHANGED <<rows, key, view, restarts, history>>

LockTimeout(r) ==
  /\ At(r, "wait") /\ holder[call[r].quote] # None
  /\ Go(r, "abort")
  /\ UNCHANGED <<rows, key, holder, view, restarts, history>>

(* The quote's order, if it has one, is the answer.                        *)
LookForOrder(r) ==
  /\ At(r, "look")
  /\ IF order[call[r].quote] # "NONE"
     THEN Go(r, "answer") /\ holder' = Unlocked(r)
     ELSE Go(r, "lock") /\ UNCHANGED holder
  /\ UNCHANGED <<rows, key, view, restarts, history>>

(* lockForOrder.  The EXPIRED it writes before it throws is rolled back.   *)
LockForOrder(r) ==
  /\ At(r, "lock") /\ InTransaction(call[r].quote) = {}
  /\ IF quote[call[r].quote] = "ACTIVE" /\ call[r].quote \notin past
     THEN Go(r, "limit") /\ UNCHANGED holder
     ELSE Fail(r)
  /\ UNCHANGED <<rows, key, view, restarts, history>>

Today == MapThenSumSet(LAMBDA q : Amount[q], {q \in Quotes : order[q] = "LIVE"})

(* effectiveLimits: the GLOBAL limit is for a level that has none.          *)
EffectiveLimit == IF LevelMax # {} THEN LevelMax ELSE GlobalMax

(* Mutant: the amount alone is compared with the limit.                    *)
WithinOneOrder(q) == \A max \in EffectiveLimit : Amount[q] <= max

(* Without a limit every amount is within it.                              *)
WithinLimits(q) == \A max \in EffectiveLimit : Today + Amount[q] <= max

(* assertWithinLimits reads what other transactions committed, no more.    *)
AssertWithinLimits(r) ==
  /\ At(r, "limit")
  /\ IF WithinLimits(call[r].quote) THEN Go(r, "commit") /\ UNCHANGED holder ELSE Fail(r)
  /\ overlapped' = (overlapped \/ \E o \in Requests : At(o, "commit"))
  /\ UNCHANGED <<rows, key, view, restarts, answered, stranded, overtaken>>

(* The order is created (quoteId is unique) and the quote CONSUMED.        *)
CreateOrder(r) ==
  LET q == call[r].quote
  IN  /\ At(r, "commit") /\ order[q] = "NONE"
      /\ order' = [order EXCEPT ![q] = "LIVE"]
      /\ quote' = [quote EXCEPT ![q] = "CONSUMED"]
      /\ Go(r, "follow")
      /\ overtaken' = overtaken \cup {o \in {q} : \E v \in Viewers : view[v] = [is |-> "read", quote |-> q]}
      /\ UNCHANGED <<past, key, holder, view, restarts, answered, stranded, overlapped>>

(* The order's first transitions and its payment; any of them may throw.   *)
Follow(r) ==
  /\ At(r, "follow")
  /\ Go(r, "answer") /\ holder' = Unlocked(r)
  /\ UNCHANGED <<rows, key, view, restarts, history>>

Throw(r) ==
  /\ call[r].at \in {"look", "lock", "limit", "commit", "follow"}
  /\ Fail(r)
  /\ UNCHANGED <<rows, key, view, restarts, history>>

Answer(r) ==
  /\ At(r, "answer")
  /\ answered' = answered \cup {<<call[r].key, call[r].quote, call[r].quote>>}
  /\ Go(r, "complete")
  /\ UNCHANGED <<rows, key, holder, view, restarts, stranded, overtaken, overlapped>>

-----------------------------------------------------------------------------
(* The life of a quote.                                                    *)

TimePasses(q) ==
  /\ q \notin past
  /\ past' = past \cup {q}
  /\ UNCHANGED <<quote, order, key, call, holder, view, restarts, history>>

(* Mutant: every quote of the past is expired.                             *)
ExpireAll ==
  /\ quote' = [q \in Quotes |-> IF q \in past /\ InTransaction(q) = {} THEN "EXPIRED" ELSE quote[q]]
  /\ UNCHANGED <<past, order, key, call, holder, view, restarts, history>>

(* expireStale: the update waits for a locked row and looks at it again.   *)
ExpireStale ==
  /\ quote' = [q \in Quotes |->
       IF q \in past /\ InTransaction(q) = {} /\ quote[q] = "ACTIVE"
       THEN "EXPIRED" ELSE quote[q]]
  /\ UNCHANGED <<past, order, key, call, holder, view, restarts, history>>

(* getQuote reads, then writes EXPIRED without another look.               *)
ReadQuote(v, q) ==
  /\ view[v] = None /\ quote[q] = "ACTIVE" /\ q \in past
  /\ view' = [view EXCEPT ![v] = [is |-> "read", quote |-> q]]
  /\ UNCHANGED <<rows, key, call, holder, restarts, history>>

WriteExpired(v) ==
  /\ view[v] # None /\ InTransaction(view[v].quote) = {}
  /\ quote' = [quote EXCEPT ![view[v].quote] = "EXPIRED"]
  /\ view' = [view EXCEPT ![v] = None]
  /\ UNCHANGED <<past, order, key, call, holder, restarts, history>>

(* The order ends without a trade.                                         *)
CloseOrder(q) ==
  /\ order[q] = "LIVE"
  /\ order' = [order EXCEPT ![q] = "CLOSED"]
  /\ UNCHANGED <<quote, past, key, call, holder, view, restarts, history>>

-----------------------------------------------------------------------------
(* The lock's time runs out; the server restarts.                          *)

LockExpires(q) ==
  /\ holder[q] # None
  /\ holder' = [holder EXCEPT ![q] = None]
  /\ UNCHANGED <<rows, key, call, view, restarts, history>>

Cut == {r \in Requests : call[r].at \notin {"idle", "begin", "create"}}

Restart ==
  /\ restarts < MaxRestarts
  /\ restarts' = restarts + 1
  /\ stranded' = stranded \cup {call[r].key : r \in Cut}
  /\ call' = [r \in Requests |-> Idle]
  /\ view' = [v \in Viewers |-> None]
  /\ UNCHANGED <<rows, key, holder, answered, overtaken, overlapped>>

RequestStep(r) ==
  \/ Begin(r) \/ CreateKey(r) \/ CompleteKey(r) \/ AbortKey(r)
  \/ TakeLock(r) \/ LockTimeout(r) \/ LookForOrder(r) \/ LockForOrder(r)
  \/ AssertWithinLimits(r) \/ CreateOrder(r) \/ Follow(r) \/ Throw(r) \/ Answer(r)

Next ==
  \/ \E r \in Requests, k \in Keys, q \in Quotes : Submit(r, k, q)
  \/ \E r \in Requests : RequestStep(r)
  \/ \E q \in Quotes : TimePasses(q) \/ CloseOrder(q) \/ LockExpires(q)
  \/ \E v \in Viewers, q \in Quotes : ReadQuote(v, q)
  \/ \E v \in Viewers : WriteExpired(v)
  \/ ExpireStale \/ Restart

Spec == Init /\ [][Next]_vars
=============================================================================
