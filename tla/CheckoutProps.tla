--------------------------- MODULE CheckoutProps ---------------------------
(* What a checkout promises.                                               *)
EXTENDS Checkout

TypeOK ==
  /\ quote \in [Quotes -> {"ACTIVE", "EXPIRED", "CONSUMED"}]
  /\ past \subseteq Quotes
  /\ order \in [Quotes -> {"NONE", "LIVE", "CLOSED"}]
  /\ key \in [Keys -> {None} \cup [status : {"IN_PROGRESS", "COMPLETED"}, body : Quotes]]
  /\ call \in [Requests -> CallState]
  /\ holder \in [Quotes -> {None} \cup [is : {"held"}, request : Requests]]
  /\ view \in [Viewers -> {None} \cup [is : {"read"}, quote : Quotes]]
  /\ restarts \in Nat
  /\ answered \subseteq Keys \X Quotes \X Quotes
  /\ stranded \subseteq Keys /\ overtaken \subseteq Quotes /\ overlapped \in BOOLEAN

(* A request is answered with the order of its own quote, and no key is    *)
(* ever answered for two quotes: not when two requests bring a key at      *)
(* once, nor when one comes again with another body, after a failure or    *)
(* after a restart (idempotency.interceptor.ts).                           *)
KeyAnswersOneRequest ==
  \A a, b \in answered : a[2] = a[3] /\ (a[1] = b[1] => a[2] = b[2])

(* A key is in progress while a request that brought it is, so that it may *)
(* be sent again after a failure; only a restart leaves it in progress for *)
(* good, every later request being refused (the interceptor records the    *)
(* outcome in the background and nothing ends a key that is in progress).  *)
ProgressHasRequest ==
  \A k \in Keys :
    key[k] # None /\ key[k].status = "IN_PROGRESS" =>
      \/ k \in stranded
      \/ \E r \in Cut : call[r].key = k

(* A quote is CONSUMED when it has its order, whatever lock ran out and    *)
(* whatever expired meanwhile, but for a getQuote that had found it        *)
(* expired while the order was being created: it writes EXPIRED over it    *)
(* (pricing.service.ts getQuote).                                          *)
ConsumedHasOrder ==
  \A q \in Quotes :
    /\ quote[q] = "CONSUMED" => order[q] # "NONE"
    /\ order[q] # "NONE" => quote[q] = "CONSUMED" \/ q \in overtaken

(* The day's orders stay within the customer's limit, unless two of them   *)
(* were created at once: the sum is read outside the transaction and       *)
(* nothing is locked for the customer (users.service.ts).                  *)
DayWithinLimit == overlapped \/ \A max \in EffectiveLimit : Today <= max

-----------------------------------------------------------------------------
(* The inductive invariant behind DayWithinLimit: unless two requests have *)
(* met there, one alone is between its check and its order, and the day    *)
(* has room for it still, since the day's sum only falls meanwhile.        *)
Committing == {r \in Requests : At(r, "commit")}

DayHasRoom ==
  ~overlapped =>
    /\ \A max \in EffectiveLimit : Today <= max
    /\ \A r, s \in Committing : r = s
    /\ \A r \in Committing : WithinLimits(call[r].quote)
=============================================================================
