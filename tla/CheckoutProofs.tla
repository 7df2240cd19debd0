--------------------------- MODULE CheckoutProofs ---------------------------
(***************************************************************************)
(* Proofs about idempotency keys, quotes and the day's limit, for any      *)
(* quotes, keys, open requests, limits and restarts.                       *)
(***************************************************************************)
EXTENDS CheckoutProps, Sums

-----------------------------------------------------------------------------
(* Keys.                                                                    *)

InProgress(q) == [status |-> "IN_PROGRESS", body |-> q]

KeysTypeOK ==
  /\ key \in [Keys -> {None} \cup [status : {"IN_PROGRESS", "COMPLETED"}, body : Quotes]]
  /\ call \in [Requests -> CallState]
  /\ answered \subseteq Keys \X Quotes \X Quotes

(* The requests past CreateKey have a key of their own, in progress and for *)
(* their quote.                                                             *)
OwnKey(r) ==
  r \in Cut =>
    /\ key[call[r].key] = InProgress(call[r].quote)
    /\ \A o \in Cut : call[o].key = call[r].key => o = r

(* A key that was answered for is there for good: the request that answered *)
(* can only complete it.                                                    *)
AnsweredFor(a) ==
  /\ a[2] = a[3] /\ key[a[1]] # None /\ key[a[1]].body = a[2]
  /\ \A r \in Cut : call[r].key = a[1] => call[r].at = "complete"

KeysOK ==
  /\ KeysTypeOK
  /\ \A r \in Requests : OwnKey(r)
  /\ \A a \in answered : AnsweredFor(a)
  /\ ProgressHasRequest

(* The row of a request that is being answered.                             *)
LEMMA InProgressIs ==
  \A q : InProgress(q) # None /\ InProgress(q).status = "IN_PROGRESS" /\ InProgress(q).body = q
<1>1. ASSUME NEW q PROVE InProgress(q) # None
  BY DEF InProgress, None
<1> QED BY <1>1 DEF InProgress

(* A request that is open is at a stage, with its key and its quote.        *)
LEMMA CallIs ==
  ASSUME KeysTypeOK, NEW r \in Requests, call[r].at # "idle"
  PROVE  /\ call[r] = [at |-> call[r].at, key |-> call[r].key, quote |-> call[r].quote]
         /\ call[r].at \in Stages /\ call[r].key \in Keys /\ call[r].quote \in Quotes
BY DEF KeysTypeOK, CallState, Idle

(* Go changes the stage of one request and nothing else.                    *)
LEMMA GoIs ==
  ASSUME KeysTypeOK, NEW r \in Requests, call[r].at # "idle",
         NEW stage \in Stages, Go(r, stage)
  PROVE  /\ call' \in [Requests -> CallState]
         /\ call'[r].at = stage /\ call'[r].key = call[r].key /\ call'[r].quote = call[r].quote
         /\ \A o \in Requests \ {r} : call'[o] = call[o]
<1>1. call[r] \in [at : Stages, key : Keys, quote : Quotes]
  BY DEF KeysTypeOK, CallState, Idle
<1>2. \A o \in Requests : call'[o] = IF o = r THEN [call[r] EXCEPT !.at = stage] ELSE call[o]
  BY DEF Go, KeysTypeOK
<1>3. /\ call'[r] \in [at : Stages, key : Keys, quote : Quotes]
      /\ call'[r].at = stage /\ call'[r].key = call[r].key /\ call'[r].quote = call[r].quote
  BY <1>1, <1>2
<1>4. call' \in [Requests -> CallState]
  <2>1. [call[r] EXCEPT !.at = stage] \in CallState
    BY <1>2, <1>3 DEF CallState
  <2> QED BY <2>1 DEF Go, KeysTypeOK
<1> QED BY <1>2, <1>3, <1>4

(* End leaves one request idle and nothing else.                            *)
LEMMA EndIs ==
  ASSUME KeysTypeOK, NEW r \in Requests, End(r)
  PROVE  /\ call' \in [Requests -> CallState]
         /\ call'[r].at = "idle"
         /\ \A o \in Requests \ {r} : call'[o] = call[o]
BY DEF End, KeysTypeOK, CallState, Idle

(* A request with a key goes from stage to stage until it has its outcome.  *)
LEMMA StageKeeps ==
  ASSUME KeysOK, NEW r \in Cut, NEW stage \in Stages \ {"begin", "create"},
         call[r].at # "complete", Go(r, stage), UNCHANGED <<key, stranded>>,
         \/ UNCHANGED answered
         \/ /\ stage = "complete"
            /\ answered' = answered \cup {<<call[r].key, call[r].quote, call[r].quote>>}
  PROVE  KeysOK'
<1>1. r \in Requests /\ call[r].at # "idle" /\ KeysTypeOK
  BY DEF Cut, KeysOK
<1>2. /\ call' \in [Requests -> CallState]
      /\ call'[r].at = stage /\ call'[r].key = call[r].key /\ call'[r].quote = call[r].quote
      /\ \A o \in Requests \ {r} : call'[o] = call[o]
  BY <1>1, GoIs
<1>3. Cut' = Cut /\ \A o \in Cut : call'[o].key = call[o].key /\ call'[o].quote = call[o].quote
  BY <1>1, <1>2 DEF Cut, Stages
<1>4. call[r].key \in Keys /\ call[r].quote \in Quotes
  BY <1>1, CallIs
<1>5. key[call[r].key] = InProgress(call[r].quote)
      /\ \A o \in Cut : call[o].key = call[r].key => o = r
  BY <1>1 DEF KeysOK, OwnKey
<1>6. \A o \in Requests : OwnKey(o)'
  BY <1>3 DEF KeysOK, OwnKey
<1>7. ProgressHasRequest'
  BY <1>3 DEF KeysOK, ProgressHasRequest
<1>8. ASSUME NEW a \in answered' PROVE AnsweredFor(a)'
  <2>1. CASE a \in answered
    <3>1. AnsweredFor(a)
      BY <2>1 DEF KeysOK
    <3>2. a[1] # call[r].key
      BY <3>1 DEF AnsweredFor
    <3> QED BY <1>2, <1>3, <3>1, <3>2 DEF AnsweredFor, Cut
  <2>2. CASE stage = "complete" /\ a = <<call[r].key, call[r].quote, call[r].quote>>
    <3>1. a[1] = call[r].key /\ a[2] = call[r].quote /\ a[3] = call[r].quote
      BY <2>2
    <3>2. key[a[1]] # None /\ key[a[1]].body = a[2]
      BY <1>5, <3>1 DEF InProgress, None
    <3> QED BY <1>2, <1>3, <1>5, <2>2, <3>1, <3>2 DEF AnsweredFor
  <2> QED BY <2>1, <2>2
<1>9. answered' \subseteq Keys \X Quotes \X Quotes
  BY <1>1, <1>4 DEF KeysTypeOK
<1> QED BY <1>1, <1>2, <1>6, <1>7, <1>8, <1>9 DEF KeysOK, KeysTypeOK

(* What a request does before it has a key, and what another answers from   *)
(* a key that is completed.                                                 *)
LEMMA BeforeKeeps ==
  ASSUME KeysOK, NEW r \in Requests, r \notin Cut, r \notin Cut',
         call' \in [Requests -> CallState], UNCHANGED <<key, stranded>>,
         \A o \in Requests \ {r} : call'[o] = call[o],
         \A a \in answered' \ answered :
           /\ a \in Keys \X Quotes \X Quotes /\ a[2] = a[3]
           /\ key[a[1]] # None /\ key[a[1]].body = a[2]
           /\ \A o \in Cut : call[o].key # a[1]
  PROVE  KeysOK'
<1>1. Cut' = Cut /\ \A o \in Cut : call'[o] = call[o]
  BY DEF Cut
<1>2. \A o \in Requests : OwnKey(o)'
  BY <1>1 DEF KeysOK, OwnKey
<1>3. ProgressHasRequest'
  BY <1>1 DEF KeysOK, ProgressHasRequest
<1>4. \A a \in answered' : AnsweredFor(a)'
  BY <1>1 DEF KeysOK, AnsweredFor
<1>5. KeysTypeOK'
  BY DEF KeysOK, KeysTypeOK
<1> QED BY <1>2, <1>3, <1>4, <1>5 DEF KeysOK

(* The requests that have no key yet.                                       *)
LEMMA BeginKeeps ==
  ASSUME KeysOK, NEW r \in Requests,
         \/ Begin(r)
         \/ \E k \in Keys, q \in Quotes : Submit(r, k, q)
         \/ CreateKey(r) /\ key[call[r].key] # None
  PROVE  KeysOK'
<1>1. KeysTypeOK
  BY DEF KeysOK
<1>2. ASSUME NEW k \in Keys, NEW q \in Quotes, Submit(r, k, q) PROVE KeysOK'
  <2>1. [at |-> "begin", key |-> k, quote |-> q] \in CallState
    BY DEF CallState, Stages
  <2>2. /\ call' \in [Requests -> CallState] /\ call[r].at = "idle" /\ call'[r].at = "begin"
        /\ \A o \in Requests \ {r} : call'[o] = call[o]
    BY <1>1, <1>2, <2>1 DEF Submit, KeysTypeOK, Idle
  <2> QED BY <1>2, <2>2, BeforeKeeps DEF Submit, Cut, history
<1>3. CASE Begin(r)
  <2> DEFINE row == key[call[r].key]
  <2>1. /\ call[r].at = "begin" /\ UNCHANGED <<key, stranded>>
        /\ IF row = None THEN Go(r, "create") ELSE End(r)
    BY <1>3 DEF Begin, At
  <2>2. call[r].key \in Keys /\ call[r].quote \in Quotes
    BY <1>1, <2>1, CallIs
  <2>3. /\ call' \in [Requests -> CallState] /\ call'[r].at \in {"create", "idle"}
        /\ \A o \in Requests \ {r} : call'[o] = call[o]
    BY <1>1, <2>1, GoIs, EndIs DEF Stages
  <2>4. r \notin Cut /\ r \notin Cut'
    BY <2>1, <2>3 DEF Cut
  <2>5. ASSUME NEW a \in answered' \ answered
        PROVE  /\ a \in Keys \X Quotes \X Quotes /\ a[2] = a[3]
               /\ key[a[1]] # None /\ key[a[1]].body = a[2]
               /\ \A o \in Cut : call[o].key # a[1]
    <3>1. /\ row # None /\ row.body = call[r].quote /\ row.status = "COMPLETED"
          /\ a = <<call[r].key, call[r].quote, row.body>>
      BY <1>3 DEF Begin
    <3>2. a[1] = call[r].key /\ a[2] = call[r].quote /\ a[3] = row.body
      BY <3>1
    <3>3. \A o \in Cut : call[o].key # call[r].key
      <4>1. \A o \in Cut : key[call[o].key].status = "IN_PROGRESS"
        BY InProgressIs DEF KeysOK, OwnKey, Cut
      <4> QED BY <3>1, <4>1
    <3> QED BY <2>2, <3>1, <3>2, <3>3
  <2> QED BY <2>1, <2>3, <2>4, <2>5, BeforeKeeps
<1>4. CASE CreateKey(r) /\ key[call[r].key] # None
  <2>1. call[r].at = "create" /\ End(r) /\ UNCHANGED <<key, stranded, answered>>
    BY <1>4 DEF CreateKey, At, history
  <2>2. /\ call' \in [Requests -> CallState] /\ call'[r].at = "idle"
        /\ \A o \in Requests \ {r} : call'[o] = call[o]
    BY <1>1, <2>1, EndIs
  <2> QED BY <2>1, <2>2, BeforeKeeps DEF Cut
<1> QED BY <1>2, <1>3, <1>4

(* The request that creates a key is the only one that has it.              *)
LEMMA CreateKeyKeeps ==
  ASSUME KeysOK, NEW r \in Requests, CreateKey(r), key[call[r].key] = None
  PROVE  KeysOK'
<1>1. KeysTypeOK /\ call[r].at = "create"
  BY DEF KeysOK, CreateKey, At
<1>2. PICK k \in Keys, q \in Quotes : call[r].key = k /\ call[r].quote = q
  BY <1>1, CallIs
<1>3. key' = [key EXCEPT ![k] = InProgress(q)] /\ UNCHANGED <<stranded, answered>>
  BY <1>2 DEF CreateKey, InProgress, history
<1>4. /\ call' \in [Requests -> CallState] /\ call'[r].at = "wait"
      /\ call'[r].key = k /\ call'[r].quote = q
      /\ \A o \in Requests \ {r} : call'[o] = call[o]
  BY <1>1, <1>2, GoIs DEF CreateKey, Stages
<1>5. /\ key' \in [Keys -> {None} \cup [status : {"IN_PROGRESS", "COMPLETED"}, body : Quotes]]
      /\ key'[k] = InProgress(q) /\ \A l \in Keys \ {k} : key'[l] = key[l]
  BY <1>1, <1>3 DEF KeysTypeOK, InProgress
<1>6. r \notin Cut /\ Cut' = Cut \cup {r}
  BY <1>1, <1>4 DEF Cut
<1>7. InProgress(q) # None /\ key[k] = None
  BY <1>2 DEF InProgress, None
<1>8. \A o \in Cut : call[o].key \in Keys \ {k} /\ call'[o] = call[o]
  <2>1. \A o \in Cut : call[o].key \in Keys /\ call[o].quote \in Quotes
    BY <1>1, CallIs DEF Cut
  <2>2. \A o \in Cut : key[call[o].key] # None
    BY InProgressIs DEF KeysOK, OwnKey, Cut
  <2> QED BY <1>4, <1>6, <1>7, <2>1, <2>2 DEF Cut
<1>9. \A o \in Requests : OwnKey(o)'
  BY <1>4, <1>5, <1>6, <1>8 DEF KeysOK, OwnKey
<1>10. ProgressHasRequest'
  BY <1>3, <1>4, <1>5, <1>6, <1>8 DEF KeysOK, ProgressHasRequest
<1>11. ASSUME NEW a \in answered' PROVE AnsweredFor(a)'
  <2>1. AnsweredFor(a) /\ a[1] \in Keys \ {k}
    BY <1>1, <1>3, <1>7 DEF KeysOK, AnsweredFor, KeysTypeOK
  <2> QED BY <1>4, <1>5, <1>6, <1>8, <2>1 DEF AnsweredFor
<1>12. KeysTypeOK'
  BY <1>1, <1>3, <1>4, <1>5 DEF KeysTypeOK
<1> QED BY <1>9, <1>10, <1>11, <1>12 DEF KeysOK

(* The request that is over writes its key, or deletes it.                  *)
LEMMA OutcomeKeeps ==
  ASSUME KeysOK, NEW r \in Requests, CompleteKey(r) \/ AbortKey(r)
  PROVE  KeysOK'
<1>1. KeysTypeOK /\ call[r].at \in {"complete", "abort"} /\ r \in Cut
  BY DEF KeysOK, CompleteKey, AbortKey, At, Cut
<1>2. PICK k \in Keys, q \in Quotes : call[r].key = k /\ call[r].quote = q
  BY <1>1, CallIs
<1>3. key[k] = InProgress(q) /\ \A o \in Cut : call[o].key = k => o = r
  BY <1>1, <1>2 DEF KeysOK, OwnKey
<1>4. /\ call' \in [Requests -> CallState] /\ call'[r].at = "idle"
      /\ \A o \in Requests \ {r} : call'[o] = call[o]
  BY <1>1, EndIs DEF CompleteKey, AbortKey
<1>5. Cut' = Cut \ {r} /\ \A o \in Cut \ {r} : call'[o] = call[o]
  BY <1>4 DEF Cut
<1>6. /\ \/ key' = [key EXCEPT ![k].status = "COMPLETED"]
         \/ call[r].at = "abort" /\ key' = [key EXCEPT ![k] = None]
      /\ UNCHANGED <<stranded, answered>>
  <2>1. CASE CompleteKey(r)
    BY <1>2, <2>1 DEF CompleteKey, history
  <2>2. CASE AbortKey(r)
    <3>1. call[r].at = "abort" /\ UNCHANGED <<stranded, answered>>
          /\ key' = [key EXCEPT ![k] = IF @.status = "IN_PROGRESS" THEN None ELSE @]
      BY <1>2, <2>2 DEF AbortKey, At, history
    <3>2. key[k].status = "IN_PROGRESS"
      BY <1>3, InProgressIs
    <3> QED BY <3>1, <3>2
  <2> QED BY <2>1, <2>2
<1>7. /\ key' \in [Keys -> {None} \cup [status : {"IN_PROGRESS", "COMPLETED"}, body : Quotes]]
      /\ \A l \in Keys \ {k} : key'[l] = key[l]
      /\ \/ key'[k] = [status |-> "COMPLETED", body |-> q]
         \/ call[r].at = "abort" /\ key'[k] = None
  BY <1>1, <1>3, <1>6 DEF KeysTypeOK, InProgress
<1>8. \A o \in Cut : call[o].key \in Keys
  BY <1>1, CallIs DEF Cut
<1>9. \A o \in Requests : OwnKey(o)'
  BY <1>3, <1>5, <1>7, <1>8 DEF KeysOK, OwnKey, Cut
<1>10. ProgressHasRequest'
  <2>1. key'[k] # None => key'[k].status = "COMPLETED"
    BY <1>7
  <2>2. \A o \in Cut : call[o].key \in Keys \ {k} => o # r
    BY <1>2
  <2> QED BY <1>5, <1>6, <1>7, <2>1, <2>2 DEF KeysOK, ProgressHasRequest
<1>11. ASSUME NEW a \in answered' PROVE AnsweredFor(a)'
  <2>1. AnsweredFor(a) /\ a[1] \in Keys
    BY <1>1, <1>6 DEF KeysOK, KeysTypeOK
  <2>2. CASE a[1] # k
    BY <1>5, <1>7, <2>1, <2>2 DEF AnsweredFor
  <2>3. CASE a[1] = k
    <3>1. a[2] = a[3] /\ key[k].body = a[2] /\ call[r].at = "complete"
      BY <1>1, <1>2, <2>1, <2>3 DEF AnsweredFor
    <3>2. key'[k] # None /\ key'[k].body = a[2]
      BY <1>3, <1>7, <3>1 DEF InProgress, None
    <3>3. \A o \in Cut' : call'[o].key # k
      BY <1>3, <1>5
    <3> QED BY <2>3, <3>1, <3>2, <3>3 DEF AnsweredFor
  <2> QED BY <2>2, <2>3
<1>12. KeysTypeOK'
  BY <1>1, <1>4, <1>6, <1>7 DEF KeysTypeOK
<1> QED BY <1>9, <1>10, <1>11, <1>12 DEF KeysOK

(* A restart ends every request; the keys of those it cut stay as they are. *)
LEMMA RestartKeeps ==
  ASSUME KeysOK, Restart
  PROVE  KeysOK'
<1>1. /\ call' = [r \in Requests |-> Idle] /\ UNCHANGED <<key, answered>>
      /\ stranded' = stranded \cup {call[r].key : r \in Cut}
  BY DEF Restart
<1>2. Cut' = {} /\ call' \in [Requests -> CallState]
  BY <1>1 DEF Cut, Idle, CallState
<1>3. ProgressHasRequest'
  BY <1>1 DEF KeysOK, ProgressHasRequest
<1>4. \A a \in answered' : AnsweredFor(a)'
  BY <1>1, <1>2 DEF KeysOK, AnsweredFor
<1> QED BY <1>1, <1>2, <1>3, <1>4 DEF KeysOK, KeysTypeOK, OwnKey

(* A request's step keeps the invariant of the keys.                        *)
LEMMA RequestKeeps ==
  ASSUME KeysOK, NEW r \in Requests, RequestStep(r)
  PROVE  KeysOK'
<1>1. CASE Begin(r) \/ CreateKey(r)
  BY <1>1, BeginKeeps, CreateKeyKeeps
<1>2. CASE CompleteKey(r) \/ AbortKey(r)
  BY <1>2, OutcomeKeeps
<1>3. CASE \/ TakeLock(r) \/ LockTimeout(r) \/ LookForOrder(r) \/ LockForOrder(r)
           \/ AssertWithinLimits(r) \/ CreateOrder(r) \/ Follow(r) \/ Throw(r)
  <2>1. /\ r \in Cut /\ call[r].at # "complete" /\ UNCHANGED <<key, stranded, answered>>
        /\ \E stage \in {"look", "abort", "answer", "lock", "limit", "commit", "follow"} :
             Go(r, stage)
    BY <1>3
    DEF TakeLock, LockTimeout, LookForOrder, LockForOrder, AssertWithinLimits, CreateOrder,
        Follow, Throw, Fail, At, Cut, history
  <2> QED BY <2>1, StageKeeps DEF Stages
<1>4. CASE Answer(r)
  <2>1. r \in Cut /\ call[r].at # "complete" /\ UNCHANGED <<key, stranded>> /\ Go(r, "complete")
    BY <1>4 DEF Answer, At, Cut
  <2> QED BY <1>4, <2>1, StageKeeps DEF Answer, Stages
<1> QED BY <1>1, <1>2, <1>3, <1>4 DEF RequestStep

(* So does every step.                                                      *)
LEMMA KeysStep == KeysOK /\ [Next]_vars => KeysOK'
<1> SUFFICES ASSUME KeysOK, [Next]_vars PROVE KeysOK'
  OBVIOUS
<1>1. CASE UNCHANGED <<key, call, answered, stranded>>
  BY <1>1 DEF KeysOK, KeysTypeOK, OwnKey, AnsweredFor, ProgressHasRequest, Cut
<1>2. ASSUME NEW r \in Requests,
             RequestStep(r) \/ \E k \in Keys, q \in Quotes : Submit(r, k, q)
      PROVE  KeysOK'
  BY <1>2, RequestKeeps, BeginKeeps
<1>3. CASE Restart
  BY <1>3, RestartKeeps
<1>4. CASE \/ \E q \in Quotes : TimePasses(q) \/ CloseOrder(q) \/ LockExpires(q)
           \/ \E v \in Viewers, q \in Quotes : ReadQuote(v, q)
           \/ \E v \in Viewers : WriteExpired(v)
           \/ ExpireStale
  BY <1>1, <1>4
  DEF TimePasses, CloseOrder, LockExpires, ReadQuote, WriteExpired, ExpireStale, history
<1> QED BY <1>1, <1>2, <1>3, <1>4 DEF Next, vars, history

-----------------------------------------------------------------------------
(* Quotes.                                                                  *)

(* A quote that a getQuote is about to write over has no order, or is among *)
(* those it overtook.                                                       *)
ViewKnows(v) ==
  view[v] # None /\ order[view[v].quote] # "NONE" => view[v].quote \in overtaken

QuotesTypeOK ==
  /\ quote \in [Quotes -> {"ACTIVE", "EXPIRED", "CONSUMED"}]
  /\ order \in [Quotes -> {"NONE", "LIVE", "CLOSED"}]
  /\ view \in [Viewers -> {None} \cup [is : {"read"}, quote : Quotes]]

QuotesOK == QuotesTypeOK /\ ConsumedHasOrder /\ \A v \in Viewers : ViewKnows(v)

(* A new order finds every reader of its quote.                             *)
LEMMA CreateOrderKeeps ==
  ASSUME QuotesOK, KeysTypeOK, NEW r \in Requests, CreateOrder(r)
  PROVE  QuotesOK'
<1>1. PICK q \in Quotes : call[r].quote = q
  BY CallIs DEF CreateOrder, At
<1>2. /\ order' = [order EXCEPT ![q] = "LIVE"] /\ quote' = [quote EXCEPT ![q] = "CONSUMED"]
      /\ overtaken' = overtaken \cup
           {o \in {q} : \E v \in Viewers : view[v] = [is |-> "read", quote |-> q]}
      /\ UNCHANGED view
  BY <1>1 DEF CreateOrder
<1>3. /\ QuotesTypeOK' /\ order'[q] = "LIVE" /\ quote'[q] = "CONSUMED"
      /\ \A o \in Quotes \ {q} : order'[o] = order[o] /\ quote'[o] = quote[o]
      /\ \A o \in overtaken : o \in overtaken'
  BY <1>2 DEF QuotesOK, QuotesTypeOK
<1>4. ConsumedHasOrder'
  BY <1>3 DEF QuotesOK, ConsumedHasOrder
<1>5. ASSUME NEW v \in Viewers, view[v] # None PROVE ViewKnows(v)'
  <2>1. view[v] = [is |-> "read", quote |-> view[v].quote] /\ view[v].quote \in Quotes
    BY <1>5 DEF QuotesOK, QuotesTypeOK
  <2>2. CASE view[v].quote = q
    BY <1>2, <2>1, <2>2 DEF ViewKnows
  <2>3. CASE view[v].quote # q
    BY <1>2, <1>3, <1>5, <2>1, <2>3 DEF QuotesOK, ViewKnows
  <2> QED BY <2>2, <2>3
<1>6. \A v \in Viewers : ViewKnows(v)'
  BY <1>2, <1>5 DEF ViewKnows
<1> QED BY <1>3, <1>4, <1>6 DEF QuotesOK

(* What expires or closes keeps it.                                         *)
LEMMA QuoteLifeKeeps ==
  ASSUME QuotesOK,
         \/ ExpireStale
         \/ \E q \in Quotes : CloseOrder(q)
         \/ \E v \in Viewers, q \in Quotes : ReadQuote(v, q)
         \/ \E v \in Viewers : WriteExpired(v)
  PROVE  QuotesOK'
<1>1. CASE ExpireStale
  <2>1. /\ quote' \in [Quotes -> {"ACTIVE", "EXPIRED", "CONSUMED"}]
        /\ \A q \in Quotes : quote'[q] # quote[q] =>
             quote[q] = "ACTIVE" /\ quote'[q] = "EXPIRED"
    BY <1>1 DEF ExpireStale, QuotesOK, QuotesTypeOK
  <2>2. UNCHANGED <<order, view, overtaken>>
    BY <1>1 DEF ExpireStale, history
  <2> QED BY <2>1, <2>2 DEF QuotesOK, QuotesTypeOK, ConsumedHasOrder, ViewKnows
<1>2. ASSUME NEW q \in Quotes, CloseOrder(q) PROVE QuotesOK'
  <2>1. /\ order' \in [Quotes -> {"NONE", "LIVE", "CLOSED"}]
        /\ \A o \in Quotes : order'[o] = "NONE" <=> order[o] = "NONE"
    BY <1>2 DEF CloseOrder, QuotesOK, QuotesTypeOK
  <2>2. UNCHANGED <<quote, view, overtaken>>
    BY <1>2 DEF CloseOrder, history
  <2>3. ASSUME NEW v \in Viewers PROVE ViewKnows(v)'
    <3>1. view[v] # None => view[v].quote \in Quotes
      BY DEF QuotesOK, QuotesTypeOK
    <3> QED BY <2>1, <2>2, <3>1 DEF QuotesOK, ViewKnows
  <2> QED BY <2>1, <2>2, <2>3 DEF QuotesOK, QuotesTypeOK, ConsumedHasOrder
<1>3. ASSUME NEW v \in Viewers, NEW q \in Quotes, ReadQuote(v, q) PROVE QuotesOK'
  <2>1. /\ quote[q] = "ACTIVE" /\ UNCHANGED <<quote, order, overtaken>>
        /\ view' = [view EXCEPT ![v] = [is |-> "read", quote |-> q]]
    BY <1>3 DEF ReadQuote, rows, history
  <2>2. /\ view' \in [Viewers -> {None} \cup [is : {"read"}, quote : Quotes]]
        /\ view'[v].quote = q /\ \A w \in Viewers \ {v} : view'[w] = view[w]
    BY <2>1 DEF QuotesOK, QuotesTypeOK
  <2>3. order[q] # "NONE" => q \in overtaken
    BY <2>1 DEF QuotesOK, ConsumedHasOrder
  <2>4. \A w \in Viewers : ViewKnows(w)'
    BY <2>1, <2>2, <2>3 DEF QuotesOK, ViewKnows
  <2> QED BY <2>1, <2>2, <2>4 DEF QuotesOK, QuotesTypeOK, ConsumedHasOrder
<1>4. ASSUME NEW v \in Viewers, WriteExpired(v) PROVE QuotesOK'
  <2>1. PICK q \in Quotes : view[v].quote = q
    BY <1>4 DEF WriteExpired, QuotesOK, QuotesTypeOK
  <2>2. /\ quote' = [quote EXCEPT ![q] = "EXPIRED"] /\ view' = [view EXCEPT ![v] = None]
        /\ view[v] # None /\ UNCHANGED <<order, overtaken>>
    BY <1>4, <2>1 DEF WriteExpired, history
  <2>3. order[q] # "NONE" => q \in overtaken
    BY <2>1, <2>2 DEF QuotesOK, ViewKnows
  <2>4. QuotesTypeOK' /\ \A w \in Viewers : ViewKnows(w)'
    BY <2>2 DEF QuotesOK, QuotesTypeOK, ViewKnows
  <2>5. ConsumedHasOrder'
    BY <2>2, <2>3 DEF QuotesOK, QuotesTypeOK, ConsumedHasOrder
  <2> QED BY <2>4, <2>5 DEF QuotesOK
<1> QED BY <1>1, <1>2, <1>3, <1>4

(* Every step keeps it.                                                     *)
LEMMA QuotesStep == KeysTypeOK /\ QuotesOK /\ [Next]_vars => QuotesOK'
<1> SUFFICES ASSUME KeysTypeOK, QuotesOK, [Next]_vars PROVE QuotesOK'
  OBVIOUS
<1>1. CASE UNCHANGED <<quote, order, view, overtaken>>
  BY <1>1 DEF QuotesOK, QuotesTypeOK, ConsumedHasOrder, ViewKnows
<1>2. ASSUME NEW r \in Requests, RequestStep(r) PROVE QuotesOK'
  <2>1. CASE CreateOrder(r)
    BY <2>1, CreateOrderKeeps
  <2>2. CASE ~CreateOrder(r)
    BY <1>1, <1>2, <2>2
    DEF RequestStep, Begin, CreateKey, CompleteKey, AbortKey, TakeLock, LockTimeout,
        LookForOrder, LockForOrder, AssertWithinLimits, Follow, Throw, Answer, rows, history
  <2> QED BY <2>1, <2>2
<1>3. ASSUME Restart PROVE QuotesOK'
  <2>1. \A v \in Viewers : view'[v] = None
    BY <1>3 DEF Restart
  <2>2. view' \in [Viewers -> {None}] /\ UNCHANGED <<quote, order, overtaken>>
    BY <1>3 DEF Restart, rows
  <2> QED BY <2>1, <2>2 DEF QuotesOK, QuotesTypeOK, ConsumedHasOrder, ViewKnows
<1>4. CASE \/ \E r \in Requests, k \in Keys, q \in Quotes : Submit(r, k, q)
           \/ \E q \in Quotes : TimePasses(q) \/ LockExpires(q)
  BY <1>1, <1>4 DEF Submit, TimePasses, LockExpires, rows, history
<1> QED
  BY <1>1, <1>2, <1>3, <1>4, QuoteLifeKeeps DEF Next, vars, rows, history

-----------------------------------------------------------------------------
(* The day's limit.                                                         *)

Live == {q \in Quotes : order[q] = "LIVE"}

LEMMA LimitsAreNumbers == EffectiveLimit \subseteq Nat
BY CheckoutAssumption DEF EffectiveLimit

LEMMA TodayIs == Today = SumOver(Amount, Live)
BY DEF Today, SumOver, Live

LEMMA TodayMoves == Today' = SumOver(Amount, Live')
<1>1. (Today = SumOver(Amount, Live))'
  BY TodayIs, PTL
<1> QED BY <1>1

LEMMA TodayIsSum ==
  ASSUME QuotesTypeOK
  PROVE  /\ Today = SumOver(Amount, Live) /\ Today \in Nat
         /\ IsFiniteSet(Live) /\ \A q \in Quotes : Amount[q] \in Nat
<1>1. Today = SumOver(Amount, Live)
  BY TodayIs
<1>2. IsFiniteSet(Live) /\ \A q \in Quotes : Amount[q] \in Nat
  <2>1. Live \subseteq Quotes
    BY DEF Live
  <2> QED BY <2>1, CheckoutAssumption, FS_Subset
<1>3. SumOver(Amount, Live) \in Nat
  <2>1. \A q \in Live : Amount[q] \in Nat
    BY <1>2 DEF Live
  <2> QED BY <1>2, <2>1, SumNat
<1> QED BY <1>1, <1>2, <1>3

(* While the day's orders are the same or fewer, there is room as before    *)
(* for the requests that are about to create theirs.                        *)
LEMMA RoomStays ==
  ASSUME DayHasRoom, overlapped' = overlapped, Today \in Nat, Today' \in Nat,
         Today' <= Today, Committing' \subseteq Committing,
         \A r \in Committing' :
           call'[r].quote = call[r].quote /\ Amount[call[r].quote] \in Nat
  PROVE  DayHasRoom'
<1> SUFFICES ASSUME ~overlapped
             PROVE  /\ \A max \in EffectiveLimit : Today' <= max
                    /\ \A r, s \in Committing' : r = s
                    /\ \A r \in Committing', max \in EffectiveLimit :
                         Today' + Amount[call'[r].quote] <= max
  BY DEF DayHasRoom, WithinLimits, EffectiveLimit
<1>1. \A max \in EffectiveLimit : max \in Nat /\ Today <= max
  BY LimitsAreNumbers DEF DayHasRoom
<1>2. \A r \in Committing', max \in EffectiveLimit :
        Today + Amount[call[r].quote] <= max
  BY DEF DayHasRoom, WithinLimits
<1> QED BY <1>1, <1>2 DEF DayHasRoom

(* A request that has found room is the only one there, unless another was. *)
LEMMA AssertLeavesRoom ==
  ASSUME DayHasRoom, KeysTypeOK, NEW r \in Requests, AssertWithinLimits(r)
  PROVE  DayHasRoom'
<1>1. /\ call[r].at = "limit" /\ order' = order
      /\ overlapped' = (overlapped \/ Committing # {})
  BY DEF AssertWithinLimits, At, Committing, rows
<1> SUFFICES ASSUME ~overlapped, Committing = {} PROVE DayHasRoom'
  BY <1>1 DEF DayHasRoom
<1>2. Today' = Today
  <2>1. Live' = Live
    BY <1>1 DEF Live
  <2> QED BY <2>1, TodayIs, TodayMoves, Zenon
<1>3. CASE WithinLimits(call[r].quote)
  <2>1. /\ call'[r].at = "commit" /\ call'[r].quote = call[r].quote
        /\ \A o \in Requests \ {r} : call'[o] = call[o]
    BY <1>1, <1>3, GoIs DEF AssertWithinLimits, Stages
  <2>2. Committing' = {r}
    BY <2>1 DEF Committing, At
  <2>3. WithinLimits(call[r].quote)'
    BY <1>2, <1>3, <2>1 DEF WithinLimits, EffectiveLimit
  <2> QED BY <1>2, <2>2, <2>3 DEF DayHasRoom, EffectiveLimit
<1>4. CASE ~WithinLimits(call[r].quote)
  <2>1. /\ call'[r].at = "abort" /\ \A o \in Requests \ {r} : call'[o] = call[o]
    BY <1>1, <1>4, GoIs DEF AssertWithinLimits, Fail, Stages
  <2>2. Committing' = {}
    BY <2>1 DEF Committing, At
  <2> QED BY <1>2, <2>2 DEF DayHasRoom, EffectiveLimit
<1> QED BY <1>3, <1>4

(* Its order takes the room it found.                                       *)
LEMMA CreateOrderFits ==
  ASSUME DayHasRoom, KeysTypeOK, QuotesTypeOK, QuotesTypeOK',
         NEW r \in Requests, CreateOrder(r)
  PROVE  DayHasRoom'
<1>1. PICK q \in Quotes : call[r].quote = q
  BY CallIs DEF CreateOrder, At
<1>2. /\ call[r].at = "commit" /\ order[q] = "NONE" /\ overlapped' = overlapped
      /\ order' = [order EXCEPT ![q] = "LIVE"]
  BY <1>1 DEF CreateOrder, At
<1>3. /\ call'[r].at = "follow" /\ \A o \in Requests \ {r} : call'[o] = call[o]
  BY <1>2, GoIs DEF CreateOrder, Stages
<1> SUFFICES ASSUME ~overlapped PROVE DayHasRoom'
  BY <1>2 DEF DayHasRoom
<1>4. Committing = {r} /\ Committing' = {}
  <2>1. r \in Committing
    BY <1>2 DEF Committing, At
  <2>2. Committing = {r}
    BY <2>1 DEF DayHasRoom
  <2>3. Committing' = Committing \ {r}
    BY <1>3 DEF Committing, At
  <2> QED BY <2>2, <2>3
<1>5. Live' = Live \cup {q} /\ q \notin Live
  BY <1>2 DEF Live, QuotesTypeOK
<1>6. Today' = Today + Amount[q]
  <2>1. /\ Today = SumOver(Amount, Live) /\ IsFiniteSet(Live)
        /\ \A o \in Quotes : Amount[o] \in Nat
    BY TodayIsSum
  <2>2. \A o \in Live \cup {q} : Amount[o] \in Int
    BY <2>1 DEF Live
  <2>3. SumOver(Amount, Live \cup {q}) = SumOver(Amount, Live) + Amount[q]
    BY <1>5, <2>1, <2>2, SumJoin
  <2>4. Today' = SumOver(Amount, Live')
    BY TodayMoves
  <2>5. SumOver(Amount, Live') = SumOver(Amount, Live \cup {q})
    BY <1>5, Zenon
  <2> QED BY <2>1, <2>3, <2>4, <2>5
<1>7. \A max \in EffectiveLimit : Today + Amount[q] <= max
  BY <1>1, <1>4 DEF DayHasRoom, WithinLimits
<1> QED BY <1>4, <1>6, <1>7 DEF DayHasRoom, EffectiveLimit

(* An order that is closed leaves room.                                     *)
LEMMA CloseLeavesRoom ==
  ASSUME DayHasRoom, KeysTypeOK, QuotesTypeOK, NEW q \in Quotes, CloseOrder(q)
  PROVE  DayHasRoom'
<1>1. /\ order[q] = "LIVE" /\ order' = [order EXCEPT ![q] = "CLOSED"]
      /\ call' = call /\ overlapped' = overlapped
  BY DEF CloseOrder, history
<1>2. Live' = Live \ {q} /\ q \in Live
  BY <1>1 DEF Live, QuotesTypeOK
<1>3. /\ Today = SumOver(Amount, Live) /\ Today \in Nat /\ IsFiniteSet(Live)
      /\ \A o \in Quotes : Amount[o] \in Nat
  BY TodayIsSum
<1>4. /\ Today' = SumOver(Amount, Live \ {q})
      /\ SumOver(Amount, Live \ {q}) = SumOver(Amount, Live) - Amount[q]
      /\ SumOver(Amount, Live \ {q}) \in Nat
  <2>1. \A o \in Live : Amount[o] \in Nat
    BY <1>3 DEF Live
  <2>2. Today' = SumOver(Amount, Live')
    BY TodayMoves
  <2>3. SumOver(Amount, Live') = SumOver(Amount, Live \ {q})
    BY <1>2, Zenon
  <2>4. SumOver(Amount, Live \ {q}) = SumOver(Amount, Live) - Amount[q]
    <3>1. \A o \in Live : Amount[o] \in Int
      BY <2>1
    <3> QED BY <1>2, <1>3, <3>1, SumLeave
  <2>5. SumOver(Amount, Live \ {q}) \in Nat
    <3>1. IsFiniteSet(Live \ {q}) /\ \A o \in Live \ {q} : Amount[o] \in Nat
      BY <1>3, <2>1, FS_Subset
    <3> QED BY <3>1, SumNat
  <2> QED BY <2>2, <2>3, <2>4, <2>5
<1>5. Today' \in Nat /\ Today' <= Today
  BY <1>3, <1>4
<1>6. Committing' = Committing /\ \A r \in Committing : Amount[call[r].quote] \in Nat
  <2>1. \A r \in Committing : call[r].quote \in Quotes
    BY CallIs DEF Committing, At
  <2> QED BY <1>1, <1>3, <2>1 DEF Committing, At
<1> QED BY <1>1, <1>3, <1>5, <1>6, RoomStays

(* Every step keeps it.                                                     *)
LEMMA DayStep ==
  KeysTypeOK /\ QuotesTypeOK /\ QuotesTypeOK' /\ DayHasRoom /\ [Next]_vars => DayHasRoom'
<1> SUFFICES ASSUME KeysTypeOK, QuotesTypeOK, QuotesTypeOK', DayHasRoom, [Next]_vars
             PROVE  DayHasRoom'
  OBVIOUS
<1>1. ASSUME UNCHANGED <<order, overlapped>>, Committing' \subseteq Committing,
             \A r \in Committing' : call'[r].quote = call[r].quote
      PROVE  DayHasRoom'
  <2>1. Today' = Today /\ Today \in Nat
    <3>1. Live' = Live
      BY <1>1 DEF Live
    <3>2. Today' = Today
      BY <3>1, TodayIs, TodayMoves, Zenon
    <3> QED BY <3>2, TodayIsSum
  <2>2. \A r \in Committing : Amount[call[r].quote] \in Nat
    <3>1. \A r \in Committing : call[r].quote \in Quotes
      BY CallIs DEF Committing, At
    <3> QED BY <3>1, TodayIsSum
  <2> QED BY <1>1, <2>1, <2>2, RoomStays
<1>2. ASSUME NEW r \in Requests, RequestStep(r) PROVE DayHasRoom'
  <2>1. CASE AssertWithinLimits(r)
    BY <2>1, AssertLeavesRoom
  <2>2. CASE CreateOrder(r)
    BY <2>2, CreateOrderFits
  <2>3. CASE \/ TakeLock(r) \/ LockTimeout(r) \/ LookForOrder(r) \/ LockForOrder(r)
             \/ Follow(r) \/ Throw(r) \/ Answer(r)
             \/ ((Begin(r) \/ CreateKey(r)) /\ ~End(r))
    <3>1. /\ call[r].at # "idle" /\ UNCHANGED <<order, overlapped>>
          /\ \E stage \in Stages \ {"commit"} : Go(r, stage)
      BY <2>3
      DEF TakeLock, LockTimeout, LookForOrder, LockForOrder, Follow, Throw, Answer,
          Begin, CreateKey, Fail, At, Stages, rows, history
    <3>2. PICK stage \in Stages \ {"commit"} : Go(r, stage)
      BY <3>1
    <3>3. call'[r].at = stage /\ \A o \in Requests \ {r} : call'[o] = call[o]
      BY <3>1, <3>2, GoIs
    <3>4. /\ Committing' \subseteq Committing
          /\ \A o \in Committing' : call'[o].quote = call[o].quote
      BY <3>3 DEF Committing, At
    <3> QED BY <1>1, <3>1, <3>4
  <2>4. CASE CompleteKey(r) \/ AbortKey(r) \/ ((Begin(r) \/ CreateKey(r)) /\ End(r))
    <3>1. End(r) /\ UNCHANGED <<order, overlapped>>
      BY <2>4 DEF CompleteKey, AbortKey, Begin, CreateKey, rows, history
    <3>2. call'[r].at = "idle" /\ \A o \in Requests \ {r} : call'[o] = call[o]
      BY <3>1, EndIs
    <3>3. /\ Committing' \subseteq Committing
          /\ \A o \in Committing' : call'[o].quote = call[o].quote
      BY <3>2 DEF Committing, At
    <3> QED BY <1>1, <3>1, <3>3
  <2> QED BY <1>2, <2>1, <2>2, <2>3, <2>4 DEF RequestStep
<1>3. ASSUME NEW r \in Requests, NEW k \in Keys, NEW q \in Quotes, Submit(r, k, q)
      PROVE  DayHasRoom'
  <2>1. /\ call'[r].at = "begin" /\ \A o \in Requests \ {r} : call'[o] = call[o]
        /\ UNCHANGED <<order, overlapped>>
    BY <1>3 DEF Submit, KeysTypeOK, rows, history
  <2>2. /\ Committing' \subseteq Committing
        /\ \A o \in Committing' : call'[o].quote = call[o].quote
    BY <2>1 DEF Committing, At
  <2> QED BY <1>1, <2>1, <2>2
<1>4. CASE Restart
  <2>1. Committing' = {} /\ UNCHANGED <<order, overlapped>>
    BY <1>4 DEF Restart, Committing, At, Idle, rows
  <2> QED BY <1>1, <2>1
<1>5. ASSUME NEW q \in Quotes, CloseOrder(q) PROVE DayHasRoom'
  BY <1>5, CloseLeavesRoom
<1>6. CASE UNCHANGED <<order, overlapped, call>>
  <2>1. Committing' = Committing
    BY <1>6 DEF Committing, At
  <2> QED BY <1>1, <1>6, <2>1
<1>7. CASE \/ \E q \in Quotes : TimePasses(q) \/ LockExpires(q)
           \/ \E v \in Viewers, q \in Quotes : ReadQuote(v, q)
           \/ \E v \in Viewers : WriteExpired(v)
           \/ ExpireStale
  BY <1>6, <1>7 DEF TimePasses, LockExpires, ReadQuote, WriteExpired, ExpireStale, rows, history
<1> QED
  BY <1>2, <1>3, <1>4, <1>5, <1>6, <1>7 DEF Next, vars, rows, history

-----------------------------------------------------------------------------

(* The three invariants hold at the start.                                  *)
LEMMA InitOK == Init => KeysOK /\ QuotesOK /\ DayHasRoom
<1> SUFFICES ASSUME Init PROVE KeysOK /\ QuotesOK /\ DayHasRoom
  OBVIOUS
<1>1. KeysOK
  <2>1. Cut = {}
    BY DEF Init, Cut, Idle
  <2> QED
    BY <2>1 DEF Init, KeysOK, KeysTypeOK, OwnKey, CallState, ProgressHasRequest
<1>2. QuotesOK
  BY DEF Init, QuotesOK, QuotesTypeOK, ConsumedHasOrder, ViewKnows
<1>3. DayHasRoom
  <2>1. Committing = {}
    BY DEF Init, Committing, At, Idle
  <2>2. Live = {}
    BY DEF Init, Live
  <2>3. Today = SumOver(Amount, Live)
    BY TodayIs
  <2>4. SumOver(Amount, Live) = SumOver(Amount, {})
    BY <2>2, Zenon
  <2>5. Today = 0
    BY <2>3, <2>4, SumEmpty
  <2> QED BY <2>1, <2>5, LimitsAreNumbers DEF DayHasRoom
<1> QED BY <1>1, <1>2, <1>3

(* The invariant of the keys holds whatever fails and restarts.             *)
THEOREM KeysInvariant == Spec => []KeysOK
BY InitOK, KeysStep, PTL DEF Spec

(* KeyAnswersOneRequest: no key is answered for two quotes, and no quote    *)
(* with another's order.                                                    *)
THEOREM KeyAnswersOnce == Spec => []KeyAnswersOneRequest
<1>1. KeysOK => KeyAnswersOneRequest
  BY DEF KeysOK, AnsweredFor, KeyAnswersOneRequest
<1> QED BY <1>1, KeysInvariant, PTL

(* ProgressHasRequest: only a restart leaves a key in progress for good.    *)
THEOREM ProgressIsSomeones == Spec => []ProgressHasRequest
<1>1. KeysOK => ProgressHasRequest
  BY DEF KeysOK
<1> QED BY <1>1, KeysInvariant, PTL

(* ConsumedHasOrder: quotes and orders agree, but for the quotes a getQuote *)
(* had found expired.                                                       *)
THEOREM QuotesFollowOrders == Spec => []ConsumedHasOrder
<1>1. KeysOK /\ QuotesOK /\ [Next]_vars => QuotesOK'
  BY QuotesStep DEF KeysOK
<1>2. QuotesOK => ConsumedHasOrder
  BY DEF QuotesOK
<1> QED BY <1>1, <1>2, InitOK, KeysInvariant, PTL DEF Spec

(* DayWithinLimit: whatever closes, fails or restarts, the day's orders stay *)
(* within the limit, unless two requests were between check and order.      *)
THEOREM DayStaysWithinLimit == Spec => []DayWithinLimit
<1>1. KeysOK /\ QuotesOK /\ [Next]_vars => QuotesOK'
  BY QuotesStep DEF KeysOK
<1>2. KeysOK /\ QuotesOK /\ QuotesOK' /\ DayHasRoom /\ [Next]_vars => DayHasRoom'
  BY DayStep DEF KeysOK, QuotesOK
<1>3. DayHasRoom => DayWithinLimit
  BY DEF DayHasRoom, DayWithinLimit
<1> QED BY <1>1, <1>2, <1>3, InitOK, KeysInvariant, PTL DEF Spec
=============================================================================
