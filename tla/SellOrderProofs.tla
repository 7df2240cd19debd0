--------------------------- MODULE SellOrderProofs --------------------------
(***************************************************************************)
(* IInv is an inductive invariant of SellOrder, for any set of workers,    *)
(* any number of attempts and any number of transfers at once; and         *)
(* SellOrder implements SellPromise.                                       *)
(***************************************************************************)
EXTENDS SellOrderProps, TLAPS

(* Nothing has happened before the order exists.                            *)
LEMMA InitIInv == Init => IInv
<1> SUFFICES ASSUME Init PROVE IInv
    OBVIOUS
<1>1. TypeOK
  <2>1. attempts \in 0 .. MaxAttempts /\ transfers \in 0 .. TransferCap
    BY SellAssumption DEF Init
  <2>2. pc \in [Workers -> Places]
    BY DEF Init, Places
  <2> QED BY <2>1, <2>2 DEF Init, TypeOK
<1>2. OrderInv /\ PayoutInv
  BY DEF Init, OrderInv, PayoutInv, GnfFollowsOrder, DepositCreditedOnce, Confirmed,
         ConfirmedStatuses, PayoutStatuses
<1>3. (\A w \in Workers : WorkerKnows(w)) /\ OneHolder
  BY DEF Init, WorkerKnows, At, OneHolder, ConfirmedPlaces, ReservedPlaces, LockPlaces
<1> QED
  BY <1>1, <1>2, <1>3 DEF IInv

(* The sell table read backwards: where a transition to each status starts. *)
LEMMA Sources ==
  ASSUME NEW s \in SellStatuses, NEW t, Can(SellTransitions, s, t)
  PROVE  /\ s \notin Terminal
         /\ t = "QUOTE_LOCKED" => s = "CREATED"
         /\ t = "AWAITING_CRYPTO" => s = "QUOTE_LOCKED"
         /\ t = "EXPIRED" => s \in {"CREATED", "QUOTE_LOCKED", "AWAITING_CRYPTO"}
         /\ t = "CRYPTO_DETECTED" => s = "AWAITING_CRYPTO"
         /\ t = "CONFIRMING" => s = "CRYPTO_DETECTED"
         /\ t = "CRYPTO_CONFIRMED" => s = "CONFIRMING"
         /\ t = "GNF_RESERVED" => s \in {"CRYPTO_CONFIRMED", "UNDER_REVIEW"}
         /\ t = "PAYOUT_PENDING" => s \in {"GNF_RESERVED", "UNDER_REVIEW"}
         /\ t = "PAYOUT_PROCESSING" => s = "PAYOUT_PENDING"
         /\ t = "COMPLETED" => s \in {"PAYOUT_PROCESSING", "UNDER_REVIEW"}
BY DEF Can, SellTransitions, SellStatuses, Terminal

(* What a step of w must leave alone for the knowledge of a worker that did *)
(* not take it to survive.  Only the holder of the payout's lock, or a step *)
(* that finds the lock free and the payout unpaid, changes a payout.        *)
Kept(w) ==
  /\ status # "NONE" => status' # "NONE"
  /\ deposit = "CONFIRMED" => deposit' = "CONFIRMED"
  /\ Confirmed => Confirmed'
  /\ reservation # "NONE" => reservation' # "NONE"
  /\ \/ payout' = payout
     \/ payout = "NONE"
     \/ pc[w] \in LockPlaces
     \/ PayoutLockFree /\ payout # "PAID"

LEMMA KnowledgeKept ==
  ASSUME IInv, NEW w \in Workers, NEW v \in Workers, v # w, Kept(w), pc'[v] = pc[v]
  PROVE  WorkerKnows(v)'
<1>1. WorkerKnows(v) /\ WorkerKnows(w)
  BY DEF IInv
<1>2. pc[v] \in LockPlaces \cup {"complete"} => payout' = payout
  <2>1. CASE payout = "NONE"
    BY <1>1, <2>1 DEF WorkerKnows, At, LockPlaces
  <2>2. CASE pc[w] \in LockPlaces
    BY <1>1, <2>2 DEF IInv, OneHolder, WorkerKnows, At, LockPlaces
  <2>3. CASE PayoutLockFree /\ payout # "PAID"
    BY <1>1, <2>3 DEF PayoutLockFree, WorkerKnows, At, LockPlaces
  <2> QED BY <2>1, <2>2, <2>3 DEF Kept
<1> QED
  BY <1>1, <1>2 DEF Kept, WorkerKnows, At, LockPlaces

(* A step of w that leaves the others at their place, and enters the lock   *)
(* only when nobody is inside.                                              *)
LEMMA WorkerStep ==
  ASSUME IInv, NEW w \in Workers, NEW next, Goto(w, next),
         next \in LockPlaces => pc[w] \in LockPlaces \/ PayoutLockFree,
         TypeOK', OrderInv', PayoutInv', Kept(w), WorkerKnows(w)'
  PROVE  IInv'
<1>1. (\A v \in Workers : v # w => pc'[v] = pc[v]) /\ pc'[w] = next
  BY DEF Goto, IInv, TypeOK
<1>2. ASSUME NEW v \in Workers PROVE WorkerKnows(v)'
  <2>1. CASE v = w BY <2>1
  <2>2. CASE v # w BY <2>2, <1>1, KnowledgeKept
  <2> QED BY <2>1, <2>2
<1>3. OneHolder'
  BY <1>1 DEF IInv, OneHolder, PayoutLockFree, LockPlaces
<1> QED BY <1>2, <1>3 DEF IInv

(* A step that moves one worker and nothing else.                           *)
LEMMA MoveStep ==
  ASSUME IInv, NEW w \in Workers, NEW next \in Places, Goto(w, next),
         next \in LockPlaces => pc[w] \in LockPlaces \/ PayoutLockFree,
         UNCHANGED <<order, deposit, funds, pay>>, WorkerKnows(w)'
  PROVE  IInv'
<1> USE DEF order, funds, pay
<1>1. TypeOK' BY DEF IInv, TypeOK, Goto
<1>2. OrderInv' /\ PayoutInv'
  BY DEF IInv, OrderInv, PayoutInv, GnfFollowsOrder, DepositCreditedOnce, Confirmed
<1>3. Kept(w) BY DEF Kept, Confirmed
<1> QED BY <1>1, <1>2, <1>3, WorkerStep

(* A worker inside a method has an order of a known status.                 *)
LEMMA OrderExists ==
  ASSUME IInv, NEW w \in Workers, ~At(w, "idle")
  PROVE  status \in SellStatuses /\ TypeOK /\ OrderInv /\ PayoutInv /\ WorkerKnows(w)
BY DEF IInv, WorkerKnows, TypeOK

(* An order that is not closed has its GNF set aside or never had any.      *)
LEMMA OpenGnf ==
  ASSUME TypeOK, OrderInv, status \notin Terminal
  PROVE  reservation \in {"NONE", "HELD"}
BY DEF TypeOK, OrderInv, GnfFollowsOrder, Terminal

(* A step of a worker that does not touch the payout.                       *)
LEMMA FundsStep ==
  ASSUME IInv, NEW w \in Workers, NEW next \in Places \ LockPlaces, Goto(w, next),
         UNCHANGED <<deposit, pay>>, ~At(w, "idle"),
         status' \in SellStatuses, events \subseteq events', events' \subseteq OnceEvents,
         credited' \in Nat, reservation' \in {"NONE", "HELD", "RELEASED", "CONSUMED"},
         reservation # "NONE" => reservation' # "NONE",
         OrderInv', OrderInv' => WorkerKnows(w)'
  PROVE  IInv'
<1> USE DEF pay
<1>1. TypeOK'
  BY DEF IInv, TypeOK, Goto
<1>2. PayoutInv'
  BY DEF IInv, PayoutInv, Confirmed
<1>3. Kept(w)
  BY DEF Kept, Confirmed, SellStatuses, Terminal
<1> QED BY <1>1, <1>2, <1>3, WorkerStep

(* A transition that moves no money.                                        *)
LEMMA TransitionStep ==
  ASSUME IInv, NEW w \in Workers, ~At(w, "idle"),
         NEW event \in OnceEvents \ {"crypto-confirmed"},
         NEW to \in {"QUOTE_LOCKED", "AWAITING_CRYPTO", "EXPIRED", "CRYPTO_DETECTED",
                     "CONFIRMING", "PAYOUT_PENDING", "PAYOUT_PROCESSING", "UNDER_REVIEW"},
         to = "PAYOUT_PENDING" => Confirmed /\ reservation # "NONE",
         NEW next \in Places \ LockPlaces, Goto(w, next),
         UNCHANGED <<deposit, funds, pay>>,
         \/ status' = to /\ Can(SellTransitions, status, to)
         \/ UNCHANGED status,
         events' = events \/ events' = events \cup {event},
         OrderInv' => WorkerKnows(w)'
  PROVE  IInv'
<1> USE DEF funds, pay
<1>1. status \in SellStatuses /\ TypeOK /\ OrderInv /\ PayoutInv
  BY OrderExists
<1>2. status' \in SellStatuses
  BY <1>1 DEF SellStatuses, Terminal
<1>3. Confirmed' <=> Confirmed
  BY DEF Confirmed
<1>4. OrderInv'
  <2>1. CASE UNCHANGED status
    <3>1. GnfFollowsOrder' /\ DepositCreditedOnce'
      BY <1>1, <1>3, <2>1
      DEF OrderInv, GnfFollowsOrder, DepositCreditedOnce, Confirmed
    <3>2. status' # "NONE"
      BY <1>1, <2>1 DEF SellStatuses, Terminal
    <3> QED BY <1>1, <1>3, <2>1, <3>1, <3>2 DEF OrderInv
  <2>2. CASE status' = to /\ Can(SellTransitions, status, to)
    <3>1. status \notin Terminal /\ reservation \in {"NONE", "HELD"}
      BY <1>1, <2>2, Sources, OpenGnf
    <3>2. GnfFollowsOrder'
      BY <1>1, <2>2, <3>1, Sources
      DEF OrderInv, GnfFollowsOrder, PayoutStatuses, Terminal
    <3>3. DepositCreditedOnce'
      BY <1>1, <1>3, <2>2, Sources
      DEF OrderInv, DepositCreditedOnce, Confirmed, ConfirmedStatuses
    <3>4. status' # "NONE" /\ status' # "COMPLETED"
      BY <2>2
    <3> QED BY <1>1, <1>3, <3>2, <3>3, <3>4 DEF OrderInv
  <2> QED BY <2>1, <2>2
<1>5. events' \subseteq OnceEvents /\ events \subseteq events'
  BY <1>1 DEF TypeOK
<1> QED
  BY <1>1, <1>2, <1>4, <1>5, FundsStep DEF TypeOK

(* A use of apply() that moves no money, whatever its outcome.              *)
LEMMA ApplyStep ==
  ASSUME IInv, NEW w \in Workers, ~At(w, "idle"),
         NEW event \in OnceEvents \ {"crypto-confirmed"},
         NEW to \in {"QUOTE_LOCKED", "AWAITING_CRYPTO", "EXPIRED", "CRYPTO_DETECTED",
                     "CONFIRMING", "PAYOUT_PENDING", "PAYOUT_PROCESSING", "UNDER_REVIEW"},
         to = "PAYOUT_PENDING" => Confirmed /\ reservation # "NONE",
         NEW next \in Places \ LockPlaces,
         ApplyThen(w, event, to, NoEffect, next),
         Goto(w, next) /\ OrderInv' /\ UNCHANGED <<deposit, pay>> => WorkerKnows(w)'
  PROVE  IInv'
<1>1. TypeOK /\ UNCHANGED <<deposit, funds, pay>>
  BY DEF IInv, ApplyThen, ApplyOr, NoEffect, funds
<1>2. Goto(w, next) \/ Goto(w, "idle")
  BY DEF ApplyThen, ApplyOr
<1>3. /\ (status' = to /\ Can(SellTransitions, status, to)) \/ UNCHANGED status
      /\ events' = events \/ events' = events \cup {event}
  BY DEF ApplyThen, ApplyOr, order, A!Record, A!Applies, A!Can, Can
<1>4. Goto(w, "idle") => WorkerKnows(w)'
  BY <1>1 DEF Goto, TypeOK, WorkerKnows, At, ConfirmedPlaces, ReservedPlaces
<1>5. "idle" \in Places \ LockPlaces
  BY DEF Places, LockPlaces
<1>6. CASE Goto(w, next)
  BY <1>1, <1>3, <1>6, TransitionStep
<1>7. CASE Goto(w, "idle")
  BY <1>1, <1>3, <1>4, <1>5, <1>7, TransitionStep
<1> QED BY <1>2, <1>6, <1>7

(* Where driveSell goes on from the status it read, and what it knows.      *)
LEMMA NextPlaces ==
  ASSUME NEW s, NEW full \in BOOLEAN
  PROVE  /\ NextSell(s, full) \in Places \ LockPlaces
         /\ NextSell(s, full) \in {"confirmingFull", "credit"} => full
         /\ NextSell(s, full) = "reserve" => s = "CRYPTO_CONFIRMED"
         /\ NextSell(s, full) = "createPayout" => s = "GNF_RESERVED"
         /\ NextSell(s, full) \notin
              {"detectFull", "retryReserve", "retryPayout", "linkPayout", "payoutPending",
               "complete"}
BY DEF NextSell, Places, LockPlaces

LEMMA NextKnows ==
  ASSUME TypeOK, NEW w \in Workers, NEW full \in BOOLEAN, OrderInv', status' # "NONE",
         Goto(w, NextSell(status', full)), full => deposit' = "CONFIRMED"
  PROVE  WorkerKnows(w)'
<1> DEFINE next == NextSell(status', full)
<1>1. pc'[w] = next
  BY DEF Goto, TypeOK
<1>2. /\ next \in Places \ LockPlaces
      /\ next \in {"confirmingFull", "credit"} => full
      /\ next = "reserve" => status' = "CRYPTO_CONFIRMED"
      /\ next = "createPayout" => status' = "GNF_RESERVED"
      /\ next \notin {"detectFull", "retryReserve", "retryPayout", "linkPayout",
                      "payoutPending", "complete"}
  BY NextPlaces
<1>3. status' \in {"CRYPTO_CONFIRMED", "GNF_RESERVED"} => Confirmed'
  BY DEF Confirmed, OrderInv, DepositCreditedOnce, ConfirmedStatuses
<1>4. status' = "GNF_RESERVED" => reservation' # "NONE"
  BY DEF OrderInv, GnfFollowsOrder, PayoutStatuses
<1> HIDE DEF next
<1> QED
  BY <1>1, <1>2, <1>3, <1>4
  DEF WorkerKnows, At, ConfirmedPlaces, ReservedPlaces, LockPlaces

(* createSellOrder, parking and expiry: transitions that end the method or  *)
(* lead to a place where nothing need be known.                             *)
LEMMA PlainStep ==
  ASSUME IInv, NEW w \in Workers,
         \/ LockQuote(w) \/ AwaitCrypto(w) \/ DepositMismatch(w) \/ FlagWatched(w)
         \/ FlagUnreserved(w) \/ PayoutProcessing(w) \/ PayoutFailed(w) \/ ExpireOrder(w)
  PROVE  IInv'
<1>1. TypeOK /\ ~At(w, "idle") /\ status # "NONE"
  BY OrderExists
  DEF IInv, LockQuote, AwaitCrypto, DepositMismatch, FlagWatched, FlagUnreserved,
      PayoutProcessing, PayoutFailed, ExpireOrder, At, SellStatuses, Terminal
<1>2. ASSUME NEW next \in {"awaitCrypto", "idle", "process"}, Goto(w, next),
             status' # "NONE"
      PROVE  WorkerKnows(w)'
  BY <1>1, <1>2 DEF Goto, TypeOK, WorkerKnows, At, ConfirmedPlaces, ReservedPlaces
<1>3. ASSUME NEW event \in OnceEvents \ {"crypto-confirmed"},
             NEW to \in {"QUOTE_LOCKED", "AWAITING_CRYPTO", "EXPIRED",
                         "PAYOUT_PROCESSING", "UNDER_REVIEW"},
             NEW next \in {"awaitCrypto", "idle", "process"},
             ApplyThen(w, event, to, NoEffect, next)
      PROVE  IInv'
  <2>1. status' # "NONE"
    BY <1>1, <1>3 DEF ApplyThen, ApplyOr, A!Record, order
  <2>2. next \in Places \ LockPlaces
    BY DEF Places, LockPlaces
  <2> QED BY <1>1, <1>2, <1>3, <2>1, <2>2, ApplyStep
<1>4. CASE LockQuote(w) \/ AwaitCrypto(w) \/ PayoutProcessing(w) \/ ExpireOrder(w)
  BY <1>3, <1>4
  DEF LockQuote, AwaitCrypto, PayoutProcessing, ExpireOrder, OnceEvents
<1>5. CASE DepositMismatch(w) \/ FlagWatched(w) \/ FlagUnreserved(w) \/ PayoutFailed(w)
  BY <1>3, <1>5
  DEF DepositMismatch, FlagWatched, FlagUnreserved, PayoutFailed, OnceEvents
<1> QED BY <1>4, <1>5

(* driveSell: the transitions after which it goes on with what it read.     *)
LEMMA DriveStep ==
  ASSUME IInv, NEW w \in Workers, CryptoDetected(w) \/ Confirming(w) \/ PayoutPending(w)
  PROVE  IInv'
<1>1. /\ TypeOK /\ OrderInv /\ WorkerKnows(w) /\ ~At(w, "idle") /\ status # "NONE"
  BY OrderExists
  DEF CryptoDetected, Confirming, PayoutPending, At, SellStatuses, Terminal
<1>2. ASSUME NEW event \in OnceEvents \ {"crypto-confirmed"},
             NEW to \in {"CRYPTO_DETECTED", "CONFIRMING", "PAYOUT_PENDING"},
             to = "PAYOUT_PENDING" => Confirmed /\ reservation # "NONE",
             NEW full \in BOOLEAN, full => deposit = "CONFIRMED",
             ApplyThen(w, event, to, NoEffect, NextSell(status', full))
      PROVE  IInv'
  <2>1. status' # "NONE" /\ UNCHANGED deposit
    BY <1>1, <1>2 DEF ApplyThen, ApplyOr, A!Record, order
  <2>2. NextSell(status', full) \in Places \ LockPlaces
    BY NextPlaces
  <2>3. Goto(w, NextSell(status', full)) /\ OrderInv' => WorkerKnows(w)'
    BY <1>1, <1>2, <2>1, NextKnows
  <2> QED BY <1>1, <1>2, <2>2, <2>3, ApplyStep
<1>3. CASE CryptoDetected(w)
  <2>1. At(w, "detectFull") \in BOOLEAN /\ (At(w, "detectFull") => deposit = "CONFIRMED")
    BY <1>1 DEF At, WorkerKnows
  <2> QED BY <1>2, <1>3, <2>1 DEF CryptoDetected, OnceEvents
<1>4. CASE Confirming(w)
  <2>1. At(w, "confirmingFull") \in BOOLEAN /\ (At(w, "confirmingFull") => deposit = "CONFIRMED")
    BY <1>1 DEF At, WorkerKnows
  <2> QED BY <1>2, <1>4, <2>1 DEF Confirming, OnceEvents
<1>5. CASE PayoutPending(w)
  <2>1. Confirmed /\ reservation # "NONE" /\ deposit = "CONFIRMED"
    BY <1>1, <1>5
    DEF PayoutPending, At, WorkerKnows, ConfirmedPlaces, ReservedPlaces, OrderInv
  <2> QED BY <1>2, <1>5, <2>1 DEF PayoutPending, OnceEvents
<1> QED BY <1>3, <1>4, <1>5

(* The deposit is booked: only from CONFIRMING, and only once.              *)
LEMMA CreditStep ==
  ASSUME IInv, NEW w \in Workers, CryptoConfirmed(w)
  PROVE  IInv'
<1>1. /\ TypeOK /\ OrderInv /\ ~At(w, "idle") /\ status \in SellStatuses
      /\ deposit = "CONFIRMED" /\ UNCHANGED <<deposit, pay>>
  BY OrderExists DEF CryptoConfirmed, ApplyThen, ApplyOr, At, WorkerKnows
<1>2. CASE UNCHANGED <<order, funds>>
  <2>1. Goto(w, NextSell(status', TRUE)) \/ Goto(w, "idle")
    BY <1>2 DEF CryptoConfirmed, ApplyThen, ApplyOr
  <2>2. status' # "NONE"
    BY <1>1, <1>2 DEF order, SellStatuses, Terminal
  <2>3. OrderInv'
    BY <1>1, <1>2
    DEF OrderInv, GnfFollowsOrder, DepositCreditedOnce, Confirmed, order, funds, pay
  <2>4. CASE Goto(w, "idle")
    <3>1. WorkerKnows(w)'
      BY <1>1, <2>4 DEF Goto, TypeOK, WorkerKnows, At, ConfirmedPlaces, ReservedPlaces
    <3> QED BY <1>1, <1>2, <2>4, <3>1, MoveStep DEF Places, LockPlaces
  <2>5. CASE Goto(w, NextSell(status', TRUE))
    <3>1. WorkerKnows(w)'
      BY <1>1, <2>2, <2>3, <2>5, NextKnows
    <3> QED BY <1>1, <1>2, <2>5, <3>1, NextPlaces, MoveStep
  <2> QED BY <2>1, <2>4, <2>5
<1>3. CASE /\ A!Applies("crypto-confirmed", "CRYPTO_CONFIRMED")
           /\ A!Record("crypto-confirmed", "CRYPTO_CONFIRMED")
           /\ CreditDeposit /\ Goto(w, NextSell(status', TRUE))
  <2>1. status = "CONFIRMING" /\ ~Confirmed /\ credited = 0
    BY <1>1, <1>3, Sources
    DEF A!Applies, A!Skips, A!Can, Can, Confirmed, OrderInv, DepositCreditedOnce
  <2>2. /\ status' = "CRYPTO_CONFIRMED" /\ Confirmed' /\ credited' = 1
        /\ events \subseteq events' /\ events' \subseteq OnceEvents
        /\ UNCHANGED reservation
    BY <1>1, <1>3, <2>1
    DEF A!Record, CreditDeposit, Confirmed, TypeOK, OnceEvents
  <2>3. OrderInv'
    BY <1>1, <2>1, <2>2
    DEF OrderInv, GnfFollowsOrder, DepositCreditedOnce, Confirmed, PayoutStatuses, pay
  <2>4. WorkerKnows(w)'
    BY <1>1, <1>3, <2>2, <2>3, NextKnows
  <2>5. status' \in SellStatuses
    BY <2>2 DEF SellStatuses
  <2> QED
    BY <1>1, <1>3, <2>2, <2>3, <2>4, <2>5, NextPlaces, FundsStep DEF TypeOK
<1> QED
  BY <1>2, <1>3 DEF CryptoConfirmed, ApplyThen, ApplyOr

(* GNF is set aside for an order that confirmed its deposit, from           *)
(* CRYPTO_CONFIRMED or a review.                                            *)
LEMMA HoldGnfInv ==
  ASSUME TypeOK, OrderInv, PayoutInv, Confirmed, status \in SellStatuses,
         Can(SellTransitions, status, "GNF_RESERVED"), status' = "GNF_RESERVED",
         HoldGnf, Confirmed', UNCHANGED <<deposit, pay>>
  PROVE  OrderInv' /\ reservation' = "HELD" /\ credited' = credited
<1>1. status \in {"CRYPTO_CONFIRMED", "UNDER_REVIEW"} /\ reservation \in {"NONE", "HELD"}
  BY Sources, OpenGnf
<1>2. reservation' = "HELD" /\ credited' = credited
  BY <1>1 DEF HoldGnf
<1>3. GnfFollowsOrder' /\ DepositCreditedOnce'
  BY <1>2
  DEF GnfFollowsOrder, PayoutStatuses, DepositCreditedOnce, OrderInv, Confirmed
<1> QED BY <1>2, <1>3 DEF OrderInv

LEMMA ReserveStep ==
  ASSUME IInv, NEW w \in Workers, ReserveGnf(w) \/ ReserveRefused(w)
  PROVE  IInv'
<1>1. /\ TypeOK /\ OrderInv /\ PayoutInv /\ ~At(w, "idle") /\ status \in SellStatuses
      /\ Confirmed /\ deposit = "CONFIRMED" /\ UNCHANGED <<deposit, pay>>
  BY OrderExists
  DEF ReserveGnf, ReserveRefused, ApplyOr, At, WorkerKnows, ConfirmedPlaces, OrderInv
<1>2. CASE UNCHANGED <<order, funds>>
  <2>1. Goto(w, NextSell(status', TRUE)) \/ Goto(w, "flag")
    BY <1>2 DEF ReserveGnf, ReserveRefused, ApplyOr
  <2>2. status' # "NONE"
    BY <1>1, <1>2 DEF order, SellStatuses, Terminal
  <2>3. OrderInv'
    BY <1>1, <1>2
    DEF OrderInv, GnfFollowsOrder, DepositCreditedOnce, Confirmed, order, funds, pay
  <2>4. CASE Goto(w, "flag")
    <3>1. WorkerKnows(w)'
      BY <1>1, <2>2, <2>4 DEF Goto, TypeOK, WorkerKnows, At, ConfirmedPlaces, ReservedPlaces
    <3> QED BY <1>1, <1>2, <2>4, <3>1, MoveStep DEF Places, LockPlaces
  <2>5. CASE Goto(w, NextSell(status', TRUE))
    <3>1. WorkerKnows(w)'
      BY <1>1, <2>2, <2>3, <2>5, NextKnows
    <3> QED BY <1>1, <1>2, <2>5, <3>1, NextPlaces, MoveStep
  <2> QED BY <2>1, <2>4, <2>5
<1>3. CASE /\ A!Applies("reserve-gnf", "GNF_RESERVED")
           /\ A!Record("reserve-gnf", "GNF_RESERVED")
           /\ HoldGnf /\ Goto(w, NextSell(status', TRUE))
  <2>1. /\ Can(SellTransitions, status, "GNF_RESERVED") /\ status' = "GNF_RESERVED"
        /\ events \subseteq events' /\ events' \subseteq OnceEvents /\ Confirmed'
    BY <1>1, <1>3 DEF A!Applies, A!Record, A!Can, Can, Confirmed, TypeOK, OnceEvents
  <2>2. OrderInv' /\ reservation' = "HELD" /\ credited' = credited
    BY <1>1, <1>3, <2>1, HoldGnfInv
  <2>3. WorkerKnows(w)'
    BY <1>1, <1>3, <2>1, <2>2, NextKnows
  <2>4. status' \in SellStatuses
    BY <2>1 DEF SellStatuses
  <2> QED
    BY <1>1, <1>3, <2>1, <2>2, <2>3, <2>4, NextPlaces, FundsStep DEF TypeOK
<1> QED
  BY <1>2, <1>3 DEF ReserveGnf, ReserveRefused, ApplyOr

(* The order completes and spends its GNF, or an operator closes it and the *)
(* GNF goes back.                                                           *)
LEMMA CloseStep ==
  ASSUME IInv, NEW w \in Workers, CompleteSell(w) \/ FailReview(w) \/ CancelReview(w)
  PROVE  IInv'
<1>1. /\ TypeOK /\ OrderInv /\ PayoutInv /\ ~At(w, "idle") /\ status \in SellStatuses
      /\ WorkerKnows(w) /\ UNCHANGED <<deposit, pay>> /\ Goto(w, "idle")
  BY OrderExists
  DEF CompleteSell, FailReview, CancelReview, ApplyThen, ApplyOr, At
<1>2. "idle" \in Places \ LockPlaces /\ WorkerKnows(w)'
  BY <1>1
  DEF Goto, TypeOK, WorkerKnows, At, Places, LockPlaces, ConfirmedPlaces, ReservedPlaces
<1>3. ASSUME NEW event \in OnceEvents \ {"crypto-confirmed"},
             NEW to \in {"COMPLETED", "FAILED", "CANCELLED"},
             A!Applies(event, to), A!Record(event, to),
             \/ to = "COMPLETED" /\ ConsumeHeld /\ payout = "PAID"
             \/ to \in {"FAILED", "CANCELLED"} /\ ReleaseHeld
      PROVE  IInv'
  <2>1. /\ status \notin Terminal /\ reservation \in {"NONE", "HELD"}
        /\ to = "COMPLETED" => status \in {"PAYOUT_PROCESSING", "UNDER_REVIEW"}
    BY <1>1, <1>3, Sources, OpenGnf DEF A!Applies, A!Can, Can
  <2>2. /\ status' = to /\ credited' = credited /\ (Confirmed' <=> Confirmed)
        /\ events \subseteq events' /\ events' \subseteq OnceEvents
    BY <1>1, <1>3 DEF A!Record, ConsumeHeld, ReleaseHeld, Confirmed, TypeOK
  <2>3. CASE to = "COMPLETED"
    <3>1. reservation = "HELD" /\ Confirmed
      BY <1>1, <1>3, <2>1, <2>3 DEF PayoutInv
    <3>2. reservation' = "CONSUMED" /\ credited' = 1
      BY <1>1, <1>3, <2>2, <2>3, <3>1
      DEF ConsumeHeld, OrderInv, DepositCreditedOnce, Confirmed
    <3>3. OrderInv'
      BY <1>1, <1>3, <2>2, <2>3, <3>1, <3>2
      DEF OrderInv, GnfFollowsOrder, DepositCreditedOnce, Confirmed, PayoutStatuses, pay
    <3> QED
      BY <1>1, <1>2, <2>2, <2>3, <3>2, <3>3, FundsStep DEF SellStatuses, Terminal
  <2>4. CASE to \in {"FAILED", "CANCELLED"}
    <3>1. reservation' = IF reservation = "HELD" THEN "RELEASED" ELSE reservation
      BY <1>3, <2>4 DEF ReleaseHeld
    <3>2. OrderInv'
      BY <1>1, <2>1, <2>2, <2>4, <3>1
      DEF OrderInv, GnfFollowsOrder, DepositCreditedOnce, Confirmed, PayoutStatuses,
          ConfirmedStatuses
    <3>3. status' \in SellStatuses /\ credited' \in Nat
      BY <1>1, <2>2 DEF SellStatuses, Terminal, TypeOK
    <3> QED
      BY <1>1, <1>2, <2>1, <2>2, <3>1, <3>2, <3>3, FundsStep
  <2> QED BY <2>3, <2>4
<1>4. CASE UNCHANGED <<order, funds>>
  BY <1>1, <1>2, <1>4, MoveStep
<1>5. CASE CompleteSell(w)
  <2>1. payout = "PAID"
    BY <1>1, <1>5 DEF CompleteSell, WorkerKnows
  <2> QED
    BY <1>3, <1>4, <1>5, <2>1 DEF CompleteSell, ApplyThen, ApplyOr, OnceEvents
<1>6. CASE FailReview(w)
  BY <1>3, <1>4, <1>6 DEF FailReview, ApplyThen, ApplyOr, OnceEvents
<1>7. CASE CancelReview(w)
  BY <1>3, <1>4, <1>7 DEF CancelReview, ApplyThen, ApplyOr, OnceEvents
<1> QED BY <1>1, <1>5, <1>6, <1>7

(* RETRY of a review.                                                       *)
LEMMA RetryStep ==
  ASSUME IInv, NEW w \in Workers, RetryPayout(w) \/ RetryReserve(w) \/ RetryUnreserved(w)
  PROVE  IInv'
<1>1. /\ TypeOK /\ OrderInv /\ PayoutInv /\ ~At(w, "idle") /\ status \in SellStatuses
      /\ WorkerKnows(w) /\ Confirmed /\ UNCHANGED <<events, deposit, pay>>
  BY OrderExists
  DEF RetryPayout, RetryReserve, RetryUnreserved, RetryTo, At, WorkerKnows,
      ConfirmedPlaces, order
<1>2. ASSUME NEW next \in {"drive", "idle"}, Goto(w, next), status' # "NONE"
      PROVE  next \in Places \ LockPlaces /\ WorkerKnows(w)'
  BY <1>1, <1>2
  DEF Goto, TypeOK, WorkerKnows, At, Places, LockPlaces, ConfirmedPlaces, ReservedPlaces
<1>3. status # "NONE"
  BY <1>1 DEF SellStatuses, Terminal
<1>4. CASE UNCHANGED <<status, funds>> /\ (Goto(w, "drive") \/ Goto(w, "idle"))
  BY <1>1, <1>2, <1>3, <1>4, MoveStep DEF order
<1>5. CASE /\ RetryPayout(w) /\ Can(SellTransitions, status, "PAYOUT_PENDING")
           /\ status' = "PAYOUT_PENDING" /\ NoEffect /\ Goto(w, "drive")
  <2>1. reservation # "NONE"
    BY <1>1, <1>5 DEF RetryPayout, At, WorkerKnows, ReservedPlaces
  <2>2. "drive" \in Places \ LockPlaces /\ WorkerKnows(w)'
    BY <1>2, <1>5
  <2>3. "payout-pending" \in OnceEvents \ {"crypto-confirmed"}
    BY DEF OnceEvents
  <2> QED
    BY <1>1, <1>5, <2>1, <2>2, <2>3, TransitionStep DEF NoEffect
<1>6. CASE /\ RetryReserve(w) /\ Can(SellTransitions, status, "GNF_RESERVED")
           /\ status' = "GNF_RESERVED" /\ HoldGnf /\ Goto(w, "drive")
  <2>1. Confirmed'
    BY <1>1 DEF Confirmed
  <2>2. OrderInv' /\ reservation' = "HELD" /\ credited' = credited
    BY <1>1, <1>6, <2>1, HoldGnfInv
  <2>3. "drive" \in Places \ LockPlaces /\ WorkerKnows(w)'
    BY <1>2, <1>6
  <2>4. status' \in SellStatuses
    BY <1>6 DEF SellStatuses
  <2> QED
    BY <1>1, <1>6, <2>2, <2>3, <2>4, FundsStep DEF TypeOK
<1>7. CASE RetryPayout(w)
  BY <1>4, <1>5, <1>7 DEF RetryPayout, RetryTo
<1>8. CASE RetryReserve(w)
  BY <1>4, <1>6, <1>8 DEF RetryReserve, RetryTo
<1>9. CASE RetryUnreserved(w)
  BY <1>4, <1>9 DEF RetryUnreserved, order
<1> QED BY <1>7, <1>8, <1>9

LEMMA CreateStep ==
  ASSUME IInv, NEW w \in Workers, CreateOrder(w)
  PROVE  IInv'
<1> USE DEF funds, pay
<1>1. /\ TypeOK /\ OrderInv /\ PayoutInv /\ events = {} /\ status' = "CREATED"
      /\ events' = {"created"} /\ Goto(w, "lockQuote") /\ UNCHANGED <<deposit, funds, pay>>
  BY DEF IInv, OrderInv, CreateOrder
<1>2. TypeOK'
  <2>1. status' \in SellStatuses \cup {"NONE"} /\ events' \subseteq OnceEvents
    BY <1>1 DEF SellStatuses, OnceEvents
  <2>2. pc' \in [Workers -> Places]
    BY <1>1 DEF TypeOK, Goto, Places
  <2> QED BY <1>1, <2>1, <2>2 DEF TypeOK
<1>3. ~Confirmed /\ ~Confirmed' /\ credited = 0 /\ reservation \in {"NONE"}
  <2>1. status = "NONE"
    BY DEF CreateOrder
  <2> QED
    BY <1>1, <2>1
    DEF Confirmed, OrderInv, DepositCreditedOnce, GnfFollowsOrder, PayoutStatuses, TypeOK
<1>4. OrderInv'
  BY <1>1, <1>3
  DEF OrderInv, GnfFollowsOrder, DepositCreditedOnce, Confirmed, PayoutStatuses,
      ConfirmedStatuses
<1>5. PayoutInv'
  BY <1>1, <1>3 DEF PayoutInv
<1>6. Kept(w)
  BY <1>1, <1>3 DEF Kept
<1>7. WorkerKnows(w)'
  BY <1>1 DEF WorkerKnows, At, Goto, TypeOK, ConfirmedPlaces, ReservedPlaces
<1> QED BY <1>1, <1>2, <1>4, <1>5, <1>6, <1>7, WorkerStep DEF LockPlaces

(* The steps that only read: the order, the chain, the review.              *)
LEMMA ReadStep ==
  ASSUME IInv, NEW w \in Workers,
         Drive(w) \/ Requeue(w) \/ Expire(w) \/ ResolveReview(w) \/ Interrupt(w)
  PROVE  IInv'
<1>1. /\ TypeOK /\ OrderInv /\ PayoutInv /\ WorkerKnows(w)
      /\ UNCHANGED <<order, deposit, funds, pay>>
  BY DEF IInv, Drive, Requeue, Expire, ResolveReview, Interrupt
<1>2. OrderInv' /\ status' = status
  BY <1>1
  DEF OrderInv, GnfFollowsOrder, DepositCreditedOnce, Confirmed, order, funds, pay
<1>3. ASSUME NEW next \in {"idle", "recheck", "mismatch", "detect", "expire",
                           "failReview", "cancelReview"},
             Goto(w, next), next # "idle" => status # "NONE"
      PROVE  IInv'
  <2>1. WorkerKnows(w)'
    BY <1>1, <1>2, <1>3
    DEF WorkerKnows, At, Goto, TypeOK, ConfirmedPlaces, ReservedPlaces
  <2> QED BY <1>1, <1>3, <2>1, MoveStep DEF Places, LockPlaces
<1>4. CASE Drive(w)
  <2>1. status # "NONE" /\ Goto(w, AfterRead)
    BY <1>4 DEF Drive
  <2>2. ASSUME NEW full \in BOOLEAN, full => deposit = "CONFIRMED",
               Goto(w, NextSell(status, full))
        PROVE  IInv'
    <3>1. WorkerKnows(w)'
      BY <1>1, <1>2, <2>1, <2>2, NextKnows
    <3> QED BY <1>1, <2>2, <3>1, NextPlaces, MoveStep
  <2>3. CASE Goto(w, "detectFull") /\ deposit = "CONFIRMED"
    <3>1. WorkerKnows(w)'
      BY <1>1, <1>2, <2>1, <2>3
      DEF WorkerKnows, At, Goto, TypeOK, ConfirmedPlaces, ReservedPlaces
    <3> QED BY <1>1, <2>3, <3>1, MoveStep DEF Places, LockPlaces
  <2>4. \/ AfterRead = NextSell(status, FALSE)
        \/ AfterRead = NextSell(status, deposit = "CONFIRMED")
        \/ AfterRead \in {"recheck", "mismatch", "detect"}
        \/ AfterRead = "detectFull" /\ deposit = "CONFIRMED"
    BY DEF AfterRead
  <2> QED BY <1>3, <2>1, <2>2, <2>3, <2>4
<1>5. CASE Requeue(w)
  BY <1>3, <1>5 DEF Requeue
<1>6. CASE Expire(w)
  BY <1>3, <1>6 DEF Expire, Expirable
<1>7. CASE Interrupt(w)
  BY <1>3, <1>7 DEF Interrupt
<1>8. CASE ResolveReview(w)
  <2>1. status = "UNDER_REVIEW"
    BY <1>8 DEF ResolveReview
  <2>2. CASE /\ Confirmed /\ Goto(w, IF linked THEN "retryPayout" ELSE "retryReserve")
    <3>1. WorkerKnows(w)'
      BY <1>1, <1>2, <2>1, <2>2
      DEF WorkerKnows, At, Goto, TypeOK, ConfirmedPlaces, ReservedPlaces, PayoutInv,
          Confirmed, order, funds, pay
    <3> QED BY <1>1, <2>2, <3>1, MoveStep DEF Places, LockPlaces
  <2>3. CASE payout = "PAID" /\ Goto(w, "complete")
    <3>1. WorkerKnows(w)'
      BY <1>1, <1>2, <2>1, <2>3
      DEF WorkerKnows, At, Goto, TypeOK, ConfirmedPlaces, ReservedPlaces, pay
    <3> QED BY <1>1, <2>3, <3>1, MoveStep DEF Places, LockPlaces
  <2>4. CASE Goto(w, "failReview") \/ Goto(w, "cancelReview")
    BY <1>3, <2>1, <2>4
  <2> QED BY <1>8, <2>2, <2>3, <2>4 DEF ResolveReview, Confirmed
<1> QED BY <1>4, <1>5, <1>6, <1>7, <1>8

(* A step of a worker on the payout alone.                                  *)
LEMMA PayoutStep ==
  ASSUME IInv, NEW w \in Workers, NEW next \in Places, Goto(w, next),
         UNCHANGED <<order, deposit, funds>>,
         next \in LockPlaces => pc[w] \in LockPlaces \/ PayoutLockFree,
         payout' \in {"NONE", "PENDING", "PROCESSING", "PAID", "FAILED"},
         linked' \in BOOLEAN, attempts' \in 0 .. MaxAttempts,
         ref' \in {"NONE", "PENDING", "SETTLED", "FAILED"}, transfers' \in 0 .. TransferCap,
         PayoutInv', payout = "PAID" => payout' = "PAID",
         \/ payout' = payout
         \/ payout = "NONE"
         \/ pc[w] \in LockPlaces
         \/ PayoutLockFree /\ payout # "PAID",
         WorkerKnows(w)'
  PROVE  IInv'
<1> USE DEF order, funds
<1>1. TypeOK'
  BY DEF IInv, TypeOK, Goto
<1>2. OrderInv'
  BY DEF IInv, OrderInv, GnfFollowsOrder, DepositCreditedOnce, Confirmed
<1>3. Kept(w)
  BY DEF Kept, Confirmed
<1> QED BY <1>1, <1>2, <1>3, WorkerStep

(* driveSell creates the payout and links it; process takes its lock.       *)
LEMMA OpenPayoutStep ==
  ASSUME IInv, NEW w \in Workers,
         CreatePayout(w) \/ LinkPayout(w) \/ Process(w) \/ AdminProcess(w)
  PROVE  IInv'
<1> USE DEF order, funds
<1>1. /\ TypeOK /\ OrderInv /\ PayoutInv /\ WorkerKnows(w)
      /\ UNCHANGED <<order, deposit, funds, attempts, ref, transfers>>
  BY DEF IInv, CreatePayout, LinkPayout, Process, AdminProcess, ProcessFrom
<1>2. /\ attempts' \in 0 .. MaxAttempts /\ transfers' \in 0 .. TransferCap
      /\ ref' \in {"NONE", "PENDING", "SETTLED", "FAILED"}
  BY <1>1 DEF TypeOK
<1>3. CASE CreatePayout(w)
  <2>1. /\ Confirmed /\ reservation # "NONE" /\ status # "NONE" /\ Goto(w, "linkPayout")
        /\ payout' = (IF payout = "NONE" THEN "PENDING" ELSE payout) /\ UNCHANGED linked
    BY <1>1, <1>3
    DEF CreatePayout, WorkerKnows, At, ConfirmedPlaces, ReservedPlaces
  <2>2. PayoutInv'
    BY <1>1, <2>1 DEF PayoutInv, Confirmed
  <2>3. WorkerKnows(w)'
    BY <1>1, <2>1
    DEF Goto, TypeOK, WorkerKnows, At, ConfirmedPlaces, ReservedPlaces, Confirmed
  <2>4. payout' \in {"NONE", "PENDING", "PROCESSING", "PAID", "FAILED"} /\ linked' \in BOOLEAN
    BY <1>1, <2>1 DEF TypeOK
  <2> QED
    BY <1>1, <1>2, <2>1, <2>2, <2>3, <2>4, PayoutStep DEF Places, LockPlaces
<1>4. CASE LinkPayout(w)
  <2>1. /\ Confirmed /\ reservation # "NONE" /\ status # "NONE" /\ Goto(w, "payoutPending")
        /\ linked' = TRUE /\ UNCHANGED payout
    BY <1>1, <1>4
    DEF LinkPayout, WorkerKnows, At, ConfirmedPlaces, ReservedPlaces
  <2>2. PayoutInv'
    BY <1>1, <2>1 DEF PayoutInv, Confirmed
  <2>3. WorkerKnows(w)'
    BY <1>1, <2>1
    DEF Goto, TypeOK, WorkerKnows, At, ConfirmedPlaces, ReservedPlaces, Confirmed
  <2>4. payout' \in {"NONE", "PENDING", "PROCESSING", "PAID", "FAILED"} /\ linked' \in BOOLEAN
    BY <1>1, <2>1 DEF TypeOK
  <2> QED
    BY <1>1, <1>2, <2>1, <2>2, <2>3, <2>4, PayoutStep DEF Places, LockPlaces
<1>5. ASSUME NEW initiate \in {"initiate", "adminInitiate"},
             NEW paid \in {"complete", "idle"}, ProcessFrom(w, initiate, paid)
      PROVE  IInv'
  <2>1. PayoutLockFree /\ payout # "NONE" /\ UNCHANGED linked /\ status # "NONE"
    BY <1>1, <1>5 DEF ProcessFrom, PayoutInv, OrderInv, Confirmed
  <2>2. CASE UNCHANGED payout /\ (Goto(w, "idle") \/ (Goto(w, paid) /\ payout = "PAID"))
    <3>1. PICK next \in {"idle", "complete"} : Goto(w, next) /\ (next = "complete" => payout = "PAID")
      BY <2>2
    <3>2. WorkerKnows(w)'
      BY <1>1, <2>1, <2>2, <3>1
      DEF Goto, TypeOK, WorkerKnows, At, ConfirmedPlaces, ReservedPlaces
    <3> QED
      BY <1>1, <2>1, <2>2, <3>1, <3>2, MoveStep DEF Places, LockPlaces, pay
  <2>3. CASE payout \in {"PENDING", "FAILED"} /\ payout' = "PENDING" /\ Goto(w, initiate)
    <3>1. PayoutInv'
      BY <1>1, <2>1, <2>3 DEF PayoutInv, Confirmed
    <3>2. WorkerKnows(w)'
      BY <1>1, <2>1, <2>3
      DEF Goto, TypeOK, WorkerKnows, At, ConfirmedPlaces, ReservedPlaces
    <3>3. linked' \in BOOLEAN /\ initiate \in Places
      BY <1>1, <2>1 DEF TypeOK, Places
    <3> QED
      BY <1>1, <1>2, <2>1, <2>3, <3>1, <3>2, <3>3, PayoutStep
  <2> QED BY <1>5, <2>2, <2>3 DEF ProcessFrom
<1>6. CASE Process(w)
  BY <1>5, <1>6 DEF Process
<1>7. CASE AdminProcess(w)
  BY <1>5, <1>7 DEF AdminProcess
<1> QED BY <1>3, <1>4, <1>6, <1>7

(* Inside the lock: initiate, record and confirm.  The payout is not PAID   *)
(* when the rail is asked, so a PAID payout keeps its settled answer.       *)
LEMMA HolderStep ==
  ASSUME IInv, NEW w \in Workers,
         InitiatePayout(w) \/ RecordPayout(w) \/ ConfirmPayout(w)
  PROVE  IInv'
<1> USE DEF order, funds
<1>1. /\ TypeOK /\ OrderInv /\ PayoutInv /\ WorkerKnows(w) /\ pc[w] \in LockPlaces
      /\ UNCHANGED <<order, deposit, funds, linked>>
  BY DEF IInv, InitiatePayout, RecordPayout, ConfirmPayout, LockPlaces
<1>2. payout \in {"PENDING", "PROCESSING"} /\ status # "NONE"
  BY <1>1 DEF WorkerKnows, At, LockPlaces
<1>3. AfterFailed(w) \in {"idle", "payoutFailed"}
  BY DEF AfterFailed
<1>4. ASSUME NEW next \in Places, Goto(w, next),
             payout' \in {"PENDING", "PROCESSING", "PAID", "FAILED"},
             attempts' \in 0 .. MaxAttempts, transfers' \in 0 .. TransferCap,
             \/ UNCHANGED <<ref, transfers>>
             \/ ref' = "PENDING" /\ transfers' = transfers + 1 /\ payout' # "PAID",
             payout' = "PAID" => ref = "SETTLED",
             next \in {"accepted", "adminAccepted"} => payout' = "PENDING",
             next \in {"confirmPayout", "adminConfirm"} => payout' = "PROCESSING",
             next = "complete" => payout' = "PAID",
             next \in LockPlaces \cup {"idle", "payoutFailed", "complete"},
             next \notin {"initiate", "adminInitiate"}
      PROVE  IInv'
  <2>1. PayoutInv'
    BY <1>1, <1>2, <1>4 DEF PayoutInv, Confirmed, TypeOK
  <2>2. WorkerKnows(w)'
    BY <1>1, <1>2, <1>4
    DEF Goto, TypeOK, WorkerKnows, At, ConfirmedPlaces, ReservedPlaces, LockPlaces
  <2>3. linked' \in BOOLEAN /\ ref' \in {"NONE", "PENDING", "SETTLED", "FAILED"}
    BY <1>1, <1>4 DEF TypeOK
  <2> QED
    BY <1>1, <1>2, <1>4, <2>1, <2>2, <2>3, PayoutStep
<1>5. attempts \in 0 .. MaxAttempts /\ transfers \in 0 .. TransferCap
  BY <1>1 DEF TypeOK
<1>6. OneMoreAttempt => attempts' \in 0 .. MaxAttempts
  BY <1>5, SellAssumption DEF OneMoreAttempt
<1>7. CASE InitiatePayout(w)
  <2>1. payout = "PENDING"
    BY <1>1, <1>7 DEF InitiatePayout, WorkerKnows
  <2>2. CASE Goto(w, "idle") /\ UNCHANGED <<payout, attempts, ref, transfers>>
    BY <1>4, <1>5, <2>1, <2>2 DEF Places, LockPlaces
  <2>3. CASE /\ payout' = "FAILED" /\ OneMoreAttempt /\ Goto(w, AfterFailed(w))
             /\ UNCHANGED <<ref, transfers>>
    BY <1>3, <1>4, <1>5, <1>6, <2>3 DEF Places, LockPlaces
  <2>4. CASE /\ transfers < TransferCap /\ ref' = "PENDING" /\ transfers' = transfers + 1
             /\ Goto(w, IF ByAdmin(w) THEN "adminAccepted" ELSE "accepted")
             /\ UNCHANGED <<payout, attempts>>
    <3>1. transfers' \in 0 .. TransferCap
      BY <1>5, <2>4, SellAssumption
    <3>2. PICK next \in {"adminAccepted", "accepted"} : Goto(w, next)
      BY <2>4
    <3> QED BY <1>4, <1>5, <2>1, <2>4, <3>1, <3>2 DEF Places, LockPlaces
  <2> QED BY <1>7, <2>2, <2>3, <2>4 DEF InitiatePayout
<1>8. CASE RecordPayout(w)
  <2>1. PICK next \in {"adminConfirm", "confirmPayout", "idle", "payoutFailed"} :
          /\ Goto(w, next)
          /\ \/ payout' = "PROCESSING" /\ next \in {"adminConfirm", "confirmPayout"}
             \/ payout' = "FAILED" /\ next \in {"idle", "payoutFailed"}
    BY <1>3, <1>8 DEF RecordPayout
  <2>2. attempts' \in 0 .. MaxAttempts /\ UNCHANGED <<ref, transfers>>
    BY <1>6, <1>8 DEF RecordPayout
  <2> QED BY <1>4, <1>5, <2>1, <2>2 DEF Places, LockPlaces
<1>9. CASE ConfirmPayout(w)
  <2>1. PICK next \in {"idle", "payoutFailed", "complete"} :
          /\ Goto(w, next) /\ (next = "complete" => payout' = "PAID")
          /\ \/ payout' = payout
             \/ payout' = "FAILED"
             \/ payout' = "PAID" /\ ref = "SETTLED"
    BY <1>3, <1>9 DEF ConfirmPayout
  <2>2. UNCHANGED <<attempts, ref, transfers>>
    BY <1>9 DEF ConfirmPayout
  <2> QED BY <1>2, <1>4, <1>5, <2>1, <2>2 DEF Places, LockPlaces
<1> QED BY <1>7, <1>8, <1>9

(* The steps that move no worker: an operator, the customer, the rail.      *)
LEMMA OutsideStep ==
  ASSUME IInv,
         \/ \E to \in AdminTargets : AdminTransition(to)
         \/ CustomerDeposits \/ RailAnswers \/ UNCHANGED vars
  PROVE  IInv'
<1> USE DEF order, funds, pay
<1>0. TypeOK /\ OrderInv /\ PayoutInv
  BY DEF IInv
<1>1. ASSUME TypeOK', OrderInv', PayoutInv', UNCHANGED <<pc, payout>>,
             status # "NONE" => status' # "NONE",
             deposit = "CONFIRMED" => deposit' = "CONFIRMED",
             Confirmed => Confirmed', reservation # "NONE" => reservation' # "NONE"
      PROVE  IInv'
  <2>1. ASSUME NEW w \in Workers PROVE WorkerKnows(w)'
    BY <1>1 DEF IInv, WorkerKnows, At
  <2>2. OneHolder'
    BY <1>1 DEF IInv, OneHolder
  <2> QED BY <1>1, <2>1, <2>2 DEF IInv
<1>2. ASSUME NEW to \in AdminTargets, AdminTransition(to) PROVE IInv'
  <2>1. /\ status \in SellStatuses /\ Can(SellTransitions, status, to) /\ status' = to
        /\ UNCHANGED <<deposit, pay, credited, pc>>
        /\ \/ to = "UNDER_REVIEW" /\ UNCHANGED reservation
           \/ /\ to \in {"FAILED", "CANCELLED"}
              /\ reservation' = IF reservation = "HELD" THEN "RELEASED" ELSE reservation
    BY <1>0, <1>2
    DEF AdminTransition, AdminTargets, NoEffect, ReleaseHeld, A!Applies, A!Record,
        Can, A!Can, TypeOK
  <2>2. status \notin Terminal /\ reservation \in {"NONE", "HELD"}
    BY <1>0, <2>1, Sources, OpenGnf
  <2>3. events' \subseteq OnceEvents /\ (Confirmed' <=> Confirmed)
    BY <1>0, <1>2 DEF AdminTransition, A!Record, TypeOK, OnceEvents, Confirmed
  <2>4. TypeOK'
    BY <1>0, <2>1, <2>3 DEF TypeOK, SellStatuses, Terminal
  <2>5. GnfFollowsOrder' /\ DepositCreditedOnce'
    BY <1>0, <2>1, <2>2, <2>3
    DEF OrderInv, GnfFollowsOrder, DepositCreditedOnce, Confirmed, PayoutStatuses,
        ConfirmedStatuses
  <2>6. OrderInv' /\ PayoutInv'
    BY <1>0, <2>1, <2>2, <2>3, <2>5 DEF OrderInv, PayoutInv
  <2> QED
    BY <1>1, <2>1, <2>2, <2>3, <2>4, <2>6 DEF SellStatuses, Terminal
<1>3. CASE CustomerDeposits
  <2>1. TypeOK'
    BY <1>0, <1>3 DEF CustomerDeposits, TypeOK
  <2>2. OrderInv' /\ PayoutInv' /\ (deposit = "CONFIRMED" => deposit' = "CONFIRMED")
    BY <1>0, <1>3
    DEF CustomerDeposits, OrderInv, PayoutInv, GnfFollowsOrder, DepositCreditedOnce,
        Confirmed
  <2> QED BY <1>1, <1>3, <2>1, <2>2 DEF CustomerDeposits, Confirmed
<1>4. CASE RailAnswers
  <2>1. transfers > 0 /\ transfers \in 0 .. TransferCap /\ payout # "PAID"
    BY <1>0, <1>4 DEF RailAnswers, PayoutInv, TypeOK
  <2>2. transfers' \in 0 .. TransferCap /\ transfers' <= transfers
    BY <1>4, <2>1, SellAssumption DEF RailAnswers
  <2>3. TypeOK'
    BY <1>0, <1>4, <2>2 DEF RailAnswers, TypeOK
  <2>4. OrderInv'
    BY <1>0, <1>4
    DEF RailAnswers, OrderInv, GnfFollowsOrder, DepositCreditedOnce, Confirmed
  <2>5. PayoutInv'
    BY <1>0, <1>4, <2>1, <2>2 DEF RailAnswers, PayoutInv, Confirmed
  <2> QED BY <1>1, <1>4, <2>3, <2>4, <2>5 DEF RailAnswers, Confirmed
<1>5. CASE UNCHANGED vars
  <2>1. TypeOK' /\ OrderInv' /\ PayoutInv'
    BY <1>0, <1>5
    DEF vars, TypeOK, OrderInv, PayoutInv, GnfFollowsOrder, DepositCreditedOnce, Confirmed
  <2> QED BY <1>1, <1>5, <2>1 DEF vars, Confirmed
<1> QED BY <1>2, <1>3, <1>4, <1>5

LEMMA NextIInv == IInv /\ [Next]_vars => IInv'
<1> SUFFICES ASSUME IInv, [Next]_vars PROVE IInv'
    OBVIOUS
<1>1. ASSUME NEW w \in Workers, Continue(w) PROVE IInv'
  <2>1. CASE \/ LockQuote(w) \/ AwaitCrypto(w) \/ DepositMismatch(w) \/ FlagWatched(w)
             \/ FlagUnreserved(w) \/ PayoutProcessing(w) \/ PayoutFailed(w)
             \/ ExpireOrder(w)
    BY <2>1, PlainStep
  <2>2. CASE CryptoDetected(w) \/ Confirming(w) \/ PayoutPending(w) \/ CryptoConfirmed(w)
    BY <2>2, DriveStep, CreditStep
  <2>3. CASE \/ ReserveGnf(w) \/ ReserveRefused(w) \/ CompleteSell(w) \/ FailReview(w)
             \/ CancelReview(w) \/ RetryPayout(w) \/ RetryReserve(w)
             \/ RetryUnreserved(w) \/ Requeue(w)
    BY <2>3, ReserveStep, CloseStep, RetryStep, ReadStep
  <2>4. CASE \/ CreatePayout(w) \/ LinkPayout(w) \/ Process(w) \/ InitiatePayout(w)
             \/ RecordPayout(w) \/ ConfirmPayout(w)
    BY <2>4, OpenPayoutStep, HolderStep
  <2> QED BY <1>1, <2>1, <2>2, <2>3, <2>4 DEF Continue
<1>2. ASSUME NEW w \in Workers,
             \/ CreateOrder(w) \/ Drive(w) \/ Expire(w) \/ AdminProcess(w)
             \/ ResolveReview(w) \/ Interrupt(w)
      PROVE  IInv'
  BY <1>2, CreateStep, ReadStep, OpenPayoutStep
<1> QED BY <1>1, <1>2, OutsideStep DEF Next

-----------------------------------------------------------------------------

(* IInv holds in every reachable state, whatever the workers do.            *)
THEOREM OrderInvariant == Spec => []IInv
BY InitIInv, NextIInv, PTL DEF Spec

(* TypeOK: the order, its payout and its workers are always well formed.    *)
THEOREM TypeCorrect == Spec => []TypeOK
<1>1. IInv => TypeOK
  BY DEF IInv
<1> QED BY <1>1, OrderInvariant, PTL

(* PaidOnlyAfterConfirmed: no payout exists, and none was sent, before the  *)
(* customer's USDT is confirmed and booked.                                 *)
THEOREM NothingPaidUnconfirmed == Spec => []PaidOnlyAfterConfirmed
<1>1. IInv => PaidOnlyAfterConfirmed
  BY DEF IInv, PayoutInv, OrderInv, DepositCreditedOnce, Confirmed, PaidOnlyAfterConfirmed
<1> QED BY <1>1, OrderInvariant, PTL

(* GnfFollowsOrder: GNF is set aside while a payout is due, spent exactly   *)
(* by the orders that complete, and kept by no closed order.                *)
THEOREM GnfSafe == Spec => []GnfFollowsOrder
<1>1. IInv => GnfFollowsOrder
  BY DEF IInv, OrderInv
<1> QED BY <1>1, OrderInvariant, PTL

(* DepositCreditedOnce: however many drivers see a confirmation, the        *)
(* deposit is booked once.                                                  *)
THEOREM CreditedOnce == Spec => []DepositCreditedOnce
<1>1. IInv => DepositCreditedOnce
  BY DEF IInv, OrderInv
<1> QED BY <1>1, OrderInvariant, PTL

(* CompletedIsPaid: a completed order has a PAID payout that the rail took  *)
(* and did not refuse.                                                      *)
THEOREM CompletedPaid == Spec => []CompletedIsPaid
<1>1. IInv => CompletedIsPaid
  BY DEF IInv, OrderInv, PayoutInv, CompletedIsPaid
<1> QED BY <1>1, OrderInvariant, PTL
-----------------------------------------------------------------------------
(* SellOrder implements SellPromise: every step of the order is a step of   *)
(* the promise about money or leaves it alone.                              *)

LEMMA StaysKeeps ==
  ASSUME UNCHANGED <<reservation, credited, transfers>>
  PROVE  [P!Promised]_(P!promise)
BY DEF P!promise, Coin

(* GNF given back, by a worker or an operator.                              *)
LEMMA ReleaseKeeps ==
  ASSUME ReleaseHeld, UNCHANGED transfers
  PROVE  [P!Promised]_(P!promise)
<1>1. CASE reservation = "HELD"
  BY <1>1 DEF ReleaseHeld, P!Promised, P!Return, Coin
<1>2. CASE reservation # "HELD"
  BY <1>2, StaysKeeps DEF ReleaseHeld
<1> QED BY <1>1, <1>2

(* GNF set aside, by driveSell or a RETRY: the deposit is booked.           *)
LEMMA HoldKeeps ==
  ASSUME IInv, Confirmed, HoldGnf, UNCHANGED transfers
  PROVE  [P!Promised]_(P!promise)
<1>1. credited = 1
  BY DEF IInv, OrderInv, DepositCreditedOnce, Confirmed
<1>2. CASE reservation = "NONE"
  BY <1>1, <1>2 DEF HoldGnf, P!Promised, P!Hold, Coin
<1>3. CASE reservation # "NONE"
  BY <1>3, StaysKeeps DEF HoldGnf
<1> QED BY <1>2, <1>3

(* GNF spent by the order that completes: its payout is out.                *)
LEMMA SpendKeeps ==
  ASSUME IInv, payout = "PAID", ConsumeHeld, UNCHANGED transfers
  PROVE  [P!Promised]_(P!promise)
<1>1. transfers > 0
  BY DEF IInv, PayoutInv
<1>2. CASE reservation = "HELD"
  BY <1>1, <1>2 DEF ConsumeHeld, P!Promised, P!Spend, Coin
<1>3. CASE reservation # "HELD"
  BY <1>3, StaysKeeps DEF ConsumeHeld
<1> QED BY <1>2, <1>3

(* The USDT is booked: crypto-confirmed leaves its event row once.          *)
LEMMA ReceiveKeeps ==
  ASSUME IInv, ~Confirmed, CreditDeposit, UNCHANGED transfers
  PROVE  [P!Promised]_(P!promise)
<1>1. credited = 0 /\ credited' = 1 /\ UNCHANGED reservation
  BY DEF IInv, OrderInv, DepositCreditedOnce, Confirmed, CreditDeposit
<1> QED BY <1>1 DEF P!Promised, P!Receive, Coin

(* The rail takes a payout: its GNF is set aside.                           *)
LEMMA SendKeeps ==
  ASSUME IInv, NEW w \in Workers, InitiatePayout(w)
  PROVE  [P!Promised]_(P!promise)
<1>1. /\ payout = "PENDING" /\ reservation # "NONE" /\ transfers \in Nat
      /\ reservation \in {"HELD", "RELEASED", "CONSUMED"}
      /\ UNCHANGED <<reservation, credited>>
  BY DEF IInv, TypeOK, PayoutInv, InitiatePayout, WorkerKnows, funds
<1>2. CASE UNCHANGED transfers
  BY <1>1, <1>2, StaysKeeps
<1>3. CASE transfers' = transfers + 1 /\ transfers = 0
  BY <1>1, <1>3 DEF P!Promised, P!Send, Coin
<1>4. CASE transfers' = transfers + 1 /\ transfers # 0
  BY <1>1, <1>4 DEF P!promise, Coin
<1> QED BY <1>1, <1>2, <1>3, <1>4 DEF InitiatePayout

(* The rail refuses one.                                                    *)
LEMMA RefuseKeeps ==
  ASSUME IInv, RailAnswers
  PROVE  [P!Promised]_(P!promise)
<1>1. transfers \in Nat /\ transfers > 0 /\ UNCHANGED <<reservation, credited>>
  BY DEF IInv, TypeOK, PayoutInv, RailAnswers, funds
<1>2. CASE UNCHANGED transfers
  BY <1>1, <1>2, StaysKeeps
<1>3. CASE transfers' = transfers - 1 /\ transfers = 1
  BY <1>1, <1>3 DEF P!Promised, P!Refuse, Coin
<1>4. CASE transfers' = transfers - 1 /\ transfers # 1
  BY <1>1, <1>4 DEF P!promise, Coin
<1> QED BY <1>2, <1>3, <1>4 DEF RailAnswers

LEMMA ContinueKeeps ==
  ASSUME IInv, NEW w \in Workers, Continue(w)
  PROVE  [P!Promised]_(P!promise)
<1> USE DEF funds, pay
<1>1. CASE InitiatePayout(w)
  BY <1>1, SendKeeps
<1>2. CASE CryptoConfirmed(w)
  BY <1>2, StaysKeeps, ReceiveKeeps
  DEF CryptoConfirmed, ApplyThen, ApplyOr, A!Applies, A!Skips, Confirmed
<1>3. CASE ReserveGnf(w) \/ RetryReserve(w)
  <2>1. Confirmed
    BY <1>3 DEF IInv, WorkerKnows, ReserveGnf, RetryReserve, At, ConfirmedPlaces
  <2>2. (HoldGnf \/ UNCHANGED funds) /\ UNCHANGED transfers
    BY <1>3 DEF ReserveGnf, RetryReserve, RetryTo, ApplyOr
  <2> QED BY <2>1, <2>2, HoldKeeps, StaysKeeps
<1>4. CASE CompleteSell(w)
  <2>1. payout = "PAID"
    BY <1>4 DEF IInv, WorkerKnows, CompleteSell
  <2>2. (ConsumeHeld \/ UNCHANGED funds) /\ UNCHANGED transfers
    BY <1>4 DEF CompleteSell, ApplyThen, ApplyOr
  <2> QED BY <2>1, <2>2, SpendKeeps, StaysKeeps
<1>5. CASE FailReview(w) \/ CancelReview(w)
  <2>1. (ReleaseHeld \/ UNCHANGED funds) /\ UNCHANGED transfers
    BY <1>5 DEF FailReview, CancelReview, ApplyThen, ApplyOr
  <2> QED BY <2>1, ReleaseKeeps, StaysKeeps
<1>6. CASE \/ LockQuote(w) \/ AwaitCrypto(w) \/ DepositMismatch(w) \/ CryptoDetected(w)
           \/ Confirming(w) \/ FlagWatched(w) \/ FlagUnreserved(w) \/ PayoutPending(w)
           \/ PayoutProcessing(w) \/ PayoutFailed(w) \/ ExpireOrder(w)
  <2>1. UNCHANGED <<reservation, credited, transfers>>
    BY <1>6
    DEF LockQuote, AwaitCrypto, DepositMismatch, CryptoDetected, Confirming,
        FlagWatched, FlagUnreserved, PayoutPending, PayoutProcessing, PayoutFailed,
        ExpireOrder, ApplyThen, ApplyOr, NoEffect
  <2> QED BY <2>1, StaysKeeps
<1>7. CASE \/ Requeue(w) \/ ReserveRefused(w) \/ CreatePayout(w) \/ LinkPayout(w)
           \/ Process(w) \/ RecordPayout(w) \/ ConfirmPayout(w) \/ RetryPayout(w)
           \/ RetryUnreserved(w)
  <2>1. UNCHANGED <<reservation, credited, transfers>>
    BY <1>7
    DEF Requeue, ReserveRefused, CreatePayout, LinkPayout, Process, ProcessFrom,
        RecordPayout, ConfirmPayout, RetryPayout, RetryTo, NoEffect, RetryUnreserved
  <2> QED BY <2>1, StaysKeeps
<1> QED BY <1>1, <1>2, <1>3, <1>4, <1>5, <1>6, <1>7 DEF Continue

LEMMA StepKeeps ==
  ASSUME IInv, [Next]_vars
  PROVE  [P!Promised]_(P!promise)
<1> USE DEF funds, pay
<1>1. ASSUME NEW w \in Workers,
             \/ CreateOrder(w) \/ Drive(w) \/ Expire(w) \/ AdminProcess(w)
             \/ ResolveReview(w) \/ Interrupt(w)
      PROVE  [P!Promised]_(P!promise)
  <2>1. UNCHANGED <<reservation, credited, transfers>>
    BY <1>1
    DEF CreateOrder, Drive, Expire, AdminProcess, ProcessFrom, ResolveReview, Interrupt
  <2> QED BY <2>1, StaysKeeps
<1>2. ASSUME NEW to \in AdminTargets, AdminTransition(to)
      PROVE  [P!Promised]_(P!promise)
  BY <1>2, ReleaseKeeps, StaysKeeps DEF AdminTransition, NoEffect
<1>3. CASE CustomerDeposits \/ UNCHANGED vars
  BY <1>3, StaysKeeps DEF CustomerDeposits, vars
<1> QED BY <1>1, <1>2, <1>3, ContinueKeeps, RefuseKeeps DEF Next

(* KeepsPromise: SellOrder refines SellPromise.                             *)
THEOREM PromiseKept == Spec => KeepsPromise
<1>1. Init => P!Open
  BY DEF Init, P!Open, Coin
<1>2. IInv /\ [Next]_vars => [P!Promised]_(P!promise)
  BY StepKeeps
<1> QED
  BY <1>1, <1>2, OrderInvariant, PTL DEF Spec, KeepsPromise, P!Promise
=============================================================================
