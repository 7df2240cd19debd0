--------------------------- MODULE BuyOrderProofs ---------------------------
(***************************************************************************)
(* IInv is an inductive invariant of BuyOrder, for any set of workers; and *)
(* BuyOrder implements BuyPromise.                                         *)
(***************************************************************************)
EXTENDS BuyOrderProps, TLAPS

(* Nothing has happened before the order exists.                            *)
LEMMA InitIInv == Init => IInv
<1> SUFFICES ASSUME Init PROVE IInv
    OBVIOUS
<1>1. TypeOK
  BY DEF Init, TypeOK, IntentStatuses, RailStatuses, Places
<1>2. OrderInv
  BY DEF Init, OrderInv, ReservationFollowsOrder, PaidOrdersAreBookedOnce,
         SentOnlyAfterVerified, SentIsRecorded, PaidStatuses, LinkedStatuses,
         HoldingStatuses, BuyStatuses, Terminal
<1>3. \A w \in Workers : WorkerKnows(w)
  BY DEF Init, WorkerKnows, At
<1> QED
  BY <1>1, <1>2, <1>3 DEF IInv

(* The buy table read backwards: where a transition to each status starts.  *)
LEMMA Sources ==
  ASSUME NEW s \in BuyStatuses, NEW t, Can(BuyTransitions, s, t)
  PROVE  /\ s \notin Terminal
         /\ t = "QUOTE_LOCKED" => s = "CREATED"
         /\ t = "USDT_RESERVED" => s = "QUOTE_LOCKED"
         /\ t = "AWAITING_PAYMENT" => s = "USDT_RESERVED"
         /\ t = "PAYMENT_DETECTED" => s = "AWAITING_PAYMENT"
         /\ t = "PAYMENT_RECONCILING" => s = "PAYMENT_DETECTED"
         /\ t = "PAYMENT_VERIFIED" => s \in {"PAYMENT_RECONCILING", "UNDER_REVIEW"}
         /\ t = "USDT_PROCESSING" => s \in {"PAYMENT_VERIFIED", "UNDER_REVIEW"}
         /\ t = "USDT_SENT" => s = "USDT_PROCESSING"
         /\ t = "COMPLETED" => s \in {"USDT_SENT", "UNDER_REVIEW"}
         /\ t = "UNDER_REVIEW" => s \in LinkedStatuses
BY DEF Can, BuyTransitions, BuyStatuses, Terminal, LinkedStatuses

(* What a step must leave alone for the knowledge of a worker that did not  *)
(* take it to survive.                                                      *)
Kept ==
  /\ status # "NONE" => status' # "NONE"
  /\ linked => linked'
  /\ verified => verified'
  /\ Booked => Booked'
  /\ chain # "NONE" => chain' # "NONE"
  /\ recorded => recorded'
  /\ status \in Terminal => status' = status
  /\ status = "UNDER_REVIEW" =>
       verified' \/ status' \in Terminal \cup {"UNDER_REVIEW"}

LEMMA KnowledgeKept ==
  ASSUME NEW v \in Workers, WorkerKnows(v), Kept, pc'[v] = pc[v]
  PROVE  WorkerKnows(v)'
BY DEF Kept, WorkerKnows, At, Booked, Terminal

(* A step of w that leaves the others at their place.                       *)
LEMMA WorkerStep ==
  ASSUME IInv, NEW w \in Workers, NEW next, Goto(w, next),
         TypeOK', OrderInv', Kept, WorkerKnows(w)'
  PROVE  IInv'
<1>1. \A v \in Workers : v # w => pc'[v] = pc[v]
  BY DEF Goto, IInv, TypeOK
<1>2. ASSUME NEW v \in Workers PROVE WorkerKnows(v)'
  <2>1. CASE v = w BY <2>1
  <2>2. CASE v # w BY <2>2, <1>1, KnowledgeKept DEF IInv
  <2> QED BY <2>1, <2>2
<1> QED BY <1>2 DEF IInv

(* The types after a use of apply(), whatever its outcome.                  *)
LEMMA ApplyType ==
  ASSUME TypeOK, NEW w \in Workers, NEW event \in OnceEvents,
         NEW to \in BuyStatuses, NEW next \in Places,
         A!Record(event, to) \/ UNCHANGED order,
         Goto(w, next) \/ Goto(w, "idle"),
         UNCHANGED <<payment, delivery>>,
         reservation' \in {"NONE", "HELD", "RELEASED", "CONSUMED"}, credits' \in Nat
  PROVE  TypeOK'
<1>1. status' \in BuyStatuses \cup {"NONE"} /\ events' \subseteq OnceEvents
  BY DEF TypeOK, A!Record, order
<1>2. pc' \in [Workers -> Places]
  BY DEF TypeOK, Goto, Places
<1> QED
  BY <1>1, <1>2 DEF TypeOK, payment, delivery

(* A step that moves one worker and nothing else.                           *)
LEMMA MoveStep ==
  ASSUME IInv, NEW w \in Workers, NEW next \in Places, Goto(w, next),
         UNCHANGED <<order, payment, funds, delivery>>, WorkerKnows(w)'
  PROVE  IInv'
<1> USE DEF order, payment, funds, delivery
<1>1. TypeOK' BY DEF IInv, TypeOK, Goto
<1>2. OrderInv'
  BY DEF IInv, OrderInv, ReservationFollowsOrder, PaidOrdersAreBookedOnce,
         SentOnlyAfterVerified, SentIsRecorded
<1>3. Kept BY DEF Kept, Booked
<1> QED BY <1>1, <1>2, <1>3, WorkerStep

(* A worker inside a method has an order of a known status.                 *)
LEMMA OrderExists ==
  ASSUME IInv, NEW w \in Workers, ~At(w, "idle")
  PROVE  status \in BuyStatuses /\ TypeOK /\ OrderInv /\ WorkerKnows(w)
BY DEF IInv, WorkerKnows, TypeOK

(* Parking the order for review.                                            *)
LEMMA ReviewStep ==
  ASSUME IInv, NEW w \in Workers, NEW event \in OnceEvents, ~At(w, "idle"),
         ApplyThen(w, event, "UNDER_REVIEW", NoEffect, "idle")
  PROVE  IInv'
<1>1. status \in BuyStatuses /\ TypeOK /\ OrderInv /\ WorkerKnows(w)
  BY OrderExists
<1>2. /\ UNCHANGED <<payment, delivery>>
      /\ \/ UNCHANGED <<status, reservation, credits>>
         \/ /\ status \in LinkedStatuses /\ status' = "UNDER_REVIEW"
            /\ UNCHANGED <<reservation, credits>>
  BY <1>1, Sources
  DEF ApplyThen, NoEffect, order, funds, payment, delivery,
      A!Applies, A!Skips, A!Refuses, A!Record, Can, A!Can
<1>3. TypeOK'
  <2>1. A!Record(event, "UNDER_REVIEW") \/ UNCHANGED order
    BY DEF ApplyThen, order
  <2>2. Goto(w, "idle") \/ Goto(w, "idle")
    BY DEF ApplyThen
  <2>3. reservation' \in {"NONE", "HELD", "RELEASED", "CONSUMED"} /\ credits' \in Nat
    BY <1>1, <1>2 DEF TypeOK
  <2> QED
    BY <1>1, <1>2, <2>1, <2>2, <2>3, ApplyType
    DEF BuyStatuses, Terminal, OnceEvents, Places
<1> USE DEF payment, delivery
<1>4. OrderInv'
  <2>1. CASE UNCHANGED <<status, reservation, credits>>
    BY <1>1, <1>2, <2>1
    DEF OrderInv, ReservationFollowsOrder, PaidOrdersAreBookedOnce,
        SentOnlyAfterVerified, SentIsRecorded
  <2>2. CASE status \in LinkedStatuses /\ status' = "UNDER_REVIEW"
    BY <1>1, <1>2, <2>2
    DEF OrderInv, ReservationFollowsOrder, PaidOrdersAreBookedOnce,
        SentOnlyAfterVerified, SentIsRecorded, PaidStatuses, LinkedStatuses,
        HoldingStatuses, BuyStatuses, Terminal, Booked
  <2> QED BY <1>2, <2>1, <2>2
<1>5. Kept
  BY <1>1, <1>2
  DEF Kept, Booked, Terminal, LinkedStatuses, BuyStatuses, OrderInv,
      PaidOrdersAreBookedOnce, PaidStatuses
<1>6. WorkerKnows(w)'
  BY <1>1, <1>2
  DEF WorkerKnows, At, Goto, TypeOK, ApplyThen, Terminal, BuyStatuses, Booked,
      OrderInv, PaidOrdersAreBookedOnce, PaidStatuses, A!Applies, A!Skips,
      A!Refuses, A!Record, SentOnlyAfterVerified
<1> QED
  BY <1>3, <1>4, <1>5, <1>6, WorkerStep DEF ApplyThen

(* Closing the order and giving its USDT back.                              *)
LEMMA ReleaseStep ==
  ASSUME IInv, NEW w \in Workers, NEW event \in OnceEvents,
         NEW to \in {"FAILED", "EXPIRED", "CANCELLED"}, ~At(w, "idle"),
         ApplyThen(w, event, to, ReleaseHeld, "idle")
  PROVE  IInv'
<1>1. status \in BuyStatuses /\ TypeOK /\ OrderInv /\ WorkerKnows(w)
  BY OrderExists
<1>2. /\ UNCHANGED <<payment, delivery>>
      /\ \/ UNCHANGED <<status, reservation, credits>>
         \/ /\ status \in BuyStatuses \ Terminal /\ status' = to
            /\ reservation' = IF reservation = "HELD" THEN "RELEASED" ELSE reservation
            /\ UNCHANGED credits
  BY <1>1, Sources
  DEF ApplyThen, ReleaseHeld, order, funds, payment, delivery,
      A!Applies, A!Skips, A!Refuses, A!Record, Can, A!Can
<1>3. TypeOK'
  <2>1. A!Record(event, to) \/ UNCHANGED order
    BY DEF ApplyThen, order
  <2>2. Goto(w, "idle") \/ Goto(w, "idle")
    BY DEF ApplyThen
  <2>3. reservation' \in {"NONE", "HELD", "RELEASED", "CONSUMED"} /\ credits' \in Nat
    BY <1>1, <1>2 DEF TypeOK
  <2> QED
    BY <1>1, <1>2, <2>1, <2>2, <2>3, ApplyType
    DEF BuyStatuses, Terminal, OnceEvents, Places
<1> USE DEF payment, delivery
<1>4. OrderInv'
  <2>1. CASE UNCHANGED <<status, reservation, credits>>
    BY <1>1, <1>2, <2>1
    DEF OrderInv, ReservationFollowsOrder, PaidOrdersAreBookedOnce,
        SentOnlyAfterVerified, SentIsRecorded
  <2>2. CASE status \in BuyStatuses \ Terminal /\ status' = to
    BY <1>1, <1>2, <2>2
    DEF OrderInv, ReservationFollowsOrder, PaidOrdersAreBookedOnce,
        SentOnlyAfterVerified, SentIsRecorded, PaidStatuses, LinkedStatuses,
        HoldingStatuses, BuyStatuses, Terminal, Booked
  <2> QED BY <1>2, <2>1, <2>2
<1>5. Kept
  BY <1>1, <1>2
  DEF Kept, Booked, Terminal, LinkedStatuses, BuyStatuses, OrderInv,
      PaidOrdersAreBookedOnce, PaidStatuses
<1>6. WorkerKnows(w)'
  BY <1>1, <1>2
  DEF WorkerKnows, At, Goto, TypeOK, ApplyThen, Terminal, BuyStatuses, Booked,
      OrderInv, PaidOrdersAreBookedOnce, PaidStatuses, A!Applies, A!Skips,
      A!Refuses, A!Record, SentOnlyAfterVerified
<1> QED
  BY <1>3, <1>4, <1>5, <1>6, WorkerStep DEF ApplyThen

(* The quote is locked.                                                     *)
LEMMA LockQuoteStep ==
  ASSUME IInv, NEW w \in Workers, LockQuote(w)
  PROVE  IInv'
<1>1. status \in BuyStatuses /\ TypeOK /\ OrderInv /\ WorkerKnows(w)
  BY OrderExists DEF LockQuote, At
<1>2. /\ UNCHANGED <<payment, delivery>>
      /\ \/ UNCHANGED <<status, reservation, credits>>
         \/ /\ status \in {"CREATED"} /\ status' = "QUOTE_LOCKED"
            /\ UNCHANGED <<reservation, credits>>
  BY <1>1, Sources
  DEF LockQuote, ApplyThen, NoEffect, order, funds, payment, delivery,
      A!Applies, A!Skips, A!Refuses, A!Record, Can, A!Can
<1>3. TypeOK'
  <2>1. A!Record("quote-locked", "QUOTE_LOCKED") \/ UNCHANGED order
    BY DEF LockQuote, ApplyThen, order
  <2>2. Goto(w, "reserve") \/ Goto(w, "idle")
    BY DEF LockQuote, ApplyThen
  <2>3. reservation' \in {"NONE", "HELD", "RELEASED", "CONSUMED"} /\ credits' \in Nat
    BY <1>1, <1>2 DEF TypeOK
  <2> QED
    BY <1>1, <1>2, <2>1, <2>2, <2>3, ApplyType
    DEF BuyStatuses, Terminal, OnceEvents, Places
<1> USE DEF payment, delivery
<1>4. OrderInv'
  <2>1. CASE UNCHANGED <<status, reservation, credits>>
    BY <1>1, <1>2, <2>1
    DEF OrderInv, ReservationFollowsOrder, PaidOrdersAreBookedOnce,
        SentOnlyAfterVerified, SentIsRecorded
  <2>2. CASE status \in {"CREATED"} /\ status' = "QUOTE_LOCKED"
    BY <1>1, <1>2, <2>2
    DEF OrderInv, ReservationFollowsOrder, PaidOrdersAreBookedOnce,
        SentOnlyAfterVerified, SentIsRecorded, PaidStatuses, LinkedStatuses,
        HoldingStatuses, BuyStatuses, Terminal, Booked, WorkerKnows, LockQuote, At
  <2> QED BY <1>2, <2>1, <2>2
<1>5. Kept
  BY <1>1, <1>2
  DEF Kept, Booked, Terminal, LinkedStatuses, BuyStatuses, OrderInv,
      PaidOrdersAreBookedOnce, PaidStatuses, WorkerKnows, LockQuote, At
<1>6. WorkerKnows(w)'
  BY <1>1, <1>2
  DEF WorkerKnows, At, Goto, TypeOK, ApplyThen, LockQuote, Terminal, BuyStatuses,
      Booked, OrderInv, PaidOrdersAreBookedOnce, PaidStatuses, A!Applies, A!Skips,
      A!Refuses, A!Record, SentOnlyAfterVerified
<1> QED
  BY <1>3, <1>4, <1>5, <1>6, WorkerStep DEF ApplyThen, LockQuote

(* USDT is set aside.                                                       *)
LEMMA ReserveUsdtStep ==
  ASSUME IInv, NEW w \in Workers, ReserveUsdt(w)
  PROVE  IInv'
<1>1. status \in BuyStatuses /\ TypeOK /\ OrderInv /\ WorkerKnows(w)
  BY OrderExists DEF ReserveUsdt, At
<1>2. /\ UNCHANGED <<payment, delivery>>
      /\ \/ UNCHANGED <<status, reservation, credits>>
         \/ /\ status \in {"QUOTE_LOCKED"} /\ status' = "USDT_RESERVED"
            /\ reservation' = "HELD" /\ UNCHANGED credits
  BY <1>1, Sources
  DEF ReserveUsdt, ApplyThen, HoldUsdt, order, funds, payment, delivery,
      A!Applies, A!Skips, A!Refuses, A!Record, Can, A!Can
<1>3. TypeOK'
  <2>1. A!Record("reserve-usdt", "USDT_RESERVED") \/ UNCHANGED order
    BY DEF ReserveUsdt, ApplyThen, order
  <2>2. Goto(w, "createIntent") \/ Goto(w, "idle")
    BY DEF ReserveUsdt, ApplyThen
  <2>3. reservation' \in {"NONE", "HELD", "RELEASED", "CONSUMED"} /\ credits' \in Nat
    BY <1>1, <1>2 DEF TypeOK
  <2> QED
    BY <1>1, <1>2, <2>1, <2>2, <2>3, ApplyType
    DEF BuyStatuses, Terminal, OnceEvents, Places
<1> USE DEF payment, delivery
<1>4. OrderInv'
  <2>1. CASE UNCHANGED <<status, reservation, credits>>
    BY <1>1, <1>2, <2>1
    DEF OrderInv, ReservationFollowsOrder, PaidOrdersAreBookedOnce,
        SentOnlyAfterVerified, SentIsRecorded
  <2>2. CASE status \in {"QUOTE_LOCKED"} /\ status' = "USDT_RESERVED"
    BY <1>1, <1>2, <2>2
    DEF OrderInv, ReservationFollowsOrder, PaidOrdersAreBookedOnce,
        SentOnlyAfterVerified, SentIsRecorded, PaidStatuses, LinkedStatuses,
        HoldingStatuses, BuyStatuses, Terminal, Booked, WorkerKnows, ReserveUsdt, At
  <2> QED BY <1>2, <2>1, <2>2
<1>5. Kept
  BY <1>1, <1>2
  DEF Kept, Booked, Terminal, LinkedStatuses, BuyStatuses, OrderInv,
      PaidOrdersAreBookedOnce, PaidStatuses, WorkerKnows, ReserveUsdt, At
<1>6. WorkerKnows(w)'
  BY <1>1, <1>2
  DEF WorkerKnows, At, Goto, TypeOK, ApplyThen, ReserveUsdt, Terminal, BuyStatuses,
      Booked, OrderInv, PaidOrdersAreBookedOnce, PaidStatuses, A!Applies, A!Skips,
      A!Refuses, A!Record, SentOnlyAfterVerified
<1> QED
  BY <1>3, <1>4, <1>5, <1>6, WorkerStep DEF ApplyThen, ReserveUsdt

(* The order waits for its payment, which is linked.                        *)
LEMMA AwaitPaymentStep ==
  ASSUME IInv, NEW w \in Workers, AwaitPayment(w)
  PROVE  IInv'
<1>1. status \in BuyStatuses /\ TypeOK /\ OrderInv /\ WorkerKnows(w)
  BY OrderExists DEF AwaitPayment, At
<1>2. /\ UNCHANGED <<payment, delivery>>
      /\ \/ UNCHANGED <<status, reservation, credits>>
         \/ /\ status \in {"USDT_RESERVED"} /\ status' = "AWAITING_PAYMENT"
            /\ UNCHANGED <<reservation, credits>>
  BY <1>1, Sources
  DEF AwaitPayment, ApplyThen, NoEffect, order, funds, payment, delivery,
      A!Applies, A!Skips, A!Refuses, A!Record, Can, A!Can
<1>3. TypeOK'
  <2>1. A!Record("await-payment", "AWAITING_PAYMENT") \/ UNCHANGED order
    BY DEF AwaitPayment, ApplyThen, order
  <2>2. Goto(w, "startCollection") \/ Goto(w, "idle")
    BY DEF AwaitPayment, ApplyThen
  <2>3. reservation' \in {"NONE", "HELD", "RELEASED", "CONSUMED"} /\ credits' \in Nat
    BY <1>1, <1>2 DEF TypeOK
  <2> QED
    BY <1>1, <1>2, <2>1, <2>2, <2>3, ApplyType
    DEF BuyStatuses, Terminal, OnceEvents, Places
<1> USE DEF payment, delivery
<1>4. OrderInv'
  <2>1. CASE UNCHANGED <<status, reservation, credits>>
    BY <1>1, <1>2, <2>1
    DEF OrderInv, ReservationFollowsOrder, PaidOrdersAreBookedOnce,
        SentOnlyAfterVerified, SentIsRecorded
  <2>2. CASE status \in {"USDT_RESERVED"} /\ status' = "AWAITING_PAYMENT"
    BY <1>1, <1>2, <2>2
    DEF OrderInv, ReservationFollowsOrder, PaidOrdersAreBookedOnce,
        SentOnlyAfterVerified, SentIsRecorded, PaidStatuses, LinkedStatuses,
        HoldingStatuses, BuyStatuses, Terminal, Booked, WorkerKnows, AwaitPayment, At
  <2> QED BY <1>2, <2>1, <2>2
<1>5. Kept
  BY <1>1, <1>2
  DEF Kept, Booked, Terminal, LinkedStatuses, BuyStatuses, OrderInv,
      PaidOrdersAreBookedOnce, PaidStatuses, WorkerKnows, AwaitPayment, At
<1>6. WorkerKnows(w)'
  BY <1>1, <1>2
  DEF WorkerKnows, At, Goto, TypeOK, ApplyThen, AwaitPayment, Terminal, BuyStatuses,
      Booked, OrderInv, PaidOrdersAreBookedOnce, PaidStatuses, A!Applies, A!Skips,
      A!Refuses, A!Record, SentOnlyAfterVerified
<1> QED
  BY <1>3, <1>4, <1>5, <1>6, WorkerStep DEF ApplyThen, AwaitPayment

(* The payment is verified and booked.                                      *)
LEMMA PaymentVerifiedStep ==
  ASSUME IInv, NEW w \in Workers, PaymentVerified(w)
  PROVE  IInv'
<1>1. status \in BuyStatuses /\ TypeOK /\ OrderInv /\ WorkerKnows(w)
  BY OrderExists DEF PaymentVerified, At
<1>2. /\ UNCHANGED <<payment, delivery>>
      /\ \/ UNCHANGED <<status, reservation, credits>>
         \/ /\ status \in {"PAYMENT_RECONCILING", "UNDER_REVIEW"} /\ status' = "PAYMENT_VERIFIED"
            /\ credits' = 1 /\ UNCHANGED reservation
  BY <1>1, Sources
  DEF OrderInv, PaidOrdersAreBookedOnce, PaymentVerified, ApplyThen, CreditPayment,
      order, funds, payment, delivery,
      A!Applies, A!Skips, A!Refuses, A!Record, Can, A!Can
<1>3. TypeOK'
  <2>1. A!Record("payment-verified", "PAYMENT_VERIFIED") \/ UNCHANGED order
    BY DEF PaymentVerified, ApplyThen, order
  <2>2. Goto(w, "read") \/ Goto(w, "idle")
    BY DEF PaymentVerified, ApplyThen
  <2>3. reservation' \in {"NONE", "HELD", "RELEASED", "CONSUMED"} /\ credits' \in Nat
    BY <1>1, <1>2 DEF TypeOK
  <2> QED
    BY <1>1, <1>2, <2>1, <2>2, <2>3, ApplyType
    DEF BuyStatuses, Terminal, OnceEvents, Places
<1> USE DEF payment, delivery
<1>4. OrderInv'
  <2>1. CASE UNCHANGED <<status, reservation, credits>>
    BY <1>1, <1>2, <2>1
    DEF OrderInv, ReservationFollowsOrder, PaidOrdersAreBookedOnce,
        SentOnlyAfterVerified, SentIsRecorded
  <2>2. CASE status \in {"PAYMENT_RECONCILING", "UNDER_REVIEW"} /\ status' = "PAYMENT_VERIFIED"
    BY <1>1, <1>2, <2>2
    DEF OrderInv, ReservationFollowsOrder, PaidOrdersAreBookedOnce,
        SentOnlyAfterVerified, SentIsRecorded, PaidStatuses, LinkedStatuses,
        HoldingStatuses, BuyStatuses, Terminal, Booked, WorkerKnows, PaymentVerified, At
  <2> QED BY <1>2, <2>1, <2>2
<1>5. Kept
  BY <1>1, <1>2
  DEF Kept, Booked, Terminal, LinkedStatuses, BuyStatuses, OrderInv,
      PaidOrdersAreBookedOnce, PaidStatuses, WorkerKnows, PaymentVerified, At
<1>6. WorkerKnows(w)'
  BY <1>1, <1>2
  DEF WorkerKnows, At, Goto, TypeOK, ApplyThen, PaymentVerified, Terminal,
      BuyStatuses, Booked, OrderInv, PaidOrdersAreBookedOnce, PaidStatuses,
      A!Applies, A!Skips, A!Refuses, A!Record, SentOnlyAfterVerified
<1> QED
  BY <1>3, <1>4, <1>5, <1>6, WorkerStep DEF ApplyThen, PaymentVerified

(* A booked order goes to delivery.                                         *)
LEMMA UsdtProcessingStep ==
  ASSUME IInv, NEW w \in Workers, UsdtProcessing(w)
  PROVE  IInv'
<1>1. status \in BuyStatuses /\ TypeOK /\ OrderInv /\ WorkerKnows(w)
  BY OrderExists DEF UsdtProcessing, At
<1>2. /\ UNCHANGED <<payment, delivery>>
      /\ \/ UNCHANGED <<status, reservation, credits>>
         \/ /\ status \in {"PAYMENT_VERIFIED", "UNDER_REVIEW"} /\ status' = "USDT_PROCESSING"
            /\ UNCHANGED <<reservation, credits>>
  BY <1>1, Sources
  DEF UsdtProcessing, ApplyThen, NoEffect, order, funds, payment, delivery,
      A!Applies, A!Skips, A!Refuses, A!Record, Can, A!Can
<1>3. TypeOK'
  <2>1. A!Record("usdt-processing", "USDT_PROCESSING") \/ UNCHANGED order
    BY DEF UsdtProcessing, ApplyThen, order
  <2>2. Goto(w, "lookup") \/ Goto(w, "idle")
    BY DEF UsdtProcessing, ApplyThen
  <2>3. reservation' \in {"NONE", "HELD", "RELEASED", "CONSUMED"} /\ credits' \in Nat
    BY <1>1, <1>2 DEF TypeOK
  <2> QED
    BY <1>1, <1>2, <2>1, <2>2, <2>3, ApplyType
    DEF BuyStatuses, Terminal, OnceEvents, Places
<1> USE DEF payment, delivery
<1>4. OrderInv'
  <2>1. CASE UNCHANGED <<status, reservation, credits>>
    BY <1>1, <1>2, <2>1
    DEF OrderInv, ReservationFollowsOrder, PaidOrdersAreBookedOnce,
        SentOnlyAfterVerified, SentIsRecorded
  <2>2. CASE status \in {"PAYMENT_VERIFIED", "UNDER_REVIEW"} /\ status' = "USDT_PROCESSING"
    BY <1>1, <1>2, <2>2
    DEF OrderInv, ReservationFollowsOrder, PaidOrdersAreBookedOnce,
        SentOnlyAfterVerified, SentIsRecorded, PaidStatuses, LinkedStatuses,
        HoldingStatuses, BuyStatuses, Terminal, Booked, WorkerKnows, UsdtProcessing, At
  <2> QED BY <1>2, <2>1, <2>2
<1>5. Kept
  BY <1>1, <1>2
  DEF Kept, Booked, Terminal, LinkedStatuses, BuyStatuses, OrderInv,
      PaidOrdersAreBookedOnce, PaidStatuses, WorkerKnows, UsdtProcessing, At
<1>6. WorkerKnows(w)'
  BY <1>1, <1>2
  DEF WorkerKnows, At, Goto, TypeOK, ApplyThen, UsdtProcessing, Terminal,
      BuyStatuses, Booked, OrderInv, PaidOrdersAreBookedOnce, PaidStatuses,
      A!Applies, A!Skips, A!Refuses, A!Record, SentOnlyAfterVerified
<1> QED
  BY <1>3, <1>4, <1>5, <1>6, WorkerStep DEF ApplyThen, UsdtProcessing

(* A recorded withdrawal marks the order sent.                              *)
LEMMA MarkSentStep ==
  ASSUME IInv, NEW w \in Workers, MarkSent(w)
  PROVE  IInv'
<1>1. status \in BuyStatuses /\ TypeOK /\ OrderInv /\ WorkerKnows(w)
  BY OrderExists DEF MarkSent, At
<1>2. /\ UNCHANGED <<payment, delivery>>
      /\ \/ UNCHANGED <<status, reservation, credits>>
         \/ /\ status \in {"USDT_PROCESSING"} /\ status' = "USDT_SENT"
            /\ UNCHANGED <<reservation, credits>>
  BY <1>1, Sources
  DEF MarkSent, ApplyThen, NoEffect, order, funds, payment, delivery,
      A!Applies, A!Skips, A!Refuses, A!Record, Can, A!Can
<1>3. TypeOK'
  <2>1. A!Record("usdt-sent", "USDT_SENT") \/ UNCHANGED order
    BY DEF MarkSent, ApplyThen, order
  <2>2. Goto(w, "confirm") \/ Goto(w, "idle")
    BY DEF MarkSent, ApplyThen
  <2>3. reservation' \in {"NONE", "HELD", "RELEASED", "CONSUMED"} /\ credits' \in Nat
    BY <1>1, <1>2 DEF TypeOK
  <2> QED
    BY <1>1, <1>2, <2>1, <2>2, <2>3, ApplyType
    DEF BuyStatuses, Terminal, OnceEvents, Places
<1> USE DEF payment, delivery
<1>4. OrderInv'
  <2>1. CASE UNCHANGED <<status, reservation, credits>>
    BY <1>1, <1>2, <2>1
    DEF OrderInv, ReservationFollowsOrder, PaidOrdersAreBookedOnce,
        SentOnlyAfterVerified, SentIsRecorded
  <2>2. CASE status \in {"USDT_PROCESSING"} /\ status' = "USDT_SENT"
    BY <1>1, <1>2, <2>2
    DEF OrderInv, ReservationFollowsOrder, PaidOrdersAreBookedOnce,
        SentOnlyAfterVerified, SentIsRecorded, PaidStatuses, LinkedStatuses,
        HoldingStatuses, BuyStatuses, Terminal, Booked, WorkerKnows, MarkSent, At
  <2> QED BY <1>2, <2>1, <2>2
<1>5. Kept
  BY <1>1, <1>2
  DEF Kept, Booked, Terminal, LinkedStatuses, BuyStatuses, OrderInv,
      PaidOrdersAreBookedOnce, PaidStatuses, WorkerKnows, MarkSent, At
<1>6. WorkerKnows(w)'
  BY <1>1, <1>2
  DEF WorkerKnows, At, Goto, TypeOK, ApplyThen, MarkSent, Terminal, BuyStatuses,
      Booked, OrderInv, PaidOrdersAreBookedOnce, PaidStatuses, A!Applies, A!Skips,
      A!Refuses, A!Record, SentOnlyAfterVerified
<1> QED
  BY <1>3, <1>4, <1>5, <1>6, WorkerStep DEF ApplyThen, MarkSent

(* A delivered order spends its reservation.                                *)
LEMMA CompleteBuyStep ==
  ASSUME IInv, NEW w \in Workers, CompleteBuy(w)
  PROVE  IInv'
<1>1. status \in BuyStatuses /\ TypeOK /\ OrderInv /\ WorkerKnows(w)
  BY OrderExists DEF CompleteBuy, At
<1>2. /\ UNCHANGED <<payment, delivery>>
      /\ \/ UNCHANGED <<status, reservation, credits>>
         \/ /\ status \in {"USDT_SENT", "UNDER_REVIEW"} /\ status' = "COMPLETED"
            /\ reservation' = "CONSUMED" /\ UNCHANGED credits
  BY <1>1, Sources
  DEF OrderInv, ReservationFollowsOrder, HoldingStatuses, BuyStatuses, Terminal,
      CompleteBuy, ApplyThen, ConsumeHeld, order, funds, payment, delivery,
      A!Applies, A!Skips, A!Refuses, A!Record, Can, A!Can
<1>3. TypeOK'
  <2>1. A!Record("completed", "COMPLETED") \/ UNCHANGED order
    BY DEF CompleteBuy, ApplyThen, order
  <2>2. Goto(w, "idle") \/ Goto(w, "idle")
    BY DEF CompleteBuy, ApplyThen
  <2>3. reservation' \in {"NONE", "HELD", "RELEASED", "CONSUMED"} /\ credits' \in Nat
    BY <1>1, <1>2 DEF TypeOK
  <2> QED
    BY <1>1, <1>2, <2>1, <2>2, <2>3, ApplyType
    DEF BuyStatuses, Terminal, OnceEvents, Places
<1> USE DEF payment, delivery
<1>4. OrderInv'
  <2>1. CASE UNCHANGED <<status, reservation, credits>>
    BY <1>1, <1>2, <2>1
    DEF OrderInv, ReservationFollowsOrder, PaidOrdersAreBookedOnce,
        SentOnlyAfterVerified, SentIsRecorded
  <2>2. CASE status \in {"USDT_SENT", "UNDER_REVIEW"} /\ status' = "COMPLETED"
    BY <1>1, <1>2, <2>2
    DEF OrderInv, ReservationFollowsOrder, PaidOrdersAreBookedOnce,
        SentOnlyAfterVerified, SentIsRecorded, PaidStatuses, LinkedStatuses,
        HoldingStatuses, BuyStatuses, Terminal, Booked, WorkerKnows, CompleteBuy, At
  <2> QED BY <1>2, <2>1, <2>2
<1>5. Kept
  BY <1>1, <1>2
  DEF Kept, Booked, Terminal, LinkedStatuses, BuyStatuses, OrderInv,
      PaidOrdersAreBookedOnce, PaidStatuses, WorkerKnows, CompleteBuy, At
<1>6. WorkerKnows(w)'
  BY <1>1, <1>2
  DEF WorkerKnows, At, Goto, TypeOK, ApplyThen, CompleteBuy, Terminal, BuyStatuses,
      Booked, OrderInv, PaidOrdersAreBookedOnce, PaidStatuses, A!Applies, A!Skips,
      A!Refuses, A!Record, SentOnlyAfterVerified
<1> QED
  BY <1>3, <1>4, <1>5, <1>6, WorkerStep DEF ApplyThen, CompleteBuy

(* Detecting and reconciling a payment move the order inside Polling.       *)
LEMMA DetectApply ==
  ASSUME IInv, NEW w \in Workers, NEW event \in OnceEvents, ~At(w, "idle"),
         NEW to \in {"PAYMENT_DETECTED", "PAYMENT_RECONCILING"},
         NEW next \in Places, ApplyThen(w, event, to, NoEffect, next),
         next # "idle" => next \in {"review", "reconcile", "verify"},
         next \in {"reconcile", "verify"} => verified
  PROVE  IInv'
<1>1. status \in BuyStatuses /\ TypeOK /\ OrderInv /\ WorkerKnows(w)
  BY OrderExists
<1>2. /\ UNCHANGED <<payment, delivery>>
      /\ \/ UNCHANGED <<status, reservation, credits>>
         \/ /\ status \in Polling /\ status' = to
            /\ UNCHANGED <<reservation, credits>>
  BY <1>1, Sources
  DEF Polling, ApplyThen, NoEffect, order, funds, payment, delivery,
      A!Applies, A!Skips, A!Refuses, A!Record, Can, A!Can
<1>3. TypeOK'
  <2>1. A!Record(event, to) \/ UNCHANGED order
    BY DEF ApplyThen, order
  <2>2. Goto(w, next) \/ Goto(w, "idle")
    BY DEF ApplyThen
  <2>3. reservation' \in {"NONE", "HELD", "RELEASED", "CONSUMED"} /\ credits' \in Nat
    BY <1>1, <1>2 DEF TypeOK
  <2>4. to \in BuyStatuses
    BY DEF BuyStatuses
  <2> QED
    BY <1>1, <1>2, <2>1, <2>2, <2>3, <2>4, ApplyType
<1> USE DEF payment, delivery
<1>4. OrderInv'
  <2>1. CASE UNCHANGED <<status, reservation, credits>>
    BY <1>1, <1>2, <2>1
    DEF OrderInv, ReservationFollowsOrder, PaidOrdersAreBookedOnce,
        SentOnlyAfterVerified, SentIsRecorded
  <2>2. CASE status \in Polling /\ status' = to
    BY <1>1, <1>2, <2>2
    DEF Polling, OrderInv, ReservationFollowsOrder, PaidOrdersAreBookedOnce,
        SentOnlyAfterVerified, SentIsRecorded, PaidStatuses, LinkedStatuses,
        HoldingStatuses, BuyStatuses, Terminal, Booked
  <2> QED BY <1>2, <2>1, <2>2
<1>5. Kept
  BY <1>1, <1>2
  DEF Polling, Kept, Booked, Terminal, LinkedStatuses, BuyStatuses, OrderInv,
      PaidOrdersAreBookedOnce, PaidStatuses
<1>6. WorkerKnows(w)'
  BY <1>1, <1>2
  DEF WorkerKnows, At, Goto, TypeOK, ApplyThen, Terminal, BuyStatuses, Booked,
      OrderInv, PaidOrdersAreBookedOnce, PaidStatuses, A!Applies, A!Skips,
      A!Refuses, A!Record, SentOnlyAfterVerified
<1> QED
  BY <1>3, <1>4, <1>5, <1>6, WorkerStep DEF ApplyThen

LEMMA DetectStep ==
  ASSUME IInv, NEW w \in Workers, PaymentDetected(w) \/ PaymentReconciling(w)
  PROVE  IInv'
<1>1. status \in BuyStatuses /\ TypeOK /\ OrderInv /\ WorkerKnows(w) /\ ~At(w, "idle")
  BY OrderExists DEF PaymentDetected, PaymentReconciling, Detecting, At
<1>2. CASE PaymentDetected(w)
  <2> DEFINE next == AfterDetect(pc[w])
  <2>1. next \in {"idle", "review", "reconcile"}
    BY DEF AfterDetect
  <2>2. next = "reconcile" => verified
    BY <1>1 DEF AfterDetect, WorkerKnows
  <2>3. CASE status = "AWAITING_PAYMENT"
    BY <1>1, <1>2, <2>1, <2>2, <2>3, DetectApply
    DEF PaymentDetected, OnceEvents, Places
  <2>4. CASE status # "AWAITING_PAYMENT"
    <3>1. Goto(w, next) /\ UNCHANGED <<order, payment, funds, delivery>>
      BY <1>2, <2>4 DEF PaymentDetected
    <3>2. WorkerKnows(w)'
      BY <1>1, <2>1, <2>2, <3>1
      DEF WorkerKnows, At, Goto, TypeOK, order, payment, BuyStatuses, Terminal
    <3> QED BY <2>1, <3>1, <3>2, MoveStep DEF Places
  <2> QED BY <2>3, <2>4
<1>3. CASE PaymentReconciling(w)
  <2>1. verified
    BY <1>1, <1>3 DEF PaymentReconciling, WorkerKnows, At
  <2>2. CASE status = "PAYMENT_DETECTED"
    BY <1>1, <1>3, <2>1, <2>2, DetectApply
    DEF PaymentReconciling, OnceEvents, Places
  <2>3. CASE status # "PAYMENT_DETECTED"
    <3>1. Goto(w, "verify") /\ UNCHANGED <<order, payment, funds, delivery>>
      BY <1>3, <2>3 DEF PaymentReconciling
    <3>2. WorkerKnows(w)'
      BY <1>1, <2>1, <3>1
      DEF WorkerKnows, At, Goto, TypeOK, order, payment, BuyStatuses, Terminal
    <3> QED BY <3>1, <3>2, MoveStep DEF Places
  <2> QED BY <2>2, <2>3
<1> QED BY <1>2, <1>3

(* The steps that only read.                                                *)
LEMMA ReadStep ==
  ASSUME IInv, NEW w \in Workers,
         \/ ReserveRefused(w) \/ Drive(w) \/ ReadOrder(w) \/ LookupWithdrawal(w)
         \/ ConfirmOnChain(w) \/ CompleteRefused(w) \/ Requeue(w) \/ Expire(w)
         \/ Interrupt(w) \/ StartCollection(w) \/ ExpireIntent(w)
  PROVE  IInv'
<1>0. TypeOK /\ OrderInv /\ WorkerKnows(w)
  BY DEF IInv
<1>1. CASE ReserveRefused(w)
  <2> DEFINE next == "idle"
  <2>1. next \in Places
    BY DEF Places
  <2>2. Goto(w, next) /\ UNCHANGED <<order, payment, funds, delivery>>
    BY <1>1 DEF ReserveRefused
  <2>3. WorkerKnows(w)'
    BY <1>0, <1>1, <2>2
    DEF ReserveRefused, WorkerKnows, At, Goto, TypeOK, Booked, order, payment,
        funds,
        delivery
  <2> QED BY <2>1, <2>2, <2>3, MoveStep
<1>2. CASE Drive(w)
  <2> DEFINE next == (IF status \in Polling /\ linked THEN "poll" ELSE "read")
  <2>1. next \in Places
    BY DEF Places
  <2>2. Goto(w, next) /\ UNCHANGED <<order, payment, funds, delivery>>
    BY <1>2 DEF Drive
  <2>3. WorkerKnows(w)'
    BY <1>0, <1>2, <2>2
    DEF Drive, WorkerKnows, At, Goto, TypeOK, Booked, order, payment, funds,
        delivery, Polling
  <2> QED BY <2>1, <2>2, <2>3, MoveStep
<1>3. CASE ReadOrder(w)
  <2> DEFINE next == (IF status = "PAYMENT_VERIFIED" THEN "processing" ELSE NextDelivery)
  <2>1. next \in Places
    BY DEF Places, NextDelivery
  <2>2. Goto(w, next) /\ UNCHANGED <<order, payment, funds, delivery>>
    BY <1>3 DEF ReadOrder
  <2>3. WorkerKnows(w)'
    BY <1>0, <1>3, <2>2
    DEF ReadOrder, WorkerKnows, At, Goto, TypeOK, Booked, order, payment, funds,
        delivery, NextDelivery, OrderInv, PaidOrdersAreBookedOnce, PaidStatuses, Booked
  <2> QED BY <2>1, <2>2, <2>3, MoveStep
<1>4. CASE LookupWithdrawal(w)
  <2> DEFINE next == NextDelivery
  <2>1. next \in Places
    BY DEF Places, NextDelivery
  <2>2. Goto(w, next) /\ UNCHANGED <<order, payment, funds, delivery>>
    BY <1>4 DEF LookupWithdrawal
  <2>3. WorkerKnows(w)'
    BY <1>0, <1>4, <2>2
    DEF LookupWithdrawal, WorkerKnows, At, Goto, TypeOK, Booked, order, payment,
        funds,
        delivery, NextDelivery, OrderInv, PaidOrdersAreBookedOnce, PaidStatuses, Booked
  <2> QED BY <2>1, <2>2, <2>3, MoveStep
<1>5. CASE ConfirmOnChain(w)
  <2> DEFINE next == (IF status # "USDT_SENT" THEN "idle"
                 ELSE IF newestFailed \/ chain = "PENDING" THEN "recheck"
                 ELSE IF chain = "FAILED" THEN "onchainFailed" ELSE "complete")
  <2>1. next \in Places
    BY DEF Places
  <2>2. Goto(w, next) /\ UNCHANGED <<order, payment, funds, delivery>>
    BY <1>5 DEF ConfirmOnChain
  <2>3. WorkerKnows(w)'
    BY <1>0, <1>5, <2>2
    DEF ConfirmOnChain, WorkerKnows, At, Goto, TypeOK, Booked, order, payment,
        funds,
        delivery, OrderInv, SentIsRecorded
  <2> QED BY <2>1, <2>2, <2>3, MoveStep
<1>6. CASE CompleteRefused(w)
  <2> DEFINE next == "idle"
  <2>1. next \in Places
    BY DEF Places
  <2>2. Goto(w, next) /\ UNCHANGED <<order, payment, funds, delivery>>
    BY <1>6 DEF CompleteRefused
  <2>3. WorkerKnows(w)'
    BY <1>0, <1>6, <2>2
    DEF CompleteRefused, WorkerKnows, At, Goto, TypeOK, Booked, order, payment,
        funds,
        delivery
  <2> QED BY <2>1, <2>2, <2>3, MoveStep
<1>7. CASE Requeue(w)
  <2> DEFINE next == "idle"
  <2>1. next \in Places
    BY DEF Places
  <2>2. Goto(w, next) /\ UNCHANGED <<order, payment, funds, delivery>>
    BY <1>7 DEF Requeue
  <2>3. WorkerKnows(w)'
    BY <1>0, <1>7, <2>2
    DEF Requeue, WorkerKnows, At, Goto, TypeOK, Booked, order, payment, funds,
        delivery
  <2> QED BY <2>1, <2>2, <2>3, MoveStep
<1>8. CASE Expire(w)
  <2> DEFINE next == (IF linked THEN "expireIntent" ELSE "expire")
  <2>1. next \in Places
    BY DEF Places
  <2>2. Goto(w, next) /\ UNCHANGED <<order, payment, funds, delivery>>
    BY <1>8 DEF Expire
  <2>3. WorkerKnows(w)'
    BY <1>0, <1>8, <2>2
    DEF Expire, WorkerKnows, At, Goto, TypeOK, Booked, order, payment, funds,
        delivery, Expirable
  <2> QED BY <2>1, <2>2, <2>3, MoveStep
<1>9. CASE Interrupt(w)
  <2> DEFINE next == "idle"
  <2>1. next \in Places
    BY DEF Places
  <2>2. Goto(w, next) /\ UNCHANGED <<order, payment, funds, delivery>>
    BY <1>9 DEF Interrupt
  <2>3. WorkerKnows(w)'
    BY <1>0, <1>9, <2>2
    DEF Interrupt, WorkerKnows, At, Goto, TypeOK, Booked, order, payment, funds,
        delivery
  <2> QED BY <2>1, <2>2, <2>3, MoveStep
<1>10. CASE StartCollection(w)
  <2> DEFINE next == (IF intent = "CREATED" THEN "collecting" ELSE "idle")
  <2>1. next \in Places
    BY DEF Places
  <2>2. Goto(w, next) /\ UNCHANGED <<order, payment, funds, delivery>>
    BY <1>10 DEF StartCollection
  <2>3. WorkerKnows(w)'
    BY <1>0, <1>10, <2>2
    DEF StartCollection, WorkerKnows, At, Goto, TypeOK, Booked, order, payment,
        funds, delivery
  <2> QED BY <2>1, <2>2, <2>3, MoveStep
<1>11. CASE ExpireIntent(w)
  <2> DEFINE next == (IF intent \in {"PAYMENT_VERIFIED", "PAYMENT_REJECTED", "EXPIRED"}
                        THEN "expire" ELSE "expiring")
  <2>1. next \in Places
    BY DEF Places
  <2>2. Goto(w, next) /\ UNCHANGED <<order, payment, funds, delivery>>
    BY <1>11 DEF ExpireIntent
  <2>3. WorkerKnows(w)'
    BY <1>0, <1>11, <2>2
    DEF ExpireIntent, WorkerKnows, At, Goto, TypeOK, Booked, order, payment,
        funds, delivery
  <2> QED BY <2>1, <2>2, <2>3, MoveStep
<1> QED
  BY <1>1, <1>2, <1>3, <1>4, <1>5, <1>6, <1>7, <1>8, <1>9, <1>10, <1>11

(* The steps that write the order outside apply(), the intent or the chain. *)
LEMMA WriteStep ==
  ASSUME IInv, NEW w \in Workers,
         \/ CreateOrder(w) \/ CreateIntent(w) \/ LinkIntent(w) \/ Collect(w)
         \/ RecordSend(w) \/ CloseIntent(w)
  PROVE  IInv'
<1> USE DEF order, payment, funds, delivery
<1>0. TypeOK /\ OrderInv /\ WorkerKnows(w)
  BY DEF IInv
<1>1. CASE CreateOrder(w)
  <2>1. TypeOK'
    BY <1>0, <1>1
    DEF CreateOrder, TypeOK, Goto, Places, IntentStatuses, RailStatuses,
        BuyStatuses, OnceEvents
  <2>2. OrderInv'
    BY <1>0, <1>1
    DEF CreateOrder, WorkerKnows, At, OrderInv, ReservationFollowsOrder,
        PaidOrdersAreBookedOnce, SentOnlyAfterVerified, SentIsRecorded, Booked,
        PaidStatuses, LinkedStatuses, HoldingStatuses, BuyStatuses, Terminal
  <2>3. Kept
    BY <1>0, <1>1 DEF CreateOrder, Kept, Booked, Terminal
  <2>4. WorkerKnows(w)'
    BY <1>0, <1>1
    DEF CreateOrder, WorkerKnows, At, Goto, TypeOK, Booked, OrderInv, Terminal,
        BuyStatuses, OnceEvents
  <2> QED BY <1>1, <2>1, <2>2, <2>3, <2>4, WorkerStep DEF CreateOrder
<1>2. CASE CreateIntent(w)
  <2>1. TypeOK'
    BY <1>0, <1>2
    DEF CreateIntent, TypeOK, Goto, Places, IntentStatuses, RailStatuses
  <2>2. OrderInv'
    BY <1>0, <1>2
    DEF CreateIntent, WorkerKnows, At, OrderInv, ReservationFollowsOrder,
        PaidOrdersAreBookedOnce, SentOnlyAfterVerified, SentIsRecorded, Booked,
        PaidStatuses, LinkedStatuses, HoldingStatuses, BuyStatuses, Terminal
  <2>3. Kept
    BY <1>0, <1>2 DEF CreateIntent, Kept, Booked, OrderInv,
      PaidOrdersAreBookedOnce
  <2>4. WorkerKnows(w)'
    BY <1>0, <1>2
    DEF CreateIntent, WorkerKnows, At, Goto, TypeOK, Booked, OrderInv, Terminal
  <2> QED BY <1>2, <2>1, <2>2, <2>3, <2>4, WorkerStep DEF CreateIntent
<1>3. CASE LinkIntent(w)
  <2>1. TypeOK'
    BY <1>0, <1>3 DEF LinkIntent, TypeOK, Goto, Places, IntentStatuses, RailStatuses
  <2>2. OrderInv'
    BY <1>0, <1>3
    DEF LinkIntent, WorkerKnows, At, OrderInv, ReservationFollowsOrder,
        PaidOrdersAreBookedOnce, SentOnlyAfterVerified, SentIsRecorded, Booked,
        PaidStatuses, LinkedStatuses, HoldingStatuses, BuyStatuses, Terminal
  <2>3. Kept
    BY <1>0, <1>3 DEF LinkIntent, Kept, Booked, OrderInv,
      PaidOrdersAreBookedOnce
  <2>4. WorkerKnows(w)'
    BY <1>0, <1>3
    DEF LinkIntent, WorkerKnows, At, Goto, TypeOK, Booked, OrderInv, Terminal
  <2> QED BY <1>3, <2>1, <2>2, <2>3, <2>4, WorkerStep DEF LinkIntent
<1>4. CASE Collect(w)
  <2>1. TypeOK'
    BY <1>0, <1>4
    DEF Collect, TypeOK, Goto, Places, IntentStatuses, RailStatuses
  <2>2. OrderInv'
    BY <1>0, <1>4
    DEF Collect, WorkerKnows, At, OrderInv, ReservationFollowsOrder,
        PaidOrdersAreBookedOnce, SentOnlyAfterVerified, SentIsRecorded, Booked,
        PaidStatuses, LinkedStatuses, HoldingStatuses, BuyStatuses, Terminal
  <2>3. Kept
    BY <1>0, <1>4 DEF Collect, Kept, Booked, OrderInv,
      PaidOrdersAreBookedOnce
  <2>4. WorkerKnows(w)'
    BY <1>0, <1>4
    DEF Collect, WorkerKnows, At, Goto, TypeOK, Booked, OrderInv, Terminal
  <2> QED BY <1>4, <2>1, <2>2, <2>3, <2>4, WorkerStep DEF Collect
<1>5. CASE RecordSend(w)
  <2>1. TypeOK'
    BY <1>0, <1>5 DEF RecordSend, TypeOK, Goto, Places, IntentStatuses, RailStatuses
  <2>2. OrderInv'
    BY <1>0, <1>5
    DEF RecordSend, WorkerKnows, At, OrderInv, ReservationFollowsOrder,
        PaidOrdersAreBookedOnce, SentOnlyAfterVerified, SentIsRecorded, Booked,
        PaidStatuses, LinkedStatuses, HoldingStatuses, BuyStatuses, Terminal
  <2>3. Kept
    BY <1>0, <1>5 DEF RecordSend, Kept, Booked, OrderInv,
      PaidOrdersAreBookedOnce
  <2>4. WorkerKnows(w)'
    BY <1>0, <1>5
    DEF RecordSend, WorkerKnows, At, Goto, TypeOK, Booked, OrderInv, Terminal
  <2> QED BY <1>5, <2>1, <2>2, <2>3, <2>4, WorkerStep DEF RecordSend
<1>6. CASE CloseIntent(w)
  <2>1. TypeOK'
    BY <1>0, <1>6
    DEF CloseIntent, TypeOK, Goto, Places, IntentStatuses, RailStatuses
  <2>2. OrderInv'
    BY <1>0, <1>6
    DEF CloseIntent, WorkerKnows, At, OrderInv, ReservationFollowsOrder,
        PaidOrdersAreBookedOnce, SentOnlyAfterVerified, SentIsRecorded, Booked,
        PaidStatuses, LinkedStatuses, HoldingStatuses, BuyStatuses, Terminal
  <2>3. Kept
    BY <1>0, <1>6 DEF CloseIntent, Kept, Booked, OrderInv,
      PaidOrdersAreBookedOnce
  <2>4. WorkerKnows(w)'
    BY <1>0, <1>6
    DEF CloseIntent, WorkerKnows, At, Goto, TypeOK, Booked, OrderInv, Terminal
  <2> QED BY <1>6, <2>1, <2>2, <2>3, <2>4, WorkerStep DEF CloseIntent
<1> QED BY <1>1, <1>2, <1>3, <1>4, <1>5, <1>6

(* What pollIntent and reconcileIntent return sends the worker to a place   *)
(* it has the right to be at.                                               *)
LEMMA PollNext ==
  ASSUME NEW from \in {"poll", "retryPoll"}, NEW p \in IntentStatuses
  PROVE  /\ AfterPoll(from, p) \in
              {"idle", "detect", "detectReview", "detectVerified", "fail", "retry"}
         /\ AfterPoll(from, p) = "detectVerified" => p = "PAYMENT_VERIFIED"
         /\ AfterPoll(from, p) = "retry" =>
              from = "retryPoll" /\ (p = "PAYMENT_VERIFIED" \/ status # "UNDER_REVIEW")
BY DEF AfterPoll, IntentStatuses

LEMMA PollStep ==
  ASSUME IInv, NEW w \in Workers,
         PollIntent(w) \/ RecordAnswer(w) \/ ReconcileIntent(w)
  PROVE  IInv'
<1> USE DEF order, payment, funds, delivery
<1>0. TypeOK /\ OrderInv /\ WorkerKnows(w) /\ status # "NONE"
  BY DEF IInv, PollIntent, RecordAnswer, ReconcileIntent, WorkerKnows, At
<1> DEFINE retryKnows == verified \/ status \in Terminal \cup {"UNDER_REVIEW"}
<1>1. ASSUME NEW next \in Places, Goto(w, next),
             intent' \in IntentStatuses, verified' \in BOOLEAN,
             verified => verified', intent' = "PAYMENT_VERIFIED" => verified',
             UNCHANGED <<order, linked, rail, funds, delivery>>,
             next = "detectVerified" => verified',
             next \in {"retryObserved", "retryReconcile"} => retryKnows,
             next = "retry" => verified' \/ status \in Terminal,
             next \notin {"awaitPayment", "reconcile", "verify", "retryPoll",
                         "processing", "send", "recordSend", "markSent", "complete"}
      PROVE  IInv'
  <2>1. TypeOK'
    BY <1>0, <1>1 DEF TypeOK, Goto
  <2>2. OrderInv'
    BY <1>0, <1>1
    DEF OrderInv, ReservationFollowsOrder, PaidOrdersAreBookedOnce,
        SentOnlyAfterVerified, SentIsRecorded
  <2>3. Kept
    BY <1>0, <1>1 DEF Kept, Booked
  <2>4. WorkerKnows(w)'
    BY <1>0, <1>1 DEF WorkerKnows, At, Goto, TypeOK, Booked
  <2> QED BY <1>1, <2>1, <2>2, <2>3, <2>4, WorkerStep
<1>2. ASSUME NEW from \in {"poll", "retryPoll"}, from = "retryPoll" => retryKnows,
             NEW p \in IntentStatuses, PollReturns(w, from, p), intent' = p,
             verified' = (verified \/ p = "PAYMENT_VERIFIED"),
             UNCHANGED <<order, linked, rail, funds, delivery>>
      PROVE  IInv'
  <2> DEFINE next == AfterPoll(from, p)
  <2>1. /\ next \in {"idle", "detect", "detectReview", "detectVerified", "fail", "retry"}
        /\ next = "detectVerified" => verified'
        /\ next = "retry" => verified' \/ status \in Terminal
    BY <1>2, PollNext
  <2>2. next \in Places
    BY <2>1 DEF Places
  <2>3. Goto(w, next) /\ verified' \in BOOLEAN /\ (verified => verified')
    BY <1>0, <1>2 DEF PollReturns, TypeOK
  <2> HIDE DEF next, retryKnows
  <2> QED BY <1>1, <1>2, <2>1, <2>2, <2>3
<1>3. pc[w] \in {"retryPoll", "retryObserved", "retryReconcile"} => retryKnows
  BY <1>0 DEF WorkerKnows
<1>4. CASE PollIntent(w)
  <2>1. /\ pc[w] \in {"poll", "retryPoll"} /\ (pc[w] = "retryPoll" => retryKnows)
        /\ UNCHANGED <<order, payment, funds, delivery>>
    BY <1>3, <1>4 DEF PollIntent
  <2>2. CASE PollReturns(w, pc[w], intent)
    <3>1. intent \in IntentStatuses /\ (intent = "PAYMENT_VERIFIED" => verified)
      BY <1>0 DEF TypeOK, OrderInv
    <3>2. verified' = (verified \/ intent = "PAYMENT_VERIFIED")
      BY <1>0, <2>1, <3>1 DEF TypeOK
    <3> HIDE DEF retryKnows
    <3> QED BY <1>2, <2>1, <2>2, <3>1, <3>2
  <2>3. ASSUME NEW next \in {"observed", "retryObserved", "reconcileIntent",
                             "retryReconcile"},
               Goto(w, next),
               next \in {"retryObserved", "retryReconcile"} => pc[w] = "retryPoll"
        PROVE  IInv'
    <3>1. next \in Places
      BY <2>3 DEF Places
    <3>2. WorkerKnows(w)'
      BY <1>0, <2>1, <2>3 DEF WorkerKnows, At, Goto, TypeOK
    <3> QED BY <2>1, <2>3, <3>1, <3>2, MoveStep
  <2> QED BY <1>4, <2>1, <2>2, <2>3 DEF PollIntent
<1>5. CASE RecordAnswer(w)
  <2> DEFINE from == IF pc[w] = "retryObserved" THEN "retryPoll" ELSE "poll"
             next == IF pc[w] = "retryObserved" THEN "retryReconcile" ELSE "reconcileIntent"
  <2>1. /\ from \in {"poll", "retryPoll"} /\ (from = "retryPoll" => retryKnows)
        /\ next \in {"retryReconcile", "reconcileIntent"}
        /\ next = "retryReconcile" => retryKnows
        /\ UNCHANGED <<order, linked, rail, verified, funds, delivery>>
    BY <1>3, <1>5 DEF RecordAnswer
  <2>2. verified' \in BOOLEAN /\ next \in Places
    BY <1>0, <2>1 DEF TypeOK, Places
  <2>3. CASE intent' = "PAYMENT_REJECTED" /\ PollReturns(w, from, "PAYMENT_REJECTED")
    <3> HIDE DEF from, retryKnows
    <3>1. verified' = (verified \/ "PAYMENT_REJECTED" = "PAYMENT_VERIFIED")
      BY <1>0, <2>1 DEF TypeOK
    <3> QED BY <1>2, <2>1, <2>3, <3>1 DEF IntentStatuses
  <2>4. CASE intent' = "PAYMENT_DETECTED" /\ Goto(w, next)
    <3> HIDE DEF next, retryKnows
    <3> QED BY <1>1, <2>1, <2>2, <2>4 DEF IntentStatuses
  <2> QED BY <1>5, <2>3, <2>4 DEF RecordAnswer
<1>6. CASE ReconcileIntent(w)
  <2> DEFINE from == IF pc[w] = "retryReconcile" THEN "retryPoll" ELSE "poll"
  <2>1. from \in {"poll", "retryPoll"} /\ (from = "retryPoll" => retryKnows)
    BY <1>3
  <2>2. PICK result \in {"PAYMENT_VERIFIED", "UNDER_REVIEW"} :
          /\ intent' = result /\ verified' = (verified \/ result = "PAYMENT_VERIFIED")
          /\ PollReturns(w, from, result)
    BY <1>6 DEF ReconcileIntent
  <2>3. result \in IntentStatuses /\ UNCHANGED <<order, linked, rail, funds, delivery>>
    BY <1>6, <2>2 DEF ReconcileIntent, IntentStatuses
  <2> HIDE DEF from, retryKnows
  <2> QED BY <1>2, <2>1, <2>2, <2>3
<1> QED BY <1>4, <1>5, <1>6

(* chain.sendUsdt: only a booked order gets there.                          *)
LEMMA SendUsdtStep ==
  ASSUME IInv, NEW w \in Workers, SendUsdt(w)
  PROVE  IInv'
<1> USE DEF order, payment, funds
<1>1. TypeOK /\ OrderInv /\ Booked /\ status # "NONE"
  BY DEF IInv, SendUsdt, WorkerKnows, At
<1>2. PICK next \in {"recordSend", "reviewSend"} : Goto(w, next)
  BY DEF SendUsdt
<1>3. /\ UNCHANGED <<order, payment, funds, recorded>>
      /\ chain' = chain \/ (chain = "NONE" /\ chain' = "PENDING")
      /\ newestFailed' \in BOOLEAN
      /\ next = "recordSend" => chain' # "NONE"
  <2>1. pc[w] # pc'[w] /\ pc'[w] = next
    BY <1>1, <1>2 DEF SendUsdt, At, Goto, TypeOK
  <2>2. CASE Goto(w, "recordSend") /\ chain' = IF chain = "NONE" THEN "PENDING" ELSE chain
    BY <1>1, <2>2 DEF SendUsdt, TypeOK
  <2>3. CASE Goto(w, "reviewSend") /\ newestFailed' = TRUE /\ UNCHANGED chain
    BY <1>1, <2>1, <2>3 DEF SendUsdt, TypeOK, Goto
  <2> QED BY <2>2, <2>3 DEF SendUsdt
<1>4. TypeOK'
  BY <1>1, <1>2, <1>3 DEF TypeOK, Goto, Places
<1>5. OrderInv'
  BY <1>1, <1>3
  DEF OrderInv, ReservationFollowsOrder, PaidOrdersAreBookedOnce, Booked,
      SentOnlyAfterVerified, SentIsRecorded
<1>6. Kept
  BY <1>1, <1>3 DEF Kept, Booked
<1>7. WorkerKnows(w)'
  BY <1>1, <1>2, <1>3 DEF WorkerKnows, At, Goto, TypeOK
<1> QED BY <1>2, <1>4, <1>5, <1>6, <1>7, WorkerStep

(* resolveReview: reading the order, then RETRY.                            *)
LEMMA ResolveStep ==
  ASSUME IInv, NEW w \in Workers, ResolveReview(w) \/ RetryReview(w)
  PROVE  IInv'
<1> USE DEF order, payment, funds, delivery
<1>0. TypeOK /\ OrderInv /\ WorkerKnows(w)
  BY DEF IInv
<1>1. CASE ResolveReview(w)
  <2>1. linked
    BY <1>0, <1>1
    DEF ResolveReview, OrderInv, LinkedStatuses, BuyStatuses, Terminal
  <2>2. PICK next \in {"retryPoll", "complete", "failReview", "cancelReview"} :
          Goto(w, next) /\ (next = "complete" => recorded)
    BY <1>1, <2>1 DEF ResolveReview
  <2>3. UNCHANGED <<order, payment, funds, delivery>> /\ status = "UNDER_REVIEW"
    BY <1>1 DEF ResolveReview
  <2>4. WorkerKnows(w)'
    BY <1>0, <2>2, <2>3 DEF WorkerKnows, At, Goto, TypeOK
  <2>5. next \in Places
    BY <2>2 DEF Places
  <2> QED BY <2>2, <2>3, <2>4, <2>5, MoveStep
<1>2. CASE RetryReview(w)
  <2>1. /\ pc[w] = "retry" /\ status \in BuyStatuses
        /\ verified \/ status \in Terminal
    BY <1>0, <1>2 DEF RetryReview, WorkerKnows, At, TypeOK
  <2>2. CASE UNCHANGED <<status, funds>> /\ (Goto(w, "drive") \/ Goto(w, "idle"))
    <3>1. PICK next \in {"drive", "idle"} : Goto(w, next)
      BY <2>2
    <3>2. UNCHANGED <<order, payment, funds, delivery>>
      BY <1>2, <2>2 DEF RetryReview
    <3>3. WorkerKnows(w)'
      BY <1>0, <2>1, <3>1, <3>2 DEF WorkerKnows, At, Goto, TypeOK, Terminal
    <3>4. next \in Places
      BY <3>1 DEF Places
    <3> QED BY <3>1, <3>2, <3>3, <3>4, MoveStep
  <2>3. CASE /\ Can(BuyTransitions, status, "PAYMENT_VERIFIED")
             /\ status' = "PAYMENT_VERIFIED" /\ CreditPayment /\ Goto(w, "drive")
    <3>1. /\ status \in {"PAYMENT_RECONCILING", "UNDER_REVIEW"} /\ verified
          /\ UNCHANGED <<events, payment, delivery>>
      BY <1>2, <2>1, <2>3, Sources DEF RetryReview, BuyStatuses, Terminal
    <3>2. credits' = 1 /\ UNCHANGED reservation
      BY <1>0, <2>3 DEF OrderInv, PaidOrdersAreBookedOnce, CreditPayment
    <3>3. TypeOK'
      BY <1>0, <2>3, <3>1, <3>2 DEF TypeOK, Goto, Places, BuyStatuses
    <3>4. OrderInv'
      BY <1>0, <2>3, <3>1, <3>2
      DEF OrderInv, ReservationFollowsOrder, PaidOrdersAreBookedOnce,
          SentOnlyAfterVerified, SentIsRecorded, PaidStatuses, LinkedStatuses,
          HoldingStatuses, BuyStatuses, Terminal
    <3>5. Kept
      BY <2>3, <3>1, <3>2 DEF Kept, Booked, Terminal
    <3>6. WorkerKnows(w)'
      BY <1>0, <2>3 DEF WorkerKnows, At, Goto, TypeOK
    <3> QED BY <2>3, <3>3, <3>4, <3>5, <3>6, WorkerStep
  <2> QED BY <1>2, <2>2, <2>3 DEF RetryReview
<1> QED BY <1>1, <1>2

(* The steps that move no worker: an operator, the rail, the chain.         *)
LEMMA OutsideStep ==
  ASSUME IInv,
         \/ \E to \in AdminTargets : AdminTransition(to)
         \/ \E decision \in AdminDecisions : AdminResolveIntent(decision)
         \/ RailAnswers \/ WindowElapses \/ ChainAnswers \/ UNCHANGED vars
  PROVE  IInv'
<1> USE DEF order, payment, funds, delivery
<1>0. TypeOK /\ OrderInv
  BY DEF IInv
<1>1. ASSUME TypeOK', OrderInv', Kept, UNCHANGED pc PROVE IInv'
  BY <1>1, KnowledgeKept DEF IInv
<1>2. ASSUME NEW to \in AdminTargets, AdminTransition(to) PROVE IInv'
  <2>1. /\ status \in BuyStatuses /\ Can(BuyTransitions, status, to) /\ status' = to
        /\ UNCHANGED <<payment, delivery, credits, pc>>
        /\ \/ to = "UNDER_REVIEW" /\ UNCHANGED reservation
           \/ /\ to \in {"FAILED", "CANCELLED"}
              /\ reservation' = IF reservation = "HELD" THEN "RELEASED" ELSE reservation
    BY <1>0, <1>2
    DEF AdminTransition, AdminTargets, NoEffect, ReleaseHeld, A!Applies, A!Record,
        Can, A!Can, TypeOK
  <2>2. status \notin Terminal /\ (to = "UNDER_REVIEW" => status \in LinkedStatuses)
    BY <2>1, Sources
  <2>3. events' \subseteq OnceEvents
    BY <1>0, <1>2 DEF AdminTransition, A!Record, TypeOK, OnceEvents
  <2>4. TypeOK'
    BY <1>0, <2>1, <2>3 DEF TypeOK, BuyStatuses, Terminal
  <2>5. OrderInv'
    BY <1>0, <2>1, <2>2
    DEF OrderInv, ReservationFollowsOrder, PaidOrdersAreBookedOnce,
        SentOnlyAfterVerified, SentIsRecorded, PaidStatuses, LinkedStatuses,
        HoldingStatuses, BuyStatuses, Terminal
  <2>6. Kept
    BY <1>0, <2>1, <2>2 DEF Kept, Booked, Terminal, BuyStatuses
  <2> QED BY <1>1, <2>1, <2>4, <2>5, <2>6
<1>3. ASSUME NEW decision \in AdminDecisions, AdminResolveIntent(decision) PROVE IInv'
  <2>1. TypeOK'
    BY <1>0, <1>3 DEF AdminResolveIntent, AdminDecisions, TypeOK, IntentStatuses
  <2>2. OrderInv' /\ Kept /\ UNCHANGED pc
    BY <1>0, <1>3
    DEF AdminResolveIntent, AdminDecisions, OrderInv, Kept, Booked,
        ReservationFollowsOrder, PaidOrdersAreBookedOnce, SentOnlyAfterVerified,
        SentIsRecorded, TypeOK
  <2> QED BY <1>1, <2>1, <2>2
<1>4. CASE RailAnswers \/ WindowElapses \/ ChainAnswers \/ UNCHANGED vars
  <2>1. TypeOK'
    BY <1>0, <1>4 DEF RailAnswers, WindowElapses, ChainAnswers, vars, TypeOK, RailStatuses
  <2>2. OrderInv' /\ Kept /\ UNCHANGED pc
    BY <1>0, <1>4
    DEF RailAnswers, WindowElapses, ChainAnswers, vars, OrderInv, Kept, Booked,
        ReservationFollowsOrder, PaidOrdersAreBookedOnce, SentOnlyAfterVerified,
        SentIsRecorded, TypeOK
  <2> QED BY <1>1, <2>1, <2>2
<1> QED BY <1>2, <1>3, <1>4

LEMMA NextIInv == IInv /\ [Next]_vars => IInv'
<1> SUFFICES ASSUME IInv, [Next]_vars PROVE IInv'
    OBVIOUS
<1>1. ASSUME NEW w \in Workers, Continue(w) PROVE IInv'
  <2>1. CASE \/ LockQuote(w) \/ ReserveUsdt(w) \/ AwaitPayment(w) \/ PaymentVerified(w)
             \/ UsdtProcessing(w) \/ MarkSent(w) \/ CompleteBuy(w)
             \/ PaymentDetected(w) \/ PaymentReconciling(w)
    BY <2>1, LockQuoteStep, ReserveUsdtStep, AwaitPaymentStep, PaymentVerifiedStep,
       UsdtProcessingStep, MarkSentStep, CompleteBuyStep, DetectStep
  <2>2. CASE \/ ReserveRefused(w) \/ ReadOrder(w) \/ LookupWithdrawal(w)
             \/ ConfirmOnChain(w) \/ CompleteRefused(w) \/ Requeue(w)
             \/ StartCollection(w) \/ ExpireIntent(w)
    BY <2>2, ReadStep
  <2>3. CASE \/ CreateIntent(w) \/ LinkIntent(w) \/ Collect(w) \/ RecordSend(w)
             \/ CloseIntent(w)
    BY <2>3, WriteStep
  <2>4. CASE \/ PollIntent(w) \/ RecordAnswer(w) \/ ReconcileIntent(w) \/ SendUsdt(w)
             \/ RetryReview(w)
    BY <2>4, PollStep, SendUsdtStep, ResolveStep
  <2>5. CASE PaymentReview(w) \/ ReviewSend(w) \/ OnchainFailed(w) \/ FlagForReview(w)
    BY <2>5, ReviewStep
    DEF PaymentReview, ReviewSend, OnchainFailed, FlagForReview, OnceEvents, At
  <2>6. CASE FailBuy(w) \/ ExpireOrder(w) \/ FailReview(w) \/ CancelReview(w)
    BY <2>6, ReleaseStep
    DEF FailBuy, ExpireOrder, FailReview, CancelReview, OnceEvents, At
  <2> QED BY <1>1, <2>1, <2>2, <2>3, <2>4, <2>5, <2>6 DEF Continue
<1>2. ASSUME NEW w \in Workers,
             CreateOrder(w) \/ Drive(w) \/ Expire(w) \/ ResolveReview(w) \/ Interrupt(w)
      PROVE  IInv'
  BY <1>2, WriteStep, ReadStep, ResolveStep
<1> QED BY <1>1, <1>2, OutsideStep DEF Next

-----------------------------------------------------------------------------

(* IInv holds in every reachable state, whatever the workers do.            *)
THEOREM OrderInvariant == Spec => []IInv
BY InitIInv, NextIInv, PTL DEF Spec

(* TypeOK: the order, its intent and its workers are always well formed.    *)
THEOREM TypeCorrect == Spec => []TypeOK
<1>1. IInv => TypeOK
  BY DEF IInv
<1> QED BY <1>1, OrderInvariant, PTL

(* ReservationFollowsOrder: USDT is set aside exactly while the order can   *)
(* need it, and spent exactly by the orders that complete.                  *)
THEOREM ReservationSafe == Spec => []ReservationFollowsOrder
<1>1. IInv => ReservationFollowsOrder
  BY DEF IInv, OrderInv
<1> QED BY <1>1, OrderInvariant, PTL

(* PaidOrdersAreBookedOnce: an order past PAYMENT_VERIFIED has a verified   *)
(* payment, and the treasury received its GNF once.                         *)
THEOREM BookedOnce == Spec => []PaidOrdersAreBookedOnce
<1>1. IInv => PaidOrdersAreBookedOnce
  BY DEF IInv, OrderInv
<1> QED BY <1>1, OrderInvariant, PTL

(* SentOnlyAfterVerified: USDT leaves only for a verified, booked payment.  *)
THEOREM NothingSentUnpaid == Spec => []SentOnlyAfterVerified
<1>1. IInv => SentOnlyAfterVerified
  BY DEF IInv, OrderInv
<1> QED BY <1>1, OrderInvariant, PTL

(* SentIsRecorded: USDT_SENT and COMPLETED orders have a withdrawal row and *)
(* a transaction on the chain.                                              *)
THEOREM SentRecorded == Spec => []SentIsRecorded
<1>1. IInv => SentIsRecorded
  BY DEF IInv, OrderInv
<1> QED BY <1>1, OrderInvariant, PTL

-----------------------------------------------------------------------------
(* BuyOrder implements BuyPromise: every step of the order is a step of the *)
(* promise about money or leaves it alone.                                  *)

(* The state of the promise, read in BuyOrder's variables: the only changes *)
(* of reservation, credits and chain the promise allows.                    *)
Stays == reservation' = reservation /\ credits' = credits /\ (chain' = "NONE" <=> chain = "NONE")

LEMMA StaysStutters ==
  ASSUME Stays, TypeOK, TypeOK'
  PROVE  UNCHANGED P!promise
BY DEF Stays, P!promise, Coin, TypeOK

LEMMA StaysKeeps ==
  ASSUME Stays, TypeOK, TypeOK'
  PROVE  [P!Promised]_(P!promise)
BY StaysStutters

(* The five steps that move money, each from the part of the invariant that *)
(* makes it a step of the promise.                                          *)
LEMMA HoldKeeps ==
  ASSUME IInv, NEW w \in Workers, ReserveUsdt(w), TypeOK'
  PROVE  [P!Promised]_(P!promise)
<1>1. status \in BuyStatuses /\ TypeOK /\ OrderInv
  BY OrderExists DEF ReserveUsdt, At
<1>2. UNCHANGED chain
  BY DEF ReserveUsdt, ApplyThen, delivery
<1>3. CASE status = "QUOTE_LOCKED" /\ reservation' = "HELD" /\ UNCHANGED credits
  <2>1. reservation = "NONE"
    BY <1>1, <1>3
    DEF TypeOK, OrderInv, ReservationFollowsOrder, HoldingStatuses, BuyStatuses,
        Terminal
  <2> QED BY <1>2, <1>3, <2>1 DEF P!Promised, P!Hold, Coin
<1>4. CASE UNCHANGED <<reservation, credits>>
  BY <1>1, <1>2, <1>4, StaysKeeps DEF Stays
<1> QED
  BY <1>1, <1>3, <1>4, Sources
  DEF ReserveUsdt, ApplyThen, HoldUsdt, funds, A!Applies, A!Can, Can

LEMMA ReleaseKeeps ==
  ASSUME IInv, ReleaseHeld, UNCHANGED chain, TypeOK'
  PROVE  [P!Promised]_(P!promise)
<1>1. TypeOK
  BY DEF IInv
<1>2. CASE reservation = "HELD"
  BY <1>2 DEF ReleaseHeld, P!Promised, P!Return, Coin
<1>3. CASE reservation # "HELD"
  BY <1>1, <1>3, StaysKeeps DEF ReleaseHeld, Stays
<1> QED BY <1>2, <1>3

LEMMA PayKeeps ==
  ASSUME IInv, status \in {"PAYMENT_RECONCILING", "UNDER_REVIEW"}, CreditPayment,
         UNCHANGED chain, TypeOK'
  PROVE  [P!Promised]_(P!promise)
<1>1. TypeOK /\ OrderInv
  BY DEF IInv
<1>2. reservation = "HELD" /\ reservation' = "HELD"
  BY <1>1
  DEF CreditPayment, OrderInv, ReservationFollowsOrder, HoldingStatuses,
      BuyStatuses,
      Terminal
<1>3. CASE credits = 0
  <2>1. credits' = 1
    BY <1>3 DEF CreditPayment
  <2> QED BY <1>2, <1>3, <2>1 DEF P!Promised, P!Pay, Coin
<1>4. CASE credits # 0
  BY <1>1, <1>4, StaysKeeps DEF CreditPayment, Stays
<1> QED BY <1>3, <1>4

LEMMA DeliverKeeps ==
  ASSUME IInv, NEW w \in Workers, SendUsdt(w), TypeOK'
  PROVE  [P!Promised]_(P!promise)
<1>1. TypeOK /\ credits = 1 /\ UNCHANGED <<reservation, credits>>
  BY DEF IInv, SendUsdt, WorkerKnows, At, Booked, funds
<1>2. CASE chain = "NONE" /\ chain' = "PENDING"
  BY <1>1, <1>2 DEF P!Promised, P!Deliver, Coin
<1>3. CASE chain' = chain
  BY <1>1, <1>3, StaysKeeps DEF Stays
<1> QED BY <1>2, <1>3 DEF SendUsdt

LEMMA SpendKeeps ==
  ASSUME IInv, NEW w \in Workers, CompleteBuy(w), TypeOK'
  PROVE  [P!Promised]_(P!promise)
<1>1. /\ TypeOK /\ OrderInv /\ chain # "NONE" /\ credits = 1 /\ UNCHANGED chain
  BY DEF IInv, CompleteBuy, ApplyThen, delivery, WorkerKnows, At, OrderInv,
         SentOnlyAfterVerified
<1>2. CASE reservation = "HELD" /\ ConsumeHeld
  BY <1>1, <1>2 DEF ConsumeHeld, P!Promised, P!Spend, Coin
<1>3. CASE UNCHANGED <<reservation, credits>>
  BY <1>1, <1>3, StaysKeeps DEF Stays
<1> QED
  BY <1>2, <1>3 DEF CompleteBuy, ApplyThen, ConsumeHeld, funds

(* The apply() of a step that moves no money or gives the USDT back.        *)
LEMMA ApplyKeeps ==
  ASSUME IInv, NEW w \in Workers, NEW event, NEW to, NEW next, TypeOK',
         \/ ApplyThen(w, event, to, NoEffect, next)
         \/ ApplyThen(w, event, to, ReleaseHeld, next)
  PROVE  [P!Promised]_(P!promise)
<1>1. TypeOK
  BY DEF IInv
<1>2. UNCHANGED chain
  BY DEF ApplyThen, delivery
<1>3. CASE UNCHANGED <<reservation, credits>>
  BY <1>1, <1>2, <1>3, StaysKeeps DEF Stays
<1>4. CASE ReleaseHeld
  BY <1>2, <1>4, ReleaseKeeps
<1> QED BY <1>3, <1>4 DEF ApplyThen, NoEffect, funds

LEMMA ContinueKeeps ==
  ASSUME IInv, TypeOK', NEW w \in Workers, Continue(w)
  PROVE  [P!Promised]_(P!promise)
<1>0. TypeOK
  BY DEF IInv
<1>1. CASE ReserveUsdt(w) \/ SendUsdt(w) \/ CompleteBuy(w)
  BY <1>1, HoldKeeps, DeliverKeeps, SpendKeeps
<1>2. CASE PaymentVerified(w)
  <2>1. status \in BuyStatuses
    BY <1>2, OrderExists DEF PaymentVerified, At
  <2>2. UNCHANGED chain
    BY <1>2 DEF PaymentVerified, ApplyThen, delivery
  <2>3. CASE UNCHANGED funds
    BY <1>0, <2>2, <2>3, StaysKeeps DEF Stays, funds
  <2>4. CASE A!Applies("payment-verified", "PAYMENT_VERIFIED") /\ CreditPayment
    BY <2>1, <2>2, <2>4, Sources, PayKeeps DEF A!Applies, A!Can, Can
  <2> QED BY <1>2, <2>3, <2>4 DEF PaymentVerified, ApplyThen
<1>3. CASE RetryReview(w)
  <2>1. status \in BuyStatuses
    BY <1>3, OrderExists DEF RetryReview, At
  <2>2. UNCHANGED chain
    BY <1>3 DEF RetryReview, delivery
  <2>3. CASE UNCHANGED funds
    BY <1>0, <2>2, <2>3, StaysKeeps DEF Stays, funds
  <2>4. CASE Can(BuyTransitions, status, "PAYMENT_VERIFIED") /\ CreditPayment
    BY <2>1, <2>2, <2>4, Sources, PayKeeps
  <2> QED BY <1>3, <2>3, <2>4 DEF RetryReview
<1>4. CASE \/ LockQuote(w) \/ AwaitPayment(w) \/ PaymentReview(w) \/ UsdtProcessing(w)
           \/ ReviewSend(w) \/ MarkSent(w) \/ OnchainFailed(w) \/ FlagForReview(w)
           \/ FailBuy(w) \/ ExpireOrder(w) \/ FailReview(w) \/ CancelReview(w)
  BY <1>4, ApplyKeeps
  DEF LockQuote, AwaitPayment, PaymentReview, UsdtProcessing, ReviewSend, MarkSent,
      OnchainFailed, FlagForReview, FailBuy, ExpireOrder, FailReview, CancelReview
<1>5. CASE PaymentDetected(w) \/ PaymentReconciling(w)
  <2>1. Stays
    BY <1>5
    DEF PaymentDetected, PaymentReconciling, ApplyThen, NoEffect, Stays, funds,
                delivery
  <2> QED BY <1>0, <2>1, StaysKeeps
<1>6. CASE \/ ReserveRefused(w) \/ CreateIntent(w) \/ LinkIntent(w) \/ StartCollection(w)
           \/ Collect(w) \/ RecordAnswer(w) \/ CloseIntent(w) \/ PollIntent(w) \/ ReconcileIntent(w) \/ ReadOrder(w) \/ LookupWithdrawal(w)
           \/ RecordSend(w) \/ ConfirmOnChain(w) \/ CompleteRefused(w) \/ Requeue(w)
           \/ ExpireIntent(w)
  <2>1. Stays
    BY <1>6
    DEF ReserveRefused, CreateIntent, LinkIntent, StartCollection, PollIntent,
        Collect, RecordAnswer, CloseIntent,
        ReconcileIntent, ReadOrder, LookupWithdrawal, RecordSend, ConfirmOnChain,
        CompleteRefused, Requeue, ExpireIntent, Stays, funds, delivery
  <2> QED BY <1>0, <2>1, StaysKeeps
<1> QED BY <1>1, <1>2, <1>3, <1>4, <1>5, <1>6 DEF Continue

LEMMA StepKeeps ==
  ASSUME IInv, TypeOK', [Next]_vars
  PROVE  [P!Promised]_(P!promise)
<1>0. TypeOK
  BY DEF IInv
<1>1. ASSUME NEW w \in Workers, Continue(w) PROVE [P!Promised]_(P!promise)
  BY <1>1, ContinueKeeps
<1>2. ASSUME NEW w \in Workers,
             CreateOrder(w) \/ Drive(w) \/ Expire(w) \/ ResolveReview(w) \/ Interrupt(w)
      PROVE  [P!Promised]_(P!promise)
  <2>1. Stays
    BY <1>2
    DEF CreateOrder, Drive, Expire, ResolveReview, Interrupt, Stays, funds, delivery
  <2> QED BY <1>0, <2>1, StaysKeeps
<1>3. ASSUME NEW to \in AdminTargets, AdminTransition(to) PROVE [P!Promised]_(P!promise)
  <2>1. UNCHANGED chain /\ (NoEffect \/ ReleaseHeld)
    BY <1>3 DEF AdminTransition, delivery
  <2>2. CASE NoEffect
    BY <1>0, <2>1, <2>2, StaysKeeps DEF NoEffect, Stays, funds
  <2> QED BY <2>1, <2>2, ReleaseKeeps
<1>4. CASE \/ \E decision \in AdminDecisions : AdminResolveIntent(decision)
           \/ RailAnswers \/ WindowElapses \/ ChainAnswers \/ UNCHANGED vars
  <2>1. Stays
    BY <1>0, <1>4
    DEF AdminResolveIntent, RailAnswers, WindowElapses, ChainAnswers, vars, Stays, funds, delivery,
        TypeOK
  <2> QED BY <1>0, <2>1, StaysKeeps
<1> QED BY <1>1, <1>2, <1>3, <1>4 DEF Next

-----------------------------------------------------------------------------

(* KeepsPromise: whatever the workers, the operators, the rail and the      *)
(* chain do, a buy order's money moves only as BuyPromise says.             *)
THEOREM PromiseKept == Spec => KeepsPromise
<1>1. Init => P!Open
  BY DEF Init, P!Open, Coin
<1>2. IInv /\ IInv' /\ [Next]_vars => [P!Promised]_(P!promise)
  BY StepKeeps DEF IInv
<1> QED
  BY <1>1, <1>2, OrderInvariant, PTL DEF Spec, KeepsPromise, P!Promise
=============================================================================
