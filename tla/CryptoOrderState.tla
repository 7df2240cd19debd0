-------------------------- MODULE CryptoOrderState --------------------------
(***************************************************************************)
(* The two transition tables of the exchange                               *)
(* (apps/api/src/modules/crypto/crypto-order.state.ts) and the generic     *)
(* TransitionTable that enforces them.  Constant level: BuyOrder and       *)
(* SellOrder read it.                                                      *)
(***************************************************************************)

Terminal == {"COMPLETED", "FAILED", "EXPIRED", "CANCELLED", "REFUNDED"}

BuyStatuses ==
  {"CREATED", "QUOTE_LOCKED", "USDT_RESERVED", "AWAITING_PAYMENT",
   "PAYMENT_DETECTED", "PAYMENT_RECONCILING", "PAYMENT_VERIFIED",
   "USDT_PROCESSING", "USDT_SENT", "UNDER_REVIEW"} \cup Terminal

SellStatuses ==
  {"CREATED", "QUOTE_LOCKED", "AWAITING_CRYPTO", "CRYPTO_DETECTED",
   "CONFIRMING", "CRYPTO_CONFIRMED", "GNF_RESERVED", "PAYOUT_PENDING",
   "PAYOUT_PROCESSING", "UNDER_REVIEW"} \cup Terminal

BuyTransitions ==
  [ CREATED             |-> {"QUOTE_LOCKED", "CANCELLED", "EXPIRED"},
    QUOTE_LOCKED        |-> {"USDT_RESERVED", "CANCELLED", "EXPIRED"},
    USDT_RESERVED       |-> {"AWAITING_PAYMENT", "CANCELLED", "EXPIRED"},
    AWAITING_PAYMENT    |-> {"PAYMENT_DETECTED", "CANCELLED", "EXPIRED",
                             "FAILED", "UNDER_REVIEW"},
    PAYMENT_DETECTED    |-> {"PAYMENT_RECONCILING", "FAILED", "UNDER_REVIEW"},
    PAYMENT_RECONCILING |-> {"PAYMENT_VERIFIED", "UNDER_REVIEW", "FAILED"},
    PAYMENT_VERIFIED    |-> {"USDT_PROCESSING", "UNDER_REVIEW"},
    USDT_PROCESSING     |-> {"USDT_SENT", "FAILED", "UNDER_REVIEW"},
    USDT_SENT           |-> {"COMPLETED", "UNDER_REVIEW"},
    UNDER_REVIEW        |-> {"USDT_PROCESSING", "PAYMENT_VERIFIED", "COMPLETED",
                             "FAILED", "CANCELLED", "REFUNDED"},
    COMPLETED |-> {}, FAILED |-> {}, EXPIRED |-> {}, CANCELLED |-> {},
    REFUNDED |-> {} ]

SellTransitions ==
  [ CREATED           |-> {"QUOTE_LOCKED", "CANCELLED", "EXPIRED"},
    QUOTE_LOCKED      |-> {"AWAITING_CRYPTO", "CANCELLED", "EXPIRED"},
    AWAITING_CRYPTO   |-> {"CRYPTO_DETECTED", "EXPIRED", "CANCELLED", "UNDER_REVIEW"},
    CRYPTO_DETECTED   |-> {"CONFIRMING", "UNDER_REVIEW", "FAILED"},
    CONFIRMING        |-> {"CRYPTO_CONFIRMED", "UNDER_REVIEW", "FAILED"},
    CRYPTO_CONFIRMED  |-> {"GNF_RESERVED", "UNDER_REVIEW"},
    GNF_RESERVED      |-> {"PAYOUT_PENDING", "UNDER_REVIEW"},
    PAYOUT_PENDING    |-> {"PAYOUT_PROCESSING", "UNDER_REVIEW", "FAILED"},
    PAYOUT_PROCESSING |-> {"COMPLETED", "UNDER_REVIEW", "FAILED"},
    UNDER_REVIEW      |-> {"GNF_RESERVED", "PAYOUT_PENDING", "COMPLETED",
                           "FAILED", "CANCELLED", "REFUNDED"},
    COMPLETED |-> {}, FAILED |-> {}, EXPIRED |-> {}, CANCELLED |-> {},
    REFUNDED |-> {} ]

(* TransitionTable.can(from, to), and the table's own notion of terminal.   *)
Can(table, from, to) == to \in table[from]
=============================================================================
