-------------------------- MODULE CryptoOrderApply --------------------------
(***************************************************************************)
(* CryptoService.apply: the one way a crypto order changes status.  It     *)
(* runs in a transaction that holds the order row FOR UPDATE, so a use of  *)
(* these operators is one atomic step.  Its three outcomes are             *)
(*   Skips    the order already has an event row (event, toStatus), or is  *)
(*            already in toStatus: the current order is returned, nothing  *)
(*            changes and the caller cannot tell;                          *)
(*   Applies  the table allows the step: status and event row are written; *)
(*   Refuses  InvalidTransitionError: the transaction rolls back.          *)
(* An event name always goes with one toStatus in the code, so a row is    *)
(* identified by the name alone.                                           *)
(***************************************************************************)
EXTENDS CryptoOrderState

CONSTANT Table      \* BuyTransitions or SellTransitions: tableFor(side)

VARIABLES
  status,           \* CryptoOrder.status, "NONE" before the order exists
  events            \* names of the CryptoOrderEvent rows of the order

Skips(event, to)   == event \in events \/ status = to
Applies(event, to) == ~Skips(event, to) /\ Can(Table, status, to)
Refuses(event, to) == ~Skips(event, to) /\ ~Can(Table, status, to)

Record(event, to) == status' = to /\ events' = events \cup {event}
=============================================================================
