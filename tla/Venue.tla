-------------------------------- MODULE Venue --------------------------------
(***************************************************************************)
(* From an account to a gate: accounts become organizers, whose events are *)
(* published, sold (BoxOffice) and entered.                                *)
(***************************************************************************)
EXTENDS Events, Gate

CONSTANT Here         \* the event whose gates are modelled

ASSUME VenueAssumption == Here \in EventRows

VARIABLE phones       \* the phones have Here in their list of events

venueVars == <<accountsVars, eventsVars, gateVars, phones>>

VenueInit == AccountsInit /\ EventsInit /\ GateInit /\ phones = FALSE

(* scannerEvents, when the page opens: the events that are published then; *)
(* the page does not ask again.                                            *)
OpenPhones ==
  /\ event[Here].status = "PUBLISHED" /\ ~phones
  /\ phones' = TRUE
  /\ UNCHANGED <<accountsVars, eventsVars, gateVars>>

(* A ticket is of an order made while its event was published.             *)
Sell(t) ==
  /\ reviewed[Here] # NotSeen /\ Issue(t)
  /\ UNCHANGED <<accountsVars, eventsVars, phones>>

Block(t) == Withdraw(t) /\ UNCHANGED <<accountsVars, eventsVars, phones>>

AtGate(s) ==
  /\ phones /\ Scanning(s)
  /\ UNCHANGED <<accountsVars, eventsVars, phones>>

(* What operators decide about events counts against their bound as well.  *)
Publish(e, status) ==
  /\ SetStatus(e, status) /\ Decided
  /\ UNCHANGED <<user, record, call, standing, overtaken, gateVars, phones>>

VenueNext ==
  \/ AccountsNext /\ UNCHANGED <<eventsVars, gateVars, phones>>
  \/ /\ OrganizerNext \/ \E e \in EventRows : Look(e)
     /\ UNCHANGED <<accountsVars, gateVars, phones>>
  \/ \E e \in EventRows, status \in Statuses : Publish(e, status)
  \/ OpenPhones
  \/ \E t \in Tickets : Sell(t) \/ Block(t)
  \/ \E s \in Scans : AtGate(s)

VenueSpec == VenueInit /\ [][VenueNext]_venueVars
=============================================================================
