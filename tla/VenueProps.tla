----------------------------- MODULE VenueProps -----------------------------
(* What accounts, events and gates promise.                                *)
EXTENDS Venue

VenueTypeOK ==
  /\ user \in [Users -> [Fields -> STRING]]
  /\ record \in [Users -> Verdicts \cup {"NONE", "UNVERIFIED"}]
  /\ organizer \in [Users -> Standings \cup {"NONE"}]
  /\ ticket \in [Tickets -> {"NONE", "VALID", "USED", "BLOCKED"}]
  /\ entries \in [Tickets -> Nat] /\ admitted \in [Tickets -> Nat]

(* What operators decided about a customer stands until they decide again: *)
(* a suspended or closed account is not opened, and a verified identity is *)
(* not sent back to review, by what the customer does, unless a submission *)
(* had been let in before the decision (kyc.service.ts submit writes the   *)
(* record and the account blindly).                                        *)
ByOperator(u) ==
  \/ \E verdict \in Verdicts : Review(u, verdict)
  \/ \E change \in Changes : AdminUpdate(u, change)

DecisionStands ==
  [][\A u \in Users :
       \/ user[u].status \in Shut /\ user'[u].status \notin Shut
       \/ record[u] = "VERIFIED" /\ record'[u] # "VERIFIED"
       => ByOperator(u) \/ u \in overtaken]_venueVars

(* A published event keeps all that the operator saw of it, and an edit    *)
(* they did not see is in it only if it was already written, or had already*)
(* read the event as not yet published, when they published it: none is    *)
(* begun later. Ticket types are not covered by this: organizers add them  *)
(* whenever they like, the operator sees them or not (events.service.ts    *)
(* updateEvent, addTicketType, setStatus).                                 *)
PublishedAsReviewed ==
  \A e \in EventRows :
    event[e].status = "PUBLISHED" =>
      /\ reviewed[e].content \subseteq event[e].content
      /\ reviewed[e].types <= event[e].types
      /\ event[e].content \ reviewed[e].content \subseteq late[e]

(* A ticket admits once: whatever scans of it are open, on however many    *)
(* phones, and whichever of them are lost, one phone at most shows VALID,  *)
(* one VALID row is written, and only of a ticket that is used             *)
(* (tickets.service.ts checkIn).                                           *)
AdmittedOnce ==
  \A t \in Tickets :
    /\ admitted[t] <= 1 /\ entries[t] <= 1
    /\ admitted[t] + entries[t] > 0 => ticket[t] = "USED"
=============================================================================
