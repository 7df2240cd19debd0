------------------------------- MODULE Events -------------------------------
(***************************************************************************)
(* Events and their publication (events/events.service.ts): organizers     *)
(* create, edit and submit them, operators look at the list and decide.    *)
(* Every request reads, then writes without looking again.                 *)
(***************************************************************************)
EXTENDS Accounts

CONSTANTS
  EventRows,
  Forms,            \* requests organizers have open
  MaxEdits,         \* bound: edits organizers begin of an event
  MaxTypes          \* bound: ticket types of an event

Ops == {"create", "edit", "type", "submit"}
Statuses == {"PUBLISHED", "PENDING_APPROVAL", "CANCELLED", "COMPLETED", "DRAFT"}
NotSeen == [content |-> {}, types |-> MaxTypes + 1]

ASSUME EventsAssumption == MaxEdits \in Nat /\ MaxTypes \in Nat

VARIABLES
  event,            \* Event rows: status, organizer, content (the edits written
                    \* to it) and how many ticket types it has
  form,             \* where each organizer's request is
  seen,             \* what the operator's list shows of the event
  begun,            \* how many edits of the event have passed the check of its
                    \* status; an edit is known by its number
  reviewed,         \* history: what was seen at the last publication
  late              \* history: the edits that were under way then, or that the
                    \* list did not show yet

eventsVars == <<event, form, seen, begun, reviewed, late>>

NoEvent == [status |-> "NONE"]
IdleForm == [at |-> "idle"]

EventsInit ==
  /\ event = [e \in EventRows |-> NoEvent]
  /\ form = [t \in Forms |-> IdleForm]
  /\ seen = [e \in EventRows |-> NotSeen]
  /\ reviewed = [e \in EventRows |-> NotSeen]
  /\ begun = [e \in EventRows |-> 0]
  /\ late = [e \in EventRows |-> {}]

Exists(e) == event[e].status # "NONE"

(* organizerOf: only an approved organizer goes on.                        *)
OpenForm(t, u, op, e) ==
  /\ form[t].at = "idle" /\ Admitted(u) /\ organizer[u] = "APPROVED"
  /\ form' = [form EXCEPT ![t] =
       [at |-> "approved", user |-> u, op |-> op, event |-> e, edit |-> 0]]
  /\ UNCHANGED <<event, seen, begun, reviewed, late>>

(* Mutant: what is published can be edited.                                *)
EditableAlways(e) == Exists(e)

Editable(e) == event[e].status \in {"DRAFT", "PENDING_APPROVAL"}

(* The event read: the organizer's own, a draft if it is to be edited, with*)
(* a ticket type if it is to be submitted.                                 *)
ReadEvent(t) ==
  LET e == form[t].event
  IN  /\ form[t].at = "approved" /\ form[t].op # "create"
      /\ Exists(e) /\ event[e].organizer = form[t].user
      /\ \/ /\ form[t].op = "edit" /\ Editable(e) /\ begun[e] < MaxEdits
            /\ begun' = [begun EXCEPT ![e] = @ + 1]
            /\ form' = [form EXCEPT ![t].at = "read", ![t].edit = begun[e] + 1]
         \/ /\ form[t].op = "submit" => event[e].types > 0
            /\ form[t].op # "edit"
            /\ form' = [form EXCEPT ![t].at = "read"]
            /\ UNCHANGED begun
      /\ UNCHANGED <<event, seen, reviewed, late>>

CreateEvent(t) ==
  LET e == form[t].event
  IN  /\ form[t].at = "approved" /\ form[t].op = "create" /\ ~Exists(e)
      /\ event' = [event EXCEPT ![e] =
           [status |-> "DRAFT", organizer |-> form[t].user, content |-> {}, types |-> 0]]
      /\ form' = [form EXCEPT ![t] = IdleForm]
      /\ UNCHANGED <<seen, begun, reviewed, late>>

(* updateEvent, addTicketType and submitForApproval write. Only updateEvent *)
(* has looked at the status: a ticket type is added to any event.           *)
WriteEvent(t) ==
  LET e == form[t].event
  IN  /\ form[t].at = "read"
      /\ \/ /\ form[t].op = "edit"
            /\ event' = [event EXCEPT ![e].content = @ \cup {form[t].edit}]
         \/ /\ form[t].op = "type" /\ event[e].types < MaxTypes
            /\ event' = [event EXCEPT ![e].types = @ + 1]
         \/ /\ form[t].op = "submit"
            /\ event' = [event EXCEPT ![e].status = "PENDING_APPROVAL"]
      /\ form' = [form EXCEPT ![t] = IdleForm]
      /\ UNCHANGED <<seen, begun, reviewed, late>>

(* The request is refused, fails, or the server stops.                     *)
CloseForm(t) ==
  /\ form[t].at # "idle"
  /\ form' = [form EXCEPT ![t] = IdleForm]
  /\ UNCHANGED <<event, seen, begun, reviewed, late>>

(* adminList, the page the operator decides from; it is not refreshed.     *)
Look(e) ==
  /\ Exists(e)
  /\ seen' = [seen EXCEPT ![e] = [content |-> event[e].content, types |-> event[e].types]]
  /\ UNCHANGED <<event, form, begun, reviewed, late>>

UnderWay(e) == {t \in Forms : form[t].at = "read" /\ form[t].op = "edit" /\ form[t].event = e}

(* setStatus, from any status to any of the operators'.                    *)
SetStatus(e, status) ==
  /\ Exists(e) /\ seen[e] # NotSeen
  /\ event' = [event EXCEPT ![e].status = status]
  /\ \/ /\ status = "PUBLISHED"
        /\ reviewed' = [reviewed EXCEPT ![e] = seen[e]]
        /\ late' = [late EXCEPT ![e] =
             (event[e].content \ seen[e].content) \cup {form[t].edit : t \in UnderWay(e)}]
     \/ /\ status # "PUBLISHED"
        /\ UNCHANGED <<reviewed, late>>
  /\ UNCHANGED <<form, seen, begun>>

OrganizerNext ==
  \E t \in Forms :
    \/ \E u \in Users, op \in Ops, e \in EventRows : OpenForm(t, u, op, e)
    \/ ReadEvent(t) \/ CreateEvent(t) \/ WriteEvent(t) \/ CloseForm(t)
=============================================================================
