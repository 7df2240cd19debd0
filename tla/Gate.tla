-------------------------------- MODULE Gate --------------------------------
(***************************************************************************)
(* The gates of an event: the scans of the operators' phones, which send   *)
(* the QR code they see at every frame (apps/web/src/app/scan/page.tsx),   *)
(* and the check-in of a ticket (checkIn of tickets.service.ts, qr.ts).    *)
(***************************************************************************)
EXTENDS Naturals

CONSTANTS
  Tickets,          \* tickets of the event the phones are at
  Elsewhere,        \* tickets of other events
  Forged,           \* codes nobody signed
  Scans             \* requests the phones have open

TicketCodes == Tickets \cup Elsewhere \cup Forged

ASSUME GateAssumption ==
  Tickets \cap (Elsewhere \cup Forged) = {} /\ Elsewhere \cap Forged = {}

VARIABLES
  ticket,           \* Ticket.status
  scan,             \* where each scan is
  entries,          \* Checkin rows with VALID, of each ticket
  admitted          \* history: times a phone showed VALID for each ticket

gateVars == <<ticket, scan, entries, admitted>>

IdleScan == [at |-> "idle"]

GateInit ==
  /\ ticket = [t \in Tickets |-> "NONE"]
  /\ scan = [s \in Scans |-> IdleScan]
  /\ entries = [t \in Tickets |-> 0] /\ admitted = [t \in Tickets |-> 0]

(* issueTickets, which signs the code and makes the ticket (BoxOffice).    *)
Issue(t) ==
  /\ ticket[t] = "NONE"
  /\ ticket' = [ticket EXCEPT ![t] = "VALID"]
  /\ UNCHANGED <<scan, entries, admitted>>

(* The code handles a ticket that is not VALID and was not used; nothing in*)
(* it makes one so, an operator of the database does.                      *)
Withdraw(t) ==
  /\ ticket[t] = "VALID"
  /\ ticket' = [ticket EXCEPT ![t] = "BLOCKED"]
  /\ UNCHANGED <<scan, entries, admitted>>

(* submit.  The loop of frames keeps the `busy` of the render that started *)
(* it, so a code in front of the camera is sent again before the answer.   *)
Send(s, code) ==
  /\ scan[s].at = "idle" /\ code \in Tickets => ticket[code] # "NONE"
  /\ scan' = [scan EXCEPT ![s] = [at |-> "sent", code |-> code]]
  /\ UNCHANGED <<ticket, entries, admitted>>

End(s) == scan' = [scan EXCEPT ![s] = IdleScan]

(* INVALID or WRONG_EVENT: the code is not signed, or another event's. Only*)
(* VALID leaves a trace the model keeps; the screens of the other answers  *)
(* are left out.                                                           *)
Reject(s) ==
  /\ scan[s].at = "sent" /\ scan[s].code \notin Tickets
  /\ End(s)
  /\ UNCHANGED <<ticket, entries, admitted>>

(* Mutant: the UPDATE is not conditional on the status.                    *)
UseAgain(s) ==
  LET t == scan[s].code
  IN  /\ scan[s].at = "sent" /\ t \in Tickets
      /\ ticket' = [ticket EXCEPT ![t] = "USED"]
      /\ scan' = [scan EXCEPT ![s].at = "won"]
      /\ UNCHANGED <<entries, admitted>>

(* One UPDATE takes the ticket from VALID to USED, or matches no row.      *)
Use(s) ==
  LET t == scan[s].code
  IN  /\ scan[s].at = "sent" /\ t \in Tickets
      /\ ticket' = IF ticket[t] = "VALID" THEN [ticket EXCEPT ![t] = "USED"] ELSE ticket
      /\ scan' = [scan EXCEPT ![s].at = IF ticket[t] = "VALID" THEN "won" ELSE "lost"]
      /\ UNCHANGED <<entries, admitted>>

(* recordCheckin, whose errors are swallowed, then the answer.             *)
RecordEntry(s) ==
  /\ scan[s].at = "won"
  /\ scan' = [scan EXCEPT ![s].at = "VALID"]
  /\ \/ entries' = [entries EXCEPT ![scan[s].code] = @ + 1]
     \/ UNCHANGED entries
  /\ UNCHANGED <<ticket, admitted>>

(* ALREADY_USED or BLOCKED.                                                *)
Explain(s) ==
  /\ scan[s].at = "lost" /\ End(s)
  /\ UNCHANGED <<ticket, entries, admitted>>

(* The phone shows the answer, or never gets it and shows INVALID: the     *)
(* network or the server stops, before the UPDATE, after it or after the   *)
(* row.                                                                    *)
Show(s) ==
  /\ scan[s].at = "VALID" /\ End(s)
  /\ admitted' = [admitted EXCEPT ![scan[s].code] = @ + 1]
  /\ UNCHANGED <<ticket, entries>>

LoseScan(s) ==
  /\ scan[s].at # "idle" /\ End(s)
  /\ UNCHANGED <<ticket, entries, admitted>>

Scanning(s) ==
  \/ \E code \in TicketCodes : Send(s, code)
  \/ Reject(s) \/ Use(s) \/ RecordEntry(s) \/ Explain(s) \/ Show(s) \/ LoseScan(s)
=============================================================================
