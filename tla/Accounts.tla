------------------------------ MODULE Accounts ------------------------------
(***************************************************************************)
(* Accounts and their standing: registration (auth.service.ts), the KYC    *)
(* record and its reviews (users/kyc.service.ts), the operators' changes   *)
(* of an account (users.service.ts adminUpdate) and organizer profiles     *)
(* (organizers.service.ts).  The sessions of an account are in Sessions.   *)
(***************************************************************************)
EXTENDS Naturals

CONSTANTS
  Users,
  Changes,          \* what adminUpdate is sent: some of role, status, level
  MaxDecisions      \* bound: decisions of operators

Fields == {"role", "status", "kyc", "level"}
Shut == {"SUSPENDED", "CLOSED"}
Verdicts == {"VERIFIED", "REJECTED", "SUSPENDED", "PENDING"}
Standings == {"APPROVED", "SUSPENDED", "PENDING"}

ASSUME AccountsAssumption ==
  /\ MaxDecisions \in Nat
  /\ \A c \in Changes :
       /\ DOMAIN c \subseteq {"role", "status", "level"}
       /\ "status" \in DOMAIN c => c["status"] # "NONE"

VARIABLES
  user,             \* User rows: role, status, kycStatus, kycLevel
  record,           \* KycRecord.status of each user
  call,             \* the request of each user that is open
  organizer,        \* Organizer.status of each user
  approval,         \* the open transaction on each organizer
  decisions,        \* bound
  overtaken         \* history: users decided about during a submission

accountsVars == <<user, record, call, organizer, approval, decisions, overtaken>>
standing == <<organizer, approval>>

NoUser == [f \in Fields |-> "NONE"]
NoApproval == [at |-> "idle"]

AccountsInit ==
  /\ user = [u \in Users |-> NoUser]
  /\ record = [u \in Users |-> "NONE"]
  /\ call = [u \in Users |-> "idle"]
  /\ organizer = [u \in Users |-> "NONE"]
  /\ approval = [u \in Users |-> NoApproval]
  /\ decisions = 0 /\ overtaken = {}

(* The guard of every request (jwt.strategy.ts).                           *)
Admitted(u) == user[u].status \notin Shut \cup {"NONE"}

(* register, or the first verifyOtp of a phone: the account, then its KYC  *)
(* record, with no transaction around the two.                             *)
Register(u) ==
  /\ user[u] = NoUser
  /\ user' = [user EXCEPT ![u] =
       [role |-> "CUSTOMER", status |-> "ACTIVE", kyc |-> "UNVERIFIED", level |-> "NONE"]]
  /\ call' = [call EXCEPT ![u] = "registering"]
  /\ UNCHANGED <<record, standing, decisions, overtaken>>

CreateRecord(u) ==
  /\ call[u] = "registering"
  /\ record' = [record EXCEPT ![u] = "UNVERIFIED"]
  /\ call' = [call EXCEPT ![u] = "idle"]
  /\ UNCHANGED <<user, standing, decisions, overtaken>>

(* Mutant: the record of a verified customer is not refused.               *)
ReadAnyRecord(u) ==
  /\ call[u] = "idle" /\ Admitted(u) /\ record[u] # "NONE"
  /\ call' = [call EXCEPT ![u] = "submitting"]
  /\ UNCHANGED <<user, record, standing, decisions, overtaken>>

(* submit: the record is read, then the transaction writes it and the      *)
(* account whatever they have become.                                      *)
ReadRecord(u) ==
  /\ call[u] = "idle" /\ Admitted(u) /\ record[u] \notin {"NONE", "VERIFIED"}
  /\ call' = [call EXCEPT ![u] = "submitting"]
  /\ UNCHANGED <<user, record, standing, decisions, overtaken>>

Submit(u) ==
  /\ call[u] = "submitting"
  /\ record' = [record EXCEPT ![u] = "PENDING"]
  /\ user' = [user EXCEPT ![u].kyc = "PENDING", ![u].status = "PENDING_KYC"]
  /\ call' = [call EXCEPT ![u] = "idle"]
  /\ UNCHANGED <<standing, decisions, overtaken>>

(* The request ends before its next step: an error, or the server stops.   *)
DropCall(u) ==
  /\ call[u] # "idle"
  /\ call' = [call EXCEPT ![u] = "idle"]
  /\ UNCHANGED <<user, record, standing, decisions, overtaken>>

-----------------------------------------------------------------------------
(* The operators.                                                          *)

Decided ==
  /\ decisions < MaxDecisions
  /\ decisions' = decisions + 1

Overtakes(u) ==
  overtaken' = IF call[u] = "submitting" THEN overtaken \cup {u} ELSE overtaken

StatusOf(verdict) ==
  IF verdict = "VERIFIED" THEN "ACTIVE"
  ELSE IF verdict = "SUSPENDED" THEN "SUSPENDED" ELSE "PENDING_KYC"

(* review: what it read goes only to the log, so it is one step.           *)
Review(u, verdict) ==
  /\ record[u] # "NONE" /\ Decided /\ Overtakes(u)
  /\ record' = [record EXCEPT ![u] = verdict]
  /\ user' = [user EXCEPT ![u] =
       [role |-> @.role, status |-> StatusOf(verdict), kyc |-> verdict,
        level |-> IF verdict = "VERIFIED" THEN "FULL" ELSE @.level]]
  /\ UNCHANGED <<call, standing>>

AdminUpdate(u, change) ==
  /\ user[u] # NoUser /\ Decided /\ Overtakes(u)
  /\ user' = [user EXCEPT ![u] =
       [f \in Fields |-> IF f \in DOMAIN change THEN change[f] ELSE @[f]]]
  /\ UNCHANGED <<record, call, standing>>

-----------------------------------------------------------------------------
(* Organizers.                                                             *)

(* apply: a user has one profile (userId is unique).                       *)
Apply(u) ==
  /\ Admitted(u) /\ organizer[u] = "NONE"
  /\ organizer' = [organizer EXCEPT ![u] = "PENDING"]
  /\ UNCHANGED <<user, record, call, approval, decisions, overtaken>>

(* setStatus: a transaction that holds the organizer's row, reads the      *)
(* account's role without a lock and, for an approved customer, writes it. *)
BeginApproval(u, status) ==
  /\ organizer[u] # "NONE" /\ approval[u] = NoApproval /\ Decided
  /\ approval' = [approval EXCEPT ![u] =
       [at |-> "begun", status |-> status,
        promote |-> status = "APPROVED" /\ user[u].role = "CUSTOMER"]]
  /\ UNCHANGED <<user, record, call, organizer, overtaken>>

CommitApproval(u) ==
  /\ approval[u].at = "begun"
  /\ organizer' = [organizer EXCEPT ![u] = approval[u].status]
  /\ user' = IF approval[u].promote THEN [user EXCEPT ![u].role = "ORGANIZER"] ELSE user
  /\ approval' = [approval EXCEPT ![u] = NoApproval]
  /\ UNCHANGED <<record, call, decisions, overtaken>>

DropApproval(u) ==
  /\ approval[u].at = "begun"
  /\ approval' = [approval EXCEPT ![u] = NoApproval]
  /\ UNCHANGED <<user, record, call, organizer, decisions, overtaken>>

AccountsNext ==
  \E u \in Users :
    \/ Register(u) \/ CreateRecord(u) \/ ReadRecord(u) \/ Submit(u) \/ DropCall(u)
    \/ \E verdict \in Verdicts : Review(u, verdict)
    \/ \E change \in Changes : AdminUpdate(u, change)
    \/ Apply(u) \/ CommitApproval(u) \/ DropApproval(u)
    \/ \E status \in Standings : BeginApproval(u, status)
=============================================================================
