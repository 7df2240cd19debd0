--------------------------- MODULE Reconciliation ---------------------------
(***************************************************************************)
(* The comparison of the treasury with the ledger, and the alerts it       *)
(* raises: reconcile and getBalances of treasury.service.ts, balance of    *)
(* ledger.service.ts, raise and resolve of alerts.service.ts.  It runs as  *)
(* a maintenance job and whenever an operator opens the treasury page, and *)
(* reads the two sides one after the other while orders go on.             *)
(*                                                                         *)
(* A comparison goes through both assets; its passes share nothing but the *)
(* time of the first reading, so each is followed for one bucket.          *)
(***************************************************************************)
EXTENDS Treasury

CONSTANT Reports    \* comparisons, by the job or for a page

VARIABLES
  report,           \* where each comparison is
  alerts,           \* OPEN alerts: the bucket and the drift, which are the message
  moved             \* history: open comparisons that saw the treasury or the
                    \* ledger written since their first reading

comparison == <<report, alerts, moved>>

(* An earlier comparison may have left its alert about the opening balance. *)
ReportsInit ==
  /\ report = [r \in Reports |-> [at |-> "new"]]
  /\ alerts \in {{}, {[bucket |-> "HOT", drift |-> Opening["HOT"]]}}
  /\ moved = {}

-----------------------------------------------------------------------------
(* Mutant: what is reserved is forgotten.                                   *)
TotalAvailable(b) == available[b]

(* getBalances: what an asset's buckets hold together.                      *)
Total(b) == available[b] + reserved[b]

ReadBalances(r, b) ==
  /\ report[r].at = "new"
  /\ report' = [report EXCEPT ![r] = [at |-> "ledger", bucket |-> b, total |-> Total(b)]]
  /\ UNCHANGED <<alerts, moved>>

Finish(r) ==
  /\ report' = [report EXCEPT ![r] = [at |-> "done"]]
  /\ moved' = moved \ {r}

(* The balance of the asset's aggregate account alone is subtracted.        *)
ReadLedger(r) ==
  LET drift == report[r].total - aggregate[report[r].bucket]
  IN  /\ report[r].at = "ledger"
      /\ \/ drift = 0 /\ Finish(r)
         \/ /\ drift # 0
            /\ report' = [report EXCEPT ![r] =
                 [at |-> "find", alert |-> [bucket |-> report[r].bucket, drift |-> drift]]]
            /\ UNCHANGED moved
      /\ UNCHANGED alerts

(* raise looks for an open alert that says the same ...                     *)
FindAlert(r) ==
  /\ report[r].at = "find"
  /\ \/ report[r].alert \in alerts /\ Finish(r)
     \/ /\ report[r].alert \notin alerts
        /\ report' = [report EXCEPT ![r].at = "create"]
        /\ UNCHANGED moved
  /\ UNCHANGED alerts

(* ... and creates one if there was none.                                   *)
CreateAlert(r) ==
  /\ report[r].at = "create"
  /\ alerts' = alerts \cup {report[r].alert}
  /\ Finish(r)

(* resolve, by an operator.                                                 *)
Resolve(a) ==
  /\ alerts' = alerts \ {a}
  /\ UNCHANGED <<report, moved>>

(* An exception, or a restart.                                              *)
GiveUp(r) ==
  /\ report[r].at \in {"ledger", "find", "create"}
  /\ Finish(r)
  /\ UNCHANGED alerts

Reporting ==
  \/ \E r \in Reports :
       \/ \E b \in Buckets : ReadBalances(r, b)
       \/ ReadLedger(r) \/ FindAlert(r) \/ CreateAlert(r) \/ GiveUp(r)
  \/ \E a \in alerts : Resolve(a)

(* A step of the treasury meanwhile.                                        *)
Trading ==
  /\ Next
  /\ moved' = IF UNCHANGED <<account, ledger>> THEN moved
              ELSE moved \cup {r \in Reports : report[r].at \in {"ledger", "find", "create"}}
  /\ UNCHANGED <<report, alerts>>

ReconciledNext == Trading \/ (Reporting /\ UNCHANGED vars)

ReconciledInit == Init /\ ReportsInit

ReconciledSpec == ReconciledInit /\ [][ReconciledNext]_<<vars, comparison>>
=============================================================================
