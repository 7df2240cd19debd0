---------------------------- MODULE Settlements -----------------------------
(***************************************************************************)
(* The settlements of one event: what its organiser is owed, and its       *)
(* payout (apps/api/src/modules/settlements/settlements.service.ts).       *)
(*                                                                         *)
(* approve and pay lock nothing: each is a sequence of steps of the        *)
(* operator who asked for it, which goes on with what its first query      *)
(* read.  PayoutsService.process holds the payout's lock and is one step;  *)
(* SellOrder has its inside.  BoxOffice accrues to these settlements.      *)
(***************************************************************************)
EXTENDS Integers

CONSTANTS
  Settlements,      \* bound: no more rows than these are created
  Operators         \* operators at work in approve or pay

VARIABLES
  settlement,       \* the rows: status, and organizerNetGnf as net
  payout,           \* the payout keyed settlement:<id>: status, amount
  debited,          \* what the journals of the settlement took from
                    \* ORGANIZER_PAYABLE
  operator,         \* where each operator is, on which row, what it read
  contested,        \* history: rows two operators were paying or approving
  late              \* history: rows accrued to after their payout was begun

settlementVars == <<settlement, payout, debited, operator, contested, late>>

NoRow == [status |-> "NONE", net |-> 0]

NoPayout == [status |-> "NONE", amount |-> 0]

Away == [at |-> "idle"]

OperatorState ==
  {Away} \cup [at : {"approve", "pay", "mark", "process", "paid", "failed"},
               on : Settlements, net : Nat]

SettlementsTypeOK ==
  /\ settlement \in [Settlements ->
       [status : {"NONE", "PENDING", "APPROVED", "PROCESSING", "PAID", "FAILED"},
        net : Nat]]
  /\ payout \in [Settlements -> {NoPayout} \cup
       [status : {"PENDING", "PROCESSING", "PAID", "FAILED"}, amount : Nat]]
  /\ debited \in [Settlements -> Nat]
  /\ operator \in [Operators -> OperatorState]
  /\ contested \subseteq Settlements /\ late \subseteq Settlements

SettlementsInit ==
  /\ settlement = [s \in Settlements |-> NoRow]
  /\ payout = [s \in Settlements |-> NoPayout]
  /\ debited = [s \in Settlements |-> 0]
  /\ operator = [a \in Operators |-> Away]
  /\ contested = {}
  /\ late = {}

-----------------------------------------------------------------------------
(* accrue, in the transaction of its caller: findFirst, then the write.     *)

Pending == {s \in Settlements : settlement[s].status = "PENDING"}

Unused == {s \in Settlements : settlement[s].status = "NONE"}

AtWorkOn(s) == {a \in Operators : operator[a] # Away /\ operator[a].on = s}

PayingOn(s) == {a \in AtWorkOn(s) : operator[a].at # "approve"}

(* The total it writes is the one it read and the new order's share.        *)
AddTo(s, net) ==
  /\ settlement' = [settlement EXCEPT ![s].net = net]
  /\ late' = IF payout[s] # NoPayout \/ PayingOn(s) # {}
               THEN late \cup {s} ELSE late
  /\ UNCHANGED <<payout, debited, operator, contested>>

OpenWith(s, net) ==
  /\ s \in Unused
  /\ settlement' = [settlement EXCEPT ![s] = [status |-> "PENDING", net |-> net]]
  /\ UNCHANGED <<payout, debited, operator, contested, late>>

-----------------------------------------------------------------------------
(* approve and pay.                                                         *)

Goto(a, place) == operator' = [operator EXCEPT ![a].at = place]

Leave(a) == operator' = [operator EXCEPT ![a] = Away]

SetStatus(s, status) == settlement' = [settlement EXCEPT ![s].status = status]

(* Mutant: the status is not looked at.                                     *)
ReadAny(a, s, required, place) ==
  /\ operator[a] = Away /\ settlement[s].status # "NONE"
  /\ operator' = [operator EXCEPT ![a] =
                    [at |-> place, on |-> s, net |-> settlement[s].net]]
  /\ contested' = IF AtWorkOn(s) # {} THEN contested \cup {s} ELSE contested
  /\ UNCHANGED <<settlement, payout, debited, late>>

(* The first query, refused when the status is not the required one.        *)
Read(a, s, required, place) ==
  /\ operator[a] = Away /\ settlement[s].status = required
  /\ operator' = [operator EXCEPT ![a] =
                    [at |-> place, on |-> s, net |-> settlement[s].net]]
  /\ contested' = IF AtWorkOn(s) # {} THEN contested \cup {s} ELSE contested
  /\ UNCHANGED <<settlement, payout, debited, late>>

StartApproval(a, s) == Read(a, s, "PENDING", "approve")

Approve(a) ==
  /\ operator[a].at = "approve"
  /\ SetStatus(operator[a].on, "APPROVED")
  /\ Leave(a)
  /\ UNCHANGED <<payout, debited, contested, late>>

StartPayment(a, s) == Read(a, s, "APPROVED", "pay")

(* payouts.createOrGet with the amount read.                                *)
CreatePayout(a) ==
  LET s == operator[a].on IN
    /\ operator[a].at = "pay"
    /\ payout' = [payout EXCEPT ![s] =
         IF @ = NoPayout THEN [status |-> "PENDING", amount |-> operator[a].net]
                         ELSE @]
    /\ Goto(a, "mark")
    /\ UNCHANGED <<settlement, debited, contested, late>>

MarkProcessing(a) ==
  /\ operator[a].at = "mark"
  /\ SetStatus(operator[a].on, "PROCESSING")
  /\ Goto(a, "process")
  /\ UNCHANGED <<payout, debited, contested, late>>

(* PayoutsService.process: a PENDING or FAILED payout is initiated and      *)
(* polled once; any other is left as it is.  PENDING is left when there is  *)
(* no modem, and the call throws.                                           *)
ProcessPayout(s, status) ==
  /\ payout[s] # NoPayout
  /\ IF payout[s].status \in {"PENDING", "FAILED"}
       THEN status \in {"PENDING", "PROCESSING", "PAID", "FAILED"}
       ELSE status = payout[s].status
  /\ payout' = [payout EXCEPT ![s].status = status]

(* Mutant: a payout that is still on its way counts as paid.                *)
ProcessHastily(a) ==
  \E status \in {"PENDING", "PROCESSING", "PAID", "FAILED"} :
    /\ operator[a].at = "process"
    /\ ProcessPayout(operator[a].on, status)
    /\ Goto(a, IF status = "FAILED" THEN "failed" ELSE "paid")
    /\ UNCHANGED <<settlement, debited, contested, late>>

(* pay goes on with what process returned, unless it threw.                 *)
Process(a) ==
  \E status \in {"PENDING", "PROCESSING", "PAID", "FAILED"} :
    /\ operator[a].at = "process"
    /\ ProcessPayout(operator[a].on, status)
    /\ CASE status = "PAID" -> Goto(a, "paid")
         [] status = "FAILED" -> Goto(a, "failed")
         [] OTHER -> Leave(a)
    /\ UNCHANGED <<settlement, debited, contested, late>>

(* The operator's retry on the payouts page.                                *)
RetryPayout(s) ==
  /\ \E status \in {"PENDING", "PROCESSING", "PAID", "FAILED"} :
       ProcessPayout(s, status)
  /\ UNCHANGED <<settlement, debited, operator, contested, late>>

(* One transaction: the status and the journal.                             *)
RecordPaid(a) ==
  LET s == operator[a].on IN
    /\ operator[a].at = "paid"
    /\ SetStatus(s, "PAID")
    /\ debited' = [debited EXCEPT ![s] = @ + operator[a].net]
    /\ Leave(a)
    /\ UNCHANGED <<payout, contested, late>>

RecordFailed(a) ==
  /\ operator[a].at = "failed"
  /\ SetStatus(operator[a].on, "FAILED")
  /\ Leave(a)
  /\ UNCHANGED <<payout, debited, contested, late>>

(* An exception or a restart at an await.                                   *)
Interrupt(a) ==
  /\ operator[a] # Away
  /\ Leave(a)
  /\ UNCHANGED <<settlement, payout, debited, contested, late>>

OperatorStep ==
  \/ \E a \in Operators, s \in Settlements : StartApproval(a, s) \/ StartPayment(a, s)
  \/ \E a \in Operators :
       \/ Approve(a) \/ CreatePayout(a) \/ MarkProcessing(a) \/ Process(a)
       \/ RecordPaid(a) \/ RecordFailed(a) \/ Interrupt(a)
  \/ \E s \in Settlements : RetryPayout(s)
=============================================================================
