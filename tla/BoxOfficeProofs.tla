-------------------------- MODULE BoxOfficeProofs ---------------------------
(***************************************************************************)
(* Proofs about BoxOffice and Settlements, for any orders, seats, shares,  *)
(* requests, operators and settlements.  IInv comes first; what the seats  *)
(* and the settlements add up to, and what a payment is worth, rest on it. *)
(***************************************************************************)
EXTENDS BoxOfficeProps, TLAPS

USE BoxOfficeAssumption

(* The part of the invariant about settlements.                             *)
SettlementsOK ==
  /\ SettlementsTypeOK
  /\ DebitedIsPaid
  /\ \A s \in Settlements : RowHasNet(s)
  /\ \A a \in Operators : OperatorKnows(a)

(* The part about sales.                                                    *)
SalesTypeOK ==
  /\ sold \in Int /\ sale \in {"ACTIVE", "SOLD_OUT"}
  /\ order \in [Orders -> {"NONE", "AWAITING_PAYMENT", "ISSUED", "FAILED"}]
  /\ quantity \in [Orders -> Nat]
  /\ intent \in [Orders -> {"NONE", "CREATED", "AWAITING_PAYMENT",
                            "PAYMENT_VERIFIED", "PAYMENT_REJECTED", "UNDER_REVIEW"}]
  /\ tickets \in [Orders -> Nat] /\ credited \in [Orders -> Nat]
  /\ request \in [Requests -> RequestState]
  /\ lock \in [Orders -> Requests \cup {"free"}]
  /\ outlived \subseteq Orders
  /\ overwritten \in BOOLEAN

SalesOK ==
  /\ SalesTypeOK
  /\ IssuedOnce
  /\ \A o \in Orders : OrderHasSeats(o)
  /\ \A r \in Requests : RequestKnows(r)

LEMMA InvariantParts == IInv <=> SettlementsOK /\ SalesOK
BY DEF IInv, TypeOK, SettlementsOK, SalesOK, SalesTypeOK

-----------------------------------------------------------------------------
(* Settlements.                                                             *)

Statuses == {"NONE", "PENDING", "APPROVED", "PROCESSING", "PAID", "FAILED"}

(* An operator who is not away is on a row, with what was read of it.       *)
LEMMA OperatorOn ==
  ASSUME SettlementsTypeOK, NEW a \in Operators, operator[a] # Away
  PROVE  /\ operator[a].on \in Settlements /\ operator[a].net \in Nat
         /\ operator[a] = [at |-> operator[a].at, on |-> operator[a].on,
                           net |-> operator[a].net]
         /\ operator[a].at \in {"approve", "pay", "mark", "process", "paid", "failed"}
BY DEF SettlementsTypeOK, OperatorState

(* Goto keeps the row and what was read of it.                              *)
LEMMA GotoIs ==
  ASSUME SettlementsTypeOK, NEW a \in Operators, operator[a] # Away,
         NEW place \in {"mark", "process", "paid", "failed"}, Goto(a, place)
  PROVE  operator' = [operator EXCEPT ![a] = [at |-> place, on |-> operator[a].on,
                                              net |-> operator[a].net]]
<1> DEFINE on == operator[a].on
           net == operator[a].net
<1>1. operator[a] = [at |-> operator[a].at, on |-> on, net |-> net]
  BY OperatorOn
<1>2. [operator[a] EXCEPT !.at = place] = [at |-> place, on |-> on, net |-> net]
  BY <1>1
<1> QED BY <1>2 DEF Goto, SettlementsTypeOK

LEMMA AddToKeeps ==
  ASSUME SettlementsOK, NEW s \in Settlements, NEW n \in Nat \ {0}, AddTo(s, n)
  PROVE  SettlementsOK'
<1>1. /\ settlement' = [settlement EXCEPT ![s].net = n]
      /\ payout' = payout /\ debited' = debited /\ operator' = operator
      /\ contested' = contested /\ late' \in {late, late \cup {s}}
  BY DEF AddTo
<1>2. \A t \in Settlements : /\ settlement'[t].status = settlement[t].status
                             /\ settlement'[t].net = IF t = s THEN n ELSE settlement[t].net
  BY <1>1 DEF SettlementsOK, SettlementsTypeOK
<1>3. SettlementsTypeOK'
  BY <1>1 DEF SettlementsOK, SettlementsTypeOK
<1>4. DebitedIsPaid'
  BY <1>1, <1>2 DEF SettlementsOK, DebitedIsPaid
<1>5. \A t \in Settlements : RowHasNet(t)'
  BY <1>2 DEF SettlementsOK, RowHasNet
<1>6. ASSUME NEW a \in Operators PROVE OperatorKnows(a)'
  BY <1>1, <1>2, OperatorOn DEF SettlementsOK, OperatorKnows
<1> QED BY <1>3, <1>4, <1>5, <1>6 DEF SettlementsOK

LEMMA OpenWithKeeps ==
  ASSUME SettlementsOK, NEW s \in Settlements, NEW n \in Nat \ {0}, OpenWith(s, n)
  PROVE  SettlementsOK'
<1>1. /\ settlement' = [settlement EXCEPT ![s] = [status |-> "PENDING", net |-> n]]
      /\ payout' = payout /\ debited' = debited /\ operator' = operator
      /\ contested' = contested /\ late' = late
  BY DEF OpenWith
<1>2. /\ settlement'[s] = [status |-> "PENDING", net |-> n]
      /\ \A t \in Settlements \ {s} : settlement'[t] = settlement[t]
  BY <1>1 DEF SettlementsOK, SettlementsTypeOK
<1>3. SettlementsTypeOK'
  BY <1>1 DEF SettlementsOK, SettlementsTypeOK
<1>4. DebitedIsPaid'
  BY <1>1, <1>2 DEF SettlementsOK, DebitedIsPaid
<1>5. \A t \in Settlements : RowHasNet(t)'
  BY <1>2 DEF SettlementsOK, RowHasNet
<1>6. ASSUME NEW a \in Operators PROVE OperatorKnows(a)'
  BY <1>1, <1>2, OperatorOn DEF SettlementsOK, OperatorKnows
<1> QED BY <1>3, <1>4, <1>5, <1>6 DEF SettlementsOK

(* The first query of approve or pay.                                       *)
LEMMA ReadKeeps ==
  ASSUME SettlementsOK, NEW a \in Operators, NEW s \in Settlements,
         NEW required \in Statuses \ {"NONE"}, NEW place \in {"approve", "pay"},
         Read(a, s, required, place)
  PROVE  SettlementsOK'
<1> DEFINE read == [at |-> place, on |-> s, net |-> settlement[s].net]
<1>1. /\ operator' = [operator EXCEPT ![a] = read]
      /\ settlement[s].status = required
      /\ settlement' = settlement /\ payout' = payout /\ debited' = debited
      /\ contested' \in {contested, contested \cup {s}} /\ late' = late
  BY DEF Read
<1>2. settlement[s].net \in Nat \ {0}
  BY <1>1 DEF SettlementsOK, SettlementsTypeOK, RowHasNet, Statuses
<1>3. read \in OperatorState
  BY <1>2 DEF OperatorState
<1>4. SettlementsTypeOK'
  BY <1>1, <1>3 DEF SettlementsOK, SettlementsTypeOK
<1>5. DebitedIsPaid' /\ \A t \in Settlements : RowHasNet(t)'
  BY <1>1 DEF SettlementsOK, DebitedIsPaid, RowHasNet
<1>6. ASSUME NEW b \in Operators PROVE OperatorKnows(b)'
  <2>1. CASE b = a
    <3>1. operator'[b] = read
      BY <1>1, <2>1 DEF SettlementsOK, SettlementsTypeOK
    <3> QED BY <1>1, <1>2, <3>1 DEF OperatorKnows, Statuses
  <2>2. CASE b # a
    <3>1. operator'[b] = operator[b]
      BY <1>1, <2>2 DEF SettlementsOK, SettlementsTypeOK
    <3> QED BY <1>1, <3>1 DEF SettlementsOK, OperatorKnows
  <2> QED BY <2>1, <2>2
<1> QED BY <1>4, <1>5, <1>6 DEF SettlementsOK

(* An operator changes the status of the row: to PAID only with a debit,    *)
(* and then leaves or goes on, to record a payment only if it was paid.     *)
LEMMA StatusKeeps ==
  ASSUME SettlementsOK, NEW a \in Operators, operator[a] # Away,
         NEW status \in Statuses \ {"NONE"}, NEW next,
         next \in {Away, [at |-> "process", on |-> operator[a].on,
                          net |-> operator[a].net]},
         SetStatus(operator[a].on, status),
         IF status = "PAID"
           THEN /\ payout[operator[a].on].status = "PAID"
                /\ debited' = [debited EXCEPT ![operator[a].on] = @ + operator[a].net]
           ELSE debited' = debited,
         operator' = [operator EXCEPT ![a] = next],
         UNCHANGED <<payout, contested, late>>
  PROVE  SettlementsOK'
<1> DEFINE s == operator[a].on
<1>0. SettlementsTypeOK BY DEF SettlementsOK
<1>1. s \in Settlements
  BY <1>0, OperatorOn
<1>2. /\ settlement'[s].status = status /\ settlement'[s].net = settlement[s].net
      /\ \A t \in Settlements \ {s} : settlement'[t] = settlement[t]
      /\ settlement' \in [Settlements -> [status : Statuses, net : Nat]]
  BY <1>0, <1>1 DEF SettlementsTypeOK, SetStatus, Statuses
<1>3. /\ debited' \in [Settlements -> Nat]
      /\ debited'[s] = debited[s] + IF status = "PAID" THEN operator[a].net ELSE 0
      /\ \A t \in Settlements \ {s} : debited'[t] = debited[t]
  BY <1>0, <1>1, OperatorOn DEF SettlementsTypeOK
<1>4. next \in OperatorState
  <2>1. [at |-> "process", on |-> s, net |-> operator[a].net] \in OperatorState
    BY <1>0, OperatorOn DEF OperatorState
  <2> QED BY <2>1 DEF OperatorState
<1>5. SettlementsTypeOK'
  BY <1>0, <1>2, <1>3, <1>4 DEF SettlementsTypeOK, Statuses
<1>6. DebitedIsPaid'
  <2>1. ASSUME NEW t \in Settlements
        PROVE  /\ debited'[t] > 0 => payout'[t].status = "PAID"
               /\ settlement'[t].status = "PAID" => debited'[t] > 0
    <3>1. debited[t] \in Nat /\ operator[a].net \in Nat /\ operator[a].net > 0
      BY <1>0, OperatorOn DEF SettlementsOK, SettlementsTypeOK, OperatorKnows
    <3> QED BY <1>2, <1>3, <3>1 DEF SettlementsOK, DebitedIsPaid
  <2> QED BY <2>1 DEF DebitedIsPaid
<1>7. settlement[s].status # "NONE"
  BY DEF SettlementsOK, OperatorKnows
<1>8. \A t \in Settlements : RowHasNet(t)'
  BY <1>2, <1>7 DEF SettlementsOK, RowHasNet
<1>9. ASSUME NEW b \in Operators PROVE OperatorKnows(b)'
  <2>1. CASE b = a
    <3>1. operator'[b] = next
      BY <1>0, <2>1 DEF SettlementsTypeOK
    <3>2. CASE next = Away
      BY <3>1, <3>2 DEF OperatorKnows
    <3>3. CASE next = [at |-> "process", on |-> s, net |-> operator[a].net]
      BY <1>2, <3>1, <3>3 DEF SettlementsOK, OperatorKnows, Statuses
    <3> QED BY <3>2, <3>3
  <2>2. CASE b # a
    <3>1. operator'[b] = operator[b]
      BY <1>0, <2>2 DEF SettlementsTypeOK
    <3>2. operator[b] # Away => operator[b].on \in Settlements
      BY <1>0, OperatorOn
    <3> QED BY <1>2, <3>1, <3>2 DEF SettlementsOK, OperatorKnows, Statuses
  <2> QED BY <2>1, <2>2
<1> QED BY <1>5, <1>6, <1>8, <1>9 DEF SettlementsOK

(* The payout changes, never from PAID, and an operator may go on: to       *)
(* record a payment only if it was paid.                                    *)
LEMMA PayoutKeeps ==
  ASSUME SettlementsOK, NEW s \in Settlements,
         NEW new \in [status : {"PENDING", "PROCESSING", "PAID", "FAILED"}, amount : Nat],
         payout[s].status = "PAID" => new.status = "PAID",
         payout' = [payout EXCEPT ![s] = new],
         UNCHANGED <<settlement, debited, contested, late>>,
         \/ operator' = operator
         \/ \E a \in Operators, place \in {"mark", "paid", "failed"} :
              /\ operator[a] # Away /\ operator[a].on = s
              /\ Goto(a, place)
              /\ place = "paid" => new.status = "PAID"
         \/ \E a \in Operators : Leave(a)
  PROVE  SettlementsOK'
<1>0. SettlementsTypeOK BY DEF SettlementsOK
<1>1. /\ payout'[s] = new
      /\ \A t \in Settlements \ {s} : payout'[t] = payout[t]
  BY <1>0 DEF SettlementsTypeOK
<1>2. \A t \in Settlements : payout[t].status = "PAID" => payout'[t].status = "PAID"
  BY <1>1
<1>3. DebitedIsPaid' /\ \A t \in Settlements : RowHasNet(t)'
  BY <1>2 DEF SettlementsOK, DebitedIsPaid, RowHasNet
<1>4. payout' \in [Settlements -> {NoPayout} \cup
        [status : {"PENDING", "PROCESSING", "PAID", "FAILED"}, amount : Nat]]
  BY <1>0 DEF SettlementsTypeOK
<1>5. ASSUME NEW b \in Operators, operator'[b] = operator[b]
      PROVE  OperatorKnows(b)'
  <2>1. operator[b] # Away => operator[b].on \in Settlements
    BY <1>0, OperatorOn
  <2> QED BY <1>2, <1>5, <2>1 DEF SettlementsOK, OperatorKnows
<1>6. CASE operator' = operator
  BY <1>0, <1>3, <1>4, <1>5, <1>6 DEF SettlementsOK, SettlementsTypeOK
<1>7. ASSUME NEW a \in Operators, NEW place \in {"mark", "paid", "failed"},
             operator[a] # Away, operator[a].on = s, Goto(a, place),
             place = "paid" => new.status = "PAID"
      PROVE  SettlementsOK'
  <2> DEFINE next == [at |-> place, on |-> s, net |-> operator[a].net]
  <2>1. operator' = [operator EXCEPT ![a] = next]
    BY <1>0, <1>7, GotoIs
  <2>2. next \in OperatorState
    BY <1>0, <1>7, OperatorOn DEF OperatorState
  <2>3. SettlementsTypeOK'
    BY <1>0, <1>4, <2>1, <2>2 DEF SettlementsTypeOK
  <2>4. OperatorKnows(a)'
    <3>1. operator'[a] = next
      BY <1>0, <2>1 DEF SettlementsTypeOK
    <3> QED BY <1>1, <1>7, <3>1 DEF SettlementsOK, OperatorKnows
  <2>5. ASSUME NEW b \in Operators \ {a} PROVE OperatorKnows(b)'
    <3>1. operator'[b] = operator[b]
      BY <1>0, <2>1 DEF SettlementsTypeOK
    <3> QED BY <1>5, <3>1
  <2> QED BY <1>3, <2>3, <2>4, <2>5 DEF SettlementsOK
<1>8. ASSUME NEW a \in Operators, Leave(a) PROVE SettlementsOK'
  <2>1. operator' = [operator EXCEPT ![a] = Away]
    BY <1>8 DEF Leave
  <2>2. SettlementsTypeOK'
    BY <1>0, <1>4, <2>1 DEF SettlementsTypeOK, OperatorState
  <2>3. ASSUME NEW b \in Operators PROVE OperatorKnows(b)'
    <3>1. CASE b = a
      BY <1>0, <2>1, <3>1 DEF SettlementsTypeOK, OperatorKnows
    <3>2. CASE b # a
      <4>1. operator'[b] = operator[b]
        BY <1>0, <2>1, <3>2 DEF SettlementsTypeOK
      <4> QED BY <1>5, <4>1
    <3> QED BY <3>1, <3>2
  <2> QED BY <1>3, <2>2, <2>3 DEF SettlementsOK
<1> QED BY <1>6, <1>7, <1>8

(* What process does to a payout.                                           *)
LEMMA ProcessedPayout ==
  ASSUME SettlementsTypeOK, NEW s \in Settlements,
         NEW status \in {"PENDING", "PROCESSING", "PAID", "FAILED"}, ProcessPayout(s, status)
  PROVE  \E new \in [status : {"PENDING", "PROCESSING", "PAID", "FAILED"}, amount : Nat] :
           /\ new.status = status
           /\ payout[s].status = "PAID" => status = "PAID"
           /\ payout' = [payout EXCEPT ![s] = new]
<1> DEFINE new == [status |-> status, amount |-> payout[s].amount]
<1>1. /\ payout[s] = [status |-> payout[s].status, amount |-> payout[s].amount]
      /\ payout[s].amount \in Nat
  BY DEF SettlementsTypeOK, NoPayout
<1>2. payout' = [payout EXCEPT ![s] = new]
  <2>1. [payout[s] EXCEPT !.status = status] = new
    BY <1>1
  <2> QED BY <2>1 DEF ProcessPayout, SettlementsTypeOK
<1>3. payout[s].status = "PAID" => status = "PAID"
  BY DEF ProcessPayout
<1> QED BY <1>1, <1>2, <1>3

LEMMA OperatorStepKeeps == ASSUME SettlementsOK, OperatorStep PROVE SettlementsOK'
<1>0. SettlementsTypeOK BY DEF SettlementsOK
<1>1. ASSUME NEW a \in Operators, NEW s \in Settlements,
             StartApproval(a, s) \/ StartPayment(a, s)
      PROVE  SettlementsOK'
  BY <1>1, ReadKeeps DEF StartApproval, StartPayment, Statuses
<1>2. ASSUME NEW a \in Operators, Approve(a) PROVE SettlementsOK'
  <2>1. operator[a] # Away
    BY <1>2 DEF Approve, Away
  <2> QED BY <1>2, <2>1, StatusKeeps DEF Approve, Leave, Statuses
<1>3. ASSUME NEW a \in Operators, CreatePayout(a) PROVE SettlementsOK'
  <2> DEFINE s == operator[a].on
             new == IF payout[s] = NoPayout
                      THEN [status |-> "PENDING", amount |-> operator[a].net]
                      ELSE payout[s]
  <2>1. operator[a] # Away
    BY <1>3 DEF CreatePayout, Away
  <2>2. s \in Settlements /\ operator[a].net \in Nat
    BY <1>0, <2>1, OperatorOn
  <2>3. new \in [status : {"PENDING", "PROCESSING", "PAID", "FAILED"}, amount : Nat]
    BY <1>0, <2>2 DEF SettlementsTypeOK
  <2>4. payout[s].status = "PAID" => new.status = "PAID"
    BY DEF NoPayout
  <2>5. /\ payout' = [payout EXCEPT ![s] = new] /\ Goto(a, "mark")
        /\ UNCHANGED <<settlement, debited, contested, late>>
    BY <1>3 DEF CreatePayout
  <2> HIDE DEF new
  <2> QED BY <2>1, <2>2, <2>3, <2>4, <2>5, PayoutKeeps
<1>4. ASSUME NEW a \in Operators, MarkProcessing(a) PROVE SettlementsOK'
  <2>1. operator[a] # Away
    BY <1>4 DEF MarkProcessing, Away
  <2>2. operator' = [operator EXCEPT ![a] = [at |-> "process", on |-> operator[a].on,
                                             net |-> operator[a].net]]
    BY <1>0, <1>4, <2>1, GotoIs DEF MarkProcessing
  <2> QED BY <1>4, <2>1, <2>2, StatusKeeps DEF MarkProcessing, Statuses
<1>5. ASSUME NEW a \in Operators, Process(a) PROVE SettlementsOK'
  <2>1. PICK status \in {"PENDING", "PROCESSING", "PAID", "FAILED"} :
          /\ operator[a].at = "process"
          /\ ProcessPayout(operator[a].on, status)
          /\ CASE status = "PAID" -> Goto(a, "paid")
               [] status = "FAILED" -> Goto(a, "failed")
               [] OTHER -> Leave(a)
          /\ UNCHANGED <<settlement, debited, contested, late>>
    BY <1>5 DEF Process
  <2>2. operator[a] # Away
    BY <2>1 DEF Away
  <2>3. operator[a].on \in Settlements
    BY <1>0, <2>2, OperatorOn
  <2>4. PICK new \in [status : {"PENDING", "PROCESSING", "PAID", "FAILED"}, amount : Nat] :
          /\ new.status = status
          /\ payout[operator[a].on].status = "PAID" => status = "PAID"
          /\ payout' = [payout EXCEPT ![operator[a].on] = new]
    BY <1>0, <2>1, <2>3, ProcessedPayout
  <2>5. \/ \E place \in {"mark", "paid", "failed"} :
             Goto(a, place) /\ (place = "paid" => new.status = "PAID")
        \/ Leave(a)
    BY <2>1, <2>4
  <2> QED BY <2>1, <2>2, <2>3, <2>4, <2>5, PayoutKeeps
<1>6. ASSUME NEW a \in Operators, RecordPaid(a) PROVE SettlementsOK'
  <2>1. operator[a] # Away
    BY <1>6 DEF RecordPaid, Away
  <2>2. payout[operator[a].on].status = "PAID"
    BY <1>6, <2>1 DEF SettlementsOK, OperatorKnows, RecordPaid
  <2> QED BY <1>6, <2>1, <2>2, StatusKeeps DEF RecordPaid, Leave, Statuses
<1>7. ASSUME NEW a \in Operators, RecordFailed(a) PROVE SettlementsOK'
  <2>1. operator[a] # Away
    BY <1>7 DEF RecordFailed, Away
  <2> QED BY <1>7, <2>1, StatusKeeps DEF RecordFailed, Leave, Statuses
<1>8. ASSUME NEW a \in Operators, Interrupt(a) PROVE SettlementsOK'
  <2>1. SettlementsTypeOK'
    BY <1>0, <1>8 DEF Interrupt, Leave, SettlementsTypeOK, OperatorState
  <2>2. DebitedIsPaid' /\ \A t \in Settlements : RowHasNet(t)'
    BY <1>8 DEF SettlementsOK, DebitedIsPaid, RowHasNet, Interrupt
  <2>3. ASSUME NEW b \in Operators PROVE OperatorKnows(b)'
    <3>1. operator'[b] \in {Away, operator[b]}
      BY <1>0, <1>8 DEF Interrupt, Leave, SettlementsTypeOK
    <3> QED BY <1>8, <3>1 DEF SettlementsOK, OperatorKnows, Interrupt
  <2> QED BY <2>1, <2>2, <2>3 DEF SettlementsOK
<1>9. ASSUME NEW s \in Settlements, RetryPayout(s) PROVE SettlementsOK'
  <2>1. PICK status \in {"PENDING", "PROCESSING", "PAID", "FAILED"} : ProcessPayout(s, status)
    BY <1>9 DEF RetryPayout
  <2>2. PICK new \in [status : {"PENDING", "PROCESSING", "PAID", "FAILED"}, amount : Nat] :
          /\ new.status = status
          /\ payout[s].status = "PAID" => status = "PAID"
          /\ payout' = [payout EXCEPT ![s] = new]
    BY <1>0, <2>1, ProcessedPayout
  <2> QED BY <1>9, <2>2, PayoutKeeps DEF RetryPayout
<1> QED
  BY <1>1, <1>2, <1>3, <1>4, <1>5, <1>6, <1>7, <1>8, <1>9 DEF OperatorStep

-----------------------------------------------------------------------------
(* Sales.                                                                   *)

(* A request that is not waiting is on an order.                            *)
LEMMA RequestOn ==
  ASSUME SalesTypeOK, NEW r \in Requests, request[r] # Waiting
  PROVE  /\ request[r].on \in Orders
         /\ request[r].at \in {"poll", "issue", "fail", "book"}
         /\ request[r].at = "book" =>
              /\ request[r].found \in Settlements \cup {"none"}
              /\ request[r].total \in Nat
BY DEF SalesTypeOK, RequestState

(* When a request ends, the others know what they knew: only on an order    *)
(* whose lock expired can there be another.                                 *)
LEMMA FinishKeepsRequests ==
  ASSUME SalesOK, NEW r \in Requests, request[r] # Waiting, Finish(r),
         NEW status \in {"AWAITING_PAYMENT", "ISSUED", "FAILED"},
         order' = order \/ order' = [order EXCEPT ![request[r].on] = status],
         outlived' = outlived
  PROVE  /\ request' \in [Requests -> RequestState]
         /\ lock' \in [Orders -> Requests \cup {"free"}]
         /\ \A q \in Requests : RequestKnows(q)'
<1> DEFINE o == request[r].on
<1>0. SalesTypeOK BY DEF SalesOK
<1>1. o \in Orders
  BY <1>0, RequestOn
<1>2. /\ request' = [request EXCEPT ![r] = Waiting]
      /\ lock' = IF lock[o] = r THEN [lock EXCEPT ![o] = "free"] ELSE lock
  BY DEF Finish, Continue
<1>3. request' \in [Requests -> RequestState]
  BY <1>0, <1>2 DEF SalesTypeOK, RequestState
<1>4. lock' \in [Orders -> Requests \cup {"free"}]
  BY <1>0, <1>1, <1>2 DEF SalesTypeOK
<1>5. ASSUME NEW q \in Requests PROVE RequestKnows(q)'
  <2>1. CASE q = r
    BY <1>0, <1>2, <2>1 DEF SalesTypeOK, RequestKnows
  <2>2. CASE q # r
    <3> SUFFICES ASSUME request'[q] # Waiting
                 PROVE  LET p == request'[q].on IN
                          /\ order'[p] # "NONE"
                          /\ p \notin outlived' =>
                               lock'[p] = q /\ order'[p] = "AWAITING_PAYMENT"
      BY DEF RequestKnows
    <3>1. request'[q] = request[q]
      BY <1>0, <1>2, <2>2 DEF SalesTypeOK
    <3> DEFINE p == request[q].on
    <3>2. /\ p \in Orders /\ order[p] # "NONE"
          /\ p \notin outlived => lock[p] = q /\ order[p] = "AWAITING_PAYMENT"
      BY <1>0, <3>1, RequestOn DEF SalesOK, RequestKnows
    <3>3. order'[p] # "NONE"
      BY <1>0, <1>1, <3>2 DEF SalesTypeOK
    <3>4. ASSUME p \notin outlived PROVE lock'[p] = q /\ order'[p] = "AWAITING_PAYMENT"
      <4>1. p # o
        BY <2>2, <3>2, <3>4 DEF SalesOK, RequestKnows
      <4> QED BY <1>0, <1>1, <1>2, <3>2, <3>4, <4>1 DEF SalesTypeOK
    <3> QED BY <3>1, <3>3, <3>4
  <2> QED BY <2>1, <2>2
<1> QED BY <1>3, <1>4, <1>5

(* A request goes on with the order it is on.                               *)
LEMMA ContinueKeepsRequests ==
  ASSUME SalesOK, NEW r \in Requests, request[r] # Waiting,
         NEW state \in RequestState, state.on = request[r].on,
         Continue(r, state), UNCHANGED <<order, lock, outlived>>
  PROVE  /\ request' \in [Requests -> RequestState]
         /\ \A q \in Requests : RequestKnows(q)'
<1>1. request' = [request EXCEPT ![r] = state]
  BY DEF Continue
<1>2. request' \in [Requests -> RequestState]
  BY <1>1 DEF SalesOK, SalesTypeOK
<1>3. ASSUME NEW q \in Requests PROVE RequestKnows(q)'
  <2>1. CASE q = r
    <3>1. request'[q] = state
      BY <1>1, <2>1 DEF SalesOK, SalesTypeOK
    <3> QED BY <2>1, <3>1 DEF SalesOK, RequestKnows
  <2>2. CASE q # r
    <3>1. request'[q] = request[q]
      BY <1>1, <2>2 DEF SalesOK, SalesTypeOK
    <3> QED BY <3>1 DEF SalesOK, RequestKnows
  <2> QED BY <2>1, <2>2
<1> QED BY <1>2, <1>3

(* The organiser's share of an order that was made is positive.             *)
LEMMA NetType ==
  ASSUME SalesOK, NEW o \in Orders
  PROVE  Net(o) \in Nat /\ (order[o] # "NONE" => Net(o) > 0)
<1>1. quantity[o] \in Nat /\ (order[o] # "NONE" => quantity[o] > 0)
  BY DEF SalesOK, SalesTypeOK, OrderHasSeats
<1>2. \A q \in Nat : Share * q \in Nat /\ (q > 0 => Share * q > 0)
  OBVIOUS
<1> QED BY <1>1, <1>2 DEF Net

LEMMA CreateOrderKeeps ==
  ASSUME SalesOK, NEW o \in Orders, NEW q \in Quantities, CreateOrder(o, q)
  PROVE  SalesOK'
<1>0. SalesTypeOK /\ q \in Nat /\ q > 0
  BY DEF SalesOK
<1>1. /\ order[o] = "NONE"
      /\ order' = [order EXCEPT ![o] = "AWAITING_PAYMENT"]
      /\ quantity' = [quantity EXCEPT ![o] = q]
      /\ tickets' = tickets /\ credited' = credited /\ request' = request
      /\ lock' = lock /\ outlived' = outlived /\ overwritten' = overwritten
  BY DEF CreateOrder
<1>2. SalesTypeOK'
  BY <1>0 DEF CreateOrder, SalesTypeOK, SaleAfter
<1>3. ASSUME NEW p \in Orders \ outlived'
      PROVE  /\ tickets'[p] = IF order'[p] = "ISSUED" THEN quantity'[p] ELSE 0
             /\ credited'[p] = IF order'[p] = "ISSUED" THEN Net(p)' ELSE 0
  <2>1. CASE p = o
    BY <1>0, <1>1, <2>1 DEF SalesOK, SalesTypeOK, IssuedOnce
  <2>2. CASE p # o
    BY <1>0, <1>1, <2>2 DEF SalesOK, SalesTypeOK, IssuedOnce, Net
  <2> QED BY <2>1, <2>2
<1>4. IssuedOnce'
  BY <1>3 DEF IssuedOnce
<1>5. \A p \in Orders : OrderHasSeats(p)'
  BY <1>0, <1>1 DEF SalesOK, SalesTypeOK, OrderHasSeats
<1>6. ASSUME NEW r \in Requests PROVE RequestKnows(r)'
  <2>1. request[r] # Waiting => request[r].on \in Orders \ {o}
    BY <1>0, <1>1, RequestOn DEF SalesOK, RequestKnows
  <2> QED BY <1>0, <1>1, <2>1 DEF SalesOK, SalesTypeOK, RequestKnows
<1> QED BY <1>2, <1>4, <1>5, <1>6 DEF SalesOK

(* A step that leaves orders and tickets alone keeps what is said of them.  *)
LEMMA OrdersUnchanged ==
  ASSUME SalesOK, UNCHANGED <<order, quantity, tickets, credited>>,
         outlived \subseteq outlived'
  PROVE  IssuedOnce' /\ \A o \in Orders : OrderHasSeats(o)'
BY DEF SalesOK, IssuedOnce, OrderHasSeats, Net

LEMMA PaymentKeeps ==
  ASSUME SalesOK, NEW o \in Orders, StartPaymentOf(o) \/ AdminResolve(o)
  PROVE  SalesOK'
<1>1. PICK status \in {"AWAITING_PAYMENT", "PAYMENT_VERIFIED", "PAYMENT_REJECTED"} :
        SetIntent(o, status) /\ UNCHANGED <<request, lock>>
  BY DEF StartPaymentOf, AdminResolve
<1>2. SalesTypeOK'
  BY <1>1 DEF SalesOK, SalesTypeOK, SetIntent, seats
<1>3. IssuedOnce' /\ \A p \in Orders : OrderHasSeats(p)'
  BY <1>1, OrdersUnchanged DEF SetIntent
<1>4. \A r \in Requests : RequestKnows(r)'
  BY <1>1 DEF SalesOK, RequestKnows, SetIntent
<1> QED BY <1>2, <1>3, <1>4 DEF SalesOK

LEMMA DriveKeeps ==
  ASSUME SalesOK, NEW r \in Requests, NEW o \in Orders, Drive(r, o)
  PROVE  SalesOK'
<1> DEFINE state == [at |-> "poll", on |-> o]
<1>0. SalesTypeOK BY DEF SalesOK
<1>1. /\ lock[o] = "free" /\ lock' = [lock EXCEPT ![o] = r]
      /\ request' = [request EXCEPT ![r] = state]
      /\ order[o] = "AWAITING_PAYMENT"
      /\ UNCHANGED <<seats, sales, outlived, overwritten>>
  BY <1>0 DEF Drive, Continue, Final, SalesTypeOK
<1>2. state \in RequestState
  BY DEF RequestState
<1>3. SalesTypeOK'
  BY <1>0, <1>1, <1>2 DEF SalesTypeOK, seats, sales
<1>4. IssuedOnce' /\ \A p \in Orders : OrderHasSeats(p)'
  BY <1>1, OrdersUnchanged DEF sales
<1>5. ASSUME NEW q \in Requests PROVE RequestKnows(q)'
  <2>1. CASE q = r
    <3>1. request'[q] = state /\ lock'[o] = r
      BY <1>0, <1>1, <2>1 DEF SalesTypeOK
    <3> QED BY <1>1, <2>1, <3>1 DEF RequestKnows, sales
  <2>2. CASE q # r
    <3>1. request'[q] = request[q]
      BY <1>0, <1>1, <2>2 DEF SalesTypeOK
    <3>2. request[q] # Waiting => request[q].on \in Orders
      BY <1>0, RequestOn
    <3>3. q # "free"
      OBVIOUS
    <3> QED BY <1>0, <1>1, <3>1, <3>2, <3>3
            DEF SalesOK, SalesTypeOK, RequestKnows, sales
  <2> QED BY <2>1, <2>2
<1> QED BY <1>3, <1>4, <1>5 DEF SalesOK

LEMMA PollKeeps == ASSUME SalesOK, NEW r \in Requests, Poll(r) PROVE SalesOK'
<1> DEFINE o == request[r].on
<1>0. SalesTypeOK BY DEF SalesOK
<1>1. /\ request[r].at = "poll"
      /\ \E status \in PollAnswers(o) : SetIntent(o, status)
      /\ \/ Finish(r)
         \/ \E next \in {"issue", "fail"} :
              Continue(r, [at |-> next, on |-> o]) /\ UNCHANGED lock
  BY DEF Poll
<1>2. request[r] # Waiting
  BY <1>1 DEF Waiting
<1>3. o \in Orders
  BY <1>0, <1>2, RequestOn
<1>4. PICK status \in PollAnswers(o) : SetIntent(o, status)
  BY <1>1
<1>5. status \in {"NONE", "CREATED", "AWAITING_PAYMENT",
                  "PAYMENT_VERIFIED", "PAYMENT_REJECTED", "UNDER_REVIEW"}
  BY <1>0, <1>3 DEF PollAnswers, SalesTypeOK
<1>6. IssuedOnce' /\ \A p \in Orders : OrderHasSeats(p)'
  BY <1>4, OrdersUnchanged DEF SetIntent
<1>7. /\ request' \in [Requests -> RequestState]
      /\ lock' \in [Orders -> Requests \cup {"free"}]
      /\ \A q \in Requests : RequestKnows(q)'
  <2>1. CASE Finish(r)
    BY <1>2, <1>4, <2>1, FinishKeepsRequests DEF SetIntent
  <2>2. ASSUME NEW next \in {"issue", "fail"},
               Continue(r, [at |-> next, on |-> o]), UNCHANGED lock
        PROVE  /\ request' \in [Requests -> RequestState]
               /\ lock' \in [Orders -> Requests \cup {"free"}]
               /\ \A q \in Requests : RequestKnows(q)'
    <3>1. [at |-> next, on |-> o] \in RequestState
      BY <1>3 DEF RequestState
    <3>2. lock' \in [Orders -> Requests \cup {"free"}]
      BY <1>0, <2>2 DEF SalesTypeOK
    <3> QED BY <1>2, <1>4, <2>2, <3>1, <3>2, ContinueKeepsRequests DEF SetIntent
  <2> QED BY <1>1, <2>1, <2>2
<1>8. SalesTypeOK'
  BY <1>0, <1>4, <1>5, <1>7 DEF SalesTypeOK, SetIntent, seats
<1> QED BY <1>6, <1>7, <1>8 DEF SalesOK

LEMMA FailOrderKeeps == ASSUME SalesOK, NEW r \in Requests, FailOrder(r) PROVE SalesOK'
<1> DEFINE o == request[r].on
<1>0. SalesTypeOK BY DEF SalesOK
<1>1. /\ request[r].at = "fail" /\ Finish(r)
      /\ sold' = sold - quantity[o] /\ sale' = "ACTIVE"
      /\ order' = [order EXCEPT ![o] = "FAILED"]
      /\ UNCHANGED <<quantity, intent, tickets, credited, outlived, overwritten>>
  BY DEF FailOrder
<1>2. request[r] # Waiting
  BY <1>1 DEF Waiting
<1>3. o \in Orders
  BY <1>0, <1>2, RequestOn
<1>4. /\ request' \in [Requests -> RequestState]
      /\ lock' \in [Orders -> Requests \cup {"free"}]
      /\ \A q \in Requests : RequestKnows(q)'
  BY <1>1, <1>2, FinishKeepsRequests
<1>5. SalesTypeOK'
  <2>1. sold' \in Int
    BY <1>0, <1>1, <1>3 DEF SalesTypeOK
  <2>2. order' \in [Orders -> {"NONE", "AWAITING_PAYMENT", "ISSUED", "FAILED"}]
    BY <1>0, <1>1 DEF SalesTypeOK
  <2>3. sale' \in {"ACTIVE", "SOLD_OUT"}
    BY <1>1
  <2> QED BY <1>0, <1>1, <1>4, <2>1, <2>2, <2>3 DEF SalesTypeOK
<1>6. ASSUME NEW p \in Orders \ outlived'
      PROVE  /\ tickets'[p] = IF order'[p] = "ISSUED" THEN quantity'[p] ELSE 0
             /\ credited'[p] = IF order'[p] = "ISSUED" THEN Net(p)' ELSE 0
  <2>1. CASE p = o
    <3>1. order[o] = "AWAITING_PAYMENT"
      BY <1>1, <1>2, <2>1 DEF SalesOK, RequestKnows
    <3> QED BY <1>0, <1>1, <2>1, <3>1 DEF SalesOK, SalesTypeOK, IssuedOnce
  <2>2. CASE p # o
    BY <1>0, <1>1, <2>2 DEF SalesOK, SalesTypeOK, IssuedOnce, Net
  <2> QED BY <2>1, <2>2
<1>7. IssuedOnce'
  BY <1>6 DEF IssuedOnce
<1>8. \A p \in Orders : OrderHasSeats(p)'
  <2>1. order[o] # "NONE"
    BY <1>2 DEF SalesOK, RequestKnows
  <2> QED BY <1>0, <1>1, <2>1 DEF SalesOK, SalesTypeOK, OrderHasSeats
<1> QED BY <1>4, <1>5, <1>7, <1>8 DEF SalesOK

LEMMA BookProceedsKeeps ==
  ASSUME SalesOK, SettlementsTypeOK, NEW r \in Requests, BookProceeds(r)
  PROVE  SalesOK'
<1> DEFINE o == request[r].on
<1>0. SalesTypeOK BY DEF SalesOK
<1>1. /\ request[r].at = "issue"
      /\ UNCHANGED <<seats, sales, lock, outlived, overwritten>>
  BY DEF BookProceeds
<1>2. request[r] # Waiting
  BY <1>1 DEF Waiting
<1>3. o \in Orders
  BY <1>0, <1>2, RequestOn
<1>4. PICK found \in Settlements \cup {"none"}, total \in Nat :
        Continue(r, [at |-> "book", on |-> o, found |-> found, total |-> total])
  <2>1. CASE Pending = {}
    BY <2>1 DEF BookProceeds
  <2>2. CASE Pending # {}
    <3>1. PICK s \in Pending : Continue(r, [at |-> "book", on |-> o, found |-> s,
                                            total |-> settlement[s].net])
      BY <2>2 DEF BookProceeds
    <3>2. s \in Settlements /\ settlement[s].net \in Nat
      BY DEF Pending, SettlementsTypeOK
    <3> QED BY <3>1, <3>2
  <2> QED BY <2>1, <2>2
<1>5. [at |-> "book", on |-> o, found |-> found, total |-> total] \in RequestState
  BY <1>3 DEF RequestState
<1>6. /\ request' \in [Requests -> RequestState]
      /\ \A q \in Requests : RequestKnows(q)'
  BY <1>1, <1>2, <1>4, <1>5, ContinueKeepsRequests DEF sales
<1>7. SalesTypeOK'
  BY <1>0, <1>1, <1>6 DEF SalesTypeOK, seats, sales
<1>8. IssuedOnce' /\ \A p \in Orders : OrderHasSeats(p)'
  BY <1>1, OrdersUnchanged DEF sales
<1> QED BY <1>6, <1>7, <1>8 DEF SalesOK

LEMMA IssueTicketsKeeps ==
  ASSUME SalesOK, SettlementsOK, NEW r \in Requests, IssueTickets(r)
  PROVE  SalesOK' /\ SettlementsOK'
<1> DEFINE o == request[r].on
<1>0. SalesTypeOK BY DEF SalesOK
<1>1. /\ request[r].at = "book" /\ Finish(r)
      /\ Accrue(request[r].found, request[r].total, Net(o))
      /\ order' = [order EXCEPT ![o] = "ISSUED"]
      /\ tickets' = [tickets EXCEPT ![o] = @ + quantity[o]]
      /\ credited' = [credited EXCEPT ![o] = @ + Net(o)]
      /\ UNCHANGED <<seats, quantity, intent, outlived>>
  BY DEF IssueTickets
<1>2. request[r] # Waiting
  BY <1>1 DEF Waiting
<1>3. /\ o \in Orders /\ order[o] # "NONE"
      /\ request[r].found \in Settlements \cup {"none"} /\ request[r].total \in Nat
  BY <1>0, <1>1, <1>2, RequestOn DEF SalesOK, RequestKnows
<1>4. Net(o) \in Nat \ {0}
  BY <1>3, NetType
<1>5. SettlementsOK' /\ overwritten' \in BOOLEAN
  <2>1. CASE request[r].found = "none"
    <3>1. (\E s \in Settlements : OpenWith(s, Net(o))) /\ overwritten' = overwritten
      BY <1>1, <2>1 DEF Accrue
    <3>2. SettlementsOK'
      BY <1>4, <3>1, OpenWithKeeps
    <3> QED BY <1>0, <3>1, <3>2 DEF SalesTypeOK
  <2>2. CASE request[r].found # "none"
    <3>1. /\ AddTo(request[r].found, request[r].total + Net(o))
          /\ overwritten' \in BOOLEAN
      BY <1>1, <2>2 DEF Accrue
    <3>2. request[r].total + Net(o) \in Nat \ {0}
      BY <1>3, <1>4
    <3> QED BY <1>3, <2>2, <3>1, <3>2, AddToKeeps
  <2> QED BY <2>1, <2>2
<1>6. /\ request' \in [Requests -> RequestState]
      /\ lock' \in [Orders -> Requests \cup {"free"}]
      /\ \A q \in Requests : RequestKnows(q)'
  BY <1>1, <1>2, FinishKeepsRequests
<1>7. SalesTypeOK'
  <2>1. order' \in [Orders -> {"NONE", "AWAITING_PAYMENT", "ISSUED", "FAILED"}]
    BY <1>0, <1>1 DEF SalesTypeOK
  <2>2. tickets' \in [Orders -> Nat]
    <3>1. tickets[o] + quantity[o] \in Nat
      BY <1>0, <1>3 DEF SalesTypeOK
    <3> QED BY <1>0, <1>1, <3>1 DEF SalesTypeOK
  <2>3. credited' \in [Orders -> Nat]
    <3>1. credited[o] + Net(o) \in Nat
      BY <1>0, <1>3, <1>4 DEF SalesTypeOK
    <3> QED BY <1>0, <1>1, <3>1 DEF SalesTypeOK
  <2>4. /\ sold' = sold /\ sale' = sale /\ quantity' = quantity
        /\ intent' = intent /\ outlived' = outlived
    BY <1>1 DEF seats
  <2> QED BY <1>0, <1>5, <1>6, <2>1, <2>2, <2>3, <2>4 DEF SalesTypeOK
<1>8. ASSUME NEW p \in Orders \ outlived'
      PROVE  /\ tickets'[p] = IF order'[p] = "ISSUED" THEN quantity'[p] ELSE 0
             /\ credited'[p] = IF order'[p] = "ISSUED" THEN Net(p)' ELSE 0
  <2>0. Net(p)' = Net(p)
    BY <1>1 DEF Net
  <2>1. CASE p = o
    <3>1. order[o] = "AWAITING_PAYMENT"
      BY <1>1, <1>2, <2>1 DEF SalesOK, RequestKnows
    <3>2. tickets[o] = 0 /\ credited[o] = 0
      BY <1>1, <2>1, <3>1 DEF SalesOK, IssuedOnce
    <3>3. /\ tickets'[o] = 0 + quantity[o] /\ credited'[o] = 0 + Net(o)
          /\ order'[o] = "ISSUED"
      BY <1>0, <1>1, <1>3, <3>2 DEF SalesTypeOK
    <3>4. quantity[o] \in Nat
      BY <1>0, <1>3 DEF SalesTypeOK
    <3> QED BY <1>1, <1>4, <2>0, <2>1, <3>3, <3>4
  <2>2. CASE p # o
    <3>1. tickets'[p] = tickets[p] /\ credited'[p] = credited[p] /\ order'[p] = order[p]
      BY <1>0, <1>1, <2>2 DEF SalesTypeOK
    <3> QED BY <1>1, <2>0, <3>1 DEF SalesOK, IssuedOnce
  <2> QED BY <2>1, <2>2
<1>9. IssuedOnce'
  BY <1>8 DEF IssuedOnce
<1>10. \A p \in Orders : OrderHasSeats(p)'
  BY <1>0, <1>1, <1>3 DEF SalesOK, SalesTypeOK, OrderHasSeats
<1> QED BY <1>5, <1>6, <1>7, <1>9, <1>10 DEF SalesOK

LEMMA AbandonKeeps == ASSUME SalesOK, NEW r \in Requests, Abandon(r) PROVE SalesOK'
<1>0. SalesTypeOK BY DEF SalesOK
<1>1. /\ request[r] # Waiting /\ Finish(r)
      /\ UNCHANGED <<seats, sales, outlived, overwritten>>
  BY DEF Abandon
<1>2. /\ request' \in [Requests -> RequestState]
      /\ lock' \in [Orders -> Requests \cup {"free"}]
      /\ \A q \in Requests : RequestKnows(q)'
  BY <1>1, FinishKeepsRequests DEF sales
<1>3. SalesTypeOK'
  BY <1>0, <1>1, <1>2 DEF SalesTypeOK, seats, sales
<1>4. IssuedOnce' /\ \A p \in Orders : OrderHasSeats(p)'
  BY <1>1, OrdersUnchanged DEF sales
<1> QED BY <1>2, <1>3, <1>4 DEF SalesOK

LEMMA LockExpiresKeeps == ASSUME SalesOK, NEW o \in Orders, LockExpires(o) PROVE SalesOK'
<1>0. SalesTypeOK BY DEF SalesOK
<1>1. /\ lock' = [lock EXCEPT ![o] = "free"] /\ outlived' = outlived \cup {o}
      /\ UNCHANGED <<seats, sales, request, overwritten>>
  BY DEF LockExpires
<1>2. SalesTypeOK'
  BY <1>0, <1>1 DEF SalesTypeOK, seats, sales
<1>3. IssuedOnce' /\ \A p \in Orders : OrderHasSeats(p)'
  BY <1>1, OrdersUnchanged DEF sales
<1>4. ASSUME NEW r \in Requests PROVE RequestKnows(r)'
  <2>1. request[r] # Waiting => request[r].on \in Orders
    BY <1>0, RequestOn
  <2> QED BY <1>0, <1>1, <2>1 DEF SalesOK, SalesTypeOK, RequestKnows, sales
<1> QED BY <1>2, <1>3, <1>4 DEF SalesOK

(* What a step of the other part leaves alone.                              *)
LEMMA SalesUnchanged ==
  ASSUME SalesOK, UNCHANGED <<seats, sales, request, lock, outlived, overwritten>>
  PROVE  SalesOK'
BY DEF SalesOK, SalesTypeOK, IssuedOnce, Net, OrderHasSeats, RequestKnows, seats, sales

LEMMA SettlementsUnchanged ==
  ASSUME SettlementsOK, UNCHANGED settlementVars PROVE SettlementsOK'
BY DEF SettlementsOK, SettlementsTypeOK, DebitedIsPaid, RowHasNet, OperatorKnows,
       settlementVars

-----------------------------------------------------------------------------
(* The invariant.                                                           *)

LEMMA InitInvariant == Init => IInv
<1> SUFFICES ASSUME Init PROVE IInv
  OBVIOUS
<1>1. SettlementsOK
  BY DEF Init, SettlementsInit, SettlementsOK, SettlementsTypeOK, DebitedIsPaid,
         RowHasNet, OperatorKnows, OperatorState, NoRow, NoPayout, Away
<1>2. SalesTypeOK
  <2>1. Waiting \in RequestState
    BY DEF RequestState
  <2>2. request \in [Requests -> RequestState]
    BY <2>1 DEF Init
  <2>3. lock \in [Orders -> Requests \cup {"free"}]
    BY DEF Init
  <2>4. /\ sold \in Int /\ sale \in {"ACTIVE", "SOLD_OUT"}
        /\ order \in [Orders -> {"NONE", "AWAITING_PAYMENT", "ISSUED", "FAILED"}]
        /\ quantity \in [Orders -> Nat]
    BY DEF Init
  <2>5. intent \in [Orders -> {"NONE", "CREATED", "AWAITING_PAYMENT",
                               "PAYMENT_VERIFIED", "PAYMENT_REJECTED", "UNDER_REVIEW"}]
    BY DEF Init
  <2>6. /\ tickets \in [Orders -> Nat] /\ credited \in [Orders -> Nat]
        /\ outlived \subseteq Orders
    BY DEF Init
  <2>7. overwritten \in BOOLEAN
    BY DEF Init
  <2> QED BY <2>2, <2>3, <2>4, <2>5, <2>6, <2>7 DEF SalesTypeOK
<1>3. IssuedOnce
  BY DEF Init, IssuedOnce
<1>4. \A o \in Orders : OrderHasSeats(o)
  BY DEF Init, OrderHasSeats
<1>5. \A r \in Requests : RequestKnows(r)
  BY DEF Init, RequestKnows
<1> QED BY <1>1, <1>2, <1>3, <1>4, <1>5, InvariantParts DEF SalesOK

LEMMA StepInvariant == IInv /\ [Next]_vars => IInv'
<1> SUFFICES ASSUME IInv, [Next]_vars PROVE IInv'
  OBVIOUS
<1>0. SalesOK /\ SettlementsOK
  BY InvariantParts
<1>1. ASSUME NEW o \in Orders, NEW q \in Quantities, CreateOrder(o, q)
      PROVE  SalesOK' /\ SettlementsOK'
  BY <1>0, <1>1, CreateOrderKeeps, SettlementsUnchanged DEF CreateOrder
<1>2. ASSUME NEW o \in Orders, StartPaymentOf(o) \/ AdminResolve(o)
      PROVE  SalesOK' /\ SettlementsOK'
  BY <1>0, <1>2, PaymentKeeps, SettlementsUnchanged
     DEF StartPaymentOf, AdminResolve, SetIntent
<1>3. ASSUME NEW o \in Orders, LockExpires(o) PROVE SalesOK' /\ SettlementsOK'
  BY <1>0, <1>3, LockExpiresKeeps, SettlementsUnchanged DEF LockExpires
<1>4. ASSUME NEW r \in Requests, NEW o \in Orders, Drive(r, o)
      PROVE  SalesOK' /\ SettlementsOK'
  BY <1>0, <1>4, DriveKeeps, SettlementsUnchanged DEF Drive
<1>5. ASSUME NEW r \in Requests, Poll(r) PROVE SalesOK' /\ SettlementsOK'
  BY <1>0, <1>5, PollKeeps, SettlementsUnchanged DEF Poll, SetIntent
<1>6. ASSUME NEW r \in Requests, FailOrder(r) PROVE SalesOK' /\ SettlementsOK'
  BY <1>0, <1>6, FailOrderKeeps, SettlementsUnchanged DEF FailOrder
<1>7. ASSUME NEW r \in Requests, BookProceeds(r) PROVE SalesOK' /\ SettlementsOK'
  BY <1>0, <1>7, BookProceedsKeeps, SettlementsUnchanged DEF BookProceeds, SettlementsOK
<1>8. ASSUME NEW r \in Requests, IssueTickets(r) PROVE SalesOK' /\ SettlementsOK'
  BY <1>0, <1>8, IssueTicketsKeeps
<1>9. ASSUME NEW r \in Requests, Abandon(r) PROVE SalesOK' /\ SettlementsOK'
  BY <1>0, <1>9, AbandonKeeps, SettlementsUnchanged DEF Abandon
<1>10. ASSUME OperatorStep,
              UNCHANGED <<seats, sales, request, lock, outlived, overwritten>>
       PROVE  SalesOK' /\ SettlementsOK'
  BY <1>0, <1>10, OperatorStepKeeps, SalesUnchanged
<1>11. ASSUME UNCHANGED vars PROVE SalesOK' /\ SettlementsOK'
  <2>1. /\ UNCHANGED <<seats, sales, request, lock, outlived, overwritten>>
        /\ UNCHANGED settlementVars
    BY <1>11 DEF vars
  <2> QED BY <1>0, <2>1, SalesUnchanged, SettlementsUnchanged
<1>12. SalesOK' /\ SettlementsOK'
  BY <1>1, <1>2, <1>3, <1>4, <1>5, <1>6, <1>7, <1>8, <1>9, <1>10, <1>11 DEF Next
<1> QED
  BY <1>12 DEF IInv, TypeOK, SettlementsOK, SalesOK, SalesTypeOK

(* What requests and operators carry from one step to the next stays true   *)
(* in every reachable state.                                                *)
THEOREM BoxOfficeInvariant == Spec => []IInv
<1> QED BY InitInvariant, StepInvariant, PTL DEF Spec

(* Type correctness of the box office and its settlements.                  *)
THEOREM BoxOfficeTypeCorrect == Spec => []TypeOK
<1>1. IInv => TypeOK
  BY DEF IInv
<1> QED BY <1>1, BoxOfficeInvariant, PTL

(* driveOrder is idempotent: tickets and journal of an order exist once,    *)
(* unless its lock expired under a request.                                 *)
THEOREM IssuedOnlyOnce == Spec => []IssuedOnce
<1>1. IInv => IssuedOnce
  BY DEF IInv
<1> QED BY <1>1, BoxOfficeInvariant, PTL

(* The organiser's account is debited only for payouts that were paid.      *)
THEOREM OnlyPaidIsDebited == Spec => []DebitedIsPaid
<1>1. IInv => DebitedIsPaid
  BY DEF IInv
<1> QED BY <1>1, BoxOfficeInvariant, PTL
-----------------------------------------------------------------------------
(* The seats.                                                               *)

(* What a proof needs of IInv about orders and seats.                       *)
LEMMA SeatFacts ==
  ASSUME IInv
  PROVE  /\ sold \in Int /\ Live \subseteq Orders /\ IsFiniteSet(Live)
         /\ \A o \in Orders : quantity[o] \in Nat
         /\ \A o \in Live : quantity[o] \in Int
<1>1. Live \subseteq Orders
  BY DEF Live
<1>2. IsFiniteSet(Live)
  BY <1>1, FS_Subset
<1> QED BY <1>1, <1>2 DEF IInv, TypeOK

LEMMA SeatsUnchanged ==
  ASSUME SeatsInv, UNCHANGED <<sold, sale, Live>>, outlived' = {} => outlived = {},
         \A o \in Live : quantity'[o] = quantity[o], IsFiniteSet(Live)
  PROVE  SeatsInv'
<1>1. SumOver(quantity', Live) = SumOver(quantity, Live)
  BY SumSame
<1> QED BY <1>1 DEF SeatsInv, SeatsFollowOrders, SaleAfter

LEMMA CreateOrderSeats ==
  ASSUME IInv, SeatsInv, NEW o \in Orders, NEW q \in Quantities, CreateOrder(o, q)
  PROVE  SeatsInv'
<1>1. /\ order[o] = "NONE" /\ sold + q <= Capacity /\ sold' = sold + q
      /\ quantity' = [quantity EXCEPT ![o] = q]
      /\ sale' = SaleAfter(sold') /\ order' = [order EXCEPT ![o] = "AWAITING_PAYMENT"]
      /\ outlived' = outlived
  BY DEF CreateOrder
<1>2. /\ o \notin Live /\ Live' = Live \cup {o}
      /\ quantity'[o] = q /\ \A p \in Live : quantity'[p] = quantity[p]
  BY <1>1 DEF IInv, TypeOK, Live
<1>3. q \in Nat /\ \A p \in Live \cup {o} : quantity'[p] \in Int
  BY <1>2, SeatFacts
<1>4. SumOver(quantity', Live \cup {o}) = SumOver(quantity', Live) + q
  BY <1>2, <1>3, SeatFacts, SumJoin
<1>5. SumOver(quantity', Live) = SumOver(quantity, Live)
  BY <1>2, SeatFacts, SumSame
<1>6. SumOver(quantity', Live') = SumOver(quantity, Live) + q
  BY <1>2, <1>4, <1>5
<1>7. SaleAfter(sold)' = SaleAfter(sold')
  BY DEF SaleAfter
<1> QED BY <1>1, <1>6, <1>7 DEF SeatsInv, SeatsFollowOrders

LEMMA FailOrderSeats ==
  ASSUME IInv, SeatsInv, NEW r \in Requests, FailOrder(r)
  PROVE  SeatsInv'
<1> DEFINE o == request[r].on
<1>1. /\ request[r] # Waiting /\ sold' = sold - quantity[o] /\ sale' = "ACTIVE"
      /\ order' = [order EXCEPT ![o] = "FAILED"]
      /\ quantity' = quantity /\ outlived' = outlived
  BY DEF FailOrder, Waiting
<1>2. o \in Orders /\ order[o] # "NONE" /\ quantity[o] \in Nat /\ quantity[o] > 0
  BY <1>1, RequestOn, InvariantParts DEF SalesOK, RequestKnows, OrderHasSeats, SalesTypeOK
<1>3. sold' <= Capacity /\ sold' < Capacity
  BY <1>1, <1>2, SeatFacts DEF SeatsInv
<1>4. ASSUME outlived' = {}
      PROVE  sold' = SumOver(quantity', Live')
  <2>1. order[o] = "AWAITING_PAYMENT"
    BY <1>1, <1>2, <1>4 DEF IInv, RequestKnows
  <2>2. o \in Live /\ Live' = Live \ {o}
    BY <1>1, <1>2, <2>1 DEF IInv, TypeOK, Live
  <2>3. SumOver(quantity, Live \ {o}) = SumOver(quantity, Live) - quantity[o]
    BY <2>2, SeatFacts, SumLeave
  <2>4. sold = SumOver(quantity, Live)
    BY <1>1, <1>4 DEF SeatsInv, SeatsFollowOrders
  <2> QED BY <1>1, <2>2, <2>3, <2>4
<1>5. SaleAfter(sold)' = "ACTIVE"
  BY <1>3, <1>1, <1>2, SeatFacts DEF SaleAfter
<1> QED BY <1>1, <1>3, <1>4, <1>5 DEF SeatsInv, SeatsFollowOrders

LEMMA IssueTicketsSeats ==
  ASSUME IInv, SeatsInv, NEW r \in Requests, IssueTickets(r)
  PROVE  SeatsInv'
<1> DEFINE o == request[r].on
<1>1. /\ request[r] # Waiting /\ UNCHANGED <<sold, sale, quantity, outlived>>
      /\ order' = [order EXCEPT ![o] = "ISSUED"]
  BY DEF IssueTickets, Waiting, seats
<1>2. o \in Orders
  BY <1>1, RequestOn, InvariantParts DEF SalesOK
<1>3. ASSUME outlived = {} PROVE Live' = Live
  <2>1. order[o] = "AWAITING_PAYMENT"
    BY <1>1, <1>2, <1>3 DEF IInv, RequestKnows
  <2> QED BY <1>1, <1>2, <2>1 DEF IInv, TypeOK, Live
<1>4. CASE outlived = {}
  BY <1>1, <1>3, <1>4, SeatFacts, SeatsUnchanged
<1>5. CASE outlived # {}
  BY <1>1, <1>5 DEF SeatsInv, SeatsFollowOrders
<1> QED BY <1>4, <1>5

LEMMA SeatsStep == IInv /\ SeatsInv /\ [Next]_vars => SeatsInv'
<1> SUFFICES ASSUME IInv, SeatsInv, [Next]_vars PROVE SeatsInv'
  OBVIOUS
<1>1. ASSUME UNCHANGED <<sold, sale, order, quantity>>, outlived' = {} => outlived = {}
      PROVE  SeatsInv'
  <2>1. Live' = Live
    BY <1>1 DEF Live
  <2> QED BY <1>1, <2>1, SeatFacts, SeatsUnchanged
<1>2. ASSUME NEW o \in Orders, StartPaymentOf(o) \/ AdminResolve(o) \/ LockExpires(o)
      PROVE  SeatsInv'
  BY <1>1, <1>2 DEF StartPaymentOf, AdminResolve, LockExpires, SetIntent, seats, sales
<1>3. ASSUME NEW r \in Requests, NEW o \in Orders, Drive(r, o) PROVE SeatsInv'
  BY <1>1, <1>3 DEF Drive, seats, sales
<1>4. ASSUME NEW r \in Requests, Poll(r) \/ BookProceeds(r) \/ Abandon(r) PROVE SeatsInv'
  BY <1>1, <1>4 DEF Poll, BookProceeds, Abandon, SetIntent, seats, sales
<1>5. ASSUME UNCHANGED <<seats, sales, request, lock, outlived, overwritten>> PROVE SeatsInv'
  BY <1>1, <1>5 DEF seats, sales
<1> QED
  BY <1>2, <1>3, <1>4, <1>5, CreateOrderSeats, FailOrderSeats, IssueTicketsSeats
     DEF Next, vars

LEMMA SeatsInit == Init => SeatsInv
<1> SUFFICES ASSUME Init PROVE SeatsInv
  OBVIOUS
<1>1. Live = {}
  BY DEF Init, Live
<1>2. SumOver(quantity, Live) = 0
  BY <1>1, SumEmpty
<1> QED BY <1>2 DEF Init, SeatsInv, SeatsFollowOrders, SaleAfter

(* The seats sold are those of the orders that wait or have their tickets,  *)
(* and the type is off sale exactly when all are sold.                      *)
THEOREM SeatsAreAccounted == Spec => []SeatsFollowOrders
<1>1. SeatsInv => SeatsFollowOrders
  BY DEF SeatsInv
<1> QED BY <1>1, SeatsInit, SeatsStep, BoxOfficeInvariant, PTL DEF Spec

(* Tickets and the seats still promised are the seats sold, which a checked *)
(* sale keeps within the capacity.                                          *)
LEMMA TicketsAreSeats == IInv /\ SeatsInv => NeverOversold
<1> SUFFICES ASSUME IInv, SeatsInv, outlived = {}
             PROVE  SumOver(tickets, Orders)
                      + SumOver(quantity, {o \in Live : tickets[o] = 0}) <= Capacity
  BY DEF NeverOversold
<1> DEFINE issued == {o \in Orders : order[o] = "ISSUED"}
           waiting == {o \in Live : tickets[o] = 0}
<1>1. \A o \in Orders : tickets[o] = IF order[o] = "ISSUED" THEN quantity[o] ELSE 0
  BY DEF IInv, IssuedOnce
<1>2. \A o \in Orders : quantity[o] \in Nat /\ (order[o] # "NONE" => quantity[o] > 0)
  BY SeatFacts DEF IInv, OrderHasSeats
<1>3. /\ Live = issued \cup waiting /\ issued \cap waiting = {}
      /\ issued \subseteq Orders /\ waiting \subseteq Orders
  BY <1>1, <1>2 DEF Live
<1>4. IsFiniteSet(issued) /\ IsFiniteSet(waiting) /\ IsFiniteSet(Orders \ issued)
  BY <1>3, FS_Subset
<1>5. Orders = issued \cup (Orders \ issued) /\ issued \cap (Orders \ issued) = {}
  BY <1>3
<1>6. \A o \in issued \cup waiting : quantity[o] \in Int
  BY <1>2, <1>3
<1>7. \A o \in issued \cup (Orders \ issued) : tickets[o] \in Int
  BY <1>1, <1>2
<1>8. \A o \in issued : tickets[o] = quantity[o]
  BY <1>1
<1>9. \A o \in Orders \ issued : tickets[o] = 0
  BY <1>1
<1> HIDE DEF issued, waiting
<1>10. SumOver(quantity, issued \cup waiting)
         = SumOver(quantity, issued) + SumOver(quantity, waiting)
  BY <1>3, <1>4, <1>6, SumUnion
<1>11. SumOver(tickets, issued \cup (Orders \ issued))
         = SumOver(tickets, issued) + SumOver(tickets, Orders \ issued)
  BY <1>4, <1>5, <1>7, SumUnion
<1>12. SumOver(tickets, issued) = SumOver(quantity, issued)
  BY <1>4, <1>8, SumSame
<1>13. SumOver(tickets, Orders \ issued) = 0
  BY <1>4, <1>9, SumZero
<1>14. SumOver(quantity, issued) \in Int
  BY <1>4, <1>6, SumTakeOut
<1>15. SumOver(tickets, Orders) = SumOver(quantity, issued)
  <2>1. SumOver(tickets, Orders) = SumOver(tickets, issued) + SumOver(tickets, Orders \ issued)
    BY <1>5, <1>11, Zenon
  <2> QED BY <1>12, <1>13, <1>14, <2>1
<1>16. sold = SumOver(quantity, issued) + SumOver(quantity, waiting)
  BY <1>3, <1>10, Zenon DEF SeatsInv, SeatsFollowOrders
<1>17. SumOver(tickets, Orders) + SumOver(quantity, waiting) <= Capacity
  BY <1>15, <1>16 DEF SeatsInv
<1> QED BY <1>17 DEF waiting

(* However requests, operators and the rail interleave, no more tickets     *)
(* exist or are promised than there are seats.                              *)
THEOREM NoSeatIsSoldTwice == Spec => []NeverOversold
<1> QED
  BY SeatsInit, SeatsStep, TicketsAreSeats, BoxOfficeInvariant, PTL DEF Spec

-----------------------------------------------------------------------------
(* The proceeds.                                                            *)

(* Operators leave totals alone, and no row that exists stops existing.     *)
LEMMA OperatorsKeepTotals ==
  ASSUME SettlementsOK, OperatorStep, NEW s \in Settlements
  PROVE  /\ settlement'[s].net = settlement[s].net
         /\ settlement'[s].status = "NONE" <=> settlement[s].status = "NONE"
<1>1. ASSUME NEW a \in Operators, operator[a] # Away, NEW status \in Statuses \ {"NONE"},
             SetStatus(operator[a].on, status)
      PROVE  /\ settlement'[s].net = settlement[s].net
             /\ settlement'[s].status = "NONE" <=> settlement[s].status = "NONE"
  <2>1. /\ operator[a].on \in Settlements /\ settlement[operator[a].on].status # "NONE"
    BY <1>1, OperatorOn DEF SettlementsOK, OperatorKnows
  <2> QED BY <1>1, <2>1 DEF SetStatus, SettlementsOK, SettlementsTypeOK, Statuses
<1>2. ASSUME NEW a \in Operators,
             Approve(a) \/ MarkProcessing(a) \/ RecordPaid(a) \/ RecordFailed(a)
      PROVE  /\ settlement'[s].net = settlement[s].net
             /\ settlement'[s].status = "NONE" <=> settlement[s].status = "NONE"
  <2>1. operator[a] # Away
    BY <1>2 DEF Approve, MarkProcessing, RecordPaid, RecordFailed, Away
  <2>2. \E status \in Statuses \ {"NONE"} : SetStatus(operator[a].on, status)
    BY <1>2 DEF Approve, MarkProcessing, RecordPaid, RecordFailed, Statuses
  <2> QED BY <1>1, <2>1, <2>2
<1>3. \/ settlement' = settlement
      \/ \E a \in Operators :
           Approve(a) \/ MarkProcessing(a) \/ RecordPaid(a) \/ RecordFailed(a)
  BY DEF OperatorStep, StartApproval, StartPayment, Read, CreatePayout, Process,
         Interrupt, RetryPayout
<1> QED BY <1>2, <1>3

LEMMA ProceedsKept ==
  ASSUME ProceedsInv, TypeOK', UNCHANGED <<credited, overwritten>>,
         \A s \in Settlements :
           /\ settlement'[s].net = settlement[s].net
           /\ settlement'[s].status = "NONE" <=> settlement[s].status = "NONE",
         \A r \in Requests :
           \/ request'[r] = request[r]
           \/ request'[r] = Waiting
           \/ request'[r].at # "book"
           \/ request'[r].found \in {"none"} \cup Pending
  PROVE  ProceedsInv'
<1>1. [s \in Settlements |-> settlement'[s].net] = [s \in Settlements |-> settlement[s].net]
  OBVIOUS
<1>2. ProceedsAreAccrued'
  BY <1>1 DEF ProceedsInv, ProceedsAreAccrued
<1>3. ASSUME NEW r \in Requests, request'[r] # Waiting, request'[r].at = "book",
             request'[r].found # "none", request'[r].found \in Settlements
      PROVE  settlement'[request'[r].found].status # "NONE"
  <2>1. CASE request'[r] = request[r]
    BY <1>3, <2>1 DEF ProceedsInv
  <2>2. CASE request'[r].found \in Pending
    BY <2>2 DEF Pending
  <2> QED BY <1>3, <2>1, <2>2
<1>4. \A r \in Requests :
        request'[r] # Waiting /\ request'[r].at = "book" =>
          request'[r].found \in Settlements \cup {"none"}
  BY DEF TypeOK, RequestState
<1>5. \A s \in Settlements : settlement'[s].status = "NONE" => settlement'[s].net = 0
  BY DEF ProceedsInv
<1> QED BY <1>2, <1>3, <1>4, <1>5 DEF ProceedsInv

LEMMA IssueTicketsProceeds ==
  ASSUME IInv, IInv', ProceedsInv, NEW r \in Requests, IssueTickets(r)
  PROVE  ProceedsInv'
<1> DEFINE o == request[r].on
           found == request[r].found
           total == request[r].total
           net == [s \in Settlements |-> settlement[s].net]
<1>0. SettlementsTypeOK /\ SalesOK
  BY InvariantParts DEF SettlementsOK
<1>1. /\ request[r] # Waiting /\ request[r].at = "book" /\ Finish(r)
      /\ Accrue(found, total, Net(o))
      /\ credited' = [credited EXCEPT ![o] = @ + Net(o)]
  BY DEF IssueTickets, Waiting
<1>2. o \in Orders /\ Net(o) \in Nat /\ found \in Settlements \cup {"none"} /\ total \in Nat
  BY <1>0, <1>1, RequestOn, NetType DEF SalesOK
<1>3. SumOver(credited', Orders) = SumOver(credited, Orders) + Net(o)
  <2>1. /\ \A p \in Orders : credited[p] \in Int /\ credited'[p] \in Int
        /\ \A p \in Orders : p # o => credited'[p] = credited[p]
        /\ credited'[o] = credited[o] + Net(o)
    BY <1>1, <1>2 DEF IInv, TypeOK
  <2>2. SumOver(credited', Orders) = SumOver(credited, Orders) + credited'[o] - credited[o]
    BY <1>2, <2>1, SumChange
  <2>3. SumOver(credited, Orders) \in Int
    BY <2>1, SumTakeOut
  <2> QED BY <1>2, <2>1, <2>2, <2>3
<1>4. \A q \in Requests : request'[q] = Waiting \/ request'[q] = request[q]
  BY <1>0, <1>1 DEF Finish, Continue, SalesOK, SalesTypeOK
<1>5. ASSUME NEW s \in Settlements, NEW new \in Nat, new >= net[s],
             \A t \in Settlements : settlement'[t].net = IF t = s THEN new ELSE net[t]
      PROVE  SumOver([t \in Settlements |-> settlement'[t].net], Settlements)
               = SumOver(net, Settlements) + new - net[s]
  <2> DEFINE net1 == [t \in Settlements |-> settlement'[t].net]
  <2>1. /\ \A t \in Settlements : net[t] \in Int /\ net1[t] \in Int
        /\ \A t \in Settlements : t # s => net1[t] = net[t]
        /\ net1[s] = new
    BY <1>0, <1>5 DEF SettlementsTypeOK
  <2> HIDE DEF net, net1
  <2>2. SumOver(net1, Settlements) = SumOver(net, Settlements) + net1[s] - net[s]
    BY <2>1, SumChange
  <2> QED BY <2>1, <2>2 DEF net1
<1>6. SumOver(net, Settlements) \in Int
  <2>1. \A t \in Settlements : net[t] \in Int
    BY <1>0 DEF SettlementsTypeOK
  <2> HIDE DEF net
  <2> QED BY <2>1, SumTakeOut
<1>7. CASE found = "none"
  <2>1. PICK s \in Settlements : OpenWith(s, Net(o))
    BY <1>1, <1>7 DEF Accrue
  <2>2. /\ overwritten' = overwritten /\ settlement[s].status = "NONE"
        /\ settlement' = [settlement EXCEPT ![s] = [status |-> "PENDING", net |-> Net(o)]]
    BY <1>1, <1>7, <2>1 DEF Accrue, OpenWith, Unused
  <2>3. net[s] = 0
    BY <2>2 DEF ProceedsInv
  <2>4. \A t \in Settlements : /\ settlement'[t].net = IF t = s THEN Net(o) ELSE net[t]
                               /\ t # s => settlement'[t] = settlement[t]
    BY <1>0, <2>2 DEF SettlementsTypeOK
  <2>5. SumOver([t \in Settlements |-> settlement'[t].net], Settlements)
          = SumOver(net, Settlements) + Net(o)
    BY <1>2, <1>5, <1>6, <2>3, <2>4
  <2>6. ProceedsAreAccrued'
    BY <1>3, <2>2, <2>5 DEF ProceedsInv, ProceedsAreAccrued
  <2>7. settlement'[s].status # "NONE"
    BY <1>0, <2>2 DEF SettlementsTypeOK
  <2>8. ASSUME NEW q \in Requests, request'[q] # Waiting, request'[q].at = "book",
               request'[q].found # "none"
        PROVE  settlement'[request'[q].found].status # "NONE"
    <3>1. request'[q] = request[q] /\ request[q].found \in Settlements
      BY <1>0, <1>4, <2>8, RequestOn DEF SalesOK
    <3> QED BY <2>4, <2>7, <2>8, <3>1 DEF ProceedsInv
  <2> QED BY <2>4, <2>6, <2>7, <2>8 DEF ProceedsInv
<1>8. CASE found # "none"
  <2>1. /\ settlement' = [settlement EXCEPT ![found].net = total + Net(o)]
        /\ overwritten' = (overwritten \/ settlement[found].net # total)
    BY <1>1, <1>8 DEF Accrue, AddTo
  <2>2. found \in Settlements /\ settlement[found].status # "NONE"
    BY <1>1, <1>2, <1>8 DEF ProceedsInv
  <2>3. \A t \in Settlements :
          /\ settlement'[t].net = IF t = found THEN total + Net(o) ELSE net[t]
          /\ settlement'[t].status = settlement[t].status
    BY <1>0, <2>1, <2>2 DEF SettlementsTypeOK
  <2>4. ASSUME ~overwritten'
        PROVE  SumOver([t \in Settlements |-> settlement'[t].net], Settlements)
                 = SumOver(net, Settlements) + Net(o)
    <3>1. net[found] = total
      BY <2>1, <2>2, <2>4
    <3>2. total + Net(o) \in Nat /\ total + Net(o) >= net[found]
      BY <1>2, <3>1
    <3>3. SumOver([t \in Settlements |-> settlement'[t].net], Settlements)
            = SumOver(net, Settlements) + (total + Net(o)) - net[found]
      BY <1>5, <2>2, <2>3, <3>2
    <3> HIDE DEF net, total, o, found
    <3> QED BY <1>2, <1>6, <3>1, <3>3
  <2>5. ProceedsAreAccrued'
    BY <1>3, <2>1, <2>4 DEF ProceedsInv, ProceedsAreAccrued
  <2>6. ASSUME NEW q \in Requests, request'[q] # Waiting, request'[q].at = "book",
               request'[q].found # "none"
        PROVE  settlement'[request'[q].found].status # "NONE"
    <3>1. request'[q] = request[q] /\ request[q].found \in Settlements
      BY <1>0, <1>4, <2>6, RequestOn DEF SalesOK
    <3> QED BY <2>3, <2>6, <3>1 DEF ProceedsInv
  <2>7. \A s \in Settlements : settlement'[s].status = "NONE" => settlement'[s].net = 0
    BY <2>2, <2>3 DEF ProceedsInv
  <2> QED BY <2>5, <2>6, <2>7 DEF ProceedsInv
<1> QED BY <1>7, <1>8

LEMMA ProceedsStep == IInv /\ IInv' /\ ProceedsInv /\ [Next]_vars => ProceedsInv'
<1> SUFFICES ASSUME IInv, IInv', ProceedsInv, [Next]_vars PROVE ProceedsInv'
  OBVIOUS
<1>0. SettlementsOK /\ SalesOK
  BY InvariantParts
<1>1. ASSUME UNCHANGED <<credited, overwritten, settlement>>,
             \A r \in Requests :
               \/ request'[r] = request[r]
               \/ request'[r] = Waiting
               \/ request'[r].at # "book"
               \/ request'[r].found \in {"none"} \cup Pending
      PROVE  ProceedsInv'
  BY <1>1, ProceedsKept DEF IInv
<1>2. ASSUME NEW r \in Requests, Finish(r)
      PROVE  \A q \in Requests : request'[q] = request[q] \/ request'[q] = Waiting
  BY <1>0, <1>2 DEF Finish, Continue, SalesOK, SalesTypeOK
<1>3. ASSUME NEW r \in Requests, NEW state, Continue(r, state),
             state.at # "book" \/ state.found \in {"none"} \cup Pending
      PROVE  \A q \in Requests :
               \/ request'[q] = request[q]
               \/ request'[q].at # "book"
               \/ request'[q].found \in {"none"} \cup Pending
  BY <1>0, <1>3 DEF Continue, SalesOK, SalesTypeOK
<1>4. ASSUME NEW o \in Orders, NEW q \in Quantities, CreateOrder(o, q) PROVE ProceedsInv'
  BY <1>1, <1>4 DEF CreateOrder, settlementVars
<1>5. ASSUME NEW o \in Orders, StartPaymentOf(o) \/ AdminResolve(o) \/ LockExpires(o)
      PROVE  ProceedsInv'
  BY <1>1, <1>5 DEF StartPaymentOf, AdminResolve, LockExpires, SetIntent, sales, settlementVars
<1>6. ASSUME NEW r \in Requests, NEW o \in Orders, Drive(r, o) PROVE ProceedsInv'
  <2>1. Continue(r, [at |-> "poll", on |-> o])
    BY <1>6 DEF Drive
  <2>2. \A q \in Requests : \/ request'[q] = request[q]
                            \/ request'[q].at # "book"
                            \/ request'[q].found \in {"none"} \cup Pending
    BY <1>3, <2>1
  <2> QED BY <1>1, <1>6, <2>2 DEF Drive, sales, settlementVars
<1>7. ASSUME NEW r \in Requests, Poll(r) PROVE ProceedsInv'
  <2>1. \/ Finish(r)
        \/ \E next \in {"issue", "fail"} : Continue(r, [at |-> next, on |-> request[r].on])
    BY <1>7 DEF Poll
  <2>2. UNCHANGED <<credited, overwritten, settlement>>
    BY <1>7 DEF Poll, SetIntent, settlementVars
  <2>3. CASE Finish(r)
    BY <1>1, <1>2, <2>2, <2>3
  <2>4. ASSUME NEW next \in {"issue", "fail"}, Continue(r, [at |-> next, on |-> request[r].on])
        PROVE  ProceedsInv'
    <3>1. [at |-> next, on |-> request[r].on].at # "book"
      OBVIOUS
    <3>2. \A q \in Requests : \/ request'[q] = request[q]
                              \/ request'[q].at # "book"
                              \/ request'[q].found \in {"none"} \cup Pending
      BY <1>3, <2>4, <3>1
    <3> QED BY <1>1, <2>2, <3>2
  <2> QED BY <2>1, <2>3, <2>4
<1>8. ASSUME NEW r \in Requests, FailOrder(r) \/ Abandon(r) PROVE ProceedsInv'
  BY <1>1, <1>2, <1>8 DEF FailOrder, Abandon, sales, settlementVars
<1>9. ASSUME NEW r \in Requests, BookProceeds(r) PROVE ProceedsInv'
  <2>1. PICK found \in {"none"} \cup Pending, total \in Nat :
          Continue(r, [at |-> "book", on |-> request[r].on, found |-> found, total |-> total])
    <3>1. CASE Pending = {}
      BY <1>9, <3>1 DEF BookProceeds
    <3>2. CASE Pending # {}
      <4>1. PICK s \in Pending :
              Continue(r, [at |-> "book", on |-> request[r].on, found |-> s,
                           total |-> settlement[s].net])
        BY <1>9, <3>2 DEF BookProceeds
      <4>2. settlement[s].net \in Nat
        BY <1>0 DEF Pending, SettlementsOK, SettlementsTypeOK
      <4> QED BY <4>1, <4>2
    <3> QED BY <3>1, <3>2
  <2> DEFINE state == [at |-> "book", on |-> request[r].on, found |-> found, total |-> total]
  <2>2. state.found \in {"none"} \cup Pending
    OBVIOUS
  <2> HIDE DEF state
  <2>3. \A q \in Requests : \/ request'[q] = request[q]
                            \/ request'[q].at # "book"
                            \/ request'[q].found \in {"none"} \cup Pending
    BY <1>3, <2>1, <2>2 DEF state
  <2> QED BY <1>1, <1>9, <2>3 DEF BookProceeds, sales, settlementVars
<1>10. ASSUME NEW r \in Requests, IssueTickets(r) PROVE ProceedsInv'
  BY <1>10, IssueTicketsProceeds
<1>11. ASSUME OperatorStep,
              UNCHANGED <<seats, sales, request, lock, outlived, overwritten>>
       PROVE  ProceedsInv'
  <2>1. \A s \in Settlements :
          /\ settlement'[s].net = settlement[s].net
          /\ settlement'[s].status = "NONE" <=> settlement[s].status = "NONE"
    BY <1>0, <1>11, OperatorsKeepTotals
  <2> QED BY <1>11, <2>1, ProceedsKept DEF sales, IInv
<1>12. CASE UNCHANGED vars
  BY <1>1, <1>12 DEF vars, sales, settlementVars
<1> QED
  BY <1>4, <1>5, <1>6, <1>7, <1>8, <1>9, <1>10, <1>11, <1>12 DEF Next

LEMMA ProceedsInit == Init => ProceedsInv
<1> SUFFICES ASSUME Init PROVE ProceedsInv
  OBVIOUS
<1> DEFINE net == [s \in Settlements |-> settlement[s].net]
<1>1. \A s \in Settlements : net[s] = 0 /\ settlement[s] = NoRow
  BY DEF Init, SettlementsInit, NoRow
<1>2. SumOver(net, Settlements) = 0
  <2> HIDE DEF net
  <2> QED BY <1>1, SumZero
<1>3. SumOver(credited, Orders) = 0
  <2>1. \A o \in Orders : credited[o] = 0
    BY DEF Init
  <2> QED BY <2>1, SumZero
<1>4. \A r \in Requests : request[r] = Waiting
  BY DEF Init
<1> QED BY <1>1, <1>2, <1>3, <1>4 DEF ProceedsInv, ProceedsAreAccrued, NoRow

(* What the journals credited to the organiser is what the settlements add  *)
(* up to, unless an accrual wrote over another one.                         *)
THEOREM NoProceedsAreLost == Spec => []ProceedsAreAccrued
<1>1. ProceedsInv => ProceedsAreAccrued
  BY DEF ProceedsInv
<1> QED BY <1>1, ProceedsInit, ProceedsStep, BoxOfficeInvariant, PTL DEF Spec

-----------------------------------------------------------------------------
(* Payouts.                                                                 *)

(* An accrual makes a row late once its payout is begun, so that nothing    *)
(* has to hold of its total any more.                                       *)
LEMMA AddToPayment ==
  ASSUME IInv, PaymentInv, NEW s \in Settlements, NEW n \in Nat, AddTo(s, n)
  PROVE  PaymentInv'
<1>1. /\ settlement' = [settlement EXCEPT ![s].net = n]
      /\ late' = IF payout[s] # NoPayout \/ PayingOn(s) # {} THEN late \cup {s} ELSE late
      /\ UNCHANGED <<payout, debited, operator, contested>>
  BY DEF AddTo
<1>2. \A t \in Settlements : /\ settlement'[t].status = settlement[t].status
                             /\ t # s => settlement'[t].net = settlement[t].net
  BY <1>1 DEF IInv, TypeOK, SettlementsTypeOK
<1>3. ASSUME NEW a \in Operators PROVE OperatorIsAlone(a)'
  <2> SUFFICES ASSUME operator[a] # Away PROVE OperatorIsAlone(a)'
    BY <1>1 DEF OperatorIsAlone
  <2> DEFINE t == operator[a].on
  <2>1. t \in Settlements
    BY OperatorOn DEF IInv, TypeOK
  <2>2. t \notin late' /\ operator[a].at # "approve" => operator[a].net = settlement'[t].net
    <3>1. CASE t = s
      <4>1. operator[a].at # "approve" => a \in PayingOn(s)
        BY <3>1 DEF PayingOn, AtWorkOn
      <4> QED BY <1>1, <3>1, <4>1
    <3>2. CASE t # s
      BY <1>1, <1>2, <2>1, <3>2 DEF PaymentInv, OperatorIsAlone
    <3> QED BY <3>1, <3>2
  <2> QED BY <1>1, <1>2, <2>1, <2>2 DEF PaymentInv, OperatorIsAlone, AtWorkOn
<1>4. ASSUME NEW t \in Settlements PROVE RowIsSettled(t)'
  <2>1. CASE t = s
    <3>1. payout[s] = NoPayout => debited[s] = 0
      BY DEF IInv, DebitedIsPaid, NoPayout, TypeOK, SettlementsTypeOK
    <3> QED BY <1>1, <1>2, <2>1, <3>1 DEF PaymentInv, RowIsSettled
  <2>2. CASE t # s
    BY <1>1, <1>2, <2>2 DEF PaymentInv, RowIsSettled
  <2> QED BY <2>1, <2>2
<1> QED BY <1>3, <1>4 DEF PaymentInv

(* A new row has no operator, no payout and no debit.                       *)
LEMMA OpenWithPayment ==
  ASSUME IInv, PaymentInv, NEW s \in Settlements, NEW n \in Nat, OpenWith(s, n)
  PROVE  PaymentInv'
<1>1. /\ settlement[s].status = "NONE"
      /\ settlement' = [settlement EXCEPT ![s] = [status |-> "PENDING", net |-> n]]
      /\ UNCHANGED <<payout, debited, operator, contested, late>>
  BY DEF OpenWith, Unused
<1>2. /\ \A t \in Settlements : t # s => settlement'[t] = settlement[t]
      /\ settlement'[s].status = "PENDING"
  BY <1>1 DEF IInv, TypeOK, SettlementsTypeOK
<1>3. ASSUME NEW a \in Operators PROVE OperatorIsAlone(a)'
  <2>1. operator[a] # Away => operator[a].on \in Settlements \ {s}
    BY <1>1, OperatorOn DEF IInv, TypeOK, OperatorKnows
  <2> QED BY <1>1, <1>2, <2>1 DEF PaymentInv, OperatorIsAlone, AtWorkOn
<1>4. ASSUME NEW t \in Settlements PROVE RowIsSettled(t)'
  <2>1. payout[s] = NoPayout
    BY <1>1 DEF PaymentInv, RowIsSettled
  <2>2. debited[s] = 0
    BY <2>1 DEF IInv, DebitedIsPaid, NoPayout, TypeOK, SettlementsTypeOK
  <2> QED BY <1>1, <1>2, <2>1, <2>2 DEF PaymentInv, RowIsSettled
<1> QED BY <1>3, <1>4 DEF PaymentInv

(* The first query: an operator who finds another one on the row contests it.*)
LEMMA ReadPayment ==
  ASSUME IInv, PaymentInv, NEW a \in Operators, NEW s \in Settlements,
         NEW place \in {"approve", "pay"}, Read(a, s, StatusAt(place), place)
  PROVE  PaymentInv'
<1> DEFINE read == [at |-> place, on |-> s, net |-> settlement[s].net]
<1>1. /\ operator[a] = Away /\ settlement[s].status = StatusAt(place)
      /\ operator' = [operator EXCEPT ![a] = read]
      /\ contested' = IF AtWorkOn(s) # {} THEN contested \cup {s} ELSE contested
      /\ UNCHANGED <<settlement, payout, debited, late>>
  BY DEF Read
<1>2. operator'[a] = read /\ \A b \in Operators : b # a => operator'[b] = operator[b]
  BY <1>1 DEF IInv, TypeOK, SettlementsTypeOK
<1>3. read # Away
  BY DEF Away
<1>4. ASSUME NEW t \in Settlements, t # s PROVE AtWorkOn(t)' = AtWorkOn(t)
  BY <1>1, <1>2, <1>3, <1>4 DEF AtWorkOn
<1>5. AtWorkOn(s)' = AtWorkOn(s) \cup {a}
  BY <1>1, <1>2, <1>3 DEF AtWorkOn
<1>6. OperatorIsAlone(a)'
  BY <1>1, <1>2, <1>5 DEF OperatorIsAlone
<1>7. ASSUME NEW b \in Operators, b # a PROVE OperatorIsAlone(b)'
  <2> SUFFICES ASSUME operator[b] # Away PROVE OperatorIsAlone(b)'
    BY <1>2, <1>7 DEF OperatorIsAlone
  <2>1. operator[b].on \in Settlements /\ operator'[b] = operator[b]
    BY <1>2, <1>7, OperatorOn DEF IInv, TypeOK
  <2>2. CASE operator[b].on = s
    <3>1. b \in AtWorkOn(s)
      BY <2>2 DEF AtWorkOn
    <3> QED BY <1>1, <2>1, <2>2, <3>1 DEF PaymentInv, OperatorIsAlone
  <2>3. CASE operator[b].on # s
    BY <1>1, <1>4, <2>1, <2>3 DEF PaymentInv, OperatorIsAlone
  <2> QED BY <2>2, <2>3
<1>8. \A t \in Settlements : RowIsSettled(t)'
  BY <1>1 DEF PaymentInv, RowIsSettled
<1> QED BY <1>6, <1>7, <1>8 DEF PaymentInv

(* A step of an operator who is on a row: the others are elsewhere, or the  *)
(* row is contested and they need to know less.                             *)
LEMMA MovePayment ==
  ASSUME IInv, PaymentInv, NEW a \in Operators, operator[a] # Away,
         NEW s \in Settlements, s = operator[a].on, NEW next,
         next # Away => next.on = s,
         operator' = [operator EXCEPT ![a] = next],
         UNCHANGED <<contested, late>>,
         \A t \in Settlements : t # s => /\ settlement'[t] = settlement[t]
                                       /\ payout'[t] = payout[t]
                                       /\ debited'[t] = debited[t],
         settlement'[s].net = settlement[s].net,
         payout[s] # NoPayout => payout'[s] # NoPayout,
         next # Away =>
           /\ next.at \notin {"approve", "pay"} => payout'[s] # NoPayout
           /\ s \notin contested => settlement'[s].status = StatusAt(next.at)
           /\ s \notin late /\ next.at # "approve" => next.net = settlement[s].net,
         RowIsSettled(s)'
  PROVE  PaymentInv'
<1>1. operator'[a] = next /\ \A b \in Operators : b # a => operator'[b] = operator[b]
  BY DEF IInv, TypeOK, SettlementsTypeOK
<1>2. \A t \in Settlements : AtWorkOn(t)' \subseteq AtWorkOn(t)
  BY <1>1 DEF AtWorkOn
<1>3. OperatorIsAlone(a)'
  BY <1>1, <1>2 DEF PaymentInv, OperatorIsAlone
<1>4. ASSUME NEW b \in Operators, b # a PROVE OperatorIsAlone(b)'
  <2> SUFFICES ASSUME operator[b] # Away PROVE OperatorIsAlone(b)'
    BY <1>1, <1>4 DEF OperatorIsAlone
  <2>1. operator[b].on \in Settlements /\ operator'[b] = operator[b]
    BY <1>1, <1>4, OperatorOn DEF IInv, TypeOK
  <2>2. CASE operator[b].on = s
    <3>1. s \in contested
      BY <1>4, <2>2 DEF PaymentInv, OperatorIsAlone, AtWorkOn
    <3> QED BY <2>1, <2>2, <3>1 DEF PaymentInv, OperatorIsAlone
  <2>3. CASE operator[b].on # s
    BY <1>2, <2>1, <2>3 DEF PaymentInv, OperatorIsAlone
  <2> QED BY <2>2, <2>3
<1>5. \A t \in Settlements : RowIsSettled(t)'
  BY DEF PaymentInv, RowIsSettled
<1> QED BY <1>3, <1>4, <1>5 DEF PaymentInv

(* While an operator is alone on a row, nothing was debited for it yet.     *)
LEMMA NothingDebitedYet ==
  ASSUME IInv, PaymentInv, NEW a \in Operators, operator[a] # Away,
         operator[a].on \notin contested
  PROVE  debited[operator[a].on] = 0
<1>1. operator[a].on \in Settlements
  BY OperatorOn DEF IInv, TypeOK
<1>2. settlement[operator[a].on].status # "PAID"
  BY DEF PaymentInv, OperatorIsAlone, StatusAt
<1> QED BY <1>1, <1>2 DEF PaymentInv, RowIsSettled, IInv, TypeOK, SettlementsTypeOK

(* The status of the row is written; the operator goes on or leaves.        *)
LEMMA StatusPayment ==
  ASSUME IInv, PaymentInv, NEW a \in Operators, operator[a] # Away,
         NEW status \in Statuses \ {"NONE", "PAID"}, SetStatus(operator[a].on, status),
         UNCHANGED <<payout, debited, contested, late>>,
         \/ Leave(a)
         \/ operator[a].at = "mark" /\ status = "PROCESSING" /\ Goto(a, "process")
  PROVE  PaymentInv'
<1> PICK s \in Settlements : s = operator[a].on
  BY OperatorOn DEF IInv, TypeOK
<1>1. s \in Settlements /\ SettlementsTypeOK
  BY DEF IInv, TypeOK
<1>2. /\ settlement'[s].status = status /\ settlement'[s].net = settlement[s].net
      /\ \A t \in Settlements : t # s => settlement'[t] = settlement[t]
  BY <1>1 DEF SetStatus, SettlementsTypeOK
<1>3. RowIsSettled(s)'
  <2>1. s \notin contested => debited[s] = 0
    BY NothingDebitedYet
  <2> QED BY <1>1, <1>2, <2>1 DEF PaymentInv, RowIsSettled
<1>4. CASE Leave(a)
  BY <1>1, <1>2, <1>3, <1>4, MovePayment DEF Leave
<1>5. CASE operator[a].at = "mark" /\ status = "PROCESSING" /\ Goto(a, "process")
  <2> DEFINE next == [at |-> "process", on |-> s, net |-> operator[a].net]
  <2>1. operator' = [operator EXCEPT ![a] = next]
    BY <1>1, <1>5, GotoIs
  <2>2. /\ payout[s] # NoPayout
        /\ s \notin late => operator[a].net = settlement[s].net
    BY <1>5 DEF PaymentInv, OperatorIsAlone
  <2>3. settlement'[s].status = StatusAt("process")
    BY <1>2, <1>5 DEF StatusAt
  <2> QED BY <1>1, <1>2, <1>3, <2>1, <2>2, <2>3, MovePayment
<1> QED BY <1>4, <1>5

LEMMA RecordPaidPayment ==
  ASSUME IInv, PaymentInv, NEW a \in Operators, RecordPaid(a)
  PROVE  PaymentInv'
<1>0. operator[a].at = "paid" /\ operator[a] # Away
  BY DEF RecordPaid, Away
<1> PICK s \in Settlements : s = operator[a].on
  BY <1>0, OperatorOn DEF IInv, TypeOK
<1>1. s \in Settlements /\ SettlementsTypeOK /\ operator[a].net \in Nat
  BY <1>0, OperatorOn DEF IInv, TypeOK
<1>2. /\ settlement'[s].status = "PAID" /\ settlement'[s].net = settlement[s].net
      /\ \A t \in Settlements : t # s => settlement'[t] = settlement[t]
  BY <1>1 DEF RecordPaid, SetStatus, SettlementsTypeOK
<1>3. /\ debited'[s] = debited[s] + operator[a].net
      /\ \A t \in Settlements : t # s => debited'[t] = debited[t]
      /\ payout' = payout /\ contested' = contested /\ late' = late
      /\ operator' = [operator EXCEPT ![a] = Away]
  BY <1>1 DEF RecordPaid, SettlementsTypeOK, Leave
<1>4. RowIsSettled(s)'
  <2>1. s \notin contested => debited'[s] = operator[a].net
    BY <1>0, <1>1, <1>3, NothingDebitedYet
  <2>2. s \notin late => operator[a].net = settlement[s].net
    BY <1>0 DEF PaymentInv, OperatorIsAlone
  <2> QED BY <1>1, <1>2, <1>3, <2>1, <2>2 DEF PaymentInv, RowIsSettled
<1> QED BY <1>0, <1>1, <1>2, <1>3, <1>4, MovePayment

LEMMA CreatePayoutPayment ==
  ASSUME IInv, PaymentInv, NEW a \in Operators, CreatePayout(a)
  PROVE  PaymentInv'
<1>0. operator[a].at = "pay" /\ operator[a] # Away
  BY DEF CreatePayout, Away
<1> PICK s \in Settlements : s = operator[a].on
  BY <1>0, OperatorOn DEF IInv, TypeOK
<1> DEFINE next == [at |-> "mark", on |-> s, net |-> operator[a].net]
<1>1. /\ s \in Settlements /\ SettlementsTypeOK /\ operator[a].net \in Nat
      /\ settlement[s].status # "NONE"
  BY <1>0, OperatorOn DEF IInv, TypeOK, OperatorKnows
<1>2. operator' = [operator EXCEPT ![a] = next]
  BY <1>0, <1>1, GotoIs DEF CreatePayout
<1>3. /\ payout'[s] = IF payout[s] = NoPayout
                        THEN [status |-> "PENDING", amount |-> operator[a].net]
                        ELSE payout[s]
      /\ \A t \in Settlements : t # s => payout'[t] = payout[t]
      /\ UNCHANGED <<settlement, debited, contested, late>>
  BY <1>1 DEF CreatePayout, SettlementsTypeOK
<1>4. payout'[s] # NoPayout
  BY <1>3 DEF NoPayout
<1>5. /\ s \notin late => operator[a].net = settlement[s].net
      /\ s \notin contested => settlement[s].status = StatusAt("mark")
  BY <1>0 DEF PaymentInv, OperatorIsAlone, StatusAt
<1>6. RowIsSettled(s)'
  BY <1>1, <1>3, <1>5 DEF PaymentInv, RowIsSettled
<1> QED BY <1>0, <1>1, <1>2, <1>3, <1>4, <1>5, <1>6, MovePayment

(* What process changes of a payout is its status.                          *)
LEMMA ProcessedAmount ==
  ASSUME SettlementsTypeOK, NEW s \in Settlements,
         NEW status \in {"PENDING", "PROCESSING", "PAID", "FAILED"}, ProcessPayout(s, status)
  PROVE  /\ payout[s] # NoPayout /\ payout'[s] # NoPayout
         /\ payout'[s].amount = payout[s].amount
         /\ \A t \in Settlements : t # s => payout'[t] = payout[t]
BY DEF ProcessPayout, SettlementsTypeOK, NoPayout

LEMMA ProcessPayment ==
  ASSUME IInv, PaymentInv, NEW a \in Operators, Process(a)
  PROVE  PaymentInv'
<1>0. operator[a].at = "process" /\ operator[a] # Away
  BY DEF Process, Away
<1> PICK s \in Settlements : s = operator[a].on
  BY <1>0, OperatorOn DEF IInv, TypeOK
<1>1. s \in Settlements /\ SettlementsTypeOK
  BY <1>0, OperatorOn DEF IInv, TypeOK
<1>2. PICK status \in {"PENDING", "PROCESSING", "PAID", "FAILED"} :
        /\ ProcessPayout(s, status)
        /\ (\E place \in {"paid", "failed"} : Goto(a, place)) \/ Leave(a)
        /\ UNCHANGED <<settlement, debited, contested, late>>
  BY DEF Process
<1>3. /\ payout[s] # NoPayout /\ payout'[s] # NoPayout
      /\ payout'[s].amount = payout[s].amount
      /\ \A t \in Settlements : t # s => payout'[t] = payout[t]
  BY <1>1, <1>2, ProcessedAmount
<1>4. RowIsSettled(s)'
  BY <1>1, <1>2, <1>3 DEF PaymentInv, RowIsSettled
<1>5. CASE Leave(a)
  BY <1>0, <1>1, <1>2, <1>3, <1>4, <1>5, MovePayment DEF Leave
<1>6. ASSUME NEW place \in {"paid", "failed"}, Goto(a, place) PROVE PaymentInv'
  <2> DEFINE next == [at |-> place, on |-> s, net |-> operator[a].net]
  <2>1. operator' = [operator EXCEPT ![a] = next]
    BY <1>0, <1>1, <1>6, GotoIs
  <2>2. /\ s \notin late => next.net = settlement[s].net
        /\ s \notin contested => settlement[s].status = StatusAt(next.at)
    BY <1>0 DEF PaymentInv, OperatorIsAlone, StatusAt
  <2> QED BY <1>0, <1>1, <1>2, <1>3, <1>4, <2>1, <2>2, MovePayment
<1> QED BY <1>2, <1>5, <1>6

LEMMA InterruptPayment ==
  ASSUME IInv, PaymentInv, NEW a \in Operators, Interrupt(a)
  PROVE  PaymentInv'
<1>1. /\ operator[a] # Away /\ operator' = [operator EXCEPT ![a] = Away]
      /\ UNCHANGED <<settlement, payout, debited, contested, late>>
  BY DEF Interrupt, Leave
<1> PICK s \in Settlements : s = operator[a].on
  BY <1>1, OperatorOn DEF IInv, TypeOK
<1>2. RowIsSettled(s)'
  BY <1>1 DEF PaymentInv, RowIsSettled
<1> QED BY <1>1, <1>2, MovePayment

LEMMA RetryPayment ==
  ASSUME IInv, PaymentInv, NEW s \in Settlements, RetryPayout(s)
  PROVE  PaymentInv'
<1>1. PICK status \in {"PENDING", "PROCESSING", "PAID", "FAILED"} : ProcessPayout(s, status)
  BY DEF RetryPayout
<1>2. UNCHANGED <<settlement, debited, operator, contested, late>>
  BY DEF RetryPayout
<1>3. /\ payout[s] # NoPayout /\ payout'[s] # NoPayout
      /\ payout'[s].amount = payout[s].amount
      /\ \A t \in Settlements : t # s => payout'[t] = payout[t]
  BY <1>1, ProcessedAmount DEF IInv, TypeOK
<1>4. \A t \in Settlements : RowIsSettled(t)'
  BY <1>2, <1>3 DEF PaymentInv, RowIsSettled
<1>5. ASSUME NEW a \in Operators PROVE OperatorIsAlone(a)'
  <2>1. operator[a] # Away => operator[a].on \in Settlements
    BY OperatorOn DEF IInv, TypeOK
  <2> QED BY <1>2, <1>3, <2>1 DEF PaymentInv, OperatorIsAlone, AtWorkOn
<1> QED BY <1>4, <1>5 DEF PaymentInv

LEMMA PaymentStep == IInv /\ PaymentInv /\ [Next]_vars => PaymentInv'
<1> SUFFICES ASSUME IInv, PaymentInv, [Next]_vars PROVE PaymentInv'
  OBVIOUS
<1>1. CASE UNCHANGED settlementVars
  BY <1>1 DEF settlementVars, PaymentInv, OperatorIsAlone, RowIsSettled, AtWorkOn
<1>2. ASSUME NEW r \in Requests, IssueTickets(r) PROVE PaymentInv'
  <2>1. /\ request[r] # Waiting /\ request[r].at = "book"
        /\ Accrue(request[r].found, request[r].total, Net(request[r].on))
    BY <1>2 DEF IssueTickets, Waiting
  <2>2. /\ Net(request[r].on) \in Nat
        /\ request[r].found \in Settlements \cup {"none"} /\ request[r].total \in Nat
    BY <2>1, RequestOn, NetType, InvariantParts DEF SalesOK
  <2>3. CASE request[r].found = "none"
    BY <2>1, <2>2, <2>3, OpenWithPayment DEF Accrue
  <2>4. CASE request[r].found # "none"
    <3>1. request[r].total + Net(request[r].on) \in Nat
      BY <2>2
    <3> QED BY <2>1, <2>2, <2>4, <3>1, AddToPayment DEF Accrue
  <2> QED BY <2>3, <2>4
<1>3. CASE OperatorStep
  <2>1. ASSUME NEW a \in Operators, NEW s \in Settlements,
               StartApproval(a, s) \/ StartPayment(a, s)
        PROVE  PaymentInv'
    <3>1. StatusAt("approve") = "PENDING" /\ StatusAt("pay") = "APPROVED"
      BY DEF StatusAt
    <3> QED BY <2>1, <3>1, ReadPayment DEF StartApproval, StartPayment
  <2>2. ASSUME NEW a \in Operators, Approve(a) \/ MarkProcessing(a) \/ RecordFailed(a)
        PROVE  PaymentInv'
    <3>1. operator[a] # Away
      BY <2>2 DEF Approve, MarkProcessing, RecordFailed, Away
    <3>2. CASE Approve(a)
      BY <3>1, <3>2, StatusPayment DEF Approve, Statuses
    <3>3. CASE MarkProcessing(a)
      BY <3>1, <3>3, StatusPayment DEF MarkProcessing, Statuses
    <3>4. CASE RecordFailed(a)
      BY <3>1, <3>4, StatusPayment DEF RecordFailed, Statuses
    <3> QED BY <2>2, <3>2, <3>3, <3>4
  <2> QED
    BY <1>3, <2>1, <2>2, CreatePayoutPayment, ProcessPayment, RecordPaidPayment,
       InterruptPayment, RetryPayment DEF OperatorStep
<1> QED
  BY <1>1, <1>2, <1>3
     DEF Next, CreateOrder, StartPaymentOf, AdminResolve, LockExpires, SetIntent, Drive,
         Poll, FailOrder, BookProceeds, Abandon, vars

LEMMA PaymentInit == Init => PaymentInv
BY DEF Init, SettlementsInit, PaymentInv, OperatorIsAlone, RowIsSettled, NoPayout

(* A settlement that no two operators handled at once, and to which nothing *)
(* was accrued after its payout was begun, is debited once and in full.     *)
THEOREM SettlementPaidInFull == Spec => []PaidInFull
<1>1. IInv /\ PaymentInv => PaidInFull
  <2> SUFFICES ASSUME IInv, PaymentInv, NEW s \in Settlements \ (contested \cup late)
               PROVE  /\ debited[s] \in {0, payout[s].amount}
                      /\ settlement[s].status = "PAID" =>
                           /\ debited[s] = settlement[s].net
                           /\ payout[s].amount = settlement[s].net
    BY DEF PaidInFull
  <2>1. debited[s] # 0 => payout[s].status = "PAID"
    BY DEF IInv, DebitedIsPaid, TypeOK, SettlementsTypeOK
  <2>2. payout[s].status = "PAID" => payout[s] # NoPayout
    BY DEF NoPayout
  <2>3. settlement[s].status = "PAID" => debited[s] # 0
    BY DEF IInv, DebitedIsPaid
  <2> QED BY <2>1, <2>2, <2>3 DEF PaymentInv, RowIsSettled
<1> QED BY <1>1, PaymentInit, PaymentStep, BoxOfficeInvariant, PTL DEF Spec

=============================================================================
