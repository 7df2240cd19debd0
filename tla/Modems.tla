------------------------------- MODULE Modems -------------------------------
(***************************************************************************)
(* Orange Money modems (apps/api/src/modules/orange/modem-manager.service) *)
(* and the collections and payouts that use them (payments.service,        *)
(* payouts.service), under the Redis locks intent:<id> and payout:<id>     *)
(* whose 15 s TTL may run out under a running critical section.            *)
(*                                                                         *)
(* allocate locks every modem row and is one step.  release reads the row, *)
(* then writes a status and a counter step computed from what it read; the *)
(* health check reads all rows, then writes them one at a time.            *)
(*                                                                         *)
(* Amounts are in millions of GNF; a point of Score is 1 000 GNF.          *)
(***************************************************************************)
EXTENDS Integers, FiniteSets

CONSTANTS
  ModemIds,
  Intents,          \* payment intents, collected through a modem
  Payouts,          \* payouts, sent through a modem
  Amount,           \* what each of them moves
  Floats,           \* balances a health check may report
  DailyLimit,       \* OrangeModem.dailyLimit, 0 for none
  Workers,          \* executions of the operations on an intent or payout
  MaxStarts,        \* bound: allocations per intent or payout
  MaxEvents         \* bound: crashes, expired locks, operators' acts, health checks

MaxRecentFailures == 3        \* MAX_RECENT_FAILURES
MaxPayoutAttempts == 5        \* MAX_PAYOUT_ATTEMPTS

Jobs == Intents \cup Payouts
Uses == Jobs \X (1 .. MaxStarts)     \* one allocation of a modem to a job
Nothing == "none"

ASSUME ModemsAssumption ==
  /\ Amount \in Nat /\ DailyLimit \in Nat /\ Floats \subseteq Nat
  /\ MaxStarts \in Nat /\ MaxEvents \in Nat
  /\ Intents \cap Payouts = {} /\ Nothing \notin ModemIds \cup Workers

VARIABLES
  modem,            \* OrangeModem rows
  job,              \* PaymentIntent and Payout rows
  worker,           \* where each worker is
  holder,           \* who holds the lock of a job
  health,           \* what healthcheckAll read and has not written back
  events,           \* bound: how many of these happened
  open,             \* history: uses allocated whose release is not done
  streak,           \* history: failed releases since the last good one
  underflow         \* history: modems whose counter went below zero

rows == <<modem, open, streak, underflow>>
vars == <<modem, job, worker, holder, health, events, open, streak, underflow>>

ModemStatus == {"ONLINE", "BUSY", "OFFLINE", "USSD_ERROR", "MAINTENANCE"}
Modem ==
  [status : ModemStatus, enabled : BOOLEAN, activeJobs : Int,
   recentFailures : Nat, balance : Nat, volume : Nat]

Final == {"PAYMENT_VERIFIED", "PAYMENT_REJECTED", "EXPIRED", "CANCELLED"}
JobStatus ==
  Final \cup {"CREATED", "AWAITING_PAYMENT", "PAYMENT_DETECTED", "UNDER_REVIEW",
              "PENDING", "PROCESSING", "FAILED", "PAID"}

(* assigned: the modem and the use the row names; no use while it has none. *)
NoUse == [on |-> Nothing, use |-> <<>>]
Assigned == [on : ModemIds, use : Uses] \cup {NoUse}

Idle == [at |-> "idle"]

-----------------------------------------------------------------------------
(* ModemManager.allocate *)

Capped(points) == IF points > 5000 THEN 5000 ELSE points

Score(m) ==
  (IF m.status = "ONLINE" THEN 1000 ELSE 0)
    + Capped(1000 * (m.balance - Amount))
    + (IF DailyLimit = 0 THEN 5000
       ELSE Capped(1000 * (DailyLimit - m.volume - Amount)))
    - 800 * m.activeJobs - 2500 * m.recentFailures

Eligible(m, isPayout) ==
  /\ m.enabled /\ m.status \in {"ONLINE", "AVAILABLE"}
  /\ m.recentFailures < MaxRecentFailures
  /\ isPayout => m.balance >= Amount
  /\ DailyLimit > 0 => m.volume + Amount <= DailyLimit

Best(isPayout) ==
  LET eligible == {i \in ModemIds : Eligible(modem[i], isPayout)}
  IN  {i \in eligible : \A k \in eligible : Score(modem[k]) <= Score(modem[i])}

Allocate(i, use) ==
  /\ modem' = [modem EXCEPT ![i].activeJobs = @ + 1, ![i].status = "BUSY"]
  /\ open' = [open EXCEPT ![i] = @ \cup {use}]
  /\ UNCHANGED <<streak, underflow>>

-----------------------------------------------------------------------------
(* ModemManager.release: what it reads, and what it writes from that.       *)

Step(read) == IF read.activeJobs < 1 THEN read.activeJobs ELSE 1

TripsBreaker(read) == read.recentFailures + 1 >= MaxRecentFailures

StatusAfter(read, success) ==
  IF ~success /\ TripsBreaker(read) THEN "MAINTENANCE"
  ELSE IF read.activeJobs <= 1 THEN "ONLINE" ELSE "BUSY"

(* Mutant: the failures are written as a number instead of an increment.    *)
ReleasedAbsolutely(m, read, success) ==
  [m EXCEPT
     !.activeJobs = @ - Step(read),
     !.status = StatusAfter(read, success),
     !.recentFailures = IF success THEN 0 ELSE read.recentFailures + 1,
     !.volume = IF success THEN @ + Amount ELSE @,
     !.enabled = @ /\ (success \/ ~TripsBreaker(read))]

(* Mutant: so are the jobs.                                                 *)
ReleasedJobsAbsolutely(m, read, success) ==
  [m EXCEPT
     !.activeJobs = read.activeJobs - Step(read),
     !.status = StatusAfter(read, success),
     !.recentFailures = IF success THEN 0 ELSE @ + 1,
     !.volume = IF success THEN @ + Amount ELSE @,
     !.enabled = @ /\ (success \/ ~TripsBreaker(read))]

Released(m, read, success) ==
  [m EXCEPT
     !.activeJobs = @ - Step(read),
     !.status = StatusAfter(read, success),
     !.recentFailures = IF success THEN 0 ELSE @ + 1,
     !.volume = IF success THEN @ + Amount ELSE @,
     !.enabled = @ /\ (success \/ ~TripsBreaker(read))]

-----------------------------------------------------------------------------
(* MockOrangeMoneyProvider: what the rail answers under the scenario an     *)
(* operator set for the job, which may change between any two calls; due:   *)
(* four seconds have passed since a DELAYED job was first polled.           *)

Scenarios(j) ==
  {"DEFAULT", "DELAYED"} \cup
    (IF j \in Intents
     THEN {"PAYMENT_SUCCESS", "PAYMENT_FAILED", "TIMEOUT", "AMOUNT_MISMATCH"}
     ELSE {"PAYOUT_SUCCESS", "PAYOUT_FAILED"})

PayoutAnswer(scenario) == IF scenario = "PAYOUT_FAILED" THEN "FAILED" ELSE "PROCESSING"

(* Without a scenario a payout settles and a payment stays pending.         *)
CheckStatus(isPayout, scenario, due) ==
  CASE scenario \in {"PAYOUT_FAILED", "PAYMENT_FAILED"} -> "FAILED"
    [] scenario = "DELAYED" -> IF due THEN "SETTLED" ELSE "PENDING"
    [] scenario \in {"PAYMENT_SUCCESS", "AMOUNT_MISMATCH"} -> "SETTLED"
    [] OTHER -> IF isPayout THEN "SETTLED" ELSE "PENDING"

(* modemHealth of the mock and of the unconfigured modem provider.          *)
HealthAnswers(read) ==
  {[online |-> TRUE, balance |-> b] : b \in Floats} \cup {[online |-> FALSE, balance |-> read.balance]}

-----------------------------------------------------------------------------
(* Workers and locks.                                                       *)

Event == events < MaxEvents /\ events' = events + 1

Go(w, state) == worker' = [worker EXCEPT ![w] = state]

(* A worker leaves its critical section; the lock is only given back by the *)
(* one whose token it still holds.                                          *)
Leave(w) ==
  /\ Go(w, Idle)
  /\ holder' = [j \in Jobs |-> IF holder[j] = w THEN Nothing ELSE holder[j]]

Enter(w, j, state) ==
  /\ worker[w] = Idle /\ holder[j] = Nothing
  /\ holder' = [holder EXCEPT ![j] = w]
  /\ Go(w, state)

SetStatus(j, status) == job' = [job EXCEPT ![j].status = status]

(* threw: the initiation of a payout threw, and the row is still to be      *)
(* marked FAILED.                                                           *)
ReleaseOf(j, assigned, success, threw) ==
  [at |-> "release", on |-> j, from |-> assigned, success |-> success, threw |-> threw]

(* Leaves, or first releases the modem the row named.                       *)
ThenRelease(w, j, assigned, success) ==
  IF assigned = NoUse THEN Leave(w)
  ELSE Go(w, ReleaseOf(j, assigned, success, FALSE)) /\ UNCHANGED holder

(* startCollection and process: the status read under the lock.             *)
Startable(j) ==
  IF j \in Intents THEN job[j].status = "CREATED"
  ELSE \/ job[j].status = "PENDING"
       \/ job[j].status = "FAILED" /\ job[j].attempts < MaxPayoutAttempts

Start(w, j) ==
  /\ Startable(j)
  /\ Enter(w, j, [at |-> "allocate", on |-> j])
  /\ IF j \in Payouts THEN SetStatus(j, "PENDING") ELSE UNCHANGED job
  /\ UNCHANGED <<rows, health, events>>

(* NO_MODEM_AVAILABLE leaves the row as it is.                              *)
AllocateOrFail(w) ==
  /\ worker[w].at = "allocate"
  /\ LET j == worker[w].on
         best == Best(j \in Payouts)
         use == <<j, job[j].starts + 1>>
     IN  \/ /\ best = {}
            /\ Leave(w) /\ UNCHANGED <<job, rows>>
         \/ \E i \in best :
              /\ job[j].starts < MaxStarts
              /\ Allocate(i, use)
              /\ job' = [job EXCEPT ![j].starts = @ + 1]
              /\ Go(w, [at |-> "initiate", on |-> j, from |-> [on |-> i, use |-> use]])
              /\ UNCHANGED holder
  /\ UNCHANGED <<health, events>>

(* initiateCollect or initiatePayout, and the OrangeSession row: the rail    *)
(* accepts, refuses a payout in its answer, or something throws.            *)
Initiate(w) ==
  /\ worker[w].at = "initiate"
  /\ LET j == worker[w].on
         from == worker[w].from
     IN  \/ \E scenario \in Scenarios(j) :
              Go(w, [at |-> "record", on |-> j, from |-> from,
                     refused |-> PayoutAnswer(scenario) = "FAILED"])
         \/ Go(w, ReleaseOf(j, from, FALSE, j \in Payouts))
  /\ UNCHANGED <<job, rows, holder, health, events>>

(* The transaction after the rail's answer; process goes on to confirm.     *)
RecordStart(w) ==
  /\ worker[w].at = "record"
  /\ LET j == worker[w].on
         from == worker[w].from
         refused == worker[w].refused
     IN  /\ job' = [job EXCEPT
              ![j].status = IF j \in Intents THEN "AWAITING_PAYMENT"
                            ELSE IF refused THEN "FAILED" ELSE "PROCESSING",
              ![j].assigned = from,
              ![j].attempts = IF j \in Payouts THEN @ + 1 ELSE @]
         /\ IF j \in Intents THEN Leave(w)
            ELSE /\ Go(w, IF refused THEN ReleaseOf(j, from, FALSE, FALSE)
                          ELSE [at |-> "poll", on |-> j, read |-> "PROCESSING", from |-> from])
                 /\ UNCHANGED holder
  /\ UNCHANGED <<rows, health, events>>

-----------------------------------------------------------------------------
(* pollIntent, reconcileIntent and confirm.                                 *)

Poll(w, j) ==
  /\ j \in Intents
  /\ job[j].status \in {"AWAITING_PAYMENT", "PAYMENT_DETECTED"}
  /\ job[j].assigned # NoUse
  /\ Enter(w, j, [at |-> "poll", on |-> j, read |-> job[j].status, from |-> job[j].assigned])
  /\ UNCHANGED <<job, rows, health, events>>

(* A pending payout stays PROCESSING, which no later run starts again.      *)
Answer(w) ==
  /\ worker[w].at = "poll"
  /\ \E scenario \in Scenarios(worker[w].on), due \in BOOLEAN :
       LET j == worker[w].on
           from == worker[w].from
           status == CheckStatus(j \in Payouts, scenario, due)
       IN  \/ status = "PENDING" /\ Leave(w) /\ UNCHANGED job
           \/ /\ status = "FAILED"
              /\ SetStatus(j, IF j \in Intents THEN "PAYMENT_REJECTED" ELSE "FAILED")
              /\ ThenRelease(w, j, from, FALSE)
           \/ /\ status = "SETTLED" /\ j \in Payouts
              /\ SetStatus(j, "PAID")
              /\ ThenRelease(w, j, from, TRUE)
           \/ /\ status = "SETTLED" /\ j \in Intents
              /\ IF worker[w].read = "AWAITING_PAYMENT" THEN SetStatus(j, "PAYMENT_DETECTED")
                 ELSE UNCHANGED job
              /\ Go(w, [at |-> "reconcile", on |-> j, exact |-> scenario # "AMOUNT_MISMATCH"])
              /\ UNCHANGED holder
  /\ UNCHANGED <<rows, health, events>>

(* reconcileIntent reads the intent again ...                               *)
ReadIntent(w) ==
  /\ worker[w].at = "reconcile"
  /\ LET j == worker[w].on
     IN  IF job[j].status = "PAYMENT_VERIFIED" THEN Leave(w)
         ELSE /\ Go(w, [at |-> "match", on |-> j, exact |-> worker[w].exact,
                        from |-> job[j].assigned])
              /\ UNCHANGED holder
  /\ UNCHANGED <<job, rows, health, events>>

(* ... and writes the outcome over whatever it is by then: matched when the *)
(* amounts are equal and the payment came within an hour of its window.     *)
Reconcile(w) ==
  /\ worker[w].at = "match"
  /\ \E withinWindow \in BOOLEAN :
       LET j == worker[w].on
           matched == worker[w].exact /\ withinWindow
       IN  /\ SetStatus(j, IF matched THEN "PAYMENT_VERIFIED" ELSE "UNDER_REVIEW")
           /\ ThenRelease(w, j, worker[w].from, matched)
  /\ UNCHANGED <<rows, health, events>>

ExpireIntent(w, j) ==
  /\ j \in Intents /\ job[j].status \notin Final
  /\ worker[w] = Idle /\ holder[j] = Nothing
  /\ SetStatus(j, "EXPIRED")
  /\ IF job[j].assigned = NoUse THEN UNCHANGED <<worker, holder>>
     ELSE /\ Go(w, ReleaseOf(j, job[j].assigned, FALSE, FALSE))
          /\ holder' = [holder EXCEPT ![j] = w]
  /\ UNCHANGED <<rows, health, events>>

(* adminResolve takes no lock and looks at no status.                       *)
AdminResolve(w, j, decision) ==
  /\ j \in Intents /\ worker[w] = Idle
  /\ Event
  /\ SetStatus(j, IF decision = "VERIFY" THEN "PAYMENT_VERIFIED" ELSE "PAYMENT_REJECTED")
  /\ IF decision = "VERIFY" /\ job[j].assigned # NoUse
     THEN Go(w, ReleaseOf(j, job[j].assigned, TRUE, FALSE))
     ELSE UNCHANGED worker
  /\ UNCHANGED <<rows, holder, health>>

ReadForRelease(w) ==
  /\ worker[w].at = "release"
  /\ Go(w, [at |-> "write", on |-> worker[w].on, from |-> worker[w].from,
            success |-> worker[w].success, threw |-> worker[w].threw,
            read |-> modem[worker[w].from.on]])
  /\ UNCHANGED <<job, rows, holder, health, events>>

(* The write; a payout whose initiation threw is then marked FAILED.        *)
WriteRelease(w) ==
  /\ worker[w].at = "write"
  /\ LET j == worker[w].on
         i == worker[w].from.on
         use == worker[w].from.use
         read == worker[w].read
         success == worker[w].success
         written == Released(modem[i], read, success)
     IN  /\ modem' = [modem EXCEPT ![i] = written]
         /\ open' = [open EXCEPT ![i] = @ \ {use}]
         /\ streak' = [streak EXCEPT ![i] = IF success THEN 0 ELSE @ + 1]
         /\ underflow' = IF written.activeJobs < 0 THEN underflow \cup {i} ELSE underflow
         /\ IF worker[w].threw
            THEN job' = [job EXCEPT ![j].status = "FAILED", ![j].attempts = @ + 1]
            ELSE UNCHANGED job
  /\ Leave(w)
  /\ UNCHANGED <<health, events>>

(* A worker dies at any await; its lock stays until the TTL.  Only locks     *)
(* that run out under a worker are bounded.                                  *)
Crash(w) ==
  /\ worker[w] # Idle
  /\ Event
  /\ Go(w, Idle)
  /\ UNCHANGED <<job, rows, holder, health>>

LockExpires(j) ==
  /\ holder[j] # Nothing
  /\ IF worker[holder[j]] = Idle THEN UNCHANGED events ELSE Event
  /\ holder' = [holder EXCEPT ![j] = Nothing]
  /\ UNCHANGED <<job, rows, worker, health>>

-----------------------------------------------------------------------------
(* Health check and operators.                                              *)

ReadAll ==
  /\ DOMAIN health = {}
  /\ Event
  /\ health' = modem
  /\ UNCHANGED <<job, rows, worker, holder>>

HealthStatus(read, online) ==
  IF read.status = "MAINTENANCE" THEN "MAINTENANCE"
  ELSE IF ~online THEN "OFFLINE"
  ELSE IF read.activeJobs > 0 THEN "BUSY" ELSE "ONLINE"

(* The next row is written from what was read of it, whatever it holds now; *)
(* a provider that throws leaves USSD_ERROR.                                *)
WriteHealth(i) ==
  /\ i \in DOMAIN health
  /\ \/ \E h \in HealthAnswers(health[i]) :
          modem' = [modem EXCEPT ![i].status = HealthStatus(health[i], h.online),
                                 ![i].balance = h.balance]
     \/ modem' = [modem EXCEPT ![i].status = "USSD_ERROR"]
  /\ health' = [k \in DOMAIN health \ {i} |-> health[k]]
  /\ UNCHANGED <<job, worker, holder, events, open, streak, underflow>>

(* setModemState: recentFailures is not reset.                              *)
SetModemState(i) ==
  /\ Event
  /\ \E to \in {[enabled |-> TRUE, status |-> "ONLINE"], [enabled |-> FALSE, status |-> "OFFLINE"],
                [enabled |-> FALSE, status |-> "MAINTENANCE"]} :
       modem' = [modem EXCEPT ![i].enabled = to.enabled, ![i].status = to.status]
  /\ UNCHANGED <<job, worker, holder, health, open, streak, underflow>>

-----------------------------------------------------------------------------
Init ==
  /\ modem = [i \in ModemIds |->
                [status |-> "ONLINE", enabled |-> TRUE, activeJobs |-> 0,
                 recentFailures |-> 0, balance |-> Amount, volume |-> 0]]
  /\ job = [j \in Jobs |->
              [status |-> IF j \in Intents THEN "CREATED" ELSE "PENDING",
               assigned |-> NoUse, attempts |-> 0, starts |-> 0]]
  /\ worker = [w \in Workers |-> Idle]
  /\ holder = [j \in Jobs |-> Nothing]
  /\ health = [i \in {} |-> Nothing]
  /\ events = 0
  /\ open = [i \in ModemIds |-> {}]
  /\ streak = [i \in ModemIds |-> 0]
  /\ underflow = {}

WorkerStep(w) ==
  \/ AllocateOrFail(w) \/ Initiate(w) \/ RecordStart(w) \/ Answer(w) \/ ReadIntent(w)
  \/ Reconcile(w) \/ ReadForRelease(w) \/ WriteRelease(w)

Next ==
  \/ \E w \in Workers, j \in Jobs : Start(w, j) \/ Poll(w, j) \/ ExpireIntent(w, j)
  \/ \E w \in Workers, j \in Jobs, d \in {"VERIFY", "REJECT"} : AdminResolve(w, j, d)
  \/ \E w \in Workers : WorkerStep(w) \/ Crash(w)
  \/ \E j \in Jobs : LockExpires(j)
  \/ ReadAll
  \/ \E i \in ModemIds : WriteHealth(i) \/ SetModemState(i)

Spec == Init /\ [][Next]_vars
=============================================================================
