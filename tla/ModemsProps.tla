---------------------------- MODULE ModemsProps -----------------------------
(***************************************************************************)
(* What must hold of Modems.                                               *)
(***************************************************************************)
EXTENDS Modems

(* A use some row or worker names: which modem, for which job.              *)
Assignment == [on : ModemIds, use : Uses]

JobRow ==
  [status : JobStatus, assigned : Assigned, attempts : Nat, starts : 0 .. MaxStarts]

WorkerState ==
  {Idle}
    \cup [at : {"allocate"}, on : Jobs]
    \cup [at : {"initiate"}, on : Jobs, from : Assignment]
    \cup [at : {"record"}, on : Jobs, from : Assignment, refused : BOOLEAN]
    \cup [at : {"poll"}, on : Jobs, from : Assignment, read : JobStatus]
    \cup [at : {"reconcile"}, on : Jobs, exact : BOOLEAN]
    \cup [at : {"match"}, on : Jobs, from : Assigned, exact : BOOLEAN]
    \cup [at : {"release"}, on : Jobs, from : Assignment, success : BOOLEAN, threw : BOOLEAN]
    \cup [at : {"write"}, on : Jobs, from : Assignment, success : BOOLEAN, threw : BOOLEAN,
          read : Modem]

TypeOK ==
  /\ modem \in [ModemIds -> Modem]
  /\ job \in [Jobs -> JobRow]
  /\ worker \in [Workers -> WorkerState]
  /\ holder \in [Jobs -> Workers \cup {Nothing}]
  /\ DOMAIN health \subseteq ModemIds /\ \A i \in DOMAIN health : health[i] \in Modem
  /\ open \in [ModemIds -> SUBSET Uses]
  /\ streak \in [ModemIds -> Nat]
  /\ underflow \subseteq ModemIds

(* A modem is never held busy by its counter alone: activeJobs counts no    *)
(* more than the uses that are not released, although release reads it      *)
(* without a lock, a job may be released twice, workers die and locks       *)
(* expire.  Only a modem that two releases of one job have counted below    *)
(* zero may be off.                                                         *)
CounterIsBacked ==
  \A i \in ModemIds \ underflow : modem[i].activeJobs <= Cardinality(open[i])

(* A modem that failed three times in a row gets no new job before one that *)
(* was still out succeeds, whatever health checks and operators write to    *)
(* its status in between.                                                   *)
FailingModemRests ==
  \A i \in ModemIds : streak[i] >= MaxRecentFailures => ~Eligible(modem[i], FALSE)

(* The inductive invariant behind the two.  A use that is out, or that a    *)
(* row or a worker names, is one its job was given, so the next one is new. *)
WasGiven(use) == use[2] <= job[use[1]].starts

NamesUse == {"initiate", "record", "poll", "match", "release", "write"}

UsesAreGiven ==
  /\ \A i \in ModemIds : IsFiniteSet(open[i]) /\ \A use \in open[i] : WasGiven(use)
  /\ \A j \in Jobs : job[j].assigned # NoUse => WasGiven(job[j].assigned.use)
  /\ \A w \in Workers :
       worker[w].at \in NamesUse /\ worker[w].from # NoUse => WasGiven(worker[w].from.use)

(* The worker is about to write a release of modem i.                       *)
Releases(w, i) == worker[w].at = "write" /\ worker[w].from.on = i

(* The uses whose release read a counter of zero: it will take the use out  *)
(* and nothing off the counter.                                             *)
Uncounted(i) ==
  {use \in open[i] :
     \E w \in Workers :
       /\ Releases(w, i) /\ worker[w].from.use = use
       /\ worker[w].read.activeJobs = 0}

(* A zero that was read was true when it was read: no use was counted, and  *)
(* each of them stays uncounted until a release takes it out.               *)
CounterInv ==
  \A i \in ModemIds \ underflow :
    /\ modem[i].activeJobs >= 0
    /\ \A w \in Workers : Releases(w, i) => worker[w].read.activeJobs >= 0
    /\ modem[i].activeJobs + Cardinality(Uncounted(i)) <= Cardinality(open[i])

StreakIsCounted == \A i \in ModemIds : modem[i].recentFailures = streak[i]

IInv == TypeOK /\ UsesAreGiven /\ CounterInv /\ StreakIsCounted
=============================================================================
