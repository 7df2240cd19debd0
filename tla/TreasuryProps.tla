--------------------------- MODULE TreasuryProps ----------------------------
(***************************************************************************)
(* What must hold of Treasury, and what the repository says of it.         *)
(***************************************************************************)
EXTENDS Reconciliation, Sums

(* The HELD reservations of bucket b, and what they add up to.              *)
Held(b) == {o \in Orders : Bucket(o) = b /\ reservation[o] = "HELD"}

Reserving == [o \in Orders |-> Amount(o)]

HeldIn(b) == SumOver(Reserving, Held(b))

Unposted(b) == IF b = "PDV_01" THEN unposted ELSE 0

ReservedMatches(b) == reserved[b] = HeldIn(b)

Owed(b) == IF b = "PDV_01" THEN owed ELSE 0

LedgerMatches(b) ==
  available[b] + reserved[b] = wallet[b] + aggregate[b] + Unposted(b) - Owed(b)

(* No interleaving drives a balance below zero, not even one that writes    *)
(* the account from an outdated read: the treasury never lends what it      *)
(* would have to show as a negative number.                                 *)
NeverNegative == \A b \in Buckets : available[b] >= 0 /\ reserved[b] >= 0

(* A bucket's reserved balance is exactly what its HELD reservations add up *)
(* to, unless a release or a consumption was computed from an account that  *)
(* changed before it was locked: that race is the only way to break it.     *)
ReservedIsHeld == \A b \in Buckets \ torn : ReservedMatches(b)

(* README.md:44: every money movement has its journal.  Unless the same     *)
(* race tore the bucket, the treasury holds what the asset accounts of the  *)
(* ledger say together (the wallet the orders post to and the aggregate the *)
(* adjustments post to), and the GNF that was credited but not posted yet,  *)
(* less what ticket sales left in GNF_PDV_01 for the organisers and the     *)
(* platform: no order, operator or settlement moves one side alone by       *)
(* anything else.                                                           *)
LedgerBacksTreasury == \A b \in Buckets \ torn : LedgerMatches(b)

(* treasury.service.ts:34: reconcile compares the treasury with the ledger. *)
(* It compares it with the aggregate account alone: while nothing was       *)
(* written since it read, and the bucket is not torn, what it reports as    *)
(* drift is the position the orders keep in the wallet accounts and the     *)
(* francs not posted yet, less the tickets' money, which no bucket has.     *)
DriftIsElsewhere ==
  \A r \in Reports \ moved :
    report[r].at \in {"find", "create"} =>
      LET a == report[r].alert
      IN  \/ a.bucket \in torn
          \/ a.drift = wallet[a.bucket] + Unposted(a.bucket) - Owed(a.bucket)

(* The inductive invariant behind the first and the third: an open          *)
(* transaction that is not outdated has read the account as it is.          *)
ReadIsCurrent(o) ==
  /\ seen[o].available >= 0
  /\ ~Idle(o) /\ o \notin outdated =>
       /\ seen[o].available = available[Bucket(o)]
       /\ seen[o].reserved = reserved[Bucket(o)]

IInv ==
  /\ TypeOK
  /\ NeverNegative
  /\ LedgerBacksTreasury
  /\ \A o \in Orders : ReadIsCurrent(o)

(* The one behind the second: only a reservation that is still HELD has an  *)
(* open transaction, so that a commit takes its amount off once.            *)
HeldInv ==
  /\ ReservedIsHeld
  /\ \A o \in Orders : ~Idle(o) => reservation[o] = "HELD"
=============================================================================
