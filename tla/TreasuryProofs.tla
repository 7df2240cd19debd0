--------------------------- MODULE TreasuryProofs ---------------------------
(***************************************************************************)
(* Proofs about Treasury, for any number of orders, any amounts and any    *)
(* opening balances.  What reserved adds up to is a sum over the orders    *)
(* (Sums).                                                                 *)
(***************************************************************************)
EXTENDS TreasuryProps, TLAPS

USE TreasuryAssumption

(* What an order moves is a positive amount of one of the buckets.          *)
LEMMA AmountType ==
  \A o \in Orders : Amount(o) \in Nat \ {0} /\ Bucket(o) \in Buckets
BY DEF Amount, Bucket, Orders, Buckets

(* The part of the invariant that the update of one account can disturb.    *)
AccountsOK ==
  /\ available \in [Buckets -> Int] /\ reserved \in [Buckets -> Int]
  /\ pending \in [Orders -> {"none", "release", "consume"}]
  /\ seen \in [Orders -> Reading]
  /\ outdated \subseteq Orders
  /\ NeverNegative
  /\ \A o \in Orders : ReadIsCurrent(o)

(* An update under the lock outdates every open reading of the bucket and   *)
(* leaves those of the other bucket current.                                *)
LEMMA MoveKeepsAccounts ==
  ASSUME AccountsOK, NEW b \in Buckets, NEW x \in Int, NEW y \in Int,
         available[b] + x >= 0, reserved[b] + y >= 0,
         Move(b, x, y), UNCHANGED open
  PROVE  /\ AccountsOK'
         /\ available' = [available EXCEPT ![b] = available[b] + x]
         /\ reserved' = [reserved EXCEPT ![b] = reserved[b] + y]
<1>1. /\ available' = [available EXCEPT ![b] = available[b] + x]
      /\ reserved' = [reserved EXCEPT ![b] = reserved[b] + y]
      /\ outdated' = outdated \cup Readers(b)
  BY DEF Move, Write
<1>2. /\ available' \in [Buckets -> Int] /\ reserved' \in [Buckets -> Int]
      /\ outdated' \subseteq Orders
  BY <1>1 DEF AccountsOK, Readers
<1>3. NeverNegative'
  BY <1>1 DEF AccountsOK, NeverNegative
<1>4. ASSUME NEW o \in Orders PROVE ReadIsCurrent(o)'
  <2>1. seen' = seen /\ pending' = pending
    BY DEF open
  <2>2. CASE Bucket(o) = b
    BY <1>1, <2>1, <2>2 DEF AccountsOK, ReadIsCurrent, Readers, Idle
  <2>3. CASE Bucket(o) # b
    BY <1>1, <2>1, <2>3, AmountType DEF AccountsOK, ReadIsCurrent, Readers, Idle
  <2> QED BY <2>2, <2>3
<1> QED
  BY <1>1, <1>2, <1>3, <1>4 DEF AccountsOK, open

(* Reading the account makes a current reading; closing one leaves none.    *)
LEMMA ReadKeepsAccounts ==
  ASSUME AccountsOK, NEW o \in Orders, NEW operation \in {"release", "consume"},
         ReadAccount(o, operation)
  PROVE  AccountsOK'
<1>1. /\ pending' = [pending EXCEPT ![o] = operation]
      /\ seen' = [seen EXCEPT ![o] = [available |-> available[Bucket(o)],
                                      reserved |-> reserved[Bucket(o)]]]
      /\ available' = available /\ reserved' = reserved /\ outdated' = outdated
  BY DEF ReadAccount, account
<1>2. /\ available[Bucket(o)] \in Int /\ reserved[Bucket(o)] \in Int
      /\ available[Bucket(o)] >= 0
  BY AmountType DEF AccountsOK, NeverNegative
<1>3. pending' \in [Orders -> {"none", "release", "consume"}]
      /\ seen' \in [Orders -> Reading]
  BY <1>1, <1>2 DEF AccountsOK, Reading
<1>4. ASSUME NEW p \in Orders PROVE ReadIsCurrent(p)'
  <2>1. CASE p = o
    <3>1. seen'[p] = [available |-> available[Bucket(o)],
                      reserved |-> reserved[Bucket(o)]]
      BY <1>1, <2>1 DEF AccountsOK
    <3> QED BY <1>1, <1>2, <2>1, <3>1 DEF ReadIsCurrent
  <2>2. CASE p # o
    BY <1>1, <2>2 DEF AccountsOK, ReadIsCurrent, Idle
  <2> QED BY <2>1, <2>2
<1> QED
  BY <1>1, <1>3, <1>4 DEF AccountsOK, NeverNegative

(* A write computed from an unlocked reading: the account stays positive    *)
(* whatever was read, and follows from the account as it was if the reading *)
(* was current.                                                             *)
LEMMA CommitKeepsAccounts ==
  ASSUME AccountsOK, torn \subseteq Buckets, NEW o \in Orders, NEW n \in Nat,
         NEW s, ~Idle(o), CommitReservation(o, n, s)
  PROVE  /\ AccountsOK'
         /\ available' = [available EXCEPT ![Bucket(o)] = n]
         /\ reserved' = [reserved EXCEPT ![Bucket(o)] = seen[o].reserved - Amount(o)]
         /\ torn' \subseteq Buckets /\ torn \subseteq torn'
         /\ Bucket(o) \notin torn' =>
              /\ seen[o].available = available[Bucket(o)]
              /\ seen[o].reserved = reserved[Bucket(o)]
<1> DEFINE b == Bucket(o)
<1>1. /\ seen[o].reserved >= Amount(o)
      /\ available' = [available EXCEPT ![b] = n]
      /\ reserved' = [reserved EXCEPT ![b] = seen[o].reserved - Amount(o)]
      /\ pending' = [pending EXCEPT ![o] = "none"]
      /\ seen' = [seen EXCEPT ![o] = Nothing]
      /\ outdated' = (outdated \cup Readers(b)) \ {o}
      /\ torn' = IF o \in outdated THEN torn \cup {b} ELSE torn
  BY DEF CommitReservation, Write, Close
<1>2. b \in Buckets /\ Amount(o) \in Nat
  BY AmountType
<1>3. seen[o].reserved \in Int /\ seen[o].available \in Int
  BY DEF AccountsOK, Reading
<1>4. /\ available' \in [Buckets -> Int] /\ reserved' \in [Buckets -> Int]
      /\ pending' \in [Orders -> {"none", "release", "consume"}]
      /\ seen' \in [Orders -> Reading]
      /\ outdated' \subseteq Orders
  BY <1>1, <1>2, <1>3 DEF AccountsOK, Reading, Nothing, Readers
<1>5. NeverNegative'
  BY <1>1, <1>2, <1>3 DEF AccountsOK, NeverNegative
<1>6. ASSUME NEW p \in Orders PROVE ReadIsCurrent(p)'
  <2>1. CASE p = o
    <3>1. seen'[p] = Nothing /\ pending'[p] = "none"
      BY <1>1, <2>1 DEF AccountsOK
    <3> QED BY <3>1 DEF ReadIsCurrent, Idle, Nothing
  <2>2. CASE p # o
    <3>1. seen'[p] = seen[p] /\ pending'[p] = pending[p]
      BY <1>1, <2>2 DEF AccountsOK
    <3>2. CASE Bucket(p) = b
      BY <1>1, <2>2, <3>1, <3>2 DEF AccountsOK, ReadIsCurrent, Readers, Idle
    <3>3. CASE Bucket(p) # b
      <4>1. /\ available'[Bucket(p)] = available[Bucket(p)]
            /\ reserved'[Bucket(p)] = reserved[Bucket(p)]
        BY <1>1, <3>3, AmountType DEF AccountsOK
      <4>2. p \notin outdated' => p \notin outdated
        BY <1>1, <2>2
      <4> QED BY <3>1, <4>1, <4>2 DEF AccountsOK, ReadIsCurrent, Idle
    <3> QED BY <3>2, <3>3
  <2> QED BY <2>1, <2>2
<1>7. torn' \subseteq Buckets /\ torn \subseteq torn'
  BY <1>1, <1>2
<1>8. b \notin torn' => /\ seen[o].available = available[b]
                        /\ seen[o].reserved = reserved[b]
  BY <1>1 DEF AccountsOK, ReadIsCurrent
<1> QED
  BY <1>1, <1>4, <1>5, <1>6, <1>7, <1>8 DEF AccountsOK

(* The bookkeeping that is not the accounts'.                               *)
BooksOK ==
  /\ reservation \in [Orders -> {"NONE", "HELD", "RELEASED", "CONSUMED"}]
  /\ credited \subseteq Orders
  /\ wallet \in [Buckets -> Int] /\ aggregate \in [Buckets -> Int]
  /\ owed \in Int /\ unposted \in Int
  /\ torn \subseteq Buckets

LEMMA InvariantParts == IInv => AccountsOK /\ BooksOK /\ LedgerBacksTreasury
BY DEF IInv, TypeOK, AccountsOK, BooksOK

LEMMA InvariantAfter ==
  AccountsOK' /\ BooksOK' /\ LedgerBacksTreasury' => IInv'
BY DEF IInv, TypeOK, AccountsOK, BooksOK

(* The initial state satisfies the invariant: the seed opens each bucket    *)
(* with the journal that backs it.                                          *)
LEMMA InitInvariant == Init => IInv
<1> SUFFICES ASSUME Init PROVE IInv OBVIOUS
<1>1. TypeOK
  BY DEF Init, TypeOK, Reading, Nothing
<1>2. NeverNegative
  BY DEF Init, NeverNegative
<1>3. LedgerBacksTreasury
  BY DEF Init, LedgerBacksTreasury, LedgerMatches, Unposted, Owed
<1>4. ASSUME NEW o \in Orders PROVE ReadIsCurrent(o)
  BY DEF Init, ReadIsCurrent, Idle, Nothing
<1> QED BY <1>1, <1>2, <1>3, <1>4 DEF IInv

(* A reservation moves an amount inside its bucket.                         *)
LEMMA ReserveKeeps ==
  ASSUME IInv, NEW o \in Orders, ReserveFunds(o),
         UNCHANGED <<credited, open, ledger, torn>>
  PROVE  IInv'
<1> DEFINE b == Bucket(o)
<1>1. /\ AccountsOK /\ BooksOK /\ LedgerBacksTreasury
  BY InvariantParts
<1>2. b \in Buckets /\ Amount(o) \in Nat
  BY AmountType
<1>3. available[b] \in Int /\ reserved[b] \in Int /\ reserved[b] >= 0
  BY <1>1, <1>2 DEF AccountsOK, NeverNegative
<1>4. Move(b, -Amount(o), Amount(o)) /\ available[b] >= Amount(o)
  BY DEF ReserveFunds
<1>5. /\ AccountsOK'
      /\ available' = [available EXCEPT ![b] = available[b] + (-Amount(o))]
      /\ reserved' = [reserved EXCEPT ![b] = reserved[b] + Amount(o)]
  <2>1. /\ -Amount(o) \in Int /\ Amount(o) \in Int
        /\ available[b] + (-Amount(o)) >= 0 /\ reserved[b] + Amount(o) >= 0
    BY <1>2, <1>3, <1>4
  <2> HIDE DEF b
  <2> QED BY <1>1, <1>2, <1>4, <2>1, MoveKeepsAccounts
<1>6. BooksOK'
  BY <1>1 DEF BooksOK, ReserveFunds, ledger
<1>7. ASSUME NEW c \in Buckets \ torn' PROVE LedgerMatches(c)'
  <2>1. LedgerMatches(c) /\ c \in Buckets
    BY <1>1, <1>7 DEF LedgerBacksTreasury
  <2> QED BY <1>1, <1>2, <1>5, <2>1
          DEF LedgerMatches, Unposted, Owed, ledger, AccountsOK, BooksOK
<1> QED BY <1>5, <1>6, <1>7, InvariantAfter DEF LedgerBacksTreasury

(* Every step keeps the invariant.                                          *)
LEMMA StepInvariant == IInv /\ [Next]_vars => IInv'
<1> SUFFICES ASSUME IInv, [Next]_vars PROVE IInv' OBVIOUS
<1>0. AccountsOK /\ BooksOK /\ LedgerBacksTreasury
  BY InvariantParts
<1>1. ASSUME NEW o \in Orders, ReserveUsdt(o) PROVE IInv'
  BY <1>1, ReserveKeeps DEF ReserveUsdt
<1>2. ASSUME NEW o \in Orders, ReserveGnf(o) PROVE IInv'
  BY <1>2, ReserveKeeps DEF ReserveGnf
<1>3. ASSUME NEW o \in Orders, CreditPayment(o) PROVE IInv'
  <2>1. Gnf[o] \in Nat /\ "PDV_01" \in Buckets
    BY DEF Buckets
  <2>2. /\ available["PDV_01"] + Gnf[o] >= 0 /\ reserved["PDV_01"] + 0 >= 0
    BY <1>0, <2>1 DEF AccountsOK, NeverNegative
  <2>3. /\ AccountsOK'
        /\ available' = [available EXCEPT !["PDV_01"] = available["PDV_01"] + Gnf[o]]
        /\ reserved' = [reserved EXCEPT !["PDV_01"] = reserved["PDV_01"] + 0]
    BY <1>0, <1>3, <2>1, <2>2, MoveKeepsAccounts DEF CreditPayment
  <2>4. BooksOK'
    BY <1>0, <1>3, <2>1 DEF BooksOK, CreditPayment
  <2>5. ASSUME NEW c \in Buckets \ torn' PROVE LedgerMatches(c)'
    <3>1. LedgerMatches(c)
      BY <1>0, <1>3, <2>5 DEF LedgerBacksTreasury, CreditPayment
    <3> QED BY <1>0, <1>3, <2>1, <2>3, <3>1
            DEF LedgerMatches, Unposted, Owed, CreditPayment, AccountsOK, BooksOK
  <2> QED BY <2>3, <2>4, <2>5, InvariantAfter DEF LedgerBacksTreasury
<1>4. ASSUME NEW o \in Orders, CreditDeposit(o) PROVE IInv'
  <2>1. Usdt[o] \in Nat /\ "HOT" \in Buckets
    BY DEF Buckets
  <2>2. /\ available["HOT"] + Usdt[o] >= 0 /\ reserved["HOT"] + 0 >= 0
    BY <1>0, <2>1 DEF AccountsOK, NeverNegative
  <2>3. /\ AccountsOK'
        /\ available' = [available EXCEPT !["HOT"] = available["HOT"] + Usdt[o]]
        /\ reserved' = [reserved EXCEPT !["HOT"] = reserved["HOT"] + 0]
    BY <1>0, <1>4, <2>1, <2>2, MoveKeepsAccounts DEF CreditDeposit
  <2>4. BooksOK'
    BY <1>0, <1>4, <2>1 DEF BooksOK, CreditDeposit
  <2>5. ASSUME NEW c \in Buckets \ torn' PROVE LedgerMatches(c)'
    <3>1. LedgerMatches(c)
      BY <1>0, <1>4, <2>5 DEF LedgerBacksTreasury, CreditDeposit
    <3> QED BY <1>0, <1>4, <2>1, <2>3, <3>1
            DEF LedgerMatches, Unposted, Owed, CreditDeposit, AccountsOK, BooksOK
  <2> QED BY <2>3, <2>4, <2>5, InvariantAfter DEF LedgerBacksTreasury
<1>5. ASSUME NEW o \in Orders, CompleteBuy(o) PROVE IInv'
  <2>1. /\ o \in Buys /\ Bucket(o) = "HOT" /\ Amount(o) = Usdt[o]
        /\ Gnf[o] \in Nat /\ Usdt[o] \in Nat /\ "HOT" \in Buckets
    BY <1>5 DEF CompleteBuy, Bucket, Amount, Buckets
  <2>2. available["HOT"] \in Nat /\ ~Idle(o)
    BY <1>0, <1>5, <2>1 DEF AccountsOK, NeverNegative, CompleteBuy, Idle
  <2>3. /\ AccountsOK'
        /\ available' = [available EXCEPT !["HOT"] = available["HOT"]]
        /\ reserved' = [reserved EXCEPT !["HOT"] = seen[o].reserved - Usdt[o]]
        /\ torn' \subseteq Buckets /\ torn \subseteq torn'
        /\ "HOT" \notin torn' => seen[o].reserved = reserved["HOT"]
    BY <1>0, <1>5, <2>1, <2>2, CommitKeepsAccounts DEF CompleteBuy, BooksOK
  <2>4. BooksOK'
    <3>1. reservation' = [reservation EXCEPT ![o] = "CONSUMED"]
      BY <1>5 DEF CompleteBuy, CommitReservation
    <3>2. /\ wallet' = [wallet EXCEPT !["HOT"] = @ - Usdt[o],
                                      !["PDV_01"] = @ + Gnf[o]]
          /\ unposted' = unposted - Gnf[o]
          /\ credited' = credited /\ aggregate' = aggregate /\ owed' = owed
      BY <1>5 DEF CompleteBuy
    <3>3. wallet' \in [Buckets -> Int] /\ unposted' \in Int
      BY <1>0, <2>1, <3>2 DEF BooksOK, Buckets
    <3> QED BY <1>0, <2>3, <3>1, <3>2, <3>3 DEF BooksOK
  <2>5. ASSUME NEW c \in Buckets \ torn' PROVE LedgerMatches(c)'
    <3>1. LedgerMatches(c)
      BY <1>0, <2>3, <2>5 DEF LedgerBacksTreasury
    <3> QED BY <1>0, <1>5, <2>1, <2>3, <2>5, <3>1
            DEF LedgerMatches, Unposted, Owed, CompleteBuy, AccountsOK, BooksOK, Buckets
  <2> QED BY <2>3, <2>4, <2>5, InvariantAfter DEF LedgerBacksTreasury
<1>6. ASSUME NEW o \in Orders, CompleteSell(o) PROVE IInv'
  <2>1. /\ o \in Sells /\ Bucket(o) = "PDV_01" /\ Amount(o) = Gnf[o]
        /\ Gnf[o] \in Nat /\ "PDV_01" \in Buckets
    BY <1>6 DEF CompleteSell, Bucket, Amount, Buckets
  <2>2. available["PDV_01"] \in Nat /\ ~Idle(o)
    BY <1>0, <1>6, <2>1 DEF AccountsOK, NeverNegative, CompleteSell, Idle
  <2>3. /\ AccountsOK'
        /\ available' = [available EXCEPT !["PDV_01"] = available["PDV_01"]]
        /\ reserved' = [reserved EXCEPT !["PDV_01"] = seen[o].reserved - Gnf[o]]
        /\ torn' \subseteq Buckets /\ torn \subseteq torn'
        /\ "PDV_01" \notin torn' => seen[o].reserved = reserved["PDV_01"]
    BY <1>0, <1>6, <2>1, <2>2, CommitKeepsAccounts DEF CompleteSell, BooksOK
  <2>4. BooksOK'
    BY <1>0, <1>6, <2>1, <2>3 DEF BooksOK, CompleteSell, CommitReservation
  <2>5. ASSUME NEW c \in Buckets \ torn' PROVE LedgerMatches(c)'
    <3>1. LedgerMatches(c)
      BY <1>0, <2>3, <2>5 DEF LedgerBacksTreasury
    <3> QED BY <1>0, <1>6, <2>1, <2>3, <2>5, <3>1
            DEF LedgerMatches, Unposted, Owed, CompleteSell, AccountsOK, BooksOK, Buckets
  <2> QED BY <2>3, <2>4, <2>5, InvariantAfter DEF LedgerBacksTreasury
<1>7. ASSUME NEW o \in Orders, StartConsume(o) \/ StartRelease(o) PROVE IInv'
  <2>1. PICK operation \in {"release", "consume"} : ReadAccount(o, operation)
    BY <1>7 DEF StartConsume, StartRelease
  <2>2. AccountsOK'
    BY <1>0, <2>1, ReadKeepsAccounts
  <2>3. BooksOK' /\ LedgerBacksTreasury'
    BY <1>0, <2>1 DEF BooksOK, LedgerBacksTreasury, LedgerMatches, Unposted, Owed,
                      ReadAccount, account, ledger
  <2> QED BY <2>2, <2>3, InvariantAfter
<1>8. ASSUME NEW o \in Orders, Release(o) PROVE IInv'
  <2> DEFINE b == Bucket(o)
             n == seen[o].available + Amount(o)
  <2>1. Amount(o) \in Nat /\ b \in Buckets
    BY AmountType
  <2>2. n \in Nat /\ ~Idle(o) /\ seen[o].available \in Int
    <3>1. seen[o].available \in Int /\ seen[o].available >= 0
      BY <1>0 DEF AccountsOK, Reading, ReadIsCurrent
    <3> QED BY <1>8, <2>1, <3>1 DEF Release, Idle
  <2>3. CommitReservation(o, n, "RELEASED")
    BY <1>8 DEF Release
  <2>4. /\ AccountsOK'
        /\ available' = [available EXCEPT ![b] = n]
        /\ reserved' = [reserved EXCEPT ![b] = seen[o].reserved - Amount(o)]
        /\ torn' \subseteq Buckets /\ torn \subseteq torn'
        /\ b \notin torn' => /\ seen[o].available = available[b]
                             /\ seen[o].reserved = reserved[b]
    <3> HIDE DEF n
    <3> QED BY <1>0, <2>2, <2>3, CommitKeepsAccounts DEF BooksOK
  <2>5. BooksOK'
    BY <1>0, <1>8, <2>4 DEF BooksOK, Release, CommitReservation, ledger
  <2>6. ASSUME NEW c \in Buckets \ torn' PROVE LedgerMatches(c)'
    <3>1. LedgerMatches(c)
      BY <1>0, <2>4, <2>6 DEF LedgerBacksTreasury
    <3>2. /\ wallet' = wallet /\ aggregate' = aggregate
          /\ unposted' = unposted /\ owed' = owed
      BY <1>8 DEF Release, ledger
    <3>3. available'[c] + reserved'[c] = available[c] + reserved[c]
      <4>1. /\ available \in [Buckets -> Int] /\ reserved \in [Buckets -> Int]
        BY <1>0 DEF AccountsOK
      <4>2. CASE c = b
        BY <2>1, <2>4, <2>6, <4>1, <4>2
      <4>3. CASE c # b
        BY <2>4, <2>6, <4>1, <4>3
      <4> QED BY <4>2, <4>3
    <3> QED BY <3>1, <3>2, <3>3 DEF LedgerMatches, Unposted, Owed
  <2> QED BY <2>4, <2>5, <2>6, InvariantAfter DEF LedgerBacksTreasury
<1>9. ASSUME NEW o \in Orders, Rollback(o) PROVE IInv'
  <2>1. /\ pending' = [pending EXCEPT ![o] = "none"]
        /\ seen' = [seen EXCEPT ![o] = Nothing]
        /\ outdated' = outdated \ {o}
        /\ available' = available /\ reserved' = reserved
    BY <1>9 DEF Rollback, Close, account
  <2>2. ASSUME NEW p \in Orders PROVE ReadIsCurrent(p)'
    <3>1. CASE p = o
      <4>1. seen'[p] = Nothing /\ pending'[p] = "none"
        BY <1>0, <2>1, <3>1 DEF AccountsOK
      <4> QED BY <4>1 DEF ReadIsCurrent, Idle, Nothing
    <3>2. CASE p # o
      BY <1>0, <2>1, <3>2 DEF AccountsOK, ReadIsCurrent, Idle
    <3> QED BY <3>1, <3>2
  <2>3. AccountsOK'
    BY <1>0, <2>1, <2>2 DEF AccountsOK, NeverNegative, Reading, Nothing
  <2>4. BooksOK' /\ LedgerBacksTreasury'
    BY <1>0, <1>9 DEF BooksOK, LedgerBacksTreasury, LedgerMatches, Unposted, Owed,
                      Rollback, account, ledger
  <2> QED BY <2>3, <2>4, InvariantAfter
<1>10. ASSUME NEW b \in Buckets, NEW d \in Int, Adjust(b, d) PROVE IInv'
  <2>1. available[b] + d >= 0 /\ reserved[b] + 0 >= 0
    BY <1>0, <1>10 DEF Adjust, AccountsOK, NeverNegative
  <2>2. /\ AccountsOK'
        /\ available' = [available EXCEPT ![b] = available[b] + d]
        /\ reserved' = [reserved EXCEPT ![b] = reserved[b] + 0]
    BY <1>0, <1>10, <2>1, MoveKeepsAccounts DEF Adjust
  <2>3. BooksOK'
    BY <1>0, <1>10 DEF BooksOK, Adjust
  <2>4. ASSUME NEW c \in Buckets \ torn' PROVE LedgerMatches(c)'
    <3>1. LedgerMatches(c)
      BY <1>0, <1>10, <2>4 DEF LedgerBacksTreasury, Adjust
    <3> QED BY <1>0, <1>10, <2>2, <3>1
            DEF LedgerMatches, Unposted, Owed, Adjust, AccountsOK, BooksOK
  <2> QED BY <2>2, <2>3, <2>4, InvariantAfter DEF LedgerBacksTreasury
<1>11. ASSUME NEW d \in Int, wallet' = [wallet EXCEPT !["PDV_01"] = @ + d],
              owed' = owed + d,
              UNCHANGED <<account, reservation, credited, open, outdated,
                          aggregate, unposted, torn>>
       PROVE  IInv'
  <2>1. AccountsOK'
    BY <1>0, <1>11 DEF AccountsOK, NeverNegative, ReadIsCurrent, Idle, account, open
  <2>2. BooksOK'
    BY <1>0, <1>11 DEF BooksOK, Buckets
  <2>3. ASSUME NEW c \in Buckets \ torn' PROVE LedgerMatches(c)'
    <3>1. LedgerMatches(c)
      BY <1>0, <1>11, <2>3 DEF LedgerBacksTreasury
    <3> QED BY <1>0, <1>11, <3>1
            DEF LedgerMatches, Unposted, Owed, account, AccountsOK, BooksOK
  <2> QED BY <2>1, <2>2, <2>3, InvariantAfter DEF LedgerBacksTreasury
<1>12. ASSUME NEW x \in Takings, SellTickets(x) \/ PaySettlement(x) PROVE IInv'
  <2>1. x \in Int /\ -x \in Int
    OBVIOUS
  <2>2. CASE SellTickets(x)
    BY <1>11, <2>1, <2>2 DEF SellTickets
  <2>3. CASE PaySettlement(x)
    <3>1. /\ owed' = owed + (-x)
          /\ wallet' = [wallet EXCEPT !["PDV_01"] = @ + (-x)]
      BY <1>0, <2>1, <2>3 DEF PaySettlement, BooksOK, Buckets
    <3> QED BY <1>11, <2>1, <2>3, <3>1 DEF PaySettlement
  <2> QED BY <1>12, <2>2, <2>3
<1>13. CASE UNCHANGED vars
  <2>1. AccountsOK'
    BY <1>0, <1>13 DEF AccountsOK, NeverNegative, ReadIsCurrent, Idle,
                       vars, account, open
  <2>2. BooksOK' /\ LedgerBacksTreasury'
    BY <1>0, <1>13 DEF BooksOK, LedgerBacksTreasury, LedgerMatches, Unposted, Owed,
                       vars, account, ledger
  <2> QED BY <2>1, <2>2, InvariantAfter
<1>14. CASE Next
  <2>1. CASE \E b \in Buckets, amount \in Adjustments :
               Adjust(b, amount) \/ Adjust(b, -amount)
    BY <1>10, <2>1
  <2> QED BY <1>1, <1>2, <1>3, <1>4, <1>5, <1>6, <1>7, <1>8, <1>9, <1>12, <1>14, <2>1
          DEF Next
<1> QED BY <1>13, <1>14

(* In every reachable state an open transaction that is not outdated has    *)
(* read the account as it is, and the accounts are backed by the ledger.    *)
THEOREM TreasuryInvariant == Spec => []IInv
<1> QED BY InitInvariant, StepInvariant, PTL DEF Spec

(* No interleaving of the orders' transactions and the operators'           *)
(* adjustments drives a balance below zero.                                 *)
THEOREM BalancesStayPositive == Spec => []NeverNegative
<1>1. IInv => NeverNegative
  BY DEF IInv
<1> QED BY <1>1, TreasuryInvariant, PTL

(* The treasury holds what the ledger says, less the tickets' money, unless *)
(* a bucket was written from an outdated reading.                           *)
THEOREM LedgerBacks == Spec => []LedgerBacksTreasury
<1>1. IInv => LedgerBacksTreasury
  BY DEF IInv
<1> QED BY <1>1, TreasuryInvariant, PTL

-----------------------------------------------------------------------------
(* What a bucket reserves.                                                  *)

LEMMA HeldIsFinite ==
  /\ \A b \in Buckets : IsFiniteSet(Held(b)) /\ Held(b) \subseteq Orders
  /\ \A o \in Orders : Reserving[o] = Amount(o) /\ Reserving[o] \in Int
<1>1. IsFiniteSet(Orders)
  BY FS_Union DEF Orders
<1>2. \A b \in Buckets : Held(b) \subseteq Orders
  BY DEF Held
<1>3. \A b \in Buckets : IsFiniteSet(Held(b))
  BY <1>1, <1>2, FS_Subset
<1>4. \A o \in Orders : Reserving[o] = Amount(o)
  BY DEF Reserving
<1> QED BY <1>2, <1>3, <1>4, AmountType

(* A step that changes neither a reservation nor what is reserved, and      *)
(* closes transactions at most.                                             *)
LEMMA IdleStepKeepsHeld ==
  ASSUME HeldInv, reservation' = reservation, torn' = torn,
         \A b \in Buckets : reserved'[b] = reserved[b],
         \A o \in Orders : ~Idle(o)' => ~Idle(o) \/ reservation[o] = "HELD"
  PROVE  HeldInv'
<1>1. \A b \in Buckets : Held(b)' = Held(b)
  BY DEF Held
<1>2. \A b \in Buckets : HeldIn(b)' = HeldIn(b)
  BY <1>1 DEF HeldIn, Reserving
<1>3. ReservedIsHeld'
  BY <1>2 DEF HeldInv, ReservedIsHeld, ReservedMatches
<1> QED BY <1>3 DEF HeldInv

(* A new reservation joins those of its bucket.                             *)
LEMMA ReserveKeepsHeld ==
  ASSUME IInv, HeldInv, NEW o \in Orders, Idle(o), ReserveFunds(o),
         UNCHANGED <<credited, open, ledger, torn>>
  PROVE  HeldInv'
<1> DEFINE b == Bucket(o)
<1>1. /\ reservation[o] = "NONE" /\ torn' = torn /\ pending' = pending
      /\ reservation' = [reservation EXCEPT ![o] = "HELD"]
      /\ reserved' = [reserved EXCEPT ![b] = reserved[b] + Amount(o)]
  BY DEF ReserveFunds, Move, Write, open
<1>2. /\ reservation \in [Orders -> {"NONE", "HELD", "RELEASED", "CONSUMED"}]
      /\ reserved \in [Buckets -> Int] /\ b \in Buckets
  BY AmountType DEF IInv, TypeOK
<1>3. ASSUME NEW c \in Buckets \ torn' PROVE ReservedMatches(c)'
  <2>1. reserved[c] = HeldIn(c) /\ reserved[c] \in Int
    BY <1>1, <1>2, <1>3 DEF HeldInv, ReservedIsHeld, ReservedMatches
  <2>2. CASE c = b
    <3>1. Held(c)' = Held(c) \cup {o} /\ o \notin Held(c)
      BY <1>1, <1>2, <2>2 DEF Held
    <3>2. SumOver(Reserving, Held(c) \cup {o}) = SumOver(Reserving, Held(c)) + Reserving[o]
      <4>1. /\ IsFiniteSet(Held(c)) /\ Held(c) \subseteq Orders
            /\ \A x \in Held(c) \cup {o} : Reserving[x] \in Int
        BY HeldIsFinite, <1>3
      <4> QED BY <3>1, <4>1, SumJoin
    <3>3. HeldIn(c)' = HeldIn(c) + Amount(o)
      <4>1. HeldIn(c)' = SumOver(Reserving, Held(c)')
        BY DEF HeldIn, Reserving
      <4> QED BY <3>1, <3>2, <4>1, HeldIsFinite DEF HeldIn
    <3>4. reserved'[c] = reserved[c] + Amount(o)
      BY <1>1, <1>2, <2>2
    <3> QED BY <2>1, <3>3, <3>4 DEF ReservedMatches
  <2>3. CASE c # b
    <3>1. Held(c)' = Held(c)
      BY <1>1, <1>2, <2>3 DEF Held
    <3>2. HeldIn(c)' = HeldIn(c)
      BY <3>1 DEF HeldIn, Reserving
    <3>3. reserved'[c] = reserved[c]
      BY <1>1, <1>2, <1>3, <2>3
    <3> QED BY <2>1, <3>2, <3>3 DEF ReservedMatches
  <2> QED BY <2>2, <2>3
<1>4. \A p \in Orders : ~Idle(p)' => reservation'[p] = "HELD"
  BY <1>1, <1>2 DEF HeldInv, Idle
<1> QED BY <1>3, <1>4 DEF HeldInv, ReservedIsHeld

(* A release or a consumption ends a reservation that was HELD: unless it   *)
(* tears its bucket, it takes off what the reservation had put there.       *)
LEMMA CommitKeepsHeld ==
  ASSUME IInv, HeldInv, NEW o \in Orders, ~Idle(o), NEW n \in Nat,
         NEW s \in {"RELEASED", "CONSUMED"}, CommitReservation(o, n, s)
  PROVE  HeldInv'
<1> DEFINE b == Bucket(o)
<1>0. AccountsOK /\ torn \subseteq Buckets
  BY InvariantParts DEF BooksOK
<1>1. /\ reserved' = [reserved EXCEPT ![b] = seen[o].reserved - Amount(o)]
      /\ torn \subseteq torn'
      /\ b \notin torn' => seen[o].reserved = reserved[b]
  BY <1>0, CommitKeepsAccounts
<1>2. /\ reservation' = [reservation EXCEPT ![o] = s]
      /\ pending' = [pending EXCEPT ![o] = "none"]
      /\ reservation[o] = "HELD"
  BY DEF CommitReservation, Close, HeldInv
<1>3. /\ reservation \in [Orders -> {"NONE", "HELD", "RELEASED", "CONSUMED"}]
      /\ pending \in [Orders -> {"none", "release", "consume"}]
      /\ reserved \in [Buckets -> Int] /\ b \in Buckets
  BY AmountType DEF IInv, TypeOK
<1>4. ASSUME NEW c \in Buckets \ torn' PROVE ReservedMatches(c)'
  <2>1. reserved[c] = HeldIn(c) /\ reserved[c] \in Int
    BY <1>1, <1>3, <1>4 DEF HeldInv, ReservedIsHeld, ReservedMatches
  <2>2. CASE c = b
    <3>1. Held(c)' = Held(c) \ {o} /\ o \in Held(c)
      BY <1>2, <1>3, <2>2 DEF Held
    <3>2. SumOver(Reserving, Held(c) \ {o}) = SumOver(Reserving, Held(c)) - Reserving[o]
      <4>1. /\ IsFiniteSet(Held(c))
            /\ \A x \in Held(c) : Reserving[x] \in Int
        BY HeldIsFinite, <1>4
      <4> QED BY <3>1, <4>1, SumLeave
    <3>3. HeldIn(c)' = HeldIn(c) - Amount(o)
      <4>1. HeldIn(c)' = SumOver(Reserving, Held(c)')
        BY DEF HeldIn, Reserving
      <4> QED BY <3>1, <3>2, <4>1, HeldIsFinite DEF HeldIn
    <3>4. reserved'[c] = reserved[c] - Amount(o)
      BY <1>1, <1>3, <1>4, <2>2
    <3> QED BY <2>1, <3>3, <3>4 DEF ReservedMatches
  <2>3. CASE c # b
    <3>1. Held(c)' = Held(c)
      BY <1>2, <1>3, <2>3 DEF Held
    <3>2. HeldIn(c)' = HeldIn(c)
      BY <3>1 DEF HeldIn, Reserving
    <3>3. reserved'[c] = reserved[c]
      BY <1>1, <1>3, <1>4, <2>3
    <3> QED BY <2>1, <3>2, <3>3 DEF ReservedMatches
  <2> QED BY <2>2, <2>3
<1>5. \A p \in Orders : ~Idle(p)' => reservation'[p] = "HELD"
  BY <1>2, <1>3 DEF HeldInv, Idle
<1> QED BY <1>4, <1>5 DEF HeldInv, ReservedIsHeld

LEMMA InitHeld == Init => HeldInv
<1> SUFFICES ASSUME Init PROVE HeldInv OBVIOUS
<1>1. ASSUME NEW b \in Buckets PROVE reserved[b] = 0 /\ HeldIn(b) = 0
  <2>1. Held(b) = {}
    BY DEF Init, Held
  <2> QED BY <2>1, SumEmpty DEF Init, HeldIn
<1> QED BY <1>1 DEF Init, HeldInv, ReservedIsHeld, ReservedMatches, Idle

LEMMA StepHeld == IInv /\ HeldInv /\ [Next]_vars => HeldInv'
<1> SUFFICES ASSUME IInv, HeldInv, [Next]_vars PROVE HeldInv' OBVIOUS
<1>0. /\ reserved \in [Buckets -> Int] /\ available \in [Buckets -> Int]
      /\ pending \in [Orders -> {"none", "release", "consume"}]
      /\ NeverNegative
  BY DEF IInv, TypeOK
<1>1. ASSUME NEW o \in Orders, ReserveUsdt(o) \/ ReserveGnf(o) PROVE HeldInv'
  BY <1>1, ReserveKeepsHeld DEF ReserveUsdt, ReserveGnf
<1>2. ASSUME NEW b \in Buckets, NEW x, Move(b, x, 0),
             UNCHANGED <<reservation, open, torn>>
      PROVE  HeldInv'
  <2>1. \A c \in Buckets : reserved'[c] = reserved[c]
    BY <1>0, <1>2 DEF Move, Write
  <2> QED BY <1>2, <2>1, IdleStepKeepsHeld DEF open, Idle
<1>3. ASSUME NEW o \in Orders, CreditPayment(o) \/ CreditDeposit(o) PROVE HeldInv'
  <2>1. "PDV_01" \in Buckets /\ "HOT" \in Buckets
    BY DEF Buckets
  <2> QED BY <1>2, <1>3, <2>1 DEF CreditPayment, CreditDeposit
<1>4. ASSUME NEW o \in Orders, CompleteBuy(o) \/ CompleteSell(o) PROVE HeldInv'
  <2>1. PICK b \in Buckets : CommitReservation(o, available[b], "CONSUMED")
    BY <1>4 DEF CompleteBuy, CompleteSell, Buckets
  <2>2. available[b] \in Nat /\ ~Idle(o)
    BY <1>0, <1>4 DEF NeverNegative, CompleteBuy, CompleteSell, Idle
  <2> QED BY <2>1, <2>2, CommitKeepsHeld
<1>5. ASSUME NEW o \in Orders, Release(o) PROVE HeldInv'
  <2> DEFINE n == seen[o].available + Amount(o)
  <2>1. n \in Nat /\ ~Idle(o)
    <3>1. seen[o].available \in Int /\ seen[o].available >= 0
      BY DEF IInv, TypeOK, Reading, ReadIsCurrent
    <3> QED BY <1>5, <3>1, AmountType DEF Release, Idle
  <2>2. CommitReservation(o, n, "RELEASED")
    BY <1>5 DEF Release
  <2> HIDE DEF n
  <2> QED BY <2>1, <2>2, CommitKeepsHeld
<1>6. ASSUME NEW o \in Orders, StartConsume(o) \/ StartRelease(o) PROVE HeldInv'
  <2>1. PICK operation \in {"release", "consume"} : ReadAccount(o, operation)
    BY <1>6 DEF StartConsume, StartRelease
  <2>2. /\ reservation[o] = "HELD" /\ reservation' = reservation /\ torn' = torn
        /\ reserved' = reserved
        /\ pending' = [pending EXCEPT ![o] = operation]
    BY <2>1 DEF ReadAccount, account
  <2> QED BY <1>0, <2>2, IdleStepKeepsHeld DEF Idle
<1>7. ASSUME NEW o \in Orders, Rollback(o) PROVE HeldInv'
  <2>1. /\ reservation' = reservation /\ torn' = torn /\ reserved' = reserved
        /\ pending' = [pending EXCEPT ![o] = "none"]
    BY <1>7 DEF Rollback, Close, account
  <2> QED BY <1>0, <2>1, IdleStepKeepsHeld DEF Idle
<1>8. ASSUME NEW b \in Buckets, NEW d, Adjust(b, d) PROVE HeldInv'
  BY <1>2, <1>8 DEF Adjust
<1>9. ASSUME NEW x \in Takings, SellTickets(x) \/ PaySettlement(x) PROVE HeldInv'
  <2>1. /\ reservation' = reservation /\ torn' = torn /\ reserved' = reserved
        /\ pending' = pending
    BY <1>9 DEF SellTickets, PaySettlement, account, open
  <2> QED BY <2>1, IdleStepKeepsHeld DEF Idle
<1>10. CASE UNCHANGED vars
  <2>1. /\ reservation' = reservation /\ torn' = torn /\ reserved' = reserved
        /\ pending' = pending
    BY <1>10 DEF vars, account, open
  <2> QED BY <2>1, IdleStepKeepsHeld DEF Idle
<1>11. CASE Next
  <2>1. CASE \E b \in Buckets, amount \in Adjustments :
               Adjust(b, amount) \/ Adjust(b, -amount)
    BY <1>8, <2>1
  <2> QED BY <1>1, <1>3, <1>4, <1>5, <1>6, <1>7, <1>9, <1>11, <2>1 DEF Next
<1> QED BY <1>10, <1>11

(* Every HELD reservation is in the reserved balance of its bucket exactly  *)
(* once, and nothing else is, unless a reading was outdated when the bucket *)
(* was written from it: for any number of orders and any amounts.           *)
THEOREM ReservedFollowsReservations == Spec => []ReservedIsHeld
<1>1. HeldInv => ReservedIsHeld
  BY DEF HeldInv
<1> QED BY <1>1, InitHeld, StepHeld, TreasuryInvariant, PTL DEF Spec

-----------------------------------------------------------------------------
(* What a comparison has read, as long as nothing was written since.        *)
ReadingHolds(r) ==
  /\ report[r].at = "ledger" =>
       /\ report[r].bucket \in Buckets
       /\ report[r].total = Total(report[r].bucket)
  /\ report[r].at \in {"find", "create"} =>
       LET a == report[r].alert
       IN  a.bucket \in Buckets /\ a.drift = Total(a.bucket) - aggregate[a.bucket]

ReportOK ==
  /\ report \in [Reports -> [at : {"new", "done"}]
                       \cup [at : {"ledger"}, bucket : Buckets, total : Int]
                       \cup [at : {"find", "create"},
                             alert : [bucket : Buckets, drift : Int]]]
  /\ \A r \in Reports \ moved : ReadingHolds(r)

LEMMA TradingKeepsReports == ReportOK /\ Trading => ReportOK'
<1> SUFFICES ASSUME ReportOK, Trading PROVE ReportOK'
  OBVIOUS
<1>1. report' = report
  BY DEF Trading
<1>2. ASSUME NEW r \in Reports \ moved' PROVE ReadingHolds(r)'
  <2>1. CASE UNCHANGED <<account, ledger>>
    <3>1. moved' = moved
      BY <2>1 DEF Trading
    <3>2. available' = available /\ reserved' = reserved /\ aggregate' = aggregate
      BY <2>1 DEF account, ledger
    <3> QED BY <1>1, <3>1, <3>2 DEF ReportOK, ReadingHolds, Total
  <2>2. CASE ~UNCHANGED <<account, ledger>>
    <3>1. report[r].at \notin {"ledger", "find", "create"}
      BY <1>2, <2>2 DEF Trading
    <3> QED BY <1>1, <3>1 DEF ReadingHolds
  <2> QED BY <2>1, <2>2
<1> QED BY <1>1, <1>2 DEF ReportOK

LEMMA ReportingKeepsReports ==
  TypeOK /\ ReportOK /\ Reporting /\ UNCHANGED vars => ReportOK'
<1> SUFFICES ASSUME TypeOK, ReportOK, Reporting, UNCHANGED vars PROVE ReportOK'
  OBVIOUS
<1>1. available' = available /\ reserved' = reserved /\ aggregate' = aggregate
  BY DEF vars, account, ledger
<1>2. \A b \in Buckets : Total(b) \in Int /\ aggregate[b] \in Int
  BY DEF TypeOK, Total
<1>3. ASSUME NEW r \in Reports, Finish(r) PROVE ReportOK'
  <2>1. \A q \in Reports : report'[q] = IF q = r THEN [at |-> "done"] ELSE report[q]
    BY <1>3 DEF Finish, ReportOK
  <2> QED BY <1>1, <1>3, <2>1 DEF Finish, ReportOK, ReadingHolds, Total
<1>4. ASSUME NEW r \in Reports, NEW b \in Buckets, ReadBalances(r, b) PROVE ReportOK'
  <2>1. \A q \in Reports : report'[q] =
           IF q = r THEN [at |-> "ledger", bucket |-> b, total |-> Total(b)] ELSE report[q]
    BY <1>4 DEF ReadBalances, ReportOK
  <2>2. moved' = moved
    BY <1>4 DEF ReadBalances
  <2>3. report' \in [Reports -> [at : {"new", "done"}]
                       \cup [at : {"ledger"}, bucket : Buckets, total : Int]
                       \cup [at : {"find", "create"},
                             alert : [bucket : Buckets, drift : Int]]]
    BY <1>2, <1>4 DEF ReadBalances, ReportOK
  <2> QED BY <1>1, <2>1, <2>2, <2>3 DEF ReportOK, ReadingHolds, Total
<1>5. ASSUME NEW r \in Reports, ReadLedger(r) PROVE ReportOK'
  <2> DEFINE b == report[r].bucket
             d == report[r].total - aggregate[b]
  <2>1. b \in Buckets /\ report[r].total \in Int
    BY <1>5 DEF ReadLedger, ReportOK
  <2>2. CASE Finish(r)
    BY <2>2, <1>3
  <2>3. CASE report' = [report EXCEPT ![r] =
               [at |-> "find", alert |-> [bucket |-> b, drift |-> d]]] /\ moved' = moved
    <3>1. d \in Int
      BY <2>1, <1>2
    <3>2. \A q \in Reports : report'[q] =
             IF q = r THEN [at |-> "find", alert |-> [bucket |-> b, drift |-> d]] ELSE report[q]
      BY <2>3 DEF ReportOK
    <3>3. report' \in [Reports -> [at : {"new", "done"}]
                       \cup [at : {"ledger"}, bucket : Buckets, total : Int]
                       \cup [at : {"find", "create"},
                             alert : [bucket : Buckets, drift : Int]]]
      BY <2>1, <2>3, <3>1 DEF ReportOK
    <3>4. r \notin moved => d = Total(b) - aggregate[b]
      BY <1>5 DEF ReadLedger, ReportOK, ReadingHolds
    <3>5. ASSUME NEW q \in Reports \ moved' PROVE ReadingHolds(q)'
      <4>1. CASE q = r
        BY <1>1, <2>1, <2>3, <3>2, <3>4, <4>1 DEF ReadingHolds, Total
      <4>2. CASE q # r
        BY <1>1, <2>3, <3>2, <4>2 DEF ReportOK, ReadingHolds, Total
      <4> QED BY <4>1, <4>2
    <3> QED BY <3>3, <3>5 DEF ReportOK
  <2> QED BY <1>5, <2>2, <2>3 DEF ReadLedger
<1>6. ASSUME NEW r \in Reports, FindAlert(r) PROVE ReportOK'
  <2>1. CASE Finish(r)
    BY <2>1, <1>3
  <2>2. CASE report' = [report EXCEPT ![r].at = "create"] /\ moved' = moved
    <3>1. report[r].at = "find" /\ report[r].alert \in [bucket : Buckets, drift : Int]
      BY <1>6 DEF FindAlert, ReportOK
    <3>2. \A q \in Reports : report'[q] =
             IF q = r THEN [at |-> "create", alert |-> report[r].alert] ELSE report[q]
      BY <2>2, <3>1 DEF ReportOK
    <3>3. report' \in [Reports -> [at : {"new", "done"}]
                       \cup [at : {"ledger"}, bucket : Buckets, total : Int]
                       \cup [at : {"find", "create"},
                             alert : [bucket : Buckets, drift : Int]]]
      BY <2>2, <3>1, <3>2 DEF ReportOK
    <3> QED BY <1>1, <2>2, <3>1, <3>2, <3>3 DEF ReportOK, ReadingHolds, Total
  <2> QED BY <1>6, <2>1, <2>2 DEF FindAlert
<1>7. ASSUME NEW a \in alerts, Resolve(a) PROVE ReportOK'
  BY <1>1, <1>7 DEF Resolve, ReportOK, ReadingHolds, Total
<1> QED BY <1>3, <1>4, <1>5, <1>6, <1>7 DEF Reporting, CreateAlert, GiveUp

(* Comparisons read: with them, the treasury is the treasury without them,  *)
(* and what was proved of it stays proved.                                  *)
THEOREM ReconciliationOnlyReads == ReconciledSpec => Spec
<1>1. [ReconciledNext]_<<vars, comparison>> => [Next]_vars
  BY DEF ReconciledNext, Trading
<1> QED BY <1>1, PTL DEF ReconciledSpec, ReconciledInit, Spec

(* NeverNegative holds with comparisons running as well.                   *)
THEOREM BalancesStayPositiveWithReports == ReconciledSpec => []NeverNegative
BY BalancesStayPositive, ReconciliationOnlyReads

(* So does LedgerBacksTreasury.                                            *)
THEOREM LedgerBacksWithReports == ReconciledSpec => []LedgerBacksTreasury
BY LedgerBacks, ReconciliationOnlyReads

(* And ReservedIsHeld.                                                     *)
THEOREM ReservedFollowsWithReports == ReconciledSpec => []ReservedIsHeld
BY ReservedFollowsReservations, ReconciliationOnlyReads

(* What a comparison reports as drift while nothing was written is what the *)
(* aggregate account never holds, for any number of comparisons.            *)
THEOREM DriftIsAlwaysElsewhere == ReconciledSpec => []DriftIsElsewhere
<1>1. Init /\ ReportsInit => ReportOK
  <2> SUFFICES ASSUME ReportsInit PROVE ReportOK
    OBVIOUS
  <2>1. \A r \in Reports : report[r] = [at |-> "new"]
    BY DEF ReportsInit
  <2> QED BY <2>1 DEF ReportsInit, ReportOK, ReadingHolds
<1>2. ReportOK /\ TypeOK /\ [ReconciledNext]_<<vars, comparison>> => ReportOK'
  <2> SUFFICES ASSUME ReportOK, TypeOK, [ReconciledNext]_<<vars, comparison>> PROVE ReportOK'
    OBVIOUS
  <2>1. CASE UNCHANGED <<vars, comparison>>
    BY <2>1 DEF vars, account, ledger, comparison, ReportOK, ReadingHolds, Total
  <2> QED BY <2>1, TradingKeepsReports, ReportingKeepsReports DEF ReconciledNext
<1>3. IInv /\ ReportOK => DriftIsElsewhere
  <2> SUFFICES ASSUME IInv, ReportOK, NEW r \in Reports \ moved,
                      report[r].at \in {"find", "create"},
                      report[r].alert.bucket \notin torn
               PROVE  report[r].alert.drift =
                        wallet[report[r].alert.bucket] + Unposted(report[r].alert.bucket)
                          - Owed(report[r].alert.bucket)
    BY DEF DriftIsElsewhere
  <2> DEFINE b == report[r].alert.bucket
  <2>1. b \in Buckets /\ report[r].alert.drift = Total(b) - aggregate[b]
    BY DEF ReportOK, ReadingHolds
  <2>2. LedgerMatches(b)
    BY <2>1 DEF IInv, LedgerBacksTreasury
  <2>3. /\ available[b] \in Int /\ reserved[b] \in Int /\ wallet[b] \in Int
        /\ aggregate[b] \in Int /\ Unposted(b) \in Int /\ Owed(b) \in Int
    BY <2>1 DEF IInv, TypeOK, Unposted, Owed
  <2> QED BY <2>1, <2>2, <2>3 DEF LedgerMatches, Total
<1>4. IInv => TypeOK
  BY DEF IInv
<1> QED
  BY <1>1, <1>2, <1>3, <1>4, TreasuryInvariant, ReconciliationOnlyReads, PTL
     DEF ReconciledSpec, ReconciledInit
=============================================================================
