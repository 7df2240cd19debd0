---------------------------- MODULE AccessProofs ----------------------------
(***************************************************************************)
(* Proofs about who gets in.  First the codes, sessions and refresh tokens *)
(* of Sessions, for any tabs, codes, bounds and losses.  Then the accounts,*)
(* events and gates of Venue, for any users, events, tickets, open requests*)
(* and bounds: each of its three properties has an invariant of its own,   *)
(* over the variables of its component, and the requests that have read    *)
(* and not yet written are what makes it inductive.                        *)
(***************************************************************************)
EXTENDS SessionsProps, VenueProps, TLAPS

USE SessionsAssumption

-----------------------------------------------------------------------------
(* The tokens.                                                              *)

TokenStatus == {"none", "live", "revoked"}

TokensTypeOK ==
  /\ session \in [SessionIds -> TokenStatus]
  /\ token \in [TokenIds -> [status : TokenStatus, session : SessionIds \cup {None}]]
  /\ store \in TokenIds \cup {None}
  /\ tab \in [Tabs -> TabState]
  /\ logouts \in [TokenIds -> {"none", "sent", "half"}]
  /\ dropping \subseteq SessionIds

(* A tab holds the token it rotates and, until its answer is stored, the new*)
(* one.                                                                     *)
Fresh(t, k) == tab[t].at \in {"revoke", "answer"} /\ tab[t].new = k
Rotates(t, k) == tab[t].at \in {"issue", "revoke"} /\ tab[t].old = k
Uses(t, k) ==
  \/ tab[t].at \in {"refresh", "issue", "revoke", "answer"} /\ tab[t].old = k
  \/ Fresh(t, k)

(* A token that was issued has a session, and only such a token is used.    *)
Issued(k) ==
  /\ token[k].status # "none" =>
       SessionOf(k) \in SessionIds /\ session[SessionOf(k)] # "none"
  /\ store = k \/ logouts[k] # "none" \/ k \in orphaned \/ (\E t \in Tabs : Uses(t, k)) =>
       token[k].status # "none"

(* A token that left the browser, by logout or with its answer, is not used *)
(* again.                                                                   *)
Gone(k) ==
  /\ logouts[k] # "none" => store # k
  /\ k \in orphaned => store # k /\ \A t \in Tabs : ~Uses(t, k)

(* A new token is its tab's alone, and good while its session is.           *)
FreshOK(t, k) ==
  Fresh(t, k) =>
    /\ store # k /\ logouts[k] = "none" /\ tab[t].old # k
    /\ \A u \in Tabs : Uses(u, k) => u = t
    /\ session[SessionOf(k)] = "live" => token[k].status = "live"
    /\ tab[t].at = "revoke" => SessionOf(k) = SessionOf(tab[t].old)

(* Of a session no two requests raced for, one rotates at a time, and what  *)
(* it rotates is the token in hand.                                         *)
RotationOK(t, k) ==
  Rotates(t, k) /\ SessionOf(k) \notin raced =>
    /\ \A u \in Tabs, l \in TokenIds :
         Rotates(u, l) /\ SessionOf(l) = SessionOf(k) => u = t
    /\ \A l \in TokenIds : InHand(l) /\ SessionOf(l) = SessionOf(k) => l = k

TokensOK ==
  /\ TokensTypeOK
  /\ \A s \in dropping : session[s] = "revoked"
  /\ \A k \in TokenIds : Issued(k) /\ Gone(k)
  /\ \A t \in Tabs, k \in TokenIds : FreshOK(t, k) /\ RotationOK(t, k)
  /\ OneLiveToken

(* No token is None.                                                        *)
LEMMA TokensAreSome == None \notin TokenIds
BY DEF None, TokenIds

(* A request that lets its tokens go keeps the invariant.                   *)
LEMMA TabLeaves ==
  ASSUME TokensOK, NEW t \in Tabs, NEW state \in TabState, Go(t, state),
         state.at \in {"idle", "verify", "login", "retry"},
         store' \in {store, None},
         UNCHANGED <<session, token, logouts, dropping, raced>>,
         \A k \in orphaned : k \in orphaned',
         \A k \in orphaned' : k \in orphaned \/ Fresh(t, k),
         tab[t].at = "revoke" => tab[t].new \in orphaned'
  PROVE  TokensOK'
<1>1. /\ tab' \in [Tabs -> TabState] /\ tab'[t] = state
      /\ \A u \in Tabs : u # t => tab'[u] = tab[u]
  BY DEF Go, TokensOK, TokensTypeOK
<1>2. \A k \in TokenIds : ~Uses(t, k)' /\ ~Fresh(t, k)' /\ ~Rotates(t, k)'
  BY <1>1 DEF Uses, Fresh, Rotates
<1>3. \A u \in Tabs, k \in TokenIds :
        /\ Uses(u, k)' => Uses(u, k) /\ u # t
        /\ Fresh(u, k)' => Fresh(u, k) /\ u # t
        /\ Rotates(u, k)' => Rotates(u, k) /\ u # t
  BY <1>1, <1>2 DEF Uses, Fresh, Rotates
<1>4. \A k \in TokenIds : InHand(k)' => InHand(k)
  <2> SUFFICES ASSUME NEW k \in TokenIds, InHand(k)', NEW u \in Tabs, tab[u].at = "revoke"
               PROVE  tab[u].new # k
    BY DEF InHand
  <2> QED BY <1>1 DEF InHand
<1>5. TokensTypeOK'
  BY <1>1 DEF TokensOK, TokensTypeOK
<1>6. \A k \in TokenIds : SessionOf(k)' = SessionOf(k)
  BY DEF SessionOf
<1>7. ASSUME NEW k \in TokenIds PROVE Issued(k)' /\ Gone(k)'
  <2>1. Issued(k) /\ Gone(k) /\ \A u \in Tabs : FreshOK(u, k)
    BY DEF TokensOK
  <2>2. store' = k => store = k
    BY TokensAreSome
  <2>3. Issued(k)'
    BY <1>3, <1>6, <2>1, <2>2 DEF Issued, Uses
  <2>4. Gone(k)'
    BY <1>3, <2>1, <2>2 DEF Gone, FreshOK
  <2> QED BY <2>3, <2>4
<1>8. ASSUME NEW u \in Tabs, NEW k \in TokenIds PROVE FreshOK(u, k)' /\ RotationOK(u, k)'
  <2>1. FreshOK(u, k) /\ RotationOK(u, k)
    BY DEF TokensOK
  <2>2. store' = k => store = k
    BY TokensAreSome
  <2>3. FreshOK(u, k)'
    <3> SUFFICES ASSUME Fresh(u, k)' PROVE FreshOK(u, k)'
      BY DEF FreshOK
    <3>1. Fresh(u, k) /\ u # t /\ tab'[u] = tab[u]
      BY <1>1, <1>3
    <3>2. SessionOf(tab[u].old)' = token[tab[u].old].session
      BY <3>1 DEF SessionOf
    <3> QED BY <1>3, <1>6, <2>1, <2>2, <3>1 DEF FreshOK, SessionOf
  <2>4. RotationOK(u, k)'
    BY <1>3, <1>4, <1>6, <2>1 DEF RotationOK
  <2> QED BY <2>3, <2>4
<1>9. OneLiveToken'
  BY <1>4, <1>6 DEF TokensOK, OneLiveToken
<1> QED
  BY <1>5, <1>7, <1>8, <1>9 DEF TokensOK

(* What ends tokens and sessions, by logout or from another device, keeps   *)
(* it: the token in the store is ended with its session, or has left it.    *)
LEMMA RevokingKeeps ==
  ASSUME TokensOK, UNCHANGED <<tab, orphaned, raced>>, TokensTypeOK',
         store' \in {store, None},
         \A s \in SessionIds : session'[s] = session[s] \/ session'[s] = "revoked",
         \A s \in SessionIds : session[s] = "none" => session'[s] # "live",
         \A s \in SessionIds : session[s] # "none" => session'[s] # "none",
         \A k \in TokenIds : /\ token'[k].session = token[k].session
                             /\ token'[k].status # token[k].status =>
                                  /\ token[k].status # "none" /\ token'[k].status = "revoked"
                                  /\ \/ session'[SessionOf(k)] # "live"
                                     \/ logouts[k] # "none",
         \A k \in TokenIds : logouts'[k] # "none" => logouts[k] # "none" \/ k = store,
         \A k \in TokenIds : logouts'[k] # logouts[k] /\ k = store => store' = None,
         \A s \in dropping' : session'[s] = "revoked"
  PROVE  TokensOK'
<1>1. /\ \A k \in TokenIds : SessionOf(k)' = SessionOf(k)
      /\ \A t \in Tabs, k \in TokenIds : /\ Uses(t, k)' <=> Uses(t, k)
                                         /\ Fresh(t, k)' <=> Fresh(t, k)
                                         /\ Rotates(t, k)' <=> Rotates(t, k)
  BY DEF SessionOf, Uses, Fresh, Rotates
<1>2. \A k \in TokenIds : InHand(k)' => InHand(k)
  BY DEF InHand
<1>3. ASSUME NEW k \in TokenIds PROVE Issued(k)' /\ Gone(k)'
  <2>1. Issued(k) /\ Gone(k)
    BY DEF TokensOK
  <2>2. store' = k => store = k
    BY TokensAreSome
  <2>3. Issued(k)'
    BY <1>1, <2>1, <2>2 DEF Issued
  <2>4. Gone(k)'
    BY <1>1, <2>1, <2>2, TokensAreSome DEF Gone
  <2> QED BY <2>3, <2>4
<1>4. ASSUME NEW t \in Tabs, NEW k \in TokenIds PROVE FreshOK(t, k)' /\ RotationOK(t, k)'
  <2>1. FreshOK(t, k) /\ RotationOK(t, k) /\ Issued(k)
    BY DEF TokensOK
  <2>2. store' = k => store = k
    BY TokensAreSome
  <2>3. FreshOK(t, k)'
    <3> SUFFICES ASSUME Fresh(t, k) PROVE FreshOK(t, k)'
      BY <1>1 DEF FreshOK
    <3>1. token[k].status # "none" /\ SessionOf(k) \in SessionIds
      BY <2>1 DEF Issued, Uses
    <3>2. session[SessionOf(k)]' = "live" => token'[k].status = "live"
      BY <1>1, <2>1, <3>1 DEF FreshOK
    <3>3. tab[t].at = "revoke" => SessionOf(k)' = SessionOf(tab[t].old)'
      <4> SUFFICES ASSUME tab[t].at = "revoke" PROVE SessionOf(k)' = SessionOf(tab[t].old)'
        OBVIOUS
      <4>1. tab[t].old \in TokenIds
        BY DEF TokensOK, TokensTypeOK, TabState, Idle
      <4> QED BY <2>1, <4>1 DEF FreshOK, SessionOf
    <3> QED BY <1>1, <2>1, <2>2, <3>2, <3>3 DEF FreshOK
  <2>4. RotationOK(t, k)'
    BY <1>1, <1>2, <2>1 DEF RotationOK
  <2> QED BY <2>3, <2>4
<1>5. OneLiveToken'
  BY <1>1, <1>2 DEF TokensOK, OneLiveToken
<1> QED BY <1>3, <1>4, <1>5 DEF TokensOK

(* The steps that end something, and those of the page that let go.         *)
LEMMA EndingKeeps ==
  ASSUME TokensOK,
         \/ LogoutAll
         \/ \E s \in SessionIds : RevokeSession(s) \/ DropTokens(s)
         \/ \E k \in TokenIds : LogoutToken(k) \/ LogoutSession(k) \/ LoseLogout(k)
         \/ \E t \in Tabs : \/ LoadProfile(t) \/ Logout(t)
                           \/ ClosePage(t) \/ LoseConnection(t)
  PROVE  TokensOK'
<1>1. TokensTypeOK /\ \A k \in TokenIds : Issued(k) /\ Gone(k)
  BY DEF TokensOK
<1>2. \A k \in TokenIds :
        /\ token[k] \in [status : TokenStatus, session : SessionIds \cup {None}]
        /\ [token[k] EXCEPT !.status = "revoked"] =
             [status |-> "revoked", session |-> token[k].session]
  <2>1. \A k \in TokenIds : token[k] \in [status : TokenStatus, session : SessionIds \cup {None}]
    BY <1>1 DEF TokensTypeOK
  <2> QED BY <2>1
<1>3. CASE LogoutAll
  <2>1. \A s \in SessionIds :
          session'[s] = IF session[s] = "live" THEN "revoked" ELSE session[s]
    BY <1>3 DEF LogoutAll
  <2>2. \A k \in TokenIds :
          token'[k] = IF token[k].status = "live"
                      THEN [status |-> "revoked", session |-> token[k].session] ELSE token[k]
    BY <1>2, <1>3 DEF LogoutAll
  <2>3. TokensTypeOK'
    BY <1>1, <1>2, <1>3, <2>1, <2>2 DEF LogoutAll, TokensTypeOK, TokenStatus
  <2>4. \A s \in SessionIds : session'[s] # "live"
    BY <2>1
  <2>5. \A s \in dropping : s \in SessionIds /\ session'[s] = "revoked"
    BY <1>1, <2>1 DEF TokensOK, TokensTypeOK
  <2>6. \A k \in TokenIds :
          /\ token'[k].session = token[k].session
          /\ token'[k].status # token[k].status =>
               /\ token[k].status # "none" /\ token'[k].status = "revoked"
               /\ session'[SessionOf(k)] # "live"
    <3>1. ASSUME NEW k \in TokenIds
          PROVE  /\ token'[k].session = token[k].session
                 /\ token'[k].status # token[k].status =>
                      token[k].status = "live" /\ token'[k].status = "revoked"
      <4>1. CASE token[k].status = "live"
        <5>1. token'[k] = [status |-> "revoked", session |-> token[k].session]
          BY <2>2, <4>1
        <5> QED BY <4>1, <5>1
      <4>2. CASE token[k].status # "live"
        BY <2>2, <4>2
      <4> QED BY <4>1, <4>2
    <3>2. \A k \in TokenIds : token[k].status = "live" => SessionOf(k) \in SessionIds
      BY <1>1 DEF Issued
    <3> QED BY <2>4, <3>1, <3>2
  <2> QED
    BY <1>3, <2>1, <2>3, <2>5, <2>6, RevokingKeeps DEF LogoutAll, history
<1>4. ASSUME NEW s \in SessionIds, RevokeSession(s) PROVE TokensOK'
  <2>1. \A r \in SessionIds : session'[r] = IF r = s THEN "revoked" ELSE session[r]
    BY <1>1, <1>4 DEF RevokeSession, TokensTypeOK
  <2>2. TokensTypeOK'
    BY <1>1, <1>4 DEF RevokeSession, TokensTypeOK, TokenStatus
  <2> QED
    BY <1>1, <1>4, <2>1, <2>2, RevokingKeeps DEF RevokeSession, history, TokensOK
<1>5. ASSUME NEW s \in SessionIds, DropTokens(s) PROVE TokensOK'
  <2>1. \A k \in TokenIds :
          token'[k] = IF token[k].status = "live" /\ SessionOf(k) = s
                      THEN [status |-> "revoked", session |-> token[k].session] ELSE token[k]
    BY <1>2, <1>5 DEF DropTokens, SessionOf
  <2>2. TokensTypeOK'
    BY <1>1, <1>5, <2>1 DEF DropTokens, TokensTypeOK, TokenStatus
  <2>3. session[s] = "revoked"
    BY <1>5 DEF DropTokens, TokensOK
  <2> QED
    BY <1>1, <1>5, <2>1, <2>2, <2>3, RevokingKeeps DEF DropTokens, history, TokensOK
<1>6. ASSUME NEW k \in TokenIds, LogoutToken(k) PROVE TokensOK'
  <2>1. /\ logouts[k] = "sent" /\ logouts' = [logouts EXCEPT ![k] = "half"]
        /\ token' = [token EXCEPT ![k] = [@ EXCEPT !.status = "revoked"]]
    BY <1>6 DEF LogoutToken
  <2>2. /\ token[k].status # "none"
        /\ token' = [token EXCEPT ![k] = [status |-> "revoked", session |-> token[k].session]]
    BY <1>1, <1>2, <2>1 DEF Issued
  <2>3. TokensTypeOK'
    BY <1>1, <1>6, <2>1, <2>2 DEF LogoutToken, TokensTypeOK, TokenStatus
  <2>4. store # k
    BY <1>1, <2>1 DEF Gone
  <2> QED
    BY <1>1, <1>6, <2>1, <2>2, <2>3, <2>4, RevokingKeeps
    DEF LogoutToken, history, TokensOK, TokensTypeOK
<1>7. ASSUME NEW k \in TokenIds, LogoutSession(k) PROVE TokensOK'
  <2>1. logouts[k] = "half" /\ SessionOf(k) \in SessionIds /\ session[SessionOf(k)] # "none"
    BY <1>1, <1>7 DEF LogoutSession, Issued
  <2>2. \A r \in SessionIds : session'[r] = IF r = SessionOf(k) THEN "revoked" ELSE session[r]
    BY <1>1, <1>7, <2>1 DEF LogoutSession, TokensTypeOK
  <2>3. TokensTypeOK'
    BY <1>1, <1>7, <2>1 DEF LogoutSession, TokensTypeOK, TokenStatus
  <2>4. store # k
    BY <1>1, <2>1 DEF Gone
  <2> QED
    BY <1>1, <1>7, <2>1, <2>2, <2>3, <2>4, RevokingKeeps
    DEF LogoutSession, history, TokensOK, TokensTypeOK
<1>8. ASSUME NEW k \in TokenIds, LoseLogout(k) PROVE TokensOK'
  <2>1. TokensTypeOK' /\ store # k
    BY <1>1, <1>8 DEF LoseLogout, server, TokensTypeOK, Gone
  <2> QED
    BY <1>1, <1>8, <2>1, RevokingKeeps
    DEF LoseLogout, server, history, TokensOK, TokensTypeOK
<1>9. ASSUME NEW t \in Tabs, LoadProfile(t) \/ Logout(t) PROVE TokensOK'
  <2>1. TokensTypeOK' /\ store' = None
    BY <1>1, <1>9 DEF LoadProfile, Logout, server, TokensTypeOK
  <2> QED
    BY <1>1, <1>9, <2>1, RevokingKeeps
    DEF LoadProfile, Logout, server, history, TokensOK, TokensTypeOK
<1>10. ASSUME NEW t \in Tabs, ClosePage(t) \/ LoseConnection(t) PROVE TokensOK'
  <2>1. TokensTypeOK' /\ store' \in {store, None}
    BY <1>1, <1>10 DEF ClosePage, LoseConnection, server, TokensTypeOK
  <2> QED
    BY <1>1, <1>10, <2>1, RevokingKeeps
    DEF ClosePage, LoseConnection, server, history, TokensOK, TokensTypeOK
<1> QED BY <1>3, <1>4, <1>5, <1>6, <1>7, <1>8, <1>9, <1>10

(* A tab that takes the stored token to the server.                         *)
LEMMA CallKeeps ==
  ASSUME TokensOK, NEW t \in Tabs, Call(t)
  PROVE  TokensOK'
<1>1. /\ tab[t].at = "idle" /\ store \in TokenIds
      /\ tab' = [tab EXCEPT ![t] = [at |-> "refresh", old |-> store]]
      /\ UNCHANGED <<session, token, store, logouts, dropping, raced, orphaned>>
  BY DEF Call, Go, Idle, TokensOK, TokensTypeOK, server, history
<1>2. /\ tab' \in [Tabs -> TabState] /\ tab'[t] = [at |-> "refresh", old |-> store]
      /\ \A u \in Tabs : u # t => tab'[u] = tab[u]
  <2>1. [at |-> "refresh", old |-> store] \in TabState
    BY <1>1 DEF TabState
  <2> QED BY <1>1, <2>1 DEF TokensOK, TokensTypeOK
<1>3. \A u \in Tabs, k \in TokenIds :
        /\ Uses(u, k)' <=> Uses(u, k) \/ (u = t /\ k = store)
        /\ Fresh(u, k)' <=> Fresh(u, k)
        /\ Rotates(u, k)' <=> Rotates(u, k)
  BY <1>1, <1>2 DEF Uses, Fresh, Rotates
<1>4. \A k \in TokenIds : InHand(k)' <=> InHand(k)
  BY <1>1, <1>2 DEF InHand
<1>5. \A k \in TokenIds : Issued(k)' /\ Gone(k)'
  BY <1>1, <1>3 DEF TokensOK, Issued, Gone, SessionOf
<1>6. ASSUME NEW u \in Tabs, NEW k \in TokenIds PROVE FreshOK(u, k)' /\ RotationOK(u, k)'
  <2>1. FreshOK(u, k) /\ RotationOK(u, k)
    BY DEF TokensOK
  <2>2. FreshOK(u, k)'
    <3> SUFFICES ASSUME Fresh(u, k) PROVE FreshOK(u, k)'
      BY <1>3 DEF FreshOK
    <3>1. u # t /\ tab'[u] = tab[u]
      BY <1>1, <1>2 DEF Fresh
    <3> QED BY <1>1, <1>3, <2>1, <3>1 DEF FreshOK, SessionOf
  <2>3. RotationOK(u, k)'
    BY <1>1, <1>3, <1>4, <2>1 DEF RotationOK, SessionOf
  <2> QED BY <2>2, <2>3
<1>7. OneLiveToken'
  BY <1>1, <1>4 DEF TokensOK, OneLiveToken, SessionOf
<1> QED BY <1>1, <1>2, <1>5, <1>6, <1>7 DEF TokensOK, TokensTypeOK

(* The token a request presents is in hand if it is live.                   *)
LEMMA PresentedInHand ==
  ASSUME TokensOK, NEW t \in Tabs, NEW k \in TokenIds,
         tab[t].at = "refresh", tab[t].old = k, token[k].status = "live"
  PROVE  InHand(k)
<1>1. Uses(t, k) /\ ~Fresh(t, k)
  BY DEF Uses, Fresh
<1>2. k \notin orphaned
  BY <1>1 DEF TokensOK, Gone
<1>3. ASSUME NEW u \in Tabs, tab[u].at = "revoke" PROVE tab[u].new # k
  <2>1. Fresh(u, k) => u = t
    BY <1>1 DEF TokensOK, FreshOK
  <2> QED BY <1>1, <1>3, <2>1 DEF Fresh
<1> QED BY <1>2, <1>3 DEF InHand

(* A token that is accepted is the one its session has in hand, and no one  *)
(* rotates it yet, or the session is raced for.                             *)
LEMMA AcceptKeeps ==
  ASSUME TokensOK, NEW t \in Tabs, NEW k \in TokenIds,
         tab[t].at = "refresh", tab[t].old = k, Usable(k),
         Go(t, [at |-> "issue", old |-> k]),
         raced' = IF \E u \in Tabs : tab[u].at \in {"issue", "revoke"} /\ tab[u].old = k
                  THEN raced \cup {SessionOf(k)} ELSE raced,
         UNCHANGED <<session, token, store, logouts, dropping, orphaned>>
  PROVE  TokensOK'
<1>1. /\ tab' \in [Tabs -> TabState] /\ tab'[t] = [at |-> "issue", old |-> k]
      /\ \A u \in Tabs : u # t => tab'[u] = tab[u]
  <2>1. [at |-> "issue", old |-> k] \in TabState
    BY DEF TabState
  <2> QED BY <2>1 DEF Go, TokensOK, TokensTypeOK
<1>2. \A u \in Tabs, l \in TokenIds :
        /\ Uses(u, l)' <=> Uses(u, l)
        /\ Fresh(u, l)' <=> Fresh(u, l)
        /\ Rotates(u, l)' <=> Rotates(u, l) \/ (u = t /\ l = k)
  BY <1>1 DEF Uses, Fresh, Rotates
<1>3. /\ \A l \in TokenIds : (InHand(l)' <=> InHand(l)) /\ SessionOf(l)' = SessionOf(l)
      /\ \A s \in raced : s \in raced'
  BY <1>1 DEF InHand, SessionOf
<1>4. InHand(k)
  BY PresentedInHand DEF Usable
<1>5. \A l \in TokenIds : Issued(l)' /\ Gone(l)'
  BY <1>2 DEF TokensOK, Issued, Gone, SessionOf
<1>6. ASSUME NEW u \in Tabs, NEW l \in TokenIds PROVE FreshOK(u, l)'
  <2>1. FreshOK(u, l)
    BY DEF TokensOK
  <2> SUFFICES ASSUME Fresh(u, l) PROVE FreshOK(u, l)'
    BY <1>2 DEF FreshOK
  <2>2. u # t /\ tab'[u] = tab[u]
    BY <1>1 DEF Fresh
  <2> QED BY <1>2, <2>1, <2>2 DEF FreshOK, SessionOf
<1>7. ASSUME SessionOf(k) \notin raced', NEW u \in Tabs, NEW l \in TokenIds,
             Rotates(u, l), SessionOf(l) = SessionOf(k)
      PROVE  FALSE
  <2>1. RotationOK(u, l) /\ SessionOf(l) \notin raced
    BY <1>3, <1>7 DEF TokensOK
  <2>2. l = k
    BY <1>4, <1>7, <2>1 DEF RotationOK
  <2> QED BY <1>7, <2>2 DEF Rotates
<1>8. ASSUME NEW u \in Tabs, NEW l \in TokenIds PROVE RotationOK(u, l)'
  <2>1. RotationOK(u, l)
    BY DEF TokensOK
  <2> SUFFICES ASSUME Rotates(u, l)', SessionOf(l) \notin raced'
               PROVE  /\ \A v \in Tabs, m \in TokenIds :
                           Rotates(v, m)' /\ SessionOf(m) = SessionOf(l) => v = u
                      /\ \A m \in TokenIds : InHand(m) /\ SessionOf(m) = SessionOf(l) => m = l
    BY <1>3 DEF RotationOK
  <2>2. CASE u = t /\ l = k
    <3>1. \A v \in Tabs, m \in TokenIds : SessionOf(m) = SessionOf(l) => ~Rotates(v, m)
      BY <1>7, <2>2
    <3>2. \A m \in TokenIds : InHand(m) /\ SessionOf(m) = SessionOf(l) => m = l
      BY <1>3, <1>4, <2>2 DEF TokensOK, OneLiveToken
    <3> QED BY <1>2, <2>2, <3>1, <3>2
  <2>3. CASE ~(u = t /\ l = k)
    <3>1. Rotates(u, l)
      BY <1>2, <2>3
    <3>2. SessionOf(l) # SessionOf(k)
      BY <1>7, <3>1
    <3> QED BY <1>2, <1>3, <2>1, <3>1, <3>2 DEF RotationOK
  <2> QED BY <2>2, <2>3
<1>9. OneLiveToken'
  BY <1>3 DEF TokensOK, OneLiveToken
<1> QED BY <1>1, <1>5, <1>6, <1>8, <1>9 DEF TokensOK, TokensTypeOK

(* The new token joins the session of the old, in no hand yet.              *)
LEMMA IssueKeeps ==
  ASSUME TokensOK, NEW t \in Tabs, NEW n \in TokenIds, tab[t].at = "issue",
         token[n].status = "none",
         token' = [token EXCEPT ![n] = [status |-> "live", session |-> SessionOf(tab[t].old)]],
         Go(t, [at |-> "revoke", old |-> tab[t].old, new |-> n]),
         UNCHANGED <<session, store, logouts, dropping, orphaned, raced>>
  PROVE  TokensOK'
<1>1. PICK o \in TokenIds : tab[t].old = o
  BY DEF TokensOK, TokensTypeOK, TabState, Idle
<1>2. /\ tab' \in [Tabs -> TabState] /\ tab'[t] = [at |-> "revoke", old |-> o, new |-> n]
      /\ \A u \in Tabs : u # t => tab'[u] = tab[u]
  <2>1. [at |-> "revoke", old |-> o, new |-> n] \in TabState
    BY DEF TabState
  <2> QED BY <1>1, <2>1 DEF Go, TokensOK, TokensTypeOK
<1>3. token[o].status # "none" /\ o # n /\ SessionOf(o) \in SessionIds
  BY <1>1 DEF TokensOK, Issued, Uses
<1>4. /\ token' \in [TokenIds -> [status : TokenStatus, session : SessionIds \cup {None}]]
      /\ token'[n] = [status |-> "live", session |-> SessionOf(o)]
      /\ \A k \in TokenIds : k # n => token'[k] = token[k]
  BY <1>1, <1>3 DEF TokensOK, TokensTypeOK, TokenStatus
<1>5. /\ \A u \in Tabs : ~Uses(u, n) /\ ~Fresh(u, n) /\ ~Rotates(u, n)
      /\ store # n /\ logouts[n] = "none" /\ n \notin orphaned
  BY DEF TokensOK, Issued, Uses, Fresh, Rotates
<1>6. \A u \in Tabs, k \in TokenIds :
        /\ Uses(u, k)' <=> Uses(u, k) \/ (u = t /\ k = n)
        /\ Fresh(u, k)' <=> Fresh(u, k) \/ (u = t /\ k = n)
        /\ Rotates(u, k)' <=> Rotates(u, k)
  BY <1>1, <1>2 DEF Uses, Fresh, Rotates
<1>7. /\ SessionOf(n)' = SessionOf(o)
      /\ \A k \in TokenIds : k # n => SessionOf(k)' = SessionOf(k)
      /\ \A k \in TokenIds : InHand(k)' => InHand(k) /\ k # n
  BY <1>2, <1>4 DEF SessionOf, InHand
<1>8. ASSUME NEW k \in TokenIds PROVE Issued(k)' /\ Gone(k)'
  <2>1. Issued(k) /\ Gone(k) /\ Issued(o)
    BY DEF TokensOK
  <2>2. Issued(k)'
    <3>1. CASE k = n
      BY <1>3, <1>4, <1>7, <2>1, <3>1 DEF Issued
    <3>2. CASE k # n
      BY <1>4, <1>6, <1>7, <2>1, <3>2 DEF Issued
    <3> QED BY <3>1, <3>2
  <2>3. Gone(k)'
    BY <1>5, <1>6, <2>1 DEF Gone
  <2> QED BY <2>2, <2>3
<1>9. ASSUME NEW u \in Tabs, NEW k \in TokenIds PROVE FreshOK(u, k)'
  <2>1. FreshOK(u, k)
    BY DEF TokensOK
  <2>2. CASE u = t /\ k = n
    <3>1. token'[n].status = "live" /\ tab'[t].old = o
      BY <1>2, <1>4
    <3>2. SessionOf(tab[t].old)' = SessionOf(o)'
      BY <3>1 DEF SessionOf
    <3> QED BY <1>3, <1>5, <1>6, <1>7, <2>2, <3>1, <3>2 DEF FreshOK
  <2>3. CASE ~(u = t /\ k = n)
    <3> SUFFICES ASSUME Fresh(u, k) PROVE FreshOK(u, k)'
      BY <1>6, <2>3 DEF FreshOK
    <3>1. u # t /\ k # n /\ tab'[u] = tab[u]
      BY <1>2, <1>5 DEF Fresh
    <3>2. tab[u].at = "revoke" => tab[u].old \in TokenIds \ {n}
      <4>1. tab[u].at = "revoke" => tab[u].old \in TokenIds
        BY DEF TokensOK, TokensTypeOK, TabState, Idle
      <4>2. tab[u].at = "revoke" => tab[u].old # n
        BY <1>5 DEF Uses
      <4> QED BY <4>1, <4>2
    <3>3. tab[u].at = "revoke" => SessionOf(tab[u].old)' = SessionOf(tab[u].old)
      BY <1>4, <3>1, <3>2 DEF SessionOf
    <3> QED BY <1>4, <1>6, <1>7, <2>1, <3>1, <3>3 DEF FreshOK
  <2> QED BY <2>2, <2>3
<1>10. ASSUME NEW u \in Tabs, NEW k \in TokenIds PROVE RotationOK(u, k)'
  <2>1. RotationOK(u, k)
    BY DEF TokensOK
  <2> SUFFICES ASSUME Rotates(u, k), SessionOf(k)' \notin raced
               PROVE  RotationOK(u, k)'
    BY <1>6 DEF RotationOK
  <2>2. k # n /\ \A v \in Tabs, l \in TokenIds : Rotates(v, l) => l # n
    BY <1>5
  <2> QED BY <1>6, <1>7, <2>1, <2>2 DEF RotationOK
<1>11. OneLiveToken'
  BY <1>7 DEF TokensOK, OneLiveToken
<1> QED BY <1>2, <1>4, <1>8, <1>9, <1>10, <1>11 DEF TokensOK, TokensTypeOK

(* The old token is out of hand, the new one in it.                         *)
LEMMA RevokeKeeps ==
  ASSUME TokensOK, NEW t \in Tabs, RevokeOld(t)
  PROVE  TokensOK'
<1>1. PICK o \in TokenIds, n \in TokenIds : tab[t].old = o /\ tab[t].new = n
  BY DEF RevokeOld, TokensOK, TokensTypeOK, TabState, Idle
<1>2. /\ tab[t].at = "revoke" /\ token' = [token EXCEPT ![o].status = "revoked"]
      /\ tab' = [tab EXCEPT ![t] = [at |-> "answer", old |-> o, new |-> n]]
      /\ UNCHANGED <<session, store, logouts, dropping, orphaned, raced>>
  BY <1>1 DEF RevokeOld, Go, history
<1>3. /\ tab' \in [Tabs -> TabState] /\ tab'[t] = [at |-> "answer", old |-> o, new |-> n]
      /\ \A u \in Tabs : u # t => tab'[u] = tab[u]
  <2>1. [at |-> "answer", old |-> o, new |-> n] \in TabState
    BY DEF TabState
  <2> QED BY <1>2, <2>1 DEF TokensOK, TokensTypeOK
<1>4. /\ token' \in [TokenIds -> [status : TokenStatus, session : SessionIds \cup {None}]]
      /\ token'[o].status = "revoked" /\ token'[o].session = token[o].session
      /\ \A k \in TokenIds : k # o => token'[k] = token[k]
  BY <1>2 DEF TokensOK, TokensTypeOK, TokenStatus
<1>5. Fresh(t, n) /\ Rotates(t, o) /\ Uses(t, o) /\ token[o].status # "none"
  BY <1>1, <1>2 DEF Fresh, Rotates, Uses, TokensOK, Issued
<1>6. /\ o # n /\ SessionOf(n) = SessionOf(o)
      /\ \A u \in Tabs : (Fresh(u, o) => u = t) /\ (Uses(u, n) => u = t)
  BY <1>1, <1>2, <1>5 DEF TokensOK, FreshOK
<1>7. \A k \in TokenIds : SessionOf(k)' = SessionOf(k)
  BY <1>4 DEF SessionOf
<1>8. \A u \in Tabs, k \in TokenIds :
        /\ Uses(u, k)' <=> Uses(u, k)
        /\ Fresh(u, k)' <=> Fresh(u, k)
        /\ Rotates(u, k)' <=> Rotates(u, k) /\ u # t
  BY <1>1, <1>2, <1>3 DEF Uses, Fresh, Rotates
<1>9. \A k \in TokenIds : InHand(k)' => (InHand(k) \/ k = n) /\ k # o
  BY <1>1, <1>2, <1>3, <1>4 DEF InHand
<1>10. \A k \in TokenIds : Issued(k)' /\ Gone(k)'
  <2>1. \A k \in TokenIds : token'[k].status = "none" <=> token[k].status = "none"
    BY <1>4, <1>5
  <2> QED BY <1>2, <1>7, <1>8, <2>1 DEF TokensOK, Issued, Gone
<1>11. ASSUME NEW u \in Tabs, NEW k \in TokenIds PROVE FreshOK(u, k)'
  <2>1. FreshOK(u, k)
    BY DEF TokensOK
  <2> SUFFICES ASSUME Fresh(u, k) PROVE FreshOK(u, k)'
    BY <1>8 DEF FreshOK
  <2>2. k # o
    <3>1. CASE u = t
      BY <1>1, <1>6, <3>1 DEF Fresh
    <3>2. CASE u # t
      BY <1>6, <3>2
    <3> QED BY <3>1, <3>2
  <2>3. tab'[u].old = tab[u].old /\ (tab'[u].at = "revoke" => tab[u].at = "revoke")
    BY <1>1, <1>2, <1>3
  <2>4. tab'[u].at = "revoke" => SessionOf(k)' = SessionOf(tab[u].old)'
    <3> SUFFICES ASSUME tab'[u].at = "revoke" PROVE SessionOf(k)' = SessionOf(tab[u].old)'
      OBVIOUS
    <3>1. u # t /\ tab'[u] = tab[u] /\ tab[u].at = "revoke"
      BY <1>3
    <3>2. tab[u].old \in TokenIds
      BY <3>1 DEF TokensOK, TokensTypeOK, TabState, Idle
    <3>3. token'[tab'[u].old].session = token[tab[u].old].session
      BY <1>4, <3>1, <3>2
    <3> QED BY <1>7, <2>1, <3>1, <3>3 DEF FreshOK, SessionOf
  <2> QED BY <1>2, <1>4, <1>7, <1>8, <2>1, <2>2, <2>3, <2>4 DEF FreshOK, SessionOf
<1>12. ASSUME SessionOf(o) \notin raced, NEW k \in TokenIds, InHand(k)', SessionOf(k) = SessionOf(o)
       PROVE  k = n
  <2>1. \A l \in TokenIds : InHand(l) /\ SessionOf(l) = SessionOf(o) => l = o
    BY <1>5, <1>12 DEF TokensOK, RotationOK
  <2> QED BY <1>9, <1>12, <2>1
<1>13. ASSUME NEW u \in Tabs, NEW k \in TokenIds PROVE RotationOK(u, k)'
  <2>1. RotationOK(u, k) /\ RotationOK(t, o)
    BY DEF TokensOK
  <2> SUFFICES ASSUME Rotates(u, k), u # t, SessionOf(k) \notin raced PROVE RotationOK(u, k)'
    BY <1>2, <1>7, <1>8 DEF RotationOK
  <2>2. SessionOf(k) # SessionOf(o)
    BY <1>5, <2>1 DEF RotationOK
  <2> QED BY <1>2, <1>6, <1>7, <1>8, <1>9, <2>1, <2>2 DEF RotationOK
<1>14. OneLiveToken'
  <2> SUFFICES ASSUME NEW k \in TokenIds, NEW l \in TokenIds, InHand(k)', InHand(l)',
                      SessionOf(k) = SessionOf(l), SessionOf(k) \notin raced
               PROVE  k = l
    BY <1>2, <1>7 DEF OneLiveToken
  <2>1. CASE SessionOf(k) = SessionOf(o)
    BY <1>12, <2>1
  <2>2. CASE SessionOf(k) # SessionOf(o)
    BY <1>6, <1>9, <2>2 DEF TokensOK, OneLiveToken
  <2> QED BY <2>1, <2>2
<1> QED BY <1>2, <1>3, <1>4, <1>10, <1>11, <1>13, <1>14 DEF TokensOK, TokensTypeOK

(* The store takes a token that is good while its session is.               *)
LEMMA StoreKeeps ==
  ASSUME TokensOK, NEW t \in Tabs, StoreTokens(t)
  PROVE  TokensOK'
<1>1. PICK n \in TokenIds : tab[t].new = n
  BY DEF StoreTokens, TokensOK, TokensTypeOK, TabState, Idle
<1>2. /\ tab[t].at = "answer" /\ store' = n
      /\ UNCHANGED <<session, token, logouts, dropping, orphaned, raced>>
  BY <1>1 DEF StoreTokens, server, history
<1>3. /\ tab' \in [Tabs -> TabState] /\ tab'[t].at \in {"idle", "retry"}
      /\ \A u \in Tabs : u # t => tab'[u] = tab[u]
  <2>1. Idle \in TabState /\ [at |-> "retry"] \in TabState
    BY DEF TabState
  <2> QED BY <2>1 DEF StoreTokens, Go, Idle, TokensOK, TokensTypeOK
<1>4. Fresh(t, n) /\ Uses(t, n)
  BY <1>1, <1>2 DEF Fresh, Uses
<1>5. /\ logouts[n] = "none" /\ n \notin orphaned
      /\ \A u \in Tabs : Uses(u, n) => u = t
      /\ session[SessionOf(n)] = "live" => token[n].status = "live"
  BY <1>4 DEF TokensOK, FreshOK, Gone
<1>6. \A u \in Tabs, k \in TokenIds :
        /\ Uses(u, k)' => Uses(u, k) /\ u # t
        /\ Fresh(u, k)' => Fresh(u, k) /\ u # t
        /\ Rotates(u, k)' <=> Rotates(u, k)
  BY <1>2, <1>3 DEF Uses, Fresh, Rotates
<1>7. \A k \in TokenIds : (InHand(k)' <=> InHand(k)) /\ SessionOf(k)' = SessionOf(k)
  BY <1>2, <1>3 DEF InHand, SessionOf
<1>8. ASSUME NEW k \in TokenIds PROVE Issued(k)' /\ Gone(k)'
  <2>1. Issued(k) /\ Gone(k) /\ Issued(n)
    BY DEF TokensOK
  <2>2. Issued(k)'
    BY <1>2, <1>4, <1>6, <1>7, <2>1 DEF Issued
  <2>3. Gone(k)'
    BY <1>2, <1>5, <1>6, <2>1 DEF Gone
  <2> QED BY <2>2, <2>3
<1>9. ASSUME NEW u \in Tabs, NEW k \in TokenIds PROVE FreshOK(u, k)' /\ RotationOK(u, k)'
  <2>1. FreshOK(u, k) /\ RotationOK(u, k)
    BY DEF TokensOK
  <2>2. FreshOK(u, k)'
    <3> SUFFICES ASSUME Fresh(u, k)' PROVE FreshOK(u, k)'
      BY DEF FreshOK
    <3>1. Fresh(u, k) /\ u # t /\ tab'[u] = tab[u]
      BY <1>3, <1>6
    <3>2. k # n
      BY <1>5, <3>1 DEF Uses
    <3> QED BY <1>2, <1>6, <2>1, <3>1, <3>2 DEF FreshOK, SessionOf
  <2>3. RotationOK(u, k)'
    BY <1>2, <1>6, <1>7, <2>1 DEF RotationOK
  <2> QED BY <2>2, <2>3
<1>10. OneLiveToken'
  BY <1>2, <1>7 DEF TokensOK, OneLiveToken
<1> QED BY <1>2, <1>3, <1>8, <1>9, <1>10 DEF TokensOK, TokensTypeOK

(* A new session begins with a token of its own.                            *)
LEMMA OpenKeeps ==
  ASSUME TokensOK, NEW t \in Tabs, OpenSession(t)
  PROVE  TokensOK'
<1>1. PICK s \in SessionIds, n \in TokenIds :
        /\ session[s] = "none" /\ token[n].status = "none"
        /\ session' = [session EXCEPT ![s] = "live"]
        /\ token' = [token EXCEPT ![n] = [status |-> "live", session |-> s]]
        /\ tab' = [tab EXCEPT ![t] = [at |-> "answer", old |-> None, new |-> n]]
  BY DEF OpenSession, NewSession, Unused, Go
<1>2. tab[t].at = "login" /\ UNCHANGED <<store, logouts, dropping, orphaned, raced>>
  BY DEF OpenSession, history
<1>3. /\ tab' \in [Tabs -> TabState] /\ tab'[t] = [at |-> "answer", old |-> None, new |-> n]
      /\ \A u \in Tabs : u # t => tab'[u] = tab[u]
  <2>1. [at |-> "answer", old |-> None, new |-> n] \in TabState
    BY DEF TabState
  <2> QED BY <1>1, <2>1 DEF TokensOK, TokensTypeOK
<1>4. /\ token' \in [TokenIds -> [status : TokenStatus, session : SessionIds \cup {None}]]
      /\ token'[n] = [status |-> "live", session |-> s]
      /\ \A k \in TokenIds : k # n => token'[k] = token[k]
      /\ session' \in [SessionIds -> TokenStatus] /\ session'[s] = "live"
      /\ \A r \in SessionIds : r # s => session'[r] = session[r]
  BY <1>1 DEF TokensOK, TokensTypeOK, TokenStatus
<1>5. /\ \A u \in Tabs : ~Uses(u, n) /\ ~Fresh(u, n) /\ ~Rotates(u, n)
      /\ store # n /\ logouts[n] = "none" /\ n \notin orphaned
  BY <1>1 DEF TokensOK, Issued, Uses, Fresh, Rotates
<1>6. \A u \in Tabs, k \in TokenIds :
        /\ Uses(u, k)' <=> Uses(u, k) \/ (u = t /\ k = n)
        /\ Fresh(u, k)' <=> Fresh(u, k) \/ (u = t /\ k = n)
        /\ Rotates(u, k)' <=> Rotates(u, k)
  BY <1>2, <1>3, TokensAreSome DEF Uses, Fresh, Rotates
<1>7. /\ \A k \in TokenIds : k # n => SessionOf(k)' = SessionOf(k)
      /\ SessionOf(n)' = s
      /\ \A k \in TokenIds : k # n /\ token[k].status # "none" => SessionOf(k) \in SessionIds \ {s}
      /\ \A k \in TokenIds : InHand(k)' => InHand(k) \/ k = n
  <2>1. \A k \in TokenIds : InHand(k)' => InHand(k) \/ k = n
    BY <1>2, <1>3, <1>4 DEF InHand
  <2> QED BY <1>1, <1>4, <2>1 DEF SessionOf, TokensOK, Issued
<1>8. ASSUME NEW k \in TokenIds PROVE Issued(k)' /\ Gone(k)'
  <2>1. Issued(k) /\ Gone(k)
    BY DEF TokensOK
  <2>2. Issued(k)'
    <3>1. CASE k = n
      BY <1>4, <1>7, <3>1 DEF Issued
    <3>2. CASE k # n
      BY <1>2, <1>4, <1>6, <1>7, <2>1, <3>2 DEF Issued
    <3> QED BY <3>1, <3>2
  <2>3. Gone(k)'
    BY <1>2, <1>5, <1>6, <2>1 DEF Gone
  <2> QED BY <2>2, <2>3
<1>9. ASSUME NEW u \in Tabs, NEW k \in TokenIds PROVE FreshOK(u, k)'
  <2>1. FreshOK(u, k) /\ Issued(k)
    BY DEF TokensOK
  <2>2. CASE u = t /\ k = n
    BY <1>2, <1>3, <1>4, <1>5, <1>6, <1>7, <2>2, TokensAreSome DEF FreshOK
  <2>3. CASE ~(u = t /\ k = n)
    <3> SUFFICES ASSUME Fresh(u, k) PROVE FreshOK(u, k)'
      BY <1>6, <2>3 DEF FreshOK
    <3>1. u # t /\ k # n /\ tab'[u] = tab[u] /\ token[k].status # "none"
      BY <1>2, <1>3, <1>5, <2>1 DEF Fresh, Issued, Uses
    <3>2. tab[u].at = "revoke" => SessionOf(tab[u].old)' = SessionOf(tab[u].old)
      <4> SUFFICES ASSUME tab[u].at = "revoke"
                   PROVE  SessionOf(tab[u].old)' = SessionOf(tab[u].old)
        OBVIOUS
      <4>1. tab[u].old \in TokenIds
        BY DEF TokensOK, TokensTypeOK, TabState, Idle
      <4>2. tab[u].old # n
        BY <1>5 DEF Uses
      <4> QED BY <1>4, <3>1, <4>1, <4>2 DEF SessionOf
    <3>3. session'[SessionOf(k)] = session[SessionOf(k)]
      BY <1>4, <1>7, <3>1
    <3> QED BY <1>2, <1>4, <1>6, <1>7, <2>1, <3>1, <3>2, <3>3 DEF FreshOK
  <2> QED BY <2>2, <2>3
<1>10. ASSUME NEW u \in Tabs, NEW k \in TokenIds PROVE RotationOK(u, k)'
  <2>1. RotationOK(u, k) /\ Issued(k)
    BY DEF TokensOK
  <2> SUFFICES ASSUME Rotates(u, k), SessionOf(k)' \notin raced
               PROVE  RotationOK(u, k)'
    BY <1>2, <1>6 DEF RotationOK
  <2>2. k # n /\ token[k].status # "none" /\ SessionOf(k) # s
    BY <1>5, <1>7, <2>1 DEF Issued, Rotates, Uses
  <2>3. \A v \in Tabs, l \in TokenIds : Rotates(v, l) => l # n
    BY <1>5
  <2> QED BY <1>2, <1>6, <1>7, <2>1, <2>2, <2>3 DEF RotationOK
<1>11. OneLiveToken'
  <2> SUFFICES ASSUME NEW k \in TokenIds, NEW l \in TokenIds, InHand(k)', InHand(l)',
                      SessionOf(k)' = SessionOf(l)', SessionOf(k)' \notin raced
               PROVE  k = l
    BY <1>2 DEF OneLiveToken
  <2>1. \A m \in TokenIds : m # n /\ InHand(m)' => InHand(m) /\ SessionOf(m)' # s
    BY <1>7 DEF InHand
  <2>2. CASE k = n \/ l = n
    BY <1>7, <2>1, <2>2
  <2>3. CASE k # n /\ l # n
    BY <1>7, <2>1, <2>3 DEF TokensOK, OneLiveToken
  <2> QED BY <2>2, <2>3
<1>12. \A r \in dropping' : session'[r] = "revoked"
  BY <1>1, <1>2, <1>4 DEF TokensOK, TokensTypeOK
<1> QED
  BY <1>2, <1>3, <1>4, <1>8, <1>9, <1>10, <1>11, <1>12 DEF TokensOK, TokensTypeOK

(* The steps of a tab that let go of what it held.                          *)
LEMMA LettingGoKeeps ==
  ASSUME TokensOK, NEW t \in Tabs,
         \/ ReadOtp(t) \/ WriteOtp(t) \/ LoginPassword(t) \/ Retry(t)
         \/ DropAnswer(t) \/ Stop(t)
  PROVE  TokensOK'
<1>1. /\ Idle \in TabState /\ Idle.at = "idle"
      /\ [at |-> "login"] \in TabState
      /\ tab[t] \in TabState /\ store \in TokenIds \cup {None}
  BY DEF TabState, Idle, TokensOK, TokensTypeOK
<1>2. CASE ReadOtp(t)
  <2>1. PICK c \in Codes, right \in BOOLEAN :
          /\ Active(c)
          /\ Go(t, [at |-> "verify", code |-> c, seen |-> otp[c].status, right |-> right])
    BY <1>2 DEF ReadOtp
  <2>2. [at |-> "verify", code |-> c, seen |-> otp[c].status, right |-> right] \in TabState
    BY <2>1 DEF TabState, Active, OtpStatus
  <2>3. PICK state \in TabState : state.at = "verify" /\ Go(t, state)
    BY <2>1, <2>2
  <2>4. /\ tab[t].at = "idle"
        /\ UNCHANGED <<session, token, store, logouts, dropping, raced, orphaned>>
    BY <1>2 DEF ReadOtp, Idle, server
  <2> QED BY <2>3, <2>4, TabLeaves
<1>3. CASE WriteOtp(t)
  <2>1. /\ tab[t].at = "verify"
        /\ UNCHANGED <<session, token, store, logouts, dropping, raced, orphaned>>
    BY <1>3 DEF WriteOtp
  <2>2. PICK state \in TabState : state.at \in {"idle", "login"} /\ Go(t, state)
    BY <1>1, <1>3 DEF WriteOtp, Finish
  <2> QED BY <2>1, <2>2, TabLeaves
<1>4. CASE LoginPassword(t)
  <2>1. /\ tab[t].at = "idle" /\ Go(t, [at |-> "login"])
        /\ UNCHANGED <<session, token, store, logouts, dropping, raced, orphaned>>
    BY <1>4 DEF LoginPassword, Idle, server, history
  <2>2. PICK state \in TabState : state.at = "login" /\ Go(t, state)
    BY <1>1, <2>1
  <2> QED BY <2>1, <2>2, TabLeaves
<1>5. CASE Retry(t)
  <2>1. /\ tab[t].at = "retry" /\ Go(t, Idle) /\ store' \in {store, None}
        /\ UNCHANGED <<session, token, logouts, dropping, raced, orphaned>>
    BY <1>5 DEF Retry, server, history
  <2> QED BY <1>1, <2>1, TabLeaves
<1>6. CASE DropAnswer(t)
  <2>1. PICK n \in TokenIds : tab[t].new = n
    BY <1>1, <1>6 DEF DropAnswer, TabState, Idle
  <2>2. /\ tab[t].at = "answer" /\ Go(t, Idle) /\ orphaned' = orphaned \cup {n} /\ Fresh(t, n)
        /\ UNCHANGED <<session, token, store, logouts, dropping, raced>>
    BY <1>6, <2>1 DEF DropAnswer, Finish, Fresh, server
  <2> QED BY <1>1, <2>2, TabLeaves
<1>7. CASE Stop(t)
  <2>1. /\ Go(t, Idle) /\ UNCHANGED <<session, token, logouts, dropping, raced>>
        /\ store' \in {store, None}
    BY <1>7 DEF Stop, Finish, server
  <2>2. CASE tab[t].at = "revoke"
    <3>1. PICK n \in TokenIds : tab[t].new = n
      BY <1>1, <2>2 DEF TabState, Idle
    <3>2. orphaned' = orphaned \cup {n} /\ Fresh(t, n)
      BY <1>7, <2>2, <3>1 DEF Stop, Fresh
    <3> QED BY <1>1, <2>1, <2>2, <3>1, <3>2, TabLeaves
  <2>3. CASE tab[t].at # "revoke"
    <3>1. orphaned' = orphaned
      BY <1>7, <2>3 DEF Stop
    <3> QED BY <1>1, <2>1, <2>3, <3>1, TabLeaves
  <2> QED BY <2>2, <2>3
<1> QED BY <1>2, <1>3, <1>4, <1>5, <1>6, <1>7

(* A refresh is refused or accepted.                                        *)
LEMMA ReadTokenKeeps ==
  ASSUME TokensOK, NEW t \in Tabs, ReadToken(t)
  PROVE  TokensOK'
<1>1. PICK k \in TokenIds : tab[t].old = k
  BY DEF ReadToken, TokensOK, TokensTypeOK, TabState, Idle
<1>2. /\ tab[t].at = "refresh"
      /\ UNCHANGED <<session, token, logouts, dropping, orphaned>>
  BY DEF ReadToken, server
<1>3. CASE Finish(t) /\ store' = (IF t \in away THEN store ELSE None) /\ raced' = raced
  <2>1. Idle \in TabState /\ Idle.at = "idle"
    BY DEF TabState, Idle
  <2> QED BY <1>2, <1>3, <2>1, TabLeaves DEF Finish
<1>4. CASE /\ Usable(k) /\ Go(t, [at |-> "issue", old |-> k])
           /\ raced' = IF \E u \in Tabs : tab[u].at \in {"issue", "revoke"} /\ tab[u].old = k
                       THEN raced \cup {SessionOf(k)} ELSE raced
           /\ store' = store
  BY <1>1, <1>2, <1>4, AcceptKeeps
<1> QED BY <1>1, <1>3, <1>4 DEF ReadToken

(* Every step keeps the invariant of the tokens.                            *)
LEMMA TokensStep == TokensOK /\ [Next]_vars => TokensOK'
<1> SUFFICES ASSUME TokensOK, [Next]_vars PROVE TokensOK'
  OBVIOUS
<1>1. ASSUME UNCHANGED <<session, token, store, tab, logouts, dropping, raced, orphaned>>
      PROVE  TokensOK'
  <2>1. /\ \A t \in Tabs, k \in TokenIds : /\ FreshOK(t, k)' <=> FreshOK(t, k)
                                           /\ RotationOK(t, k)' <=> RotationOK(t, k)
        /\ \A k \in TokenIds : (Issued(k)' <=> Issued(k)) /\ (Gone(k)' <=> Gone(k))
    BY <1>1 DEF FreshOK, RotationOK, Issued, Gone, Fresh, Rotates, Uses, InHand, SessionOf
  <2>2. OneLiveToken'
    BY <1>1 DEF TokensOK, OneLiveToken, InHand, SessionOf
  <2> QED BY <1>1, <2>1, <2>2 DEF TokensOK, TokensTypeOK
<1>2. CASE UNCHANGED vars
  BY <1>1, <1>2 DEF vars, server, history
<1>3. CASE \E c \in Codes : RequestOtp(c) \/ SendOtp(c) \/ CloseOtp(c)
  BY <1>1, <1>3 DEF RequestOtp, SendOtp, CloseOtp, history
<1>4. ASSUME NEW t \in Tabs, TabStep(t) PROVE TokensOK'
  <2>1. CASE \/ ReadOtp(t) \/ WriteOtp(t) \/ LoginPassword(t) \/ Retry(t)
           \/ DropAnswer(t) \/ Stop(t)
    BY <2>1, LettingGoKeeps
  <2>2. CASE IssueToken(t)
    <3>1. PICK n \in TokenIds :
            /\ token[n].status = "none"
            /\ token' = [token EXCEPT ![n] = [status |-> "live",
                                             session |-> SessionOf(tab[t].old)]]
            /\ Go(t, [at |-> "revoke", old |-> tab[t].old, new |-> n])
      BY <2>2 DEF IssueToken, Unused
    <3>2. /\ tab[t].at = "issue"
          /\ UNCHANGED <<session, store, logouts, dropping, orphaned, raced>>
      BY <2>2 DEF IssueToken, history
    <3> QED BY <3>1, <3>2, IssueKeeps
  <2> QED
    BY <1>4, <2>1, <2>2, OpenKeeps, CallKeeps, ReadTokenKeeps, RevokeKeeps, StoreKeeps,
       EndingKeeps DEF TabStep
<1> QED BY <1>2, <1>3, <1>4, EndingKeeps DEF Next

(* The invariant of sessions and tokens: what a tab holds is its alone and  *)
(* good while its session is, and what left the browser is not used again.  *)
THEOREM TokensInvariant == Spec => []TokensOK
<1>1. Init => TokensOK
  BY TokensAreSome
  DEF Init, TokensOK, TokensTypeOK, TokenStatus, TabState, Idle, Issued, Gone, FreshOK,
      RotationOK, Fresh, Rotates, Uses, SessionOf, InHand, OneLiveToken
<1> QED BY <1>1, TokensStep, PTL DEF Spec

(* The token in the store, beside the requests that rotate it and nobody    *)
(* waits for: their page was closed, as a lost connection clears the store. *)
StoreOK ==
  /\ \A t \in away : t \in Tabs /\ tab[t].at \notin {"idle", "retry"}
  /\ store # None =>
       \A t \in away : Refreshing(t) /\ tab[t].old = store => store \in left
  /\ StoreIsUsable

(* A step that leaves the store alone, or clears it.                        *)
LEMMA StoreStays ==
  ASSUME TokensOK, StoreOK,
         store' \in {store, None},
         \A t \in away' : t \in Tabs /\ tab'[t].at \notin {"idle", "retry"},
         \A k \in left : k \in left',
         store' # None =>
           /\ session'[SessionOf(store)'] = "live" =>
                /\ session[SessionOf(store)] = "live"
                /\ token[store].status = "live" =>
                     \/ token'[store].status = "live"
                     \/ \E t \in Tabs \ away' : tab'[t].at = "answer" /\ tab'[t].old = store
                     \/ store \in left'
           /\ \A t \in Tabs \ away : tab[t].at = "answer" /\ tab[t].old = store =>
                \/ t \notin away' /\ tab'[t].at = "answer" /\ tab'[t].old = store
                \/ store \in left'
           /\ \A t \in away' : Refreshing(t)' /\ tab'[t].old = store =>
                (t \in away /\ Refreshing(t) /\ tab[t].old = store) \/ store \in left'
  PROVE  StoreOK'
<1>1. CASE store' = None
  BY <1>1 DEF StoreOK, StoreIsUsable
<1>2. CASE store' # None
  <2>1. store' = store /\ store # None
    BY <1>2
  <2>2. \A t \in away' : Refreshing(t)' /\ tab'[t].old = store => store \in left'
    BY <1>2, <2>1 DEF StoreOK
  <2>3. StoreIsUsable'
    <3> SUFFICES ASSUME session'[SessionOf(store)'] = "live"
                 PROVE  \/ token'[store].status = "live"
                        \/ \E t \in Tabs \ away' : tab'[t].at = "answer" /\ tab'[t].old = store
                        \/ store \in left'
      BY <2>1 DEF StoreIsUsable, SessionOf
    <3>1. \/ token[store].status = "live"
          \/ \E t \in Tabs \ away : tab[t].at = "answer" /\ tab[t].old = store
          \/ store \in left
      BY <1>2, <2>1 DEF StoreOK, StoreIsUsable
    <3> QED BY <1>2, <3>1
  <2> QED BY <2>1, <2>2, <2>3 DEF StoreOK
<1> QED BY <1>1, <1>2

(* The rows of sessions and tokens that a step leaves or only ends.         *)
LEMMA EndingStores ==
  ASSUME TokensOK, StoreOK,
         \/ LogoutAll
         \/ \E s \in SessionIds : RevokeSession(s) \/ DropTokens(s)
         \/ \E k \in TokenIds : LogoutToken(k) \/ LogoutSession(k) \/ LoseLogout(k)
         \/ \E t \in Tabs : LoadProfile(t) \/ Logout(t)
  PROVE  StoreOK'
<1>1. /\ UNCHANGED <<tab, away, left>> /\ store' \in {store, None}
      /\ \A t \in Tabs : Refreshing(t)' = Refreshing(t)
  BY DEF LogoutAll, RevokeSession, DropTokens, LogoutToken, LogoutSession, LoseLogout,
         LoadProfile, Logout, server, history, Refreshing
<1>2. ASSUME store' # None
      PROVE  session'[SessionOf(store)'] = "live" =>
               /\ session[SessionOf(store)] = "live"
               /\ token[store].status = "live" => token'[store].status = "live"
  <2>1. /\ store \in TokenIds /\ Gone(store) /\ Issued(store)
        /\ token[store].status # "none" /\ SessionOf(store) \in SessionIds
    BY <1>1, <1>2 DEF TokensOK, TokensTypeOK, Issued
  <2>2. /\ session \in [SessionIds -> TokenStatus]
        /\ token \in [TokenIds -> [status : TokenStatus, session : SessionIds \cup {None}]]
        /\ logouts[store] = "none"
    BY <1>1, <1>2, <2>1 DEF TokensOK, TokensTypeOK, Gone
  <2>0. store' = store
    BY <1>1, <1>2
  <2>3. CASE LogoutAll
    <3>1. SessionOf(store)' = SessionOf(store)
      BY <2>0, <2>1, <2>2, <2>3 DEF LogoutAll, SessionOf
    <3>2. session'[SessionOf(store)] # "live"
      BY <2>1, <2>3 DEF LogoutAll
    <3> QED BY <3>1, <3>2
  <2>4. ASSUME NEW s \in SessionIds, RevokeSession(s)
        PROVE  session'[SessionOf(store)'] = "live" =>
                 session[SessionOf(store)] = "live" /\ token'[store] = token[store]
    BY <2>0, <2>1, <2>2, <2>4 DEF RevokeSession, SessionOf
  <2>5. ASSUME NEW s \in SessionIds, DropTokens(s)
        PROVE  /\ session'[SessionOf(store)'] = "live" => session[SessionOf(store)] = "live"
               /\ session'[SessionOf(store)'] = "live" => token'[store] = token[store]
    <3>1. session[s] = "revoked" /\ session' = session
      BY <2>5 DEF DropTokens, TokensOK
    <3>2. CASE token[store].status = "live" /\ SessionOf(store) = s
      <4>1. token'[store].session = token[store].session
        BY <2>1, <2>2, <2>5, <3>2 DEF DropTokens
      <4> QED BY <2>0, <3>1, <3>2, <4>1 DEF SessionOf
    <3>3. CASE ~(token[store].status = "live" /\ SessionOf(store) = s)
      <4>1. token'[store] = token[store]
        BY <2>1, <2>5, <3>3 DEF DropTokens
      <4> QED BY <2>0, <3>1, <4>1 DEF SessionOf
    <3> QED BY <3>2, <3>3
  <2>6. ASSUME NEW k \in TokenIds, LogoutToken(k)
        PROVE  token'[store] = token[store] /\ session' = session
    BY <2>1, <2>2, <2>6 DEF LogoutToken
  <2>7. ASSUME NEW k \in TokenIds, LogoutSession(k)
        PROVE  token' = token /\ (session'[SessionOf(store)] = "live" =>
                                    session[SessionOf(store)] = "live")
    BY <2>1, <2>2, <2>7 DEF LogoutSession
  <2>8. ASSUME \/ \E k \in TokenIds : LoseLogout(k)
               \/ \E t \in Tabs : LoadProfile(t) \/ Logout(t)
        PROVE  token' = token /\ session' = session
    BY <2>8 DEF LoseLogout, LoadProfile, Logout, server
  <2>9. ASSUME token' = token PROVE SessionOf(store)' = SessionOf(store)
    BY <2>0, <2>9 DEF SessionOf
  <2>10. CASE \E s \in SessionIds : RevokeSession(s) \/ DropTokens(s)
    BY <2>4, <2>5, <2>10
  <2>11. CASE \E k \in TokenIds : LogoutToken(k)
    BY <2>0, <2>6, <2>11 DEF SessionOf
  <2>12. CASE \E k \in TokenIds : LogoutSession(k)
    BY <2>7, <2>9, <2>12
  <2>13. CASE \/ \E k \in TokenIds : LoseLogout(k)
              \/ \E t \in Tabs : LoadProfile(t) \/ Logout(t)
    BY <2>8, <2>9, <2>13
  <2> QED BY <2>3, <2>10, <2>11, <2>12, <2>13
<1> QED BY <1>1, <1>2, StoreStays DEF StoreOK

(* A tab's step after which it holds no token it rotates leaves the others  *)
(* as they are.                                                             *)
LEMMA RestStores ==
  ASSUME TokensOK, StoreOK, NEW t \in Tabs, NEW state, Go(t, state),
         state.at \in {"idle", "verify", "login", "retry"},
         store' \in {store, None},
         store' = None \/ t \in away \/ ~(tab[t].at = "answer" /\ tab[t].old # None),
         away' \in {away, away \ {t}},
         t \in away' => state.at \in {"verify", "login"},
         UNCHANGED <<session, token, left>>
  PROVE  StoreOK'
<1>1. /\ tab'[t] = state /\ \A u \in Tabs : u # t => tab'[u] = tab[u]
  BY DEF Go, TokensOK, TokensTypeOK
<1>2. /\ ~Refreshing(t)'
      /\ \A u \in Tabs : u # t => Refreshing(u)' = Refreshing(u)
  BY <1>1 DEF Refreshing
<1>3. \A u \in away' : u \in Tabs /\ tab'[u].at \notin {"idle", "retry"}
  BY <1>1 DEF StoreOK
<1>4. SessionOf(store)' = SessionOf(store) \/ store' = None
  BY DEF SessionOf
<1> QED BY <1>1, <1>2, <1>3, <1>4, StoreStays DEF StoreOK

(* The steps of a rotation.                                                 *)
LEMMA RotationStores ==
  ASSUME TokensOK, StoreOK, NEW t \in Tabs,
         Call(t) \/ ReadToken(t) \/ IssueToken(t) \/ RevokeOld(t)
  PROVE  StoreOK'
<1>0. /\ tab \in [Tabs -> TabState] /\ left' = left
      /\ \A k \in TokenIds : token[k] \in [status : TokenStatus, session : SessionIds \cup {None}]
      /\ store # None => store \in TokenIds /\ token[store].status # "none"
  BY DEF TokensOK, TokensTypeOK, Issued, Call, ReadToken, IssueToken, RevokeOld, history
<1>1. CASE Call(t)
  <2>1. /\ tab'[t] = [at |-> "refresh", old |-> store] /\ t \notin away
        /\ \A u \in Tabs : u # t => tab'[u] = tab[u]
        /\ UNCHANGED <<session, token, store, away>> /\ tab[t].at = "idle"
    BY <1>0, <1>1 DEF Call, Go, Idle, server, StoreOK
  <2>2. \A u \in Tabs : u # t => Refreshing(u)' = Refreshing(u)
    BY <2>1 DEF Refreshing
  <2>3. SessionOf(store)' = SessionOf(store)
    BY <2>1 DEF SessionOf
  <2> QED BY <1>0, <2>1, <2>2, <2>3, StoreStays DEF StoreOK
<1>2. CASE ReadToken(t)
  <2>1. CASE /\ Finish(t) /\ store' = IF t \in away THEN store ELSE None
             /\ UNCHANGED <<session, token>>
    <3>1. tab[t].at = "refresh"
      BY <1>2 DEF ReadToken
    <3> QED BY <1>0, <2>1, <3>1, RestStores DEF Finish, Idle
  <2>2. CASE /\ Go(t, [at |-> "issue", old |-> tab[t].old])
             /\ UNCHANGED <<session, token, store, away>>
    <3>1. /\ tab'[t] = [at |-> "issue", old |-> tab[t].old] /\ tab[t].at = "refresh"
          /\ \A u \in Tabs : u # t => tab'[u] = tab[u]
      BY <1>0, <1>2, <2>2 DEF Go, ReadToken
    <3>2. \A u \in Tabs : Refreshing(u)' = Refreshing(u)
      BY <3>1 DEF Refreshing
    <3>3. SessionOf(store)' = SessionOf(store)
      BY <2>2 DEF SessionOf
    <3> QED BY <1>0, <2>2, <3>1, <3>2, <3>3, StoreStays DEF StoreOK
  <2> QED BY <1>2, <2>1, <2>2 DEF ReadToken, server
<1>3. CASE IssueToken(t)
  <2>1. PICK n \in TokenIds :
          /\ token[n].status = "none"
          /\ token' = [token EXCEPT ![n] = [status |-> "live", session |-> SessionOf(tab[t].old)]]
          /\ Go(t, [at |-> "revoke", old |-> tab[t].old, new |-> n])
    BY <1>3 DEF IssueToken, Unused
  <2>2. /\ tab'[t] = [at |-> "revoke", old |-> tab[t].old, new |-> n] /\ tab[t].at = "issue"
        /\ \A u \in Tabs : u # t => tab'[u] = tab[u]
        /\ UNCHANGED <<session, store, away>>
    BY <1>0, <1>3, <2>1 DEF Go, IssueToken
  <2>3. \A u \in Tabs : Refreshing(u)' = Refreshing(u)
    BY <2>2 DEF Refreshing
  <2>4. store # None => token'[store] = token[store] /\ SessionOf(store)' = SessionOf(store)
    BY <1>0, <2>1, <2>2 DEF SessionOf
  <2> QED BY <1>0, <2>2, <2>3, <2>4, StoreStays DEF StoreOK
<1>4. CASE RevokeOld(t)
  <2>1. PICK o \in TokenIds : tab[t].old = o
    BY <1>4 DEF RevokeOld, TokensOK, TokensTypeOK, TabState, Idle
  <2>2. /\ tab'[t] = [at |-> "answer", old |-> o, new |-> tab[t].new] /\ tab[t].at = "revoke"
        /\ \A u \in Tabs : u # t => tab'[u] = tab[u]
        /\ UNCHANGED <<session, store, away>>
        /\ token' = [token EXCEPT ![o].status = "revoked"]
    BY <1>0, <1>4, <2>1 DEF Go, RevokeOld
  <2>3. \A u \in Tabs : Refreshing(u)' = Refreshing(u)
    <3>1. o # None
      BY <2>1, TokensAreSome
    <3> QED BY <2>1, <2>2, <3>1 DEF Refreshing
  <2>4. /\ store # None => token'[store].session = token[store].session
        /\ store # None /\ store # o => token'[store] = token[store]
    BY <1>0, <2>1, <2>2
  <2>5. ASSUME store = o
        PROVE  \/ \E u \in Tabs \ away' : tab'[u].at = "answer" /\ tab'[u].old = store
               \/ store \in left'
    <3>1. CASE t \in away
      <4>1. Refreshing(t) /\ store # None
        BY <2>1, <2>2, <2>5, TokensAreSome DEF Refreshing
      <4> QED BY <1>0, <2>1, <2>5, <3>1, <4>1 DEF StoreOK
    <3>2. CASE t \notin away
      BY <2>2, <2>5, <3>2
    <3> QED BY <3>1, <3>2
  <2>6. store # None => SessionOf(store)' = SessionOf(store)
    BY <2>2, <2>4 DEF SessionOf
  <2> QED BY <1>0, <2>1, <2>2, <2>3, <2>4, <2>5, <2>6, StoreStays DEF StoreOK
<1> QED BY <1>1, <1>2, <1>3, <1>4

(* What reaches the store is new to it, good, and nobody else's.            *)
LEMMA StoredIsGood ==
  ASSUME TokensOK, StoreOK, NEW t \in Tabs, StoreTokens(t)
  PROVE  StoreOK'
<1>1. PICK n \in TokenIds : tab[t].new = n
  BY DEF StoreTokens, TokensOK, TokensTypeOK, TabState, Idle
<1>2. /\ tab[t].at = "answer" /\ t \notin away /\ store' = n
      /\ UNCHANGED <<session, token, away, left>>
  BY <1>1 DEF StoreTokens, server, history
<1>3. /\ tab'[t].at \in {"idle", "retry"} /\ \A u \in Tabs : u # t => tab'[u] = tab[u]
  BY DEF StoreTokens, Go, Idle, TokensOK, TokensTypeOK
<1>4. Fresh(t, n)
  BY <1>1, <1>2 DEF Fresh
<1>5. /\ \A u \in Tabs : Uses(u, n) => u = t
      /\ session[SessionOf(n)] = "live" => token[n].status = "live"
  BY <1>4 DEF TokensOK, FreshOK
<1>6. \A u \in away : u \in Tabs /\ u # t /\ tab'[u] = tab[u] /\ ~Uses(u, n)
  BY <1>2, <1>3, <1>5 DEF StoreOK
<1>7. \A u \in away : ~(Refreshing(u)' /\ tab'[u].old = n)
  BY <1>6 DEF Refreshing, Uses
<1>8. StoreIsUsable'
  BY <1>2, <1>5 DEF StoreIsUsable, SessionOf
<1> QED BY <1>2, <1>6, <1>7, <1>8 DEF StoreOK

(* A page that is gone: its token is one of those left.                     *)
LEMMA LeavingStores ==
  ASSUME TokensOK, StoreOK, NEW t \in Tabs, ClosePage(t) \/ LoseConnection(t)
  PROVE  StoreOK'
<1>1. /\ UNCHANGED <<session, token, tab>> /\ away' = away \cup {t}
      /\ store' \in {store, None} /\ \A k \in left : k \in left'
      /\ tab[t].at \notin {"idle", "retry"}
      /\ \A u \in Tabs : Refreshing(u)' = Refreshing(u)
      /\ SessionOf(store)' = SessionOf(store) \/ store' = None
  BY DEF ClosePage, LoseConnection, server, history, Refreshing, SessionOf
<1>2. store' # None /\ Refreshing(t) /\ tab[t].old = store => store \in left'
  BY DEF ClosePage, LoseConnection
<1>3. tab[t].at = "answer" /\ tab[t].old = store /\ store # None => Refreshing(t)
  BY DEF Refreshing
<1> QED BY <1>1, <1>2, <1>3, StoreStays DEF StoreOK

(* A sign-in that opens a session rotates nothing.                          *)
LEMMA OpenStores ==
  ASSUME TokensOK, StoreOK, NEW t \in Tabs, OpenSession(t)
  PROVE  StoreOK'
<1>1. PICK s \in SessionIds, n \in TokenIds :
        /\ session[s] = "none" /\ token[n].status = "none"
        /\ session' = [session EXCEPT ![s] = "live"]
        /\ token' = [token EXCEPT ![n] = [status |-> "live", session |-> s]]
        /\ Go(t, [at |-> "answer", old |-> None, new |-> n])
  BY DEF OpenSession, NewSession, Unused
<1>2. /\ tab'[t] = [at |-> "answer", old |-> None, new |-> n] /\ tab[t].at = "login"
      /\ \A u \in Tabs : u # t => tab'[u] = tab[u]
      /\ UNCHANGED <<store, away, left>>
  BY <1>1 DEF OpenSession, Go, history, TokensOK, TokensTypeOK
<1>3. \A u \in Tabs : Refreshing(u)' = Refreshing(u)
  BY <1>2 DEF Refreshing
<1>4. ASSUME store # None
      PROVE  token'[store] = token[store] /\ session'[SessionOf(store)] = session[SessionOf(store)]
  <2>1. /\ store \in TokenIds /\ token[store].status # "none"
        /\ SessionOf(store) \in SessionIds /\ session[SessionOf(store)] # "none"
    BY <1>4 DEF TokensOK, TokensTypeOK, Issued
  <2> QED BY <1>1, <2>1 DEF TokensOK, TokensTypeOK
<1>5. store # None => SessionOf(store)' = SessionOf(store)
  BY <1>2, <1>4 DEF SessionOf
<1> QED BY <1>2, <1>3, <1>4, <1>5, StoreStays DEF StoreOK

(* Every step keeps the token in the store usable.                          *)
LEMMA StoreStep == TokensOK /\ StoreOK /\ [Next]_vars => StoreOK'
<1> SUFFICES ASSUME TokensOK, StoreOK, [Next]_vars PROVE StoreOK'
  OBVIOUS
<1>1. ASSUME UNCHANGED <<session, token, store, tab, away, left>> PROVE StoreOK'
  BY <1>1 DEF StoreOK, StoreIsUsable, SessionOf, Refreshing
<1>2. CASE UNCHANGED vars
  BY <1>1, <1>2 DEF vars, server, history
<1>3. CASE \E c \in Codes : RequestOtp(c) \/ SendOtp(c) \/ CloseOtp(c)
  BY <1>1, <1>3 DEF RequestOtp, SendOtp, CloseOtp, history
<1>4. ASSUME NEW t \in Tabs, TabStep(t) PROVE StoreOK'
  <2>1. CASE ReadOtp(t) \/ LoginPassword(t)
    <3>1. PICK state : state.at \in {"verify", "login"} /\ Go(t, state)
      <4>1. CASE LoginPassword(t)
        <5>1. Go(t, [at |-> "login"])
          BY <4>1 DEF LoginPassword
        <5>2. [at |-> "login"].at = "login"
          OBVIOUS
        <5> QED BY <5>1, <5>2
      <4>2. CASE ReadOtp(t)
        <5>1. PICK c \in Codes, right \in BOOLEAN :
                Go(t, [at |-> "verify", code |-> c, seen |-> otp[c].status, right |-> right])
          BY <4>2 DEF ReadOtp
        <5>2. [at |-> "verify", code |-> c, seen |-> otp[c].status, right |-> right].at
                = "verify"
          OBVIOUS
        <5> QED BY <5>1, <5>2
      <4> QED BY <2>1, <4>1, <4>2
    <3>2. UNCHANGED <<session, token, store, away, left>> /\ tab[t].at = "idle"
      BY <2>1 DEF ReadOtp, LoginPassword, Idle, server, history
    <3> QED BY <3>1, <3>2, RestStores
  <2>2. CASE WriteOtp(t)
    <3>1. tab[t].at = "verify" /\ UNCHANGED <<session, token, store, left>>
      BY <2>2 DEF WriteOtp
    <3>2. CASE Go(t, [at |-> "login"]) /\ away' = away
      <4>1. PICK state : state.at = "login" /\ Go(t, state)
        BY <3>2
      <4> QED BY <3>1, <3>2, <4>1, RestStores
    <3>3. CASE Finish(t)
      <4>1. PICK state : state.at = "idle" /\ Go(t, state)
        BY <3>3 DEF Finish, Idle
      <4> QED BY <3>1, <3>3, <4>1, RestStores DEF Finish
    <3> QED BY <2>2, <3>2, <3>3 DEF WriteOtp
  <2>3. CASE Retry(t) \/ DropAnswer(t) \/ Stop(t)
    <3>1. PICK state : state.at = "idle" /\ Go(t, state)
      BY <2>3 DEF Retry, DropAnswer, Stop, Finish, Idle
    <3>2. /\ UNCHANGED <<session, token, left>> /\ store' \in {store, None}
          /\ store' = None \/ t \in away \/ ~(tab[t].at = "answer" /\ tab[t].old # None)
      BY <2>3 DEF Retry, DropAnswer, Stop, Refreshing, server, history
    <3>3. away' \in {away, away \ {t}} /\ t \notin away'
      BY <2>3 DEF Retry, DropAnswer, Stop, Finish, StoreOK
    <3> QED BY <3>1, <3>2, <3>3, RestStores
  <2> QED
    BY <1>4, <2>1, <2>2, <2>3, OpenStores, RotationStores, StoredIsGood, LeavingStores,
       EndingStores DEF TabStep
<1> QED BY <1>2, <1>3, <1>4, EndingStores DEF Next

(* However tabs refresh at once, whatever answers are lost and wherever the *)
(* server stops, the token in the browser is one the server takes while the *)
(* session is live, or the page that was rotating it was closed meanwhile.  *)
THEOREM StoreStaysUsable == Spec => []StoreIsUsable
<1>1. Init => StoreOK
  BY DEF Init, StoreOK, StoreIsUsable
<1>2. StoreOK => StoreIsUsable
  BY DEF StoreOK
<1> QED BY <1>1, <1>2, TokensInvariant, StoreStep, PTL DEF Spec

(* Rotation leaves one live token of a session in the customer's hands.     *)
THEOREM OneTokenInHand == Spec => []OneLiveToken
<1>1. TokensOK => OneLiveToken
  BY DEF TokensOK
<1> QED BY <1>1, TokensInvariant, PTL

-----------------------------------------------------------------------------
(* The codes.                                                               *)

Verifies(t, c) == tab[t].at = "verify" /\ tab[t].code = c

(* A code that opened a session is closed for good, if no verification      *)
(* overlapped: nobody is verifying it, and its SMS cannot open it again.    *)
CodeOK(c) ==
  c \notin overlapped =>
    /\ \A t, u \in Tabs : Verifies(t, c) /\ Verifies(u, c) => t = u
    /\ opened[c] \in {0, 1}
    /\ opened[c] = 1 =>
         /\ \A t \in Tabs : ~Verifies(t, c)
         /\ \/ otp[c].status = "VERIFIED"
            \/ otp[c].status \notin {"CREATED", "SENT"} /\ otp[c].sent

(* A code that was not requested opened nothing.                            *)
CodesTypeOK ==
  /\ otp \in [Codes -> [status : OtpStatus, attempts : Nat, sent : BOOLEAN]]
  /\ opened \in [Codes -> Nat]
  /\ tab \in [Tabs -> TabState]
  /\ \A c \in Codes : otp[c].status = "NONE" => opened[c] = 0

CodesOK == CodesTypeOK /\ \A c \in Codes : CodeOK(c)

(* What a step does to codes it does not name.                              *)
LEMMA OtherCodes ==
  ASSUME CodesOK, NEW d \in Codes,
         otp'[d] = otp[d], opened'[d] = opened[d],
         d \notin overlapped' => d \notin overlapped,
         \A t \in Tabs : Verifies(t, d)' => Verifies(t, d)
  PROVE  CodeOK(d)'
<1>1. CodeOK(d)
  BY DEF CodesOK
<1> QED BY <1>1 DEF CodeOK

(* A tab that verifies nothing after its step adds no verification.         *)
LEMMA NotVerifying ==
  ASSUME tab \in [Tabs -> TabState], NEW t \in Tabs, NEW state, Go(t, state),
         state.at # "verify"
  PROVE  \A c \in Codes, u \in Tabs : Verifies(u, c)' => Verifies(u, c) /\ u # t
BY DEF Go, Verifies

(* The tab steps after the code: what a code's row is, stays.               *)
LEMMA SessionSteps ==
  ASSUME CodesOK, UNCHANGED <<otp, opened, overlapped>>, tab' \in [Tabs -> TabState],
         \A c \in Codes, u \in Tabs : Verifies(u, c)' => Verifies(u, c)
  PROVE  CodesOK'
<1>1. \A c \in Codes : CodeOK(c)'
  BY OtherCodes
<1> QED BY <1>1 DEF CodesOK, CodesTypeOK

(* A read verification is the only one of its code, or the code is          *)
(* overlapped.                                                              *)
LEMMA ReadOtpKeeps ==
  ASSUME CodesOK, NEW t \in Tabs, ReadOtp(t)
  PROVE  CodesOK'
<1>1. PICK c \in Codes, right \in BOOLEAN :
        /\ Active(c)
        /\ Go(t, [at |-> "verify", code |-> c, seen |-> otp[c].status, right |-> right])
        /\ overlapped' =
             IF \E u \in Tabs : tab[u].at = "verify" /\ tab[u].code = c
             THEN overlapped \cup {c} ELSE overlapped
  BY DEF ReadOtp
<1>2. tab[t].at = "idle" /\ UNCHANGED <<otp, opened>>
  BY DEF ReadOtp, Idle, server
<1>3. /\ tab' \in [Tabs -> TabState] /\ tab'[t].at = "verify" /\ tab'[t].code = c
      /\ \A u \in Tabs : u # t => tab'[u] = tab[u]
  <2>1. [at |-> "verify", code |-> c, seen |-> otp[c].status, right |-> right] \in TabState
    BY <1>1 DEF TabState, Active, OtpStatus
  <2> QED BY <1>1, <2>1 DEF Go, CodesOK, CodesTypeOK
<1>4. \A d \in Codes, u \in Tabs :
        Verifies(u, d)' <=> Verifies(u, d) \/ (u = t /\ d = c)
  BY <1>2, <1>3 DEF Verifies
<1>5. ASSUME NEW d \in Codes PROVE CodeOK(d)'
  <2>1. CASE d # c
    BY <1>1, <1>2, <1>4, <2>1, OtherCodes
  <2>2. CASE d = c
    <3> SUFFICES ASSUME c \notin overlapped' PROVE CodeOK(c)'
      BY <2>2 DEF CodeOK
    <3>1. c \notin overlapped /\ \A u \in Tabs : ~Verifies(u, c)
      BY <1>1 DEF Verifies
    <3>2. opened[c] = 0
      BY <1>1, <3>1 DEF CodesOK, CodeOK, Active
    <3>3. \A u \in Tabs : Verifies(u, c)' => u = t
      BY <1>4, <3>1
    <3>4. opened'[c] = 0
      BY <1>2, <3>2
    <3> QED BY <3>3, <3>4 DEF CodeOK
  <2> QED BY <2>1, <2>2
<1> QED BY <1>2, <1>3, <1>5 DEF CodesOK, CodesTypeOK

(* A right code is closed by what opens its session.                        *)
LEMMA WriteOtpKeeps ==
  ASSUME CodesOK, NEW t \in Tabs, WriteOtp(t)
  PROVE  CodesOK'
<1>1. PICK c \in Codes : tab[t].code = c
  BY DEF WriteOtp, CodesOK, CodesTypeOK, TabState, Idle
<1>2. tab[t].at = "verify" /\ overlapped' = overlapped /\ Verifies(t, c)
  BY <1>1 DEF WriteOtp, Verifies
<1>3. /\ tab' \in [Tabs -> TabState]
      /\ \A d \in Codes, u \in Tabs : Verifies(u, d)' => Verifies(u, d) /\ u # t
  <2>1. Idle \in TabState /\ [at |-> "login"] \in TabState
    BY DEF TabState
  <2>2. PICK state \in TabState : state.at # "verify" /\ Go(t, state)
    BY <2>1 DEF WriteOtp, Finish, Idle
  <2>3. tab' \in [Tabs -> TabState]
    BY <2>2 DEF Go, CodesOK, CodesTypeOK
  <2> QED BY <2>2, <2>3, NotVerifying DEF CodesOK, CodesTypeOK
<1>4. CASE tab[t].right
  <2>1. /\ otp' = [otp EXCEPT ![c].status = "VERIFIED"]
        /\ opened' = [opened EXCEPT ![c] = @ + 1]
    BY <1>1, <1>4 DEF WriteOtp
  <2>2. /\ otp' \in [Codes -> [status : OtpStatus, attempts : Nat, sent : BOOLEAN]]
        /\ opened' \in [Codes -> Nat] /\ otp'[c].status = "VERIFIED"
        /\ \A d \in Codes : d # c => otp'[d] = otp[d] /\ opened'[d] = opened[d]
        /\ opened'[c] = opened[c] + 1
    BY <2>1 DEF OtpStatus, CodesOK, CodesTypeOK
  <2>3. ASSUME NEW d \in Codes PROVE CodeOK(d)'
    <3>1. CASE d # c
      BY <1>2, <1>3, <2>2, <3>1, OtherCodes
    <3>2. CASE d = c
      <4> SUFFICES ASSUME c \notin overlapped PROVE CodeOK(c)'
        BY <1>2, <3>2 DEF CodeOK
      <4>1. CodeOK(c)
        BY DEF CodesOK
      <4>2. opened[c] = 0 /\ \A u \in Tabs : Verifies(u, c) => u = t
        BY <1>2, <4>1 DEF CodeOK
      <4>3. opened'[c] = 1 /\ otp'[c].status = "VERIFIED"
        BY <2>2, <4>2
      <4>4. \A u \in Tabs : ~Verifies(u, c)'
        BY <1>3, <4>2
      <4> QED BY <4>3, <4>4 DEF CodeOK
    <3> QED BY <3>1, <3>2
  <2> QED BY <1>3, <2>2, <2>3 DEF CodesOK, CodesTypeOK
<1>5. CASE ~tab[t].right
  <2>1. otp' = [otp EXCEPT ![c].attempts = @ + 1] /\ UNCHANGED opened
    BY <1>1, <1>5 DEF WriteOtp
  <2>2. /\ otp' \in [Codes -> [status : OtpStatus, attempts : Nat, sent : BOOLEAN]]
        /\ \A d \in Codes : otp'[d].status = otp[d].status /\ otp'[d].sent = otp[d].sent
    BY <2>1 DEF CodesOK, CodesTypeOK
  <2>3. ASSUME NEW d \in Codes PROVE CodeOK(d)'
    BY <1>2, <1>3, <2>1, <2>2 DEF CodesOK, CodeOK
  <2> QED BY <1>3, <2>1, <2>2, <2>3 DEF CodesOK, CodesTypeOK
<1> QED BY <1>4, <1>5

(* The rows themselves: requested, sent and closed.                         *)
LEMMA RowsKeep ==
  ASSUME CodesOK, NEW c \in Codes, RequestOtp(c) \/ SendOtp(c) \/ CloseOtp(c)
  PROVE  CodesOK'
<1>1. /\ UNCHANGED <<tab, opened>> /\ \A d \in overlapped : d \in overlapped'
      /\ \A d \in Codes, u \in Tabs : Verifies(u, d)' <=> Verifies(u, d)
  BY DEF RequestOtp, SendOtp, CloseOtp, history, Verifies
<1>2. /\ otp' \in [Codes -> [status : OtpStatus, attempts : Nat, sent : BOOLEAN]]
      /\ \A d \in Codes : d # c => otp'[d] = otp[d]
  BY DEF RequestOtp, SendOtp, CloseOtp, CodesOK, CodesTypeOK, OtpStatus
<1>3. /\ otp'[c].status # "NONE"
      /\ \/ otp[c].status \in {"NONE", "CREATED", "SENT"}
         \/ /\ ~otp[c].sent /\ otp'[c].sent /\ otp'[c].status \in {"SENT", "FAILED"}
            /\ otp[c].status = "VERIFIED" /\ otp'[c].status = "SENT" => c \in overlapped'
  <2>1. CASE RequestOtp(c)
    BY <2>1 DEF RequestOtp, CodesOK, CodesTypeOK
  <2>2. CASE SendOtp(c)
    BY <2>2 DEF SendOtp, CodesOK, CodesTypeOK
  <2>3. CASE CloseOtp(c)
    BY <2>3 DEF CloseOtp, Active, CodesOK, CodesTypeOK
  <2> QED BY <2>1, <2>2, <2>3
<1>4. ASSUME NEW d \in Codes PROVE CodeOK(d)'
  <2>1. CASE d # c
    BY <1>1, <1>2, <2>1, OtherCodes
  <2>2. CASE d = c
    <3> SUFFICES ASSUME c \notin overlapped' PROVE CodeOK(c)'
      BY <2>2 DEF CodeOK
    <3>1. CodeOK(c) /\ c \notin overlapped
      BY <1>1 DEF CodesOK
    <3>2. otp[c].status = "NONE" => opened[c] = 0
      BY DEF CodesOK, CodesTypeOK
    <3>3. opened[c] = 1 => otp'[c].status \notin {"CREATED", "SENT"} /\ otp'[c].sent
      BY <1>3, <3>1, <3>2 DEF CodeOK
    <3>4. /\ \A t, u \in Tabs : Verifies(t, c)' /\ Verifies(u, c)' => t = u
          /\ opened[c] \in {0, 1}
          /\ opened[c] = 1 => \A t \in Tabs : ~Verifies(t, c)'
      BY <1>1, <3>1 DEF CodeOK
    <3> QED BY <1>1, <3>3, <3>4 DEF CodeOK
  <2> QED BY <2>1, <2>2
<1> QED BY <1>1, <1>2, <1>3, <1>4 DEF CodesOK, CodesTypeOK

(* Every step keeps the invariant of the codes.                             *)
LEMMA CodesStep == CodesOK /\ TokensOK /\ TokensOK' /\ [Next]_vars => CodesOK'
<1> SUFFICES ASSUME CodesOK, TokensOK', [Next]_vars PROVE CodesOK'
  OBVIOUS
<1>0. tab' \in [Tabs -> TabState] /\ tab \in [Tabs -> TabState]
  BY DEF TokensOK, TokensTypeOK, CodesOK, CodesTypeOK
<1>1. ASSUME UNCHANGED <<otp, opened, overlapped, tab>> PROVE CodesOK'
  BY <1>0, <1>1, SessionSteps DEF Verifies
<1>2. CASE UNCHANGED vars
  BY <1>1, <1>2 DEF vars, server, history
<1>3. CASE \/ \E s \in SessionIds : RevokeSession(s) \/ DropTokens(s)
           \/ \E k \in TokenIds : LogoutToken(k) \/ LogoutSession(k) \/ LoseLogout(k)
           \/ LogoutAll
  BY <1>1, <1>3
  DEF RevokeSession, DropTokens, LogoutToken, LogoutSession, LoseLogout, LogoutAll, server,
      history
<1>4. ASSUME NEW t \in Tabs, TabStep(t) PROVE CodesOK'
  <2>1. CASE LoadProfile(t) \/ Logout(t) \/ ClosePage(t) \/ LoseConnection(t)
    BY <1>1, <2>1 DEF LoadProfile, Logout, ClosePage, LoseConnection, server, history
  <2>2. CASE \/ LoginPassword(t) \/ OpenSession(t) \/ Call(t) \/ ReadToken(t) \/ IssueToken(t)
             \/ RevokeOld(t) \/ StoreTokens(t) \/ Retry(t)
             \/ DropAnswer(t) \/ Stop(t)
    <3>1. UNCHANGED <<otp, opened, overlapped>>
      BY <2>2
      DEF LoginPassword, OpenSession, Call, ReadToken, IssueToken, RevokeOld, StoreTokens,
          Retry, DropAnswer, Stop, server, history
    <3>2. \E at \in {"idle", "login", "answer", "refresh", "issue", "revoke", "retry"} :
            tab'[t].at = at /\ \A u \in Tabs : u # t => tab'[u] = tab[u]
      <4>1. CASE LoginPassword(t) \/ OpenSession(t) \/ Call(t) \/ ReadToken(t)
        BY <1>0, <4>1 DEF LoginPassword, OpenSession, Call, ReadToken, Finish, Go, Idle
      <4>2. CASE IssueToken(t) \/ RevokeOld(t) \/ StoreTokens(t) \/ Retry(t)
        BY <1>0, <4>2 DEF IssueToken, RevokeOld, StoreTokens, Retry, Go, Idle
      <4>3. CASE DropAnswer(t) \/ Stop(t)
        BY <1>0, <4>3 DEF DropAnswer, Stop, Finish, Go, Idle
      <4> QED BY <2>2, <4>1, <4>2, <4>3
    <3> QED BY <1>0, <3>1, <3>2, SessionSteps DEF Verifies
  <2> QED BY <1>4, <2>1, <2>2, ReadOtpKeeps, WriteOtpKeeps DEF TabStep
<1> QED BY <1>2, <1>3, <1>4, RowsKeep DEF Next

(* A code that opened a session opens no other, unless two verifications of *)
(* it overlap or the record of its SMS comes after its use.                 *)
THEOREM CodeOpensOneSession == Spec => []CodeOpensOnce
<1>1. Init => CodesOK
  BY DEF Init, CodesOK, CodesTypeOK, CodeOK, Verifies, OtpStatus, TabState, Idle
<1>2. CodesOK => CodeOpensOnce
  BY DEF CodesOK, CodeOK, CodeOpensOnce
<1> QED BY <1>1, <1>2, TokensInvariant, CodesStep, PTL DEF Spec

USE GateAssumption

-----------------------------------------------------------------------------
(* Gates.                                                                   *)

ScanState ==
  {IdleScan} \cup [at : {"sent"}, code : TicketCodes]
             \cup [at : {"won", "lost", "VALID"}, code : Tickets]

GateTypeOK ==
  /\ ticket \in [Tickets -> {"NONE", "VALID", "USED", "BLOCKED"}]
  /\ scan \in [Scans -> ScanState]
  /\ entries \in [Tickets -> Nat] /\ admitted \in [Tickets -> Nat]

(* A scan that took its ticket and whose phone has shown nothing yet.       *)
Winner(s, t) == scan[s].at \in {"won", "VALID"} /\ scan[s].code = t

(* One scan at most takes a ticket, and what it has left behind follows its *)
(* steps: no row before the UPDATE, one at most after it, and no phone that *)
(* shows VALID before its own answer.                                       *)
TicketOK(t) ==
  /\ \A s1, s2 \in Scans : Winner(s1, t) /\ Winner(s2, t) => s1 = s2
  /\ \A s \in Scans :
       /\ Winner(s, t) => ticket[t] = "USED" /\ admitted[t] = 0
       /\ Winner(s, t) /\ scan[s].at = "won" => entries[t] = 0
  /\ ticket[t] # "USED" => entries[t] = 0 /\ admitted[t] = 0
  /\ entries[t] <= 1 /\ admitted[t] <= 1

GateOK == GateTypeOK /\ \A t \in Tickets : TicketOK(t)

(* What a scan's step leaves of the other scans.                            *)
LEMMA EndKeeps ==
  ASSUME GateOK, NEW s \in Scans, End(s), UNCHANGED <<ticket, entries>>,
         \/ UNCHANGED admitted
         \/ scan[s].at = "VALID" /\ admitted' = [admitted EXCEPT ![scan[s].code] = @ + 1]
  PROVE  GateOK'
<1>1. \A r \in Scans : scan'[r] = IF r = s THEN IdleScan ELSE scan[r]
  BY DEF End, GateOK, GateTypeOK
<1>2. \A r \in Scans, t \in Tickets : Winner(r, t)' => r # s /\ Winner(r, t)
  BY <1>1 DEF Winner, IdleScan
<1>3. scan' \in [Scans -> ScanState]
  BY DEF End, GateOK, GateTypeOK, ScanState
<1>4. CASE UNCHANGED admitted
  <2>1. \A t \in Tickets : TicketOK(t)'
    BY <1>1, <1>2, <1>4 DEF GateOK, TicketOK, IdleScan
  <2> QED BY <1>3, <1>4, <2>1 DEF GateOK, GateTypeOK
<1>5. CASE scan[s].at = "VALID" /\ admitted' = [admitted EXCEPT ![scan[s].code] = @ + 1]
  <2>1. PICK k \in Tickets : scan[s].code = k
    BY <1>5 DEF GateOK, GateTypeOK, ScanState, IdleScan
  <2>2. Winner(s, k) /\ admitted[k] = 0 /\ ticket[k] = "USED"
    BY <1>5, <2>1 DEF Winner, GateOK, TicketOK
  <2>3. admitted' \in [Tickets -> Nat]
       /\ \A t \in Tickets : admitted'[t] = IF t = k THEN 1 ELSE admitted[t]
    BY <1>5, <2>1, <2>2 DEF GateOK, GateTypeOK
  <2>4. \A r \in Scans : ~Winner(r, k)'
    <3>1. \A r \in Scans : Winner(r, k) => r = s
      BY <2>1, <2>2 DEF GateOK, TicketOK
    <3> QED BY <1>2, <2>1, <3>1
  <2>5. ASSUME NEW t \in Tickets PROVE TicketOK(t)'
    <3>1. CASE t = k
      BY <2>2, <2>3, <2>4, <3>1 DEF GateOK, TicketOK
    <3>2. CASE t # k
      BY <1>1, <1>2, <2>3, <3>2 DEF GateOK, TicketOK, IdleScan
    <3> QED BY <3>1, <3>2
  <2> QED BY <1>3, <2>3, <2>5 DEF GateOK, GateTypeOK
<1> QED BY <1>4, <1>5

(* A step of a scan keeps the invariant of the gates.                       *)
LEMMA ScanningKeeps ==
  ASSUME GateOK, NEW s \in Scans, Scanning(s)
  PROVE  GateOK'
<1>1. ASSUME NEW code \in TicketCodes, Send(s, code) PROVE GateOK'
  <2>1. \A r \in Scans : scan'[r] = IF r = s THEN [at |-> "sent", code |-> code] ELSE scan[r]
    BY <1>1 DEF Send, GateOK, GateTypeOK
  <2>2. \A r \in Scans, t \in Tickets : Winner(r, t)' => r # s /\ Winner(r, t)
    BY <2>1 DEF Winner
  <2>3. scan' \in [Scans -> ScanState]
    BY <1>1 DEF Send, GateOK, GateTypeOK, ScanState
  <2>4. \A t \in Tickets : TicketOK(t)'
    BY <1>1, <2>1, <2>2 DEF Send, GateOK, TicketOK
  <2> QED BY <1>1, <2>3, <2>4 DEF Send, GateOK, GateTypeOK
<1>2. CASE Use(s)
  <2> DEFINE k == scan[s].code
             taken == ticket[k] = "VALID"
             next == IF taken THEN "won" ELSE "lost"
  <2>1. k \in Tickets /\ scan[s] = [at |-> "sent", code |-> k]
    BY <1>2 DEF Use, GateOK, GateTypeOK, ScanState, IdleScan
  <2>2. \A r \in Scans : scan'[r] = IF r = s THEN [at |-> next, code |-> k] ELSE scan[r]
    BY <1>2, <2>1 DEF Use, GateOK, GateTypeOK
  <2>3. scan' \in [Scans -> ScanState]
    BY <1>2, <2>1, <2>2 DEF Use, GateOK, GateTypeOK, ScanState
  <2>4. \A t \in Tickets : ticket'[t] = IF taken /\ t = k THEN "USED" ELSE ticket[t]
    BY <1>2, <2>1 DEF Use, GateOK, GateTypeOK
  <2>5. ticket' \in [Tickets -> {"NONE", "VALID", "USED", "BLOCKED"}]
    BY <1>2, <2>1 DEF Use, GateOK, GateTypeOK
  <2>6. UNCHANGED <<entries, admitted>>
    BY <1>2 DEF Use
  <2>7. \A r \in Scans, t \in Tickets :
           Winner(r, t)' <=> Winner(r, t) \/ (r = s /\ t = k /\ taken)
    BY <2>1, <2>2 DEF Winner
  <2>8. ASSUME NEW t \in Tickets PROVE TicketOK(t)'
    <3>1. CASE taken /\ t = k
      <4>1. entries[t] = 0 /\ admitted[t] = 0 /\ \A r \in Scans : ~Winner(r, t)
        BY <2>1, <3>1 DEF GateOK, TicketOK
      <4> QED BY <2>4, <2>6, <2>7, <3>1, <4>1 DEF TicketOK
    <3>2. CASE ~(taken /\ t = k)
      <4>1. \A r \in Scans : Winner(r, t) => r # s
        BY <2>1 DEF Winner
      <4> QED BY <2>2, <2>4, <2>6, <2>7, <3>2, <4>1 DEF GateOK, TicketOK
    <3> QED BY <3>1, <3>2
  <2> QED BY <2>3, <2>5, <2>6, <2>8 DEF GateOK, GateTypeOK
<1>3. CASE RecordEntry(s)
  <2> DEFINE k == scan[s].code
  <2>1. k \in Tickets /\ scan[s] = [at |-> "won", code |-> k]
    BY <1>3 DEF RecordEntry, GateOK, GateTypeOK, ScanState, IdleScan
  <2>2. \A r \in Scans : scan'[r] = IF r = s THEN [at |-> "VALID", code |-> k] ELSE scan[r]
    BY <1>3, <2>1 DEF RecordEntry, GateOK, GateTypeOK
  <2>3. scan' \in [Scans -> ScanState]
    BY <1>3, <2>1, <2>2 DEF RecordEntry, GateOK, GateTypeOK, ScanState
  <2>4. Winner(s, k) /\ entries[k] = 0 /\ ticket[k] = "USED"
    BY <2>1 DEF Winner, GateOK, TicketOK
  <2>5. /\ entries' \in [Tickets -> Nat]
        /\ \A t \in Tickets : t # k => entries'[t] = entries[t]
        /\ entries'[k] \in {0, 1}
    <3>1. CASE UNCHANGED entries
      BY <2>4, <3>1 DEF GateOK, GateTypeOK
    <3>2. CASE entries' = [entries EXCEPT ![k] = @ + 1]
      BY <2>1, <2>4, <3>2 DEF GateOK, GateTypeOK
    <3> QED BY <1>3, <3>1, <3>2 DEF RecordEntry
  <2>6. \A r \in Scans, t \in Tickets : Winner(r, t)' <=> Winner(r, t)
    BY <2>1, <2>2 DEF Winner
  <2>7. UNCHANGED <<ticket, admitted>>
    BY <1>3 DEF RecordEntry
  <2>8. ASSUME NEW t \in Tickets PROVE TicketOK(t)'
    <3>1. CASE t = k
      <4>1. \A r \in Scans : Winner(r, t)' => r = s /\ scan'[r].at = "VALID"
        BY <2>1, <2>2, <2>4, <2>6, <3>1 DEF GateOK, TicketOK
      <4> QED BY <2>4, <2>5, <2>6, <2>7, <3>1, <4>1 DEF GateOK, TicketOK
    <3>2. CASE t # k
      BY <2>1, <2>2, <2>5, <2>6, <2>7, <3>2 DEF GateOK, TicketOK
    <3> QED BY <3>1, <3>2
  <2> QED BY <2>3, <2>5, <2>7, <2>8 DEF GateOK, GateTypeOK
<1>4. CASE Reject(s) \/ Explain(s) \/ Show(s) \/ LoseScan(s)
  BY <1>4, EndKeeps DEF Reject, Explain, Show, LoseScan
<1> QED BY <1>1, <1>2, <1>3, <1>4 DEF Scanning

(* Issue and Withdraw change tickets no scan has taken.                     *)
LEMMA SellKeeps ==
  ASSUME GateOK, NEW t \in Tickets, Issue(t) \/ Withdraw(t)
  PROVE  GateOK'
<1>1. /\ ticket[t] # "USED" /\ UNCHANGED <<scan, entries, admitted>>
      /\ ticket' \in [Tickets -> {"NONE", "VALID", "USED", "BLOCKED"}]
      /\ \A k \in Tickets : k # t => ticket'[k] = ticket[k]
  BY DEF Issue, Withdraw, GateOK, GateTypeOK
<1>2. \A s \in Scans : ~Winner(s, t)
  BY <1>1 DEF GateOK, TicketOK
<1>3. \A s \in Scans, k \in Tickets : Winner(s, k)' <=> Winner(s, k)
  BY <1>1 DEF Winner
<1>4. ASSUME NEW k \in Tickets PROVE TicketOK(k)'
  <2>1. CASE k = t
    BY <1>1, <1>2, <1>3, <2>1 DEF GateOK, TicketOK
  <2>2. CASE k # t
    BY <1>1, <1>3, <2>2 DEF GateOK, TicketOK
  <2> QED BY <2>1, <2>2
<1> QED BY <1>1, <1>4 DEF GateOK, GateTypeOK

(* Nothing else touches a gate.                                             *)
LEMMA GateStep == GateOK /\ [VenueNext]_venueVars => GateOK'
<1> SUFFICES ASSUME GateOK, [VenueNext]_venueVars PROVE GateOK'
  OBVIOUS
<1>1. CASE UNCHANGED gateVars
  BY <1>1 DEF gateVars, GateOK, GateTypeOK, TicketOK, Winner
<1>2. ASSUME NEW t \in Tickets, Sell(t) \/ Block(t) PROVE GateOK'
  BY <1>2, SellKeeps DEF Sell, Block
<1>3. ASSUME NEW s \in Scans, AtGate(s) PROVE GateOK'
  BY <1>3, ScanningKeeps DEF AtGate
<1> QED BY <1>1, <1>2, <1>3 DEF VenueNext, venueVars, Publish, OpenPhones

-----------------------------------------------------------------------------
(* Events.                                                                  *)

EventRec == [status : Statuses, organizer : Users, content : SUBSET Nat, types : Nat]
FormRec == [at : {"approved", "read"}, user : Users, op : Ops, event : EventRows, edit : Nat]
View == [content : SUBSET Nat, types : Nat]

EventsTypeOK ==
  /\ event \in [EventRows -> {NoEvent} \cup EventRec]
  /\ form \in [Forms -> {IdleForm} \cup FormRec]
  /\ seen \in [EventRows -> View] /\ reviewed \in [EventRows -> View]
  /\ begun \in [EventRows -> Nat] /\ late \in [EventRows -> SUBSET Nat]

Edits(e) == {form[t].edit : t \in UnderWay(e)}

Shows(view, e) == view.content \subseteq event[e].content /\ view.types <= event[e].types

(* What the list shows stays in the event. An event that is published has   *)
(* no edit on its way that was not on its way when it was published: one    *)
(* begins at a draft, or at an event that waits for approval.               *)
EventOK(e) ==
  /\ seen[e] # NotSeen => Exists(e) /\ Shows(seen[e], e)
  /\ event[e].status = "PUBLISHED" =>
       /\ Shows(reviewed[e], e)
       /\ event[e].content \ reviewed[e].content \subseteq late[e]
       /\ Edits(e) \subseteq late[e]

EventsOK ==
  /\ EventsTypeOK
  /\ \A t \in Forms : form[t].at = "read" => Exists(form[t].event)
  /\ \A e \in EventRows : EventOK(e)

(* An event no step touches stays right as long as no edit of it begins.    *)
LEMMA UntouchedEvent ==
  ASSUME EventsOK, NEW e \in EventRows, event'[e] = event[e],
         seen'[e] = seen[e], reviewed'[e] = reviewed[e], late'[e] = late[e],
         Edits(e)' \subseteq Edits(e)
  PROVE  EventOK(e)'
<1>1. EventOK(e)
  BY DEF EventsOK
<1> QED BY <1>1 DEF EventOK, Shows, Exists, NotSeen

(* A form that opens, is refused or ends begins no edit.                    *)
LEMMA TabKeeps ==
  ASSUME EventsOK, NEW t \in Forms,
         CloseForm(t) \/ \E u \in Users, op \in Ops, e \in EventRows : OpenForm(t, u, op, e)
  PROVE  EventsOK'
<1>1. \A r \in Forms : form'[r].at = "read" => r # t /\ form'[r] = form[r]
  BY DEF CloseForm, OpenForm, IdleForm, EventsOK, EventsTypeOK
<1>2. UNCHANGED <<event, seen, begun, reviewed, late>>
  BY DEF CloseForm, OpenForm
<1>3. form' \in [Forms -> {IdleForm} \cup FormRec]
  BY DEF CloseForm, OpenForm, EventsOK, EventsTypeOK, FormRec
<1>4. \A e \in EventRows : Edits(e)' \subseteq Edits(e)
  BY <1>1 DEF Edits, UnderWay
<1>5. \A e \in EventRows : EventOK(e)'
  BY <1>2, <1>4, UntouchedEvent
<1> QED BY <1>1, <1>2, <1>3, <1>5 DEF EventsOK, EventsTypeOK, Exists

(* What an organizer's request reads, it may write; an edit that begins     *)
(* begins at an event that is not published.                                *)
LEMMA ReadEventKeeps ==
  ASSUME EventsOK, NEW t \in Forms, ReadEvent(t)
  PROVE  EventsOK'
<1>1. PICK e \in EventRows : form[t].event = e /\ form[t] \in FormRec
  BY DEF ReadEvent, EventsOK, EventsTypeOK, IdleForm, FormRec
<1>2. /\ Exists(e) /\ (form[t].op = "edit" => Editable(e))
      /\ UNCHANGED <<event, seen, reviewed, late>>
      /\ form[t].at = "approved"
  BY <1>1 DEF ReadEvent
<1>3. /\ begun' \in [EventRows -> Nat]
      /\ form' \in [Forms -> {IdleForm} \cup FormRec]
      /\ \A r \in Forms : r # t => form'[r] = form[r]
      /\ form'[t].event = e /\ form'[t].op = form[t].op
  <2>1. CASE /\ begun' = [begun EXCEPT ![e] = @ + 1]
             /\ form' = [form EXCEPT ![t].at = "read", ![t].edit = begun[e] + 1]
    <3>1. begun[e] + 1 \in Nat
      BY DEF EventsOK, EventsTypeOK
    <3>2. [form[t] EXCEPT !.at = "read", !.edit = begun[e] + 1] \in FormRec
      BY <1>1, <3>1 DEF FormRec
    <3> QED BY <1>1, <2>1, <3>1, <3>2 DEF EventsOK, EventsTypeOK, FormRec
  <2>2. CASE form' = [form EXCEPT ![t].at = "read"] /\ UNCHANGED begun
    BY <1>1, <2>2 DEF EventsOK, EventsTypeOK, FormRec
  <2> QED BY <1>1, <2>1, <2>2 DEF ReadEvent
<1>4. \A f \in EventRows : f # e \/ ~Editable(e) => Edits(f)' \subseteq Edits(f)
  BY <1>2, <1>3 DEF Edits, UnderWay
<1>5. ASSUME NEW f \in EventRows PROVE EventOK(f)'
  <2>1. CASE f # e \/ ~Editable(e)
    BY <1>2, <1>4, <2>1, UntouchedEvent
  <2>2. CASE f = e /\ Editable(e)
    BY <1>2, <2>2 DEF EventsOK, EventOK, Editable, Exists, Shows, NotSeen
  <2> QED BY <2>1, <2>2
<1>6. \A r \in Forms : form'[r].at = "read" => event'[form'[r].event].status # "NONE"
  BY <1>2, <1>3 DEF EventsOK, Exists
<1> QED BY <1>2, <1>3, <1>5, <1>6 DEF EventsOK, EventsTypeOK, Exists

(* A new event is a draft nobody has seen.                                  *)
LEMMA CreateEventKeeps ==
  ASSUME EventsOK, NEW t \in Forms, CreateEvent(t)
  PROVE  EventsOK'
<1>1. PICK e \in EventRows : form[t].event = e /\ form[t].user \in Users
  BY DEF CreateEvent, EventsOK, EventsTypeOK, IdleForm, FormRec
<1>2. /\ event' = [event EXCEPT ![e] =
           [status |-> "DRAFT", organizer |-> form[t].user, content |-> {}, types |-> 0]]
      /\ form' = [form EXCEPT ![t] = IdleForm] /\ UNCHANGED <<seen, begun, reviewed, late>>
      /\ ~Exists(e)
  BY <1>1 DEF CreateEvent
<1>3. event' \in [EventRows -> {NoEvent} \cup EventRec]
  BY <1>1, <1>2 DEF EventsOK, EventsTypeOK, Statuses, EventRec
<1>4. form' \in [Forms -> {IdleForm} \cup FormRec]
  BY <1>2 DEF EventsOK, EventsTypeOK
<1>5. \A r \in Forms : form'[r].at = "read" => r # t /\ form'[r] = form[r]
  BY <1>2 DEF IdleForm, EventsOK, EventsTypeOK
<1>6. \A f \in EventRows : Edits(f)' \subseteq Edits(f)
  BY <1>5 DEF Edits, UnderWay
<1>7. /\ \A f \in EventRows : f # e => event'[f] = event[f]
      /\ event'[e].status = "DRAFT"
  BY <1>2 DEF EventsOK, EventsTypeOK
<1>8. ASSUME NEW f \in EventRows PROVE EventOK(f)'
  <2>1. CASE f # e
    BY <1>2, <1>6, <1>7, <2>1, UntouchedEvent
  <2>2. CASE f = e
    <3>1. seen[e] = NotSeen
      BY <1>2 DEF EventsOK, EventOK
    <3> QED BY <1>2, <1>7, <2>2, <3>1 DEF EventOK, NotSeen
  <2> QED BY <2>1, <2>2
<1>9. \A r \in Forms : form[r].at = "read" => form[r].event \in EventRows
  BY DEF EventsOK, EventsTypeOK, IdleForm, FormRec
<1>10. \A r \in Forms : form'[r].at = "read" => event'[form'[r].event].status # "NONE"
  BY <1>5, <1>7, <1>9 DEF EventsOK, Exists
<1> QED BY <1>2, <1>3, <1>4, <1>8, <1>10 DEF EventsOK, EventsTypeOK, Exists

(* A write adds to the event, and an edit lands on a published one only if  *)
(* it was on its way at the publication.                                    *)
LEMMA WriteEventKeeps ==
  ASSUME EventsOK, NEW t \in Forms, WriteEvent(t)
  PROVE  EventsOK'
<1>1. PICK e \in EventRows : form[t].event = e /\ form[t].edit \in Nat
  BY DEF WriteEvent, EventsOK, EventsTypeOK, IdleForm, FormRec
<1>2. /\ event[e] \in EventRec /\ Exists(e) /\ form[t].at = "read"
      /\ form' = [form EXCEPT ![t] = IdleForm] /\ UNCHANGED <<seen, begun, reviewed, late>>
  BY <1>1 DEF WriteEvent, EventsOK, EventsTypeOK, Exists, NoEvent
<1>3. form' \in [Forms -> {IdleForm} \cup FormRec]
  BY <1>2 DEF EventsOK, EventsTypeOK
<1>4. \A r \in Forms : form'[r].at = "read" => r # t /\ form'[r] = form[r]
  BY <1>2 DEF IdleForm, EventsOK, EventsTypeOK
<1>5. \A f \in EventRows : Edits(f)' \subseteq Edits(f)
  BY <1>4 DEF Edits, UnderWay
<1>6. \/ form[t].op = "edit" /\ event' = [event EXCEPT ![e].content = @ \cup {form[t].edit}]
      \/ event' = [event EXCEPT ![e].types = @ + 1]
      \/ event' = [event EXCEPT ![e].status = "PENDING_APPROVAL"]
  BY <1>1 DEF WriteEvent
<1>7. /\ event' \in [EventRows -> {NoEvent} \cup EventRec]
      /\ \A f \in EventRows : f # e => event'[f] = event[f]
      /\ event[e].content \subseteq event'[e].content /\ event[e].types <= event'[e].types
      /\ \/ event'[e].content \subseteq event[e].content \cup Edits(e)
         \/ event'[e].status = "PENDING_APPROVAL"
      /\ event'[e].status \in {event[e].status, "PENDING_APPROVAL"}
  <2>1. CASE /\ form[t].op = "edit"
             /\ event' = [event EXCEPT ![e].content = @ \cup {form[t].edit}]
    <3>1. form[t].edit \in Edits(e)
      BY <1>1, <1>2, <2>1 DEF Edits, UnderWay
    <3> QED BY <1>1, <1>2, <2>1, <3>1 DEF EventsOK, EventsTypeOK, EventRec
  <2>2. CASE event' = [event EXCEPT ![e].types = @ + 1]
    BY <1>2, <2>2 DEF EventsOK, EventsTypeOK, EventRec
  <2>3. CASE event' = [event EXCEPT ![e].status = "PENDING_APPROVAL"]
    BY <1>2, <2>3 DEF EventsOK, EventsTypeOK, EventRec, Statuses
  <2> QED BY <1>6, <2>1, <2>2, <2>3
<1>8. ASSUME NEW f \in EventRows PROVE EventOK(f)'
  <2>1. CASE f # e
    BY <1>2, <1>5, <1>7, <2>1, UntouchedEvent
  <2>2. CASE f = e
    <3>1. EventOK(e) /\ seen[e] \in View /\ reviewed[e] \in View /\ event[e].types \in Nat
      BY <1>2 DEF EventsOK, EventsTypeOK, EventRec
    <3>2. event'[e].types \in Nat /\ Exists(e)'
      BY <1>2, <1>7 DEF EventRec, NoEvent, Exists, EventsOK, EventsTypeOK
    <3>3. \A view \in View : Shows(view, e) => Shows(view, e)'
      BY <1>7, <3>1, <3>2 DEF Shows, View
    <3> QED BY <1>2, <1>5, <1>7, <2>2, <3>1, <3>2, <3>3 DEF EventOK, NotSeen, Shows
  <2> QED BY <2>1, <2>2
<1>9. \A r \in Forms : form[r].at = "read" => form[r].event \in EventRows
  BY DEF EventsOK, EventsTypeOK, IdleForm, FormRec
<1>10. \A r \in Forms : form'[r].at = "read" => event'[form'[r].event].status # "NONE"
  BY <1>2, <1>4, <1>7, <1>9 DEF EventsOK, Exists
<1> QED BY <1>2, <1>3, <1>7, <1>8, <1>10 DEF EventsOK, EventsTypeOK, Exists

(* A look shows the event as it is; a publication counts as late what the   *)
(* operator did not see and what is on its way.                             *)
LEMMA DecideKeeps ==
  ASSUME EventsOK, NEW e \in EventRows,
         Look(e) \/ \E status \in Statuses : SetStatus(e, status)
  PROVE  EventsOK'
<1>1. \A r \in Forms : form[r].at = "read" => form[r].event \in EventRows
  BY DEF EventsOK, EventsTypeOK, IdleForm, FormRec
<1>2. event[e] \in EventRec /\ Exists(e)
  BY DEF Look, SetStatus, EventsOK, EventsTypeOK, Exists, NoEvent
<1>3. ASSUME Look(e) PROVE EventsOK'
  <2>1. /\ seen' = [seen EXCEPT ![e] =
              [content |-> event[e].content, types |-> event[e].types]]
        /\ UNCHANGED <<event, form, begun, reviewed, late>>
    BY <1>3 DEF Look
  <2>2. seen' \in [EventRows -> View]
    BY <1>2, <2>1 DEF EventsOK, EventsTypeOK, EventRec, View
  <2>3. \A f \in EventRows : Edits(f)' \subseteq Edits(f)
    BY <2>1 DEF Edits, UnderWay
  <2>4. ASSUME NEW f \in EventRows PROVE EventOK(f)'
    <3>1. CASE f # e
      BY <2>1, <2>3, <3>1, UntouchedEvent DEF EventsOK, EventsTypeOK
    <3>2. CASE f = e
      <4>1. Shows(seen[e], e)'
        BY <1>2, <2>1 DEF Shows, EventRec, EventsOK, EventsTypeOK
      <4>2. EventOK(e)
        BY DEF EventsOK
      <4> QED BY <1>2, <2>1, <2>3, <3>2, <4>1, <4>2 DEF EventOK, Exists, Shows
    <3> QED BY <3>1, <3>2
  <2> QED BY <2>1, <2>2, <2>4 DEF EventsOK, EventsTypeOK, Exists
<1>4. ASSUME NEW status \in Statuses, SetStatus(e, status) PROVE EventsOK'
  <2>1. /\ UNCHANGED <<form, seen, begun>> /\ seen[e] # NotSeen
        /\ event' = [event EXCEPT ![e].status = status]
    BY <1>4 DEF SetStatus
  <2>2. /\ event' \in [EventRows -> {NoEvent} \cup EventRec]
        /\ \A f \in EventRows : f # e => event'[f] = event[f]
        /\ event'[e].status = status /\ event'[e].content = event[e].content
        /\ event'[e].types = event[e].types
    BY <1>2, <2>1 DEF EventsOK, EventsTypeOK, EventRec
  <2>3. \A f \in EventRows : Edits(f)' = Edits(f)
    BY <2>1 DEF Edits, UnderWay
  <2>4. \A r \in Forms : form'[r].at = "read" => event'[form'[r].event].status # "NONE"
    BY <1>1, <2>1, <2>2 DEF EventsOK, Exists, Statuses
  <2>5. Shows(seen[e], e) /\ Exists(e)' /\ EventOK(e)
    BY <2>1, <2>2 DEF EventsOK, EventOK, Exists, Statuses
  <2>6. CASE status = "PUBLISHED"
    <3>1. /\ reviewed' = [reviewed EXCEPT ![e] = seen[e]]
          /\ late' = [late EXCEPT ![e] = (event[e].content \ seen[e].content) \cup Edits(e)]
      BY <1>4, <2>6 DEF SetStatus, Edits
    <3>2. Edits(e) \subseteq Nat
      BY DEF Edits, UnderWay, EventsOK, EventsTypeOK, FormRec, IdleForm
    <3>3. /\ reviewed' \in [EventRows -> View] /\ late' \in [EventRows -> SUBSET Nat]
          /\ \A f \in EventRows : f # e => reviewed'[f] = reviewed[f] /\ late'[f] = late[f]
          /\ reviewed'[e] = seen[e]
          /\ late'[e] = (event[e].content \ seen[e].content) \cup Edits(e)
      BY <1>2, <3>1, <3>2 DEF EventsOK, EventsTypeOK, EventRec
    <3>4. ASSUME NEW f \in EventRows PROVE EventOK(f)'
      <4>1. CASE f # e
        BY <2>1, <2>2, <2>3, <3>3, <4>1, UntouchedEvent
      <4>2. CASE f = e
        BY <2>1, <2>2, <2>3, <2>5, <3>3, <4>2 DEF EventOK, Shows
      <4> QED BY <4>1, <4>2
    <3> QED BY <2>1, <2>2, <2>4, <3>3, <3>4 DEF EventsOK, EventsTypeOK, Exists
  <2>7. CASE status # "PUBLISHED"
    <3>1. UNCHANGED <<reviewed, late>>
      BY <1>4, <2>7 DEF SetStatus
    <3>2. ASSUME NEW f \in EventRows PROVE EventOK(f)'
      <4>1. CASE f # e
        BY <2>1, <2>2, <2>3, <3>1, <4>1, UntouchedEvent
      <4>2. CASE f = e
        BY <2>1, <2>2, <2>5, <2>7, <4>2 DEF EventOK, Shows
      <4> QED BY <4>1, <4>2
    <3> QED BY <2>1, <2>2, <2>4, <3>1, <3>2 DEF EventsOK, EventsTypeOK, Exists
  <2> QED BY <2>6, <2>7
<1> QED BY <1>3, <1>4

(* Nothing else touches an event.                                           *)
LEMMA EventsStep == EventsOK /\ [VenueNext]_venueVars => EventsOK'
<1> SUFFICES ASSUME EventsOK, [VenueNext]_venueVars PROVE EventsOK'
  OBVIOUS
<1>1. ASSUME UNCHANGED eventsVars PROVE EventsOK'
  <2>1. \A e \in EventRows : Edits(e)' \subseteq Edits(e)
    BY <1>1 DEF eventsVars, Edits, UnderWay
  <2>2. \A e \in EventRows : EventOK(e)'
    BY <1>1, <2>1, UntouchedEvent DEF eventsVars
  <2> QED BY <1>1, <2>2 DEF eventsVars, EventsOK, EventsTypeOK, Exists
<1>2. ASSUME OrganizerNext PROVE EventsOK'
  BY <1>2, TabKeeps, ReadEventKeeps, CreateEventKeeps, WriteEventKeeps DEF OrganizerNext
<1>3. ASSUME NEW e \in EventRows, Look(e) \/ \E status \in Statuses : Publish(e, status)
      PROVE  EventsOK'
  BY <1>3, DecideKeeps DEF Publish
<1> QED
  BY <1>1, <1>2, <1>3 DEF VenueNext, venueVars, OpenPhones, Sell, Block, AtGate

-----------------------------------------------------------------------------
(* Accounts.                                                                *)

(* A record exists only after the registration, and a submission was let in *)
(* before the account was shut or verified, or an operator has overtaken it.*)
AccountOK(u) ==
  /\ DOMAIN user[u] = Fields
  /\ user[u].status = "NONE" => record[u] = "NONE" /\ call[u] = "idle"
  /\ call[u] = "registering" => record[u] = "NONE"
  /\ call[u] = "submitting" /\ u \notin overtaken =>
       user[u].status \notin Shut /\ record[u] # "VERIFIED"

AccountsOK ==
  /\ DOMAIN user = Users /\ DOMAIN record = Users /\ DOMAIN call = Users
  /\ \A u \in Users : AccountOK(u)

(* An account changes alone: the invariant of the others stays.             *)
LEMMA OthersStay ==
  ASSUME AccountsOK, NEW u \in Users, AccountOK(u)',
         DOMAIN user' = Users, DOMAIN record' = Users, DOMAIN call' = Users,
         \A v \in Users \ {u} : /\ user'[v] = user[v] /\ record'[v] = record[v]
                                /\ call'[v] = call[v] /\ (v \in overtaken => v \in overtaken')
  PROVE  AccountsOK'
<1>1. ASSUME NEW v \in Users PROVE AccountOK(v)'
  BY DEF AccountsOK, AccountOK
<1> QED BY <1>1 DEF AccountsOK

(* What a customer does keeps it.                                           *)
LEMMA CustomerKeeps ==
  ASSUME AccountsOK, NEW u \in Users,
         Register(u) \/ CreateRecord(u) \/ ReadRecord(u) \/ Submit(u) \/ DropCall(u)
  PROVE  AccountsOK'
<1>1. AccountOK(u)
  BY DEF AccountsOK
<1>2. CASE Register(u)
  <2>1. user[u].status = "NONE"
    BY <1>2 DEF Register, NoUser, Fields
  <2> QED
    BY <1>1, <1>2, <2>1, OthersStay DEF Register, AccountsOK, AccountOK, Fields
<1>3. CASE CreateRecord(u)
  BY <1>1, <1>3, OthersStay DEF CreateRecord, AccountsOK, AccountOK, Fields
<1>4. CASE ReadRecord(u)
  BY <1>1, <1>4, OthersStay DEF ReadRecord, AccountsOK, AccountOK, Admitted, Fields
<1>5. CASE Submit(u)
  BY <1>1, <1>5, OthersStay DEF Submit, AccountsOK, AccountOK, Fields
<1>6. CASE DropCall(u)
  BY <1>1, <1>6, OthersStay DEF DropCall, AccountsOK, AccountOK
<1> QED BY <1>2, <1>3, <1>4, <1>5, <1>6

(* So does what an operator does, who overtakes the submission that is open.*)
LEMMA OperatorKeeps ==
  ASSUME AccountsOK, NEW u \in Users, ByOperator(u)
  PROVE  AccountsOK'
<1>1. AccountOK(u)
  BY DEF AccountsOK
<1>2. Overtakes(u)
  BY DEF ByOperator, Review, AdminUpdate
<1>3. /\ \A v \in Users : v \in overtaken => v \in overtaken'
      /\ call[u] = "submitting" => u \in overtaken'
  BY <1>2 DEF Overtakes
<1>4. ASSUME NEW verdict \in Verdicts, Review(u, verdict) PROVE AccountsOK'
  <2>1. /\ DOMAIN user' = Users /\ \A v \in Users \ {u} : user'[v] = user[v]
        /\ DOMAIN user'[u] = Fields /\ user'[u].status = StatusOf(verdict)
    BY <1>4 DEF Review, AccountsOK, Fields
  <2>2. StatusOf(verdict) # "NONE"
    BY DEF StatusOf
  <2>3. AccountOK(u)' /\ UNCHANGED call
    BY <1>1, <1>3, <1>4, <2>1, <2>2 DEF Review, AccountsOK, AccountOK
  <2> QED BY <1>3, <1>4, <2>1, <2>3, OthersStay DEF Review, AccountsOK
<1>5. ASSUME NEW change \in Changes, AdminUpdate(u, change) PROVE AccountsOK'
  <2>1. /\ DOMAIN user' = Users /\ \A v \in Users \ {u} : user'[v] = user[v]
        /\ DOMAIN user'[u] = Fields
        /\ user'[u]["status"] = IF "status" \in DOMAIN change THEN change["status"]
                                ELSE user[u]["status"]
    BY <1>5 DEF AdminUpdate, AccountsOK, Fields
  <2>2. user[u].status = "NONE" => record[u] = "NONE" /\ call[u] = "idle"
    BY <1>1 DEF AccountOK
  <2>3. "status" \in DOMAIN change => change["status"] # "NONE"
    BY AccountsAssumption
  <2>4. AccountOK(u)' /\ UNCHANGED <<call, record>>
    BY <1>1, <1>3, <1>5, <2>1, <2>2, <2>3 DEF AdminUpdate, AccountOK
  <2> QED BY <1>3, <1>5, <2>1, <2>4, OthersStay DEF AccountsOK
<1> QED BY <1>4, <1>5 DEF ByOperator

(* An organizer's approval changes a role and nothing else of an account.   *)
LEMMA ApprovalKeeps ==
  ASSUME AccountsOK, NEW u \in Users, CommitApproval(u)
  PROVE  /\ AccountsOK' /\ UNCHANGED <<record, call, overtaken>>
         /\ \A v \in Users : user'[v].status = user[v].status
<1>1. /\ DOMAIN user' = Users /\ UNCHANGED <<record, call, overtaken>>
      /\ \A v \in Users : DOMAIN user'[v] = Fields /\ user'[v].status = user[v].status
  BY DEF CommitApproval, AccountsOK, AccountOK, Fields
<1> QED BY <1>1 DEF AccountsOK, AccountOK

(* Nothing else touches an account.                                         *)
LEMMA AccountsStep == AccountsOK /\ [VenueNext]_venueVars => AccountsOK'
<1> SUFFICES ASSUME AccountsOK, [VenueNext]_venueVars PROVE AccountsOK'
  OBVIOUS
<1>1. CASE UNCHANGED <<user, record, call, overtaken>>
  BY <1>1 DEF AccountsOK, AccountOK
<1>2. ASSUME AccountsNext PROVE AccountsOK'
  <2>1. ASSUME NEW u \in Users,
               \/ Apply(u) \/ DropApproval(u)
               \/ \E status \in Standings : BeginApproval(u, status)
        PROVE  AccountsOK'
    BY <1>1, <2>1 DEF Apply, DropApproval, BeginApproval
  <2> QED
    BY <1>2, <2>1, CustomerKeeps, OperatorKeeps, ApprovalKeeps DEF AccountsNext, ByOperator
<1> QED
  BY <1>1, <1>2 DEF VenueNext, venueVars, accountsVars, Publish, OpenPhones, Sell, Block, AtGate

(* What a step of the accounts that is no operator's may do to a decision.  *)
LEMMA StandsStep ==
  ASSUME AccountsOK, [VenueNext]_venueVars, NEW u \in Users,
         \/ user[u].status \in Shut /\ user'[u].status \notin Shut
         \/ record[u] = "VERIFIED" /\ record'[u] # "VERIFIED"
  PROVE  ByOperator(u) \/ u \in overtaken
<1>1. ~UNCHANGED <<user, record>>
  OBVIOUS
<1>2. AccountsNext
  BY <1>1 DEF VenueNext, venueVars, accountsVars, Publish, OpenPhones, Sell, Block, AtGate
<1>3. PICK v \in Users :
        \/ Register(v) \/ CreateRecord(v) \/ Submit(v) \/ CommitApproval(v) \/ ByOperator(v)
  BY <1>1, <1>2
  DEF AccountsNext, ByOperator, ReadRecord, DropCall, Apply, DropApproval, BeginApproval
<1>4. AccountOK(u) /\ AccountOK(v)
  BY DEF AccountsOK
<1>5. CASE Register(v)
  <2>1. user[v].status = "NONE" /\ UNCHANGED record
        /\ \A w \in Users \ {v} : user'[w] = user[w]
    BY <1>5 DEF Register, NoUser, Fields, AccountsOK
  <2> QED BY <2>1 DEF Shut
<1>6. CASE CreateRecord(v)
  BY <1>4, <1>6 DEF CreateRecord, AccountsOK, AccountOK
<1>7. CASE Submit(v)
  <2>1. \A w \in Users \ {v} : user'[w] = user[w] /\ record'[w] = record[w]
    BY <1>7 DEF Submit, AccountsOK
  <2> QED BY <1>4, <1>7, <2>1 DEF Submit, AccountOK
<1>8. CASE CommitApproval(v)
  BY <1>8, ApprovalKeeps
<1>9. CASE ByOperator(v)
  <2>1. \A w \in Users \ {v} : user'[w] = user[w] /\ record'[w] = record[w]
    BY <1>9 DEF ByOperator, Review, AdminUpdate, AccountsOK
  <2> QED BY <1>9, <2>1
<1> QED BY <1>3, <1>5, <1>6, <1>7, <1>8, <1>9

-----------------------------------------------------------------------------

(* The three invariants hold at the start.                                  *)
LEMMA InitOK == VenueInit => GateOK /\ EventsOK /\ AccountsOK
<1> SUFFICES ASSUME VenueInit PROVE GateOK /\ EventsOK /\ AccountsOK
  OBVIOUS
<1>1. GateOK
  BY DEF VenueInit, GateInit, GateOK, GateTypeOK, TicketOK, Winner, ScanState, IdleScan
<1>2. EventsOK
  <2>1. NotSeen \in View
    BY EventsAssumption DEF NotSeen, View
  <2>2. EventsTypeOK
    BY <2>1 DEF VenueInit, EventsInit, EventsTypeOK
  <2> QED
    BY <2>2 DEF VenueInit, EventsInit, EventsOK, EventOK, NoEvent, IdleForm
<1>3. AccountsOK
  BY DEF VenueInit, AccountsInit, AccountsOK, AccountOK, NoUser, Fields
<1> QED BY <1>1, <1>2, <1>3

(* AdmittedOnce: however many scans of a ticket are open, one admits.       *)
THEOREM OneEntryPerTicket == VenueSpec => []AdmittedOnce
<1>1. GateOK => AdmittedOnce
  <2> SUFFICES ASSUME GateOK, NEW t \in Tickets
               PROVE  /\ admitted[t] <= 1 /\ entries[t] <= 1
                      /\ admitted[t] + entries[t] > 0 => ticket[t] = "USED"
    BY DEF AdmittedOnce
  <2> QED BY DEF GateOK, TicketOK
<1> QED BY <1>1, InitOK, GateStep, PTL DEF VenueSpec

(* PublishedAsReviewed: what is published is what the operator saw, and the *)
(* edits that were written or under way when it was published.              *)
THEOREM PublishedIsReviewed == VenueSpec => []PublishedAsReviewed
<1>1. EventsOK => PublishedAsReviewed
  BY DEF EventsOK, EventOK, Shows, PublishedAsReviewed
<1> QED BY <1>1, InitOK, EventsStep, PTL DEF VenueSpec

(* DecisionStands: only operators undo what operators decided, but for the  *)
(* submissions they overtook.                                               *)
THEOREM DecisionsStand == VenueSpec => DecisionStands
<1>1. AccountsOK /\ [VenueNext]_venueVars =>
        [\A u \in Users :
           \/ user[u].status \in Shut /\ user'[u].status \notin Shut
           \/ record[u] = "VERIFIED" /\ record'[u] # "VERIFIED"
           => ByOperator(u) \/ u \in overtaken]_venueVars
  BY StandsStep
<1> QED BY <1>1, InitOK, AccountsStep, PTL DEF VenueSpec, DecisionStands
=============================================================================
