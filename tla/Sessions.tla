------------------------------ MODULE Sessions ------------------------------
(***************************************************************************)
(* Sign-in, sessions and refresh tokens of one customer                    *)
(* (apps/api/src/modules/auth/auth.service.ts, common/rbac/jwt.strategy),  *)
(* with the browser tabs that use them (apps/web/src/lib/api-client.ts,    *)
(* lib/auth.tsx).  The tabs share one token store, localStorage.           *)
(*                                                                         *)
(* No handler runs in a transaction but logoutAll: each read and each write*)
(* is a step, and the server may stop, or an answer be lost, in between.   *)
(* Times (the code's 5 minutes, the tokens' lifetimes) are choices.        *)
(***************************************************************************)
EXTENDS Integers, FiniteSets

CONSTANTS
  Tabs,             \* browser tabs of the customer
  Codes,            \* OtpRequest rows, in order of creation
  MaxSessions,      \* bound: Session rows
  MaxTokens,        \* bound: RefreshToken rows
  MaxAttempts,      \* OtpRequest.maxAttempts
  MaxLosses         \* bound: lost answers, closed pages, restarts and lost
                    \* logouts

None == 0
SessionIds == 1 .. MaxSessions
TokenIds == 1 .. MaxTokens

ASSUME SessionsAssumption ==
  /\ Codes \subseteq Nat \ {0} /\ MaxAttempts \in Nat /\ MaxLosses \in Nat
  /\ MaxSessions \in Nat /\ MaxTokens \in Nat

VARIABLES
  otp,              \* OtpRequest rows
  session,          \* Session rows
  token,            \* RefreshToken rows
  store,            \* the refresh token in localStorage; its access token is
                    \* of the same session
  tab,              \* where each tab's request is
  away,             \* tabs that do not wait for it any more: the page is
                    \* closed, or its connection is lost
  logouts,          \* logout calls the server has not finished, by token
  dropping,         \* sessions revokeSession revoked whose tokens are next
  losses,           \* bound
  opened,           \* history: sessions each code opened
  overlapped,       \* history: codes two verifications read as active, or
                    \* that were active again after their use
  raced,            \* history: sessions a token of which was rotated twice
  orphaned,         \* history: tokens rotated whose answer never arrived
  left              \* history: tokens whose page was closed during their
                    \* refresh

server == <<otp, session, token>>
history == <<opened, overlapped, raced, orphaned, left>>
vars == <<server, store, tab, away, logouts, dropping, losses, history>>

OtpStatus == {"NONE", "CREATED", "SENT", "FAILED", "VERIFIED", "EXPIRED"}
Idle == [at |-> "idle"]
TabState ==
  {Idle}
    \cup [at : {"verify"}, code : Codes, seen : OtpStatus, right : BOOLEAN]
    \cup [at : {"login"}]
    \cup [at : {"refresh", "issue"}, old : TokenIds]
    \cup [at : {"revoke"}, old : TokenIds, new : TokenIds]
    \cup [at : {"answer"}, old : TokenIds \cup {None}, new : TokenIds]
    \cup [at : {"retry"}]

Go(t, state) == tab' = [tab EXCEPT ![t] = state]

(* The request is over; the customer may open the page again.               *)
Finish(t) == Go(t, Idle) /\ away' = away \ {t}

Refreshing(t) ==
  \/ tab[t].at \in {"refresh", "issue", "revoke"}
  \/ tab[t].at = "answer" /\ tab[t].old # None

(* A request that dies with the server, or whose page does not get the      *)
(* answer.                                                                  *)
Loss == losses < MaxLosses /\ losses' = losses + 1

-----------------------------------------------------------------------------
(* One-time codes.                                                          *)

Active(c) == otp[c].status \in {"CREATED", "SENT"}

(* requestOtp: the hourly limit is the number of Codes.                     *)
RequestOtp(c) ==
  /\ otp[c].status = "NONE"
  /\ \A b \in Codes : b < c => otp[b].status # "NONE"
  /\ otp' = [otp EXCEPT ![c].status = "CREATED"]
  /\ UNCHANGED <<session, token, store, tab, away, logouts, dropping, losses, history>>

(* The outcome of the SMS is written after it was sent, over whatever the   *)
(* row holds by then: a code used in between is active again.               *)
SendOtp(c) ==
  /\ otp[c].status # "NONE" /\ ~otp[c].sent
  /\ \E status \in {"SENT", "FAILED"} :
       /\ otp' = [otp EXCEPT ![c].status = status, ![c].sent = TRUE]
       /\ overlapped' = IF status = "SENT" /\ otp[c].status = "VERIFIED"
                        THEN overlapped \cup {c} ELSE overlapped
  /\ UNCHANGED <<session, token, store, tab, away, logouts, dropping, losses, opened, raced, orphaned, left>>

(* verifyOtp reads the newest active code and compares what was typed.      *)
ReadOtp(t) ==
  /\ tab[t] = Idle /\ store = None
  /\ \E c \in Codes, right \in BOOLEAN :
       /\ Active(c) /\ \A b \in Codes : b > c => ~Active(b)
       /\ otp[c].attempts < MaxAttempts
       /\ Go(t, [at |-> "verify", code |-> c, seen |-> otp[c].status, right |-> right])
       /\ overlapped' =
            IF \E u \in Tabs : tab[u].at = "verify" /\ tab[u].code = c
            THEN overlapped \cup {c} ELSE overlapped
  /\ UNCHANGED <<server, store, away, logouts, dropping, losses, opened, raced, orphaned, left>>

(* A code that is too old, or was tried too often, is closed.               *)
CloseOtp(c) ==
  /\ Active(c)
  /\ \/ otp' = [otp EXCEPT ![c].status = "EXPIRED"]
     \/ /\ otp[c].attempts >= MaxAttempts
        /\ otp' = [otp EXCEPT ![c].status = "FAILED"]
  /\ UNCHANGED <<session, token, store, tab, away, logouts, dropping, losses, history>>

(* Mutant: a right code is not closed.                                      *)
WriteOtpOpen(t) ==
  /\ tab[t].at = "verify"
  /\ LET c == tab[t].code
     IN  IF tab[t].right
         THEN /\ opened' = [opened EXCEPT ![c] = @ + 1]
              /\ Go(t, [at |-> "login"])
              /\ UNCHANGED <<otp, away>>
         ELSE /\ otp' = [otp EXCEPT ![c].attempts = @ + 1]
              /\ Finish(t)
              /\ UNCHANGED opened
  /\ UNCHANGED <<session, token, store, logouts, dropping, losses, overlapped, raced, orphaned, left>>

(* The write is not conditional on what was read.                           *)
WriteOtp(t) ==
  /\ tab[t].at = "verify"
  /\ LET c == tab[t].code
     IN  IF tab[t].right
         THEN /\ otp' = [otp EXCEPT ![c].status = "VERIFIED"]
              /\ opened' = [opened EXCEPT ![c] = @ + 1]
              /\ Go(t, [at |-> "login"])
              /\ UNCHANGED away
         ELSE /\ otp' = [otp EXCEPT ![c].attempts = @ + 1]
              /\ Finish(t)
              /\ UNCHANGED opened
  /\ UNCHANGED <<session, token, store, logouts, dropping, losses, overlapped, raced, orphaned, left>>

-----------------------------------------------------------------------------
(* Sessions and tokens.                                                     *)

Unused(k) == token[k].status = "none" /\ \A l \in TokenIds : l < k => token[l].status # "none"
NewSession(s) == session[s] = "none" /\ \A r \in SessionIds : r < s => session[r] # "none"

(* loginPassword checks the password and goes on like a right code.         *)
LoginPassword(t) ==
  /\ tab[t] = Idle /\ store = None
  /\ Go(t, [at |-> "login"])
  /\ UNCHANGED <<server, store, away, logouts, dropping, losses, history>>

(* createSession and issueTokens.                                           *)
OpenSession(t) ==
  /\ tab[t].at = "login"
  /\ \E s \in SessionIds, k \in TokenIds :
       /\ NewSession(s) /\ Unused(k)
       /\ session' = [session EXCEPT ![s] = "live"]
       /\ token' = [token EXCEPT ![k] = [status |-> "live", session |-> s]]
       /\ Go(t, [at |-> "answer", old |-> None, new |-> k])
  /\ UNCHANGED <<otp, store, away, logouts, dropping, losses, history>>

SessionOf(k) == token[k].session
Usable(k) == token[k].status = "live" /\ session[SessionOf(k)] = "live"

(* refresh: the record and its session are read ...                         *)
ReadToken(t) ==
  /\ tab[t].at = "refresh"
  /\ LET k == tab[t].old
     IN  \/ /\ Usable(k)
            /\ Go(t, [at |-> "issue", old |-> k])
            /\ raced' = IF \E u \in Tabs : tab[u].at \in {"issue", "revoke"} /\ tab[u].old = k
                        THEN raced \cup {SessionOf(k)} ELSE raced
            /\ UNCHANGED <<store, away>>
         \/ \* refused, or the record has expired: a tab that waits clears the store
            /\ Finish(t) /\ store' = IF t \in away THEN store ELSE None
            /\ UNCHANGED raced
  /\ UNCHANGED <<server, logouts, dropping, losses, opened, overlapped, orphaned, left>>

(* ... then a token is issued for the same session ...                      *)
IssueToken(t) ==
  /\ tab[t].at = "issue"
  /\ \E k \in TokenIds :
       /\ Unused(k)
       /\ token' = [token EXCEPT ![k] = [status |-> "live", session |-> SessionOf(tab[t].old)]]
       /\ Go(t, [at |-> "revoke", old |-> tab[t].old, new |-> k])
  /\ UNCHANGED <<otp, session, store, away, logouts, dropping, losses, history>>

(* Mutant: the old token is only marked as replaced.                        *)
RevokeNothing(t) ==
  /\ tab[t].at = "revoke"
  /\ Go(t, [at |-> "answer", old |-> tab[t].old, new |-> tab[t].new])
  /\ UNCHANGED <<otp, session, token, store, away, logouts, dropping, losses, history>>

(* Mutant: the row looked up for replacedById is the one that is revoked.   *)
RevokeReplacement(t) ==
  /\ tab[t].at = "revoke"
  /\ token' = [token EXCEPT ![tab[t].new].status = "revoked"]
  /\ Go(t, [at |-> "answer", old |-> tab[t].old, new |-> tab[t].new])
  /\ UNCHANGED <<otp, session, store, away, logouts, dropping, losses, history>>

(* ... and the old one is revoked, whatever it has become.                  *)
RevokeOld(t) ==
  /\ tab[t].at = "revoke"
  /\ token' = [token EXCEPT ![tab[t].old].status = "revoked"]
  /\ Go(t, [at |-> "answer", old |-> tab[t].old, new |-> tab[t].new])
  /\ UNCHANGED <<otp, session, store, away, logouts, dropping, losses, history>>

LogoutAll ==
  /\ session' = [s \in SessionIds |-> IF session[s] = "live" THEN "revoked" ELSE session[s]]
  /\ token' = [k \in TokenIds |->
                 IF token[k].status = "live" THEN [token[k] EXCEPT !.status = "revoked"]
                 ELSE token[k]]
  /\ UNCHANGED <<otp, store, tab, away, logouts, dropping, losses, history>>

(* revokeSession, from the list of sessions of another device.              *)
RevokeSession(s) ==
  /\ session[s] = "live"
  /\ session' = [session EXCEPT ![s] = "revoked"]
  /\ dropping' = dropping \cup {s}
  /\ UNCHANGED <<otp, token, store, tab, away, logouts, losses, history>>

DropTokens(s) ==
  /\ s \in dropping
  /\ token' = [k \in TokenIds |->
                 IF token[k].status = "live" /\ SessionOf(k) = s
                 THEN [token[k] EXCEPT !.status = "revoked"] ELSE token[k]]
  /\ dropping' = dropping \ {s}
  /\ UNCHANGED <<otp, session, store, tab, away, logouts, losses, history>>

(* logout revokes the token it was given, then the session.                 *)
LogoutToken(k) ==
  /\ logouts[k] = "sent"
  /\ token' = [token EXCEPT ![k].status = "revoked"]
  /\ logouts' = [logouts EXCEPT ![k] = "half"]
  /\ UNCHANGED <<otp, session, store, tab, away, dropping, losses, history>>

LogoutSession(k) ==
  /\ logouts[k] = "half"
  /\ session' = [session EXCEPT ![SessionOf(k)] = "revoked"]
  /\ logouts' = [logouts EXCEPT ![k] = "none"]
  /\ UNCHANGED <<otp, token, store, tab, away, dropping, losses, history>>

-----------------------------------------------------------------------------
(* The tabs.                                                                *)

(* A request that JwtStrategy.validate answers 401, as its access token has *)
(* expired or its session is revoked: the tab asks for a new pair with the  *)
(* refresh token stored by then.  Any other request changes nothing.        *)
Call(t) ==
  /\ tab[t] = Idle /\ store # None
  /\ Go(t, [at |-> "refresh", old |-> store])
  /\ UNCHANGED <<server, store, away, logouts, dropping, losses, history>>

(* tokenStore.set; after a refresh the request is sent again.               *)
StoreTokens(t) ==
  /\ tab[t].at = "answer" /\ t \notin away
  /\ store' = tab[t].new
  /\ Go(t, IF tab[t].old = None THEN Idle ELSE [at |-> "retry"])
  /\ UNCHANGED <<server, away, logouts, dropping, losses, history>>

(* A second attempt that fails for any reason clears the store.             *)
Retry(t) ==
  /\ tab[t].at = "retry"
  /\ Go(t, Idle)
  /\ store' \in {store, None}
  /\ UNCHANGED <<server, away, logouts, dropping, losses, history>>

(* AuthProvider asks for the profile when a page loads, and clears the      *)
(* store on any failure: a server that is away for a moment is enough.      *)
LoadProfile(t) ==
  /\ tab[t] = Idle /\ store # None
  /\ Loss
  /\ store' = None
  /\ UNCHANGED <<server, tab, away, logouts, dropping, history>>

(* logout of the page: the call is not waited for.                          *)
Logout(t) ==
  /\ tab[t] = Idle /\ store # None
  /\ logouts' = [logouts EXCEPT ![store] = "sent"]
  /\ store' = None
  /\ UNCHANGED <<server, tab, away, dropping, losses, history>>

(* A page is closed, or killed, while its request is out: the catch that    *)
(* clears the store never runs, and the server goes on.                     *)
ClosePage(t) ==
  /\ tab[t].at \notin {"idle", "retry"} /\ t \notin away
  /\ Loss
  /\ away' = away \cup {t}
  /\ left' = IF Refreshing(t) THEN left \cup {tab[t].old} ELSE left
  /\ UNCHANGED <<server, store, tab, logouts, dropping, opened, overlapped, raced, orphaned>>

(* A page loses its connection: a refresh fails, and the tab clears the     *)
(* store; the server goes on.                                               *)
LoseConnection(t) ==
  /\ tab[t].at \notin {"idle", "retry"} /\ t \notin away
  /\ Loss
  /\ away' = away \cup {t}
  /\ store' = IF Refreshing(t) THEN None ELSE store
  /\ UNCHANGED <<server, tab, logouts, dropping, history>>

(* An answer nobody waits for.                                              *)
DropAnswer(t) ==
  /\ tab[t].at = "answer" /\ t \in away
  /\ Finish(t)
  /\ orphaned' = orphaned \cup {tab[t].new}
  /\ UNCHANGED <<server, store, logouts, dropping, losses, opened, overlapped, raced, left>>

(* The server stops at an await: the page that waits learns it as above.    *)
Stop(t) ==
  /\ tab[t].at \in {"verify", "login", "issue", "revoke"}
  /\ Loss
  /\ store' = IF Refreshing(t) /\ t \notin away THEN None ELSE store
  /\ orphaned' = IF tab[t].at = "revoke"
                 THEN orphaned \cup {tab[t].new} ELSE orphaned
  /\ Finish(t)
  /\ UNCHANGED <<server, logouts, dropping, opened, overlapped, raced, left>>

LoseLogout(k) ==
  /\ logouts[k] # "none" /\ Loss
  /\ logouts' = [logouts EXCEPT ![k] = "none"]
  /\ UNCHANGED <<server, store, tab, away, dropping, history>>

-----------------------------------------------------------------------------
Init ==
  /\ otp = [c \in Codes |-> [status |-> "NONE", attempts |-> 0, sent |-> FALSE]]
  /\ session = [s \in SessionIds |-> "none"]
  /\ token = [k \in TokenIds |-> [status |-> "none", session |-> None]]
  /\ store = None
  /\ tab = [t \in Tabs |-> Idle] /\ away = {}
  /\ logouts = [k \in TokenIds |-> "none"]
  /\ dropping = {} /\ losses = 0
  /\ opened = [c \in Codes |-> 0]
  /\ overlapped = {} /\ raced = {} /\ orphaned = {} /\ left = {}

TabStep(t) ==
  \/ ReadOtp(t) \/ WriteOtp(t) \/ LoginPassword(t) \/ OpenSession(t)
  \/ Call(t) \/ ReadToken(t) \/ IssueToken(t) \/ RevokeOld(t)
  \/ StoreTokens(t) \/ Retry(t) \/ LoadProfile(t) \/ Logout(t)
  \/ ClosePage(t) \/ LoseConnection(t) \/ DropAnswer(t) \/ Stop(t)

Next ==
  \/ \E t \in Tabs : TabStep(t)
  \/ \E c \in Codes : RequestOtp(c) \/ SendOtp(c) \/ CloseOtp(c)
  \/ \E s \in SessionIds : RevokeSession(s) \/ DropTokens(s)
  \/ \E k \in TokenIds : LogoutToken(k) \/ LogoutSession(k) \/ LoseLogout(k)
  \/ LogoutAll

Spec == Init /\ [][Next]_vars
=============================================================================
