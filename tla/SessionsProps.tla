--------------------------- MODULE SessionsProps ----------------------------
(***************************************************************************)
(* What must hold of Sessions.                                             *)
(***************************************************************************)
EXTENDS Sessions

TypeOK ==
  /\ otp \in [Codes -> [status : OtpStatus, attempts : Nat, sent : BOOLEAN]]
  /\ session \in [SessionIds -> {"none", "live", "revoked"}]
  /\ token \in [TokenIds -> [status : {"none", "live", "revoked"}, session : SessionIds \cup {None}]]
  /\ store \in TokenIds \cup {None}
  /\ tab \in [Tabs -> TabState] /\ away \subseteq Tabs
  /\ logouts \in [TokenIds -> {"none", "sent", "half"}]

(* A customer whose session is live is not locked out of it by the rotation *)
(* of its token: whatever tabs refresh at once, whatever answers are lost   *)
(* and wherever the server stops, the token in the browser is one the       *)
(* server still takes, unless a tab is just being given its replacement.    *)
(* One case is left, and it is one the code has: the page of that very      *)
(* token's refresh was closed before the answer, so that nothing cleared    *)
(* the store.                                                               *)
StoreIsUsable ==
  store # None /\ session[SessionOf(store)] = "live" =>
    \/ token[store].status = "live"
    \/ \E t \in Tabs \ away : tab[t].at = "answer" /\ tab[t].old = store
    \/ store \in left

(* A live token that reached the browser: not one that is still to replace  *)
(* another, nor one whose answer was lost.                                  *)
InHand(k) ==
  /\ token[k].status = "live" /\ k \notin orphaned
  /\ \A t \in Tabs : tab[t].at = "revoke" => tab[t].new # k

(* A rotation replaces a token, it does not add one: of the tokens of a     *)
(* session that reached the browser at most one is live, as long as no two  *)
(* requests rotated the same token at once.                                 *)
OneLiveToken ==
  \A k, l \in TokenIds :
    InHand(k) /\ InHand(l) /\ SessionOf(k) = SessionOf(l) /\ SessionOf(k) \notin raced => k = l

(* A code opens one session, unless two verifications of it overlap or its  *)
(* use overtakes the record that it was sent.                               *)
CodeOpensOnce == \A c \in Codes \ overlapped : opened[c] <= 1
=============================================================================
