------------------------------ MODULE Sessions ------------------------------
(***************************************************************************)
(* Refresh-token rotation (backend/internal/auth/service.go, repository.go,*)
(* jwt.go, cleanup.go): the refresh_tokens table, the concurrent redeemers *)
(* of a token, logout, and the hourly clean-up of expired rows.            *)
(*                                                                         *)
(* A session is one login (or signup) and the chain of tokens rotated from *)
(* it.  session and parent record where a minted token came from and       *)
(* loggedOut the logouts that were answered with success; the code keeps   *)
(* none of them, they are what the properties speak of.  A token stands    *)
(* for its hash: the random jti makes every minted token a new one.        *)
(***************************************************************************)
CONSTANTS Requests, Tokens, SessionIds, NoToken, NoSession

ASSUME NoTokenAssumption == NoToken \notin Tokens
ASSUME NoSessionAssumption == NoSession \notin SessionIds

VARIABLES
  stored,           \* rows of refresh_tokens
  expired,          \* tokens past their seven days
  session, parent,  \* of every minted token: its login, the token it replaced
  loggedOut,        \* sessions whose logout succeeded
  pc, tok           \* per request: step, token presented

vars == <<stored, expired, session, parent, loggedOut, pc, tok>>

Minted == {t \in Tokens : session[t] # NoSession}

TypeOK ==
  /\ stored \subseteq Minted
  /\ expired \subseteq Minted
  /\ session \in [Tokens -> SessionIds \cup {NoSession}]
  /\ parent \in [Tokens -> Tokens \cup {NoToken}]
  /\ loggedOut \subseteq SessionIds
  /\ pc \in [Requests -> {"idle", "find", "revokeExpired", "rotate", "issue", "logout"}]
  /\ tok \in [Requests -> Tokens \cup {NoToken}]
  /\ \A r \in Requests : pc[r] # "idle" => tok[r] \in Minted

Enter(r, step, t) == /\ pc'  = [pc  EXCEPT ![r] = step]
                     /\ tok' = [tok EXCEPT ![r] = t]

Done(r) == Enter(r, "idle", NoToken)

-----------------------------------------------------------------------------
(* issueTokens, at the end of a login and of a rotation.                   *)

\* StoreRefreshToken of a token minted for session s in place of token p.
IssueTokens(t, s, p) ==
  /\ t \notin Minted
  /\ stored'  = stored \cup {t}
  /\ session' = [session EXCEPT ![t] = s]
  /\ parent'  = [parent EXCEPT ![t] = p]

\* Signup or Authenticate.
Login(t, s) ==
  /\ \A u \in Minted : session[u] # s
  /\ IssueTokens(t, s, NoToken)
  /\ UNCHANGED <<expired, loggedOut, pc, tok>>

-----------------------------------------------------------------------------
(* RefreshToken.                                                           *)

\* Faulty variant: the signature is not verified.
RefreshUnverified(r, t) ==
  /\ pc[r] = "idle"
  /\ t \in Tokens \ expired
  /\ Enter(r, "find", t)
  /\ UNCHANGED <<stored, expired, session, parent, loggedOut>>

\* VerifyRefreshToken accepts any unexpired token the server ever signed.
RefreshToken(r, t) ==
  /\ pc[r] = "idle"
  /\ t \in Minted \ expired
  /\ Enter(r, "find", t)
  /\ UNCHANGED <<stored, expired, session, parent, loggedOut>>

FindRefreshToken(r) ==
  /\ pc[r] = "find"
  /\ IF tok[r] \notin stored
       THEN Done(r)
       ELSE Enter(r, IF tok[r] \in expired THEN "revokeExpired" ELSE "rotate", tok[r])
  /\ UNCHANGED <<stored, expired, session, parent, loggedOut>>

RevokeExpired(r) ==
  /\ pc[r] = "revokeExpired"
  /\ stored' = stored \ {tok[r]}
  /\ Done(r)
  /\ UNCHANGED <<expired, session, parent, loggedOut>>

\* Faulty variant: the DELETE's row count is not looked at.
RevokeUncounted(r) ==
  /\ pc[r] = "rotate"
  /\ stored' = stored \ {tok[r]}
  /\ Enter(r, "issue", tok[r])
  /\ UNCHANGED <<expired, session, parent, loggedOut>>

\* Faulty variant: the successor is issued before the old row is deleted.
IssueBeforeRevoke(r) ==
  /\ pc[r] = "rotate"
  /\ tok[r] \in stored
  /\ Enter(r, "issue", tok[r])
  /\ UNCHANGED <<stored, expired, session, parent, loggedOut>>

\* RevokeRefreshToken: of several redeemers the DELETE finds the row for one.
RevokeForRotation(r) ==
  /\ pc[r] = "rotate"
  /\ stored' = stored \ {tok[r]}
  /\ IF tok[r] \in stored THEN Enter(r, "issue", tok[r]) ELSE Done(r)
  /\ UNCHANGED <<expired, session, parent, loggedOut>>

IssueSuccessor(r, t) ==
  /\ pc[r] = "issue"
  /\ IssueTokens(t, session[tok[r]], tok[r])
  /\ Done(r)
  /\ UNCHANGED <<expired, loggedOut>>

-----------------------------------------------------------------------------
(* Logout.                                                                 *)

Logout(r, t) ==
  /\ pc[r] = "idle"
  /\ t \in stored \ expired
  /\ Enter(r, "logout", t)
  /\ UNCHANGED <<stored, expired, session, parent, loggedOut>>

\* Faulty variant: a row that is gone already counts as revoked.
LogoutAlways(r) ==
  /\ pc[r] = "logout"
  /\ stored' = stored \ {tok[r]}
  /\ loggedOut' = loggedOut \cup {session[tok[r]]}
  /\ Done(r)
  /\ UNCHANGED <<expired, session, parent>>

\* Success is answered only if this DELETE removed the row.
LogoutRevoke(r) ==
  /\ pc[r] = "logout"
  /\ stored' = stored \ {tok[r]}
  /\ loggedOut' = loggedOut \cup (IF tok[r] \in stored THEN {session[tok[r]]} ELSE {})
  /\ Done(r)
  /\ UNCHANGED <<expired, session, parent>>

-----------------------------------------------------------------------------
\* RunRefreshTokenCleanup: DELETE ... WHERE expires_at < now.
Cleanup ==
  /\ stored \cap expired # {}
  /\ stored' = stored \ expired
  /\ UNCHANGED <<expired, session, parent, loggedOut, pc, tok>>

\* Time passes.
Expire(t) ==
  /\ t \in Minted \ expired
  /\ expired' = expired \cup {t}
  /\ UNCHANGED <<stored, session, parent, loggedOut, pc, tok>>

\* A request ends early: context cancelled, database error, crash.
Abandon(r) ==
  /\ pc[r] # "idle"
  /\ Done(r)
  /\ UNCHANGED <<stored, expired, session, parent, loggedOut>>

Init ==
  /\ stored = {}
  /\ expired = {}
  /\ session = [t \in Tokens |-> NoSession]
  /\ parent = [t \in Tokens |-> NoToken]
  /\ loggedOut = {}
  /\ pc = [r \in Requests |-> "idle"]
  /\ tok = [r \in Requests |-> NoToken]

RequestStep(r) ==
  \/ \E t \in Tokens : RefreshToken(r, t) \/ IssueSuccessor(r, t) \/ Logout(r, t)
  \/ FindRefreshToken(r) \/ RevokeExpired(r) \/ RevokeForRotation(r)
  \/ LogoutRevoke(r) \/ Abandon(r)

Next ==
  \/ \E r \in Requests : RequestStep(r)
  \/ \E t \in Tokens, s \in SessionIds : Login(t, s)
  \/ \E t \in Tokens : Expire(t)
  \/ Cleanup

Spec == Init /\ [][Next]_vars

-----------------------------------------------------------------------------
(* Safety.                                                                 *)

\* A refresh token is redeemed at most once, however many requests present it
\* at the same time (RefreshToken: rotation).
SingleUse ==
  \A t, u \in Minted : parent[t] = parent[u] /\ parent[t] # NoToken => t = u

\* After a logout that was answered with success nothing of its session can be
\* redeemed again, not even what a refresh racing the logout was about to issue.
LogoutIsFinal ==
  /\ \A t \in stored : session[t] \notin loggedOut
  /\ \A r \in Requests : pc[r] = "issue" => session[tok[r]] \notin loggedOut

(* What rotation promises. *)

Chain == INSTANCE SessionChain
           WITH begun   <- {s \in SessionIds : \E t \in Minted : session[t] = s},
                live    <- [s \in SessionIds |-> {t \in stored : session[t] = s}],
                pending <- {s \in SessionIds :
                              \E r \in Requests : pc[r] = "issue" /\ session[tok[r]] = s},
                issued  <- Minted

\* Every step of every refresh, login, logout and clean-up is a step of one chain
\* of tokens per session, or none: no session has two tokens, and one whose
\* token is gone without a successor on its way (logged out, expired, or cut off
\* between RevokeRefreshToken and StoreRefreshToken) never gets a token again.
OneChainPerSession == Chain!ChainSpec
=============================================================================
