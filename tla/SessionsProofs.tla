--------------------------- MODULE SessionsProofs ---------------------------
(***************************************************************************)
(* Theorems about Sessions, for any number of requests, tokens and logins. *)
(***************************************************************************)
EXTENDS Sessions, TLAPS

-----------------------------------------------------------------------------
(* The inductive invariant, in parts.                                      *)

\* What was recorded refers to minted tokens.
History ==
  /\ \A t \in Minted : parent[t] # NoToken => parent[t] \in Minted
  /\ \A s \in loggedOut : \E t \in Minted : session[t] = s

\* t can still have a successor: it is stored, or revoked by the one request
\* that is about to issue its successor.
Childless(t) == \A u \in Minted : parent[u] # t

\* A redeemable token has no successor and its session is not logged out.
StoredOK ==
  \A t \in stored : Childless(t) /\ session[t] \notin loggedOut

\* A request about to issue is the only heir of its session.
IssuingOK ==
  \A r \in Requests : pc[r] = "issue" =>
    /\ Childless(tok[r])
    /\ session[tok[r]] \notin loggedOut
    /\ \A t \in stored : session[t] # session[tok[r]]
    /\ \A q \in Requests \ {r} : pc[q] = "issue" => session[tok[q]] # session[tok[r]]

\* A session never has two redeemable tokens.
OneTokenPerSession ==
  \A t, u \in stored : session[t] = session[u] => t = u

IInv == TypeOK /\ History /\ StoredOK /\ IssuingOK /\ SingleUse /\ OneTokenPerSession

\* Minting: t gets its session and parent, everything else keeps its own.
LEMMA MintEffect ==
  ASSUME TypeOK, NEW t \in Tokens, NEW s \in SessionIds, NEW p \in Tokens \cup {NoToken},
         IssueTokens(t, s, p)
  PROVE  /\ t \notin Minted
         /\ Minted' = Minted \cup {t}
         /\ session'[t] = s /\ parent'[t] = p
         /\ \A u \in Tokens \ {t} : session'[u] = session[u] /\ parent'[u] = parent[u]
         /\ session' \in [Tokens -> SessionIds \cup {NoSession}]
         /\ parent' \in [Tokens -> Tokens \cup {NoToken}]
         /\ stored' = stored \cup {t}
BY NoSessionAssumption DEF IssueTokens, TypeOK, Minted

\* Entering a step writes the caller's own local state and nobody else's.
LEMMA EnterEffect ==
  ASSUME TypeOK, NEW r \in Requests, NEW t \in Tokens \cup {NoToken},
         NEW step \in {"idle", "find", "revokeExpired", "rotate", "issue", "logout"},
         Enter(r, step, t)
  PROVE  /\ pc' \in [Requests ->
                       {"idle", "find", "revokeExpired", "rotate", "issue", "logout"}]
         /\ tok' \in [Requests -> Tokens \cup {NoToken}]
         /\ pc'[r] = step /\ tok'[r] = t
         /\ \A q \in Requests \ {r} : pc'[q] = pc[q] /\ tok'[q] = tok[q]
BY DEF Enter, TypeOK

\* A step that mints nothing, stores nothing, logs nobody out and moves no
\* request to "issue" keeps the invariant.
LEMMA QuietStep ==
  ASSUME IInv, UNCHANGED <<session, parent, loggedOut>>,
         stored' \subseteq stored, expired' \subseteq Minted,
         TypeOK',
         \A q \in Requests : pc'[q] = "issue" => pc[q] = "issue" /\ tok'[q] = tok[q]
  PROVE  IInv'
<1>1. Minted' = Minted
  BY DEF Minted
<1>2. History'
  BY <1>1 DEF IInv, History
<1>3. StoredOK'
  BY <1>1 DEF IInv, StoredOK, Childless
<1>4. IssuingOK'
  BY <1>1 DEF IInv, IssuingOK, Childless
<1>5. SingleUse' /\ OneTokenPerSession'
  BY <1>1 DEF IInv, SingleUse, OneTokenPerSession, TypeOK
<1> QED BY <1>2, <1>3, <1>4, <1>5 DEF IInv

\* A login starts a chain of its own.
LEMMA LoginPreserves ==
  ASSUME IInv, NEW t \in Tokens, NEW s \in SessionIds, Login(t, s)
  PROVE  IInv'
<1> USE DEF IInv
<1>1. /\ \A u \in Minted : session[u] # s
      /\ IssueTokens(t, s, NoToken)
      /\ UNCHANGED <<expired, loggedOut, pc, tok>>
  BY DEF Login
<1>2. /\ t \notin Minted
      /\ Minted' = Minted \cup {t}
      /\ session'[t] = s /\ parent'[t] = NoToken
      /\ \A u \in Tokens \ {t} : session'[u] = session[u] /\ parent'[u] = parent[u]
      /\ session' \in [Tokens -> SessionIds \cup {NoSession}]
      /\ parent' \in [Tokens -> Tokens \cup {NoToken}]
      /\ stored' = stored \cup {t}
  BY <1>1, MintEffect
<1>3. Minted \subseteq Tokens /\ stored \subseteq Minted
  BY DEF Minted, TypeOK
<1>4. TypeOK'
  BY <1>1, <1>2, <1>3 DEF TypeOK
<1>5. History'
  BY <1>1, <1>2, <1>3 DEF History
<1>6. StoredOK'
  BY <1>1, <1>2, <1>3, NoTokenAssumption DEF StoredOK, Childless, History
<1>7. IssuingOK'
  BY <1>1, <1>2, <1>3, NoTokenAssumption DEF IssuingOK, Childless, History, TypeOK
<1>8. SingleUse'
  BY <1>2, <1>3 DEF SingleUse
<1>9. OneTokenPerSession'
  BY <1>1, <1>2, <1>3 DEF OneTokenPerSession
<1> QED BY <1>4, <1>5, <1>6, <1>7, <1>8, <1>9

\* The one request that deleted the row becomes the heir of the session.
LEMMA RevokePreserves ==
  ASSUME IInv, NEW r \in Requests, RevokeForRotation(r), tok[r] \in stored
  PROVE  IInv'
<1> USE DEF IInv
<1>1. /\ pc[r] = "rotate" /\ stored' = stored \ {tok[r]}
      /\ UNCHANGED <<expired, session, parent, loggedOut>>
      /\ tok[r] \in Tokens /\ tok[r] \in Minted
      /\ Enter(r, "issue", tok[r])
  BY DEF RevokeForRotation, TypeOK, Minted
<1>2. Minted' = Minted
  BY <1>1 DEF Minted
<1>3. TypeOK'
  BY <1>1, <1>2, EnterEffect DEF TypeOK
<1>4. History'
  BY <1>1, <1>2, EnterEffect DEF History
<1>5. StoredOK'
  BY <1>1, <1>2 DEF StoredOK, Childless
<1>6. IssuingOK'
  <2>1. /\ Childless(tok[r]) /\ session[tok[r]] \notin loggedOut
        /\ \A t \in stored' : session[t] # session[tok[r]]
        /\ \A q \in Requests : pc[q] = "issue" => session[tok[q]] # session[tok[r]]
    BY <1>1 DEF StoredOK, OneTokenPerSession, IssuingOK, TypeOK
  <2>2. /\ pc'[r] = "issue" /\ tok'[r] = tok[r]
        /\ \A q \in Requests \ {r} : pc'[q] = pc[q] /\ tok'[q] = tok[q]
    BY <1>1, EnterEffect
  <2> QED BY <1>1, <1>2, <2>1, <2>2 DEF IssuingOK, Childless
<1>7. SingleUse' /\ OneTokenPerSession'
  BY <1>1, <1>2 DEF SingleUse, OneTokenPerSession
<1> QED BY <1>3, <1>4, <1>5, <1>6, <1>7

\* The heir issues the one successor.
LEMMA IssuePreserves ==
  ASSUME IInv, NEW r \in Requests, NEW t \in Tokens, IssueSuccessor(r, t)
  PROVE  IInv'
<1> USE DEF IInv
<1> DEFINE p == tok[r]
           s == session[tok[r]]
<1>1. /\ pc[r] = "issue" /\ p \in Minted
      /\ IssueTokens(t, s, p) /\ Enter(r, "idle", NoToken)
      /\ UNCHANGED <<expired, loggedOut>>
  BY DEF IssueSuccessor, Done, TypeOK
<1>2. p \in Tokens /\ s \in SessionIds
  BY <1>1 DEF TypeOK, Minted
<1>3. /\ t \notin Minted
      /\ Minted' = Minted \cup {t}
      /\ session'[t] = s /\ parent'[t] = p
      /\ \A u \in Tokens \ {t} : session'[u] = session[u] /\ parent'[u] = parent[u]
      /\ session' \in [Tokens -> SessionIds \cup {NoSession}]
      /\ parent' \in [Tokens -> Tokens \cup {NoToken}]
      /\ stored' = stored \cup {t}
  BY <1>1, <1>2, MintEffect
<1>4. /\ pc' \in [Requests ->
                    {"idle", "find", "revokeExpired", "rotate", "issue", "logout"}]
      /\ tok' \in [Requests -> Tokens \cup {NoToken}]
      /\ pc'[r] = "idle"
      /\ \A q \in Requests \ {r} : pc'[q] = pc[q] /\ tok'[q] = tok[q]
  BY <1>1, EnterEffect
<1>5. Minted \subseteq Tokens /\ stored \subseteq Minted
  BY DEF Minted, TypeOK
<1>6. /\ Childless(p) /\ s \notin loggedOut
      /\ \A u \in stored : session[u] # s
      /\ \A q \in Requests \ {r} : pc[q] = "issue" => session[tok[q]] # s
  BY <1>1 DEF IssuingOK
<1>7. /\ \A u \in Minted : session'[u] = session[u] /\ parent'[u] = parent[u]
      /\ \A u \in Minted : parent[u] # t
  BY <1>3, <1>5, NoTokenAssumption DEF History
<1> HIDE DEF p, s
<1>8. TypeOK'
  BY <1>1, <1>3, <1>4, <1>5 DEF TypeOK
<1>9. History'
  BY <1>1, <1>3, <1>4, <1>5, <1>7 DEF History
<1>10. StoredOK'
  <2>1. ASSUME NEW u \in stored PROVE u # p
    BY <1>6, <1>5, <2>1 DEF p, s
  <2> QED BY <1>1, <1>3, <1>5, <1>6, <1>7, <2>1 DEF StoredOK, Childless
<1>11. IssuingOK'
  <2>1. ASSUME NEW q \in Requests \ {r}, pc[q] = "issue" PROVE tok[q] # p /\ tok[q] \in Minted
    BY <1>6, <2>1 DEF p, s, TypeOK
  <2> QED BY <1>1, <1>3, <1>4, <1>5, <1>6, <1>7, <2>1 DEF IssuingOK, Childless
<1>12. SingleUse'
  BY <1>3, <1>6, <1>7 DEF SingleUse, Childless
<1>13. OneTokenPerSession'
  BY <1>3, <1>5, <1>6, <1>7 DEF OneTokenPerSession
<1> QED BY <1>8, <1>9, <1>10, <1>11, <1>12, <1>13

\* A logout that removed the row ends the session: nothing else held it.
LEMMA LogoutPreserves ==
  ASSUME IInv, NEW r \in Requests, LogoutRevoke(r), tok[r] \in stored
  PROVE  IInv'
<1> USE DEF IInv
<1>1. /\ pc[r] = "logout" /\ stored' = stored \ {tok[r]}
      /\ loggedOut' = loggedOut \cup {session[tok[r]]}
      /\ UNCHANGED <<expired, session, parent>>
      /\ Enter(r, "idle", NoToken)
      /\ tok[r] \in Minted /\ session[tok[r]] \in SessionIds
  BY DEF LogoutRevoke, Done, TypeOK, Minted
<1>2. Minted' = Minted
  BY <1>1 DEF Minted
<1>3. /\ pc' \in [Requests ->
                    {"idle", "find", "revokeExpired", "rotate", "issue", "logout"}]
      /\ tok' \in [Requests -> Tokens \cup {NoToken}]
      /\ pc'[r] = "idle"
      /\ \A q \in Requests \ {r} : pc'[q] = pc[q] /\ tok'[q] = tok[q]
  BY <1>1, EnterEffect
<1>4. TypeOK'
  BY <1>1, <1>2, <1>3 DEF TypeOK
<1>5. History'
  BY <1>1, <1>2, <1>3 DEF History
<1>6. StoredOK'
  BY <1>1, <1>2 DEF StoredOK, Childless, OneTokenPerSession
<1>7. IssuingOK'
  BY <1>1, <1>2, <1>3 DEF IssuingOK, Childless
<1>8. SingleUse' /\ OneTokenPerSession'
  BY <1>1, <1>2 DEF SingleUse, OneTokenPerSession
<1> QED BY <1>4, <1>5, <1>6, <1>7, <1>8

\* Every other step only reads, removes rows, or ends a request.
LEMMA RestPreserves ==
  ASSUME IInv,
         \/ \E r \in Requests :
              \/ \E t \in Tokens : RefreshToken(r, t) \/ Logout(r, t)
              \/ FindRefreshToken(r) \/ RevokeExpired(r) \/ Abandon(r)
              \/ (RevokeForRotation(r) \/ LogoutRevoke(r)) /\ tok[r] \notin stored
         \/ \E t \in Tokens : Expire(t)
         \/ Cleanup
         \/ UNCHANGED vars
  PROVE  IInv'
<1> USE DEF IInv
<1>1. ASSUME NEW r \in Requests, NEW t \in Tokens \cup {NoToken},
             NEW step \in {"idle", "find", "revokeExpired", "rotate", "logout"},
             Enter(r, step, t), step # "idle" => t \in Minted,
             stored' \subseteq stored,
             UNCHANGED <<expired, session, parent, loggedOut>>
      PROVE  IInv'
  <2>1. /\ pc' \in [Requests ->
                    {"idle", "find", "revokeExpired", "rotate", "issue", "logout"}]
        /\ tok' \in [Requests -> Tokens \cup {NoToken}]
        /\ pc'[r] = step /\ tok'[r] = t
        /\ \A q \in Requests \ {r} : pc'[q] = pc[q] /\ tok'[q] = tok[q]
    BY <1>1, EnterEffect
  <2>2. TypeOK'
    BY <1>1, <2>1 DEF TypeOK, Minted
  <2> QED BY <1>1, <2>1, <2>2, QuietStep DEF TypeOK
<1>2. ASSUME NEW r \in Requests, NEW t \in Tokens, RefreshToken(r, t) \/ Logout(r, t)
      PROVE  IInv'
  BY <1>1, <1>2 DEF RefreshToken, Logout, TypeOK
<1>3. ASSUME NEW r \in Requests, FindRefreshToken(r) PROVE IInv'
  BY <1>1, <1>3 DEF FindRefreshToken, Done, TypeOK, Minted
<1>4. ASSUME NEW r \in Requests, RevokeExpired(r) \/ Abandon(r) PROVE IInv'
  BY <1>1, <1>4 DEF RevokeExpired, Abandon, Done
<1>5. ASSUME NEW r \in Requests, RevokeForRotation(r) \/ LogoutRevoke(r), tok[r] \notin stored
      PROVE  IInv'
  BY <1>1, <1>5 DEF RevokeForRotation, LogoutRevoke, Done
<1>6. ASSUME UNCHANGED <<session, parent, loggedOut, pc, tok>>,
             stored' \subseteq stored, expired' \subseteq Minted
      PROVE  IInv'
  <2>1. TypeOK'
    BY <1>6 DEF TypeOK, Minted
  <2> QED BY <1>6, <2>1, QuietStep
<1>7. ASSUME NEW t \in Tokens, Expire(t) PROVE IInv'
  BY <1>6, <1>7 DEF Expire, TypeOK
<1>8. CASE Cleanup
  BY <1>6, <1>8 DEF Cleanup, TypeOK
<1>9. CASE UNCHANGED vars
  BY <1>6, <1>9 DEF vars, TypeOK
<1> QED BY <1>2, <1>3, <1>4, <1>5, <1>7, <1>8, <1>9

-----------------------------------------------------------------------------
\* The invariant is inductive.
LEMMA Inductive == Spec => []IInv
<1>1. Init => IInv
  BY DEF Init, IInv, TypeOK, Minted, History, StoredOK, IssuingOK, Childless, SingleUse,
     OneTokenPerSession
<1>2. IInv /\ [Next]_vars => IInv'
  BY LoginPreserves, RevokePreserves, IssuePreserves, LogoutPreserves, RestPreserves
     DEF Next, RequestStep
<1> QED BY <1>1, <1>2, PTL DEF Spec

-----------------------------------------------------------------------------
(* Sessions implements SessionChain.                                       *)

\* The mapping's components, by name.
Begun    == {s \in SessionIds : \E t \in Minted : session[t] = s}
LiveOf   == [s \in SessionIds |-> {t \in stored : session[t] = s}]
Awaiting == {s \in SessionIds : \E r \in Requests : pc[r] = "issue" /\ session[tok[r]] = s}

\* Steps that neither touch the table nor the issuing requests.
LEMMA ChainStutters ==
  ASSUME IInv, UNCHANGED <<stored, session>>,
         \A q \in Requests : pc'[q] = "issue" <=> pc[q] = "issue",
         \A q \in Requests : pc[q] = "issue" => tok'[q] = tok[q]
  PROVE  UNCHANGED Chain!chain
<1>1. Minted' = Minted /\ Begun' = Begun /\ LiveOf' = LiveOf
  BY DEF Minted, Begun, LiveOf
<1>2. Awaiting' = Awaiting
  BY DEF Awaiting
<1> QED BY <1>1, <1>2 DEF Chain!chain, Begun, LiveOf, Awaiting

\* Rows go and none comes, and nobody starts to issue: sessions end.
LEMMA ChainEnds ==
  ASSUME IInv, UNCHANGED session, stored' \subseteq stored,
         \A q \in Requests : pc'[q] = "issue" => pc[q] = "issue" /\ tok'[q] = tok[q]
  PROVE  Chain!ChainNext
<1> DEFINE S == {s \in Begun : LiveOf'[s] # LiveOf[s] \/ s \in Awaiting \ Awaiting'}
<1>1. Minted' = Minted /\ Begun' = Begun
  BY DEF Minted, Begun
<1>2. ASSUME NEW s \in SessionIds
      PROVE  LiveOf'[s] = IF s \in S THEN {} ELSE LiveOf[s]
  <2>1. LiveOf[s] = {t \in stored : session[t] = s} /\ LiveOf'[s] = {t \in stored' : session[t] = s}
    BY DEF LiveOf
  <2>2. \A t, u \in LiveOf[s] : t = u
    BY <2>1 DEF IInv, OneTokenPerSession
  <2>3. s \in S => LiveOf'[s] = {}
    <3>1. CASE LiveOf'[s] # LiveOf[s]
      BY <2>1, <2>2, <3>1
    <3>2. CASE s \in Awaiting
      BY <2>1, <3>2 DEF Awaiting, IInv, IssuingOK
    <3> QED BY <3>1, <3>2
  <2>4. s \notin S => LiveOf'[s] = LiveOf[s]
    BY <2>1 DEF Begun, IInv, TypeOK
  <2> QED BY <2>3, <2>4
<1>3. LiveOf' = [s \in SessionIds |-> IF s \in S THEN {} ELSE LiveOf[s]]
  BY <1>2 DEF LiveOf
<1>4. Awaiting' = Awaiting \ S
  <2>1. Awaiting' \subseteq Awaiting
    BY DEF Awaiting
  <2>2. \A s \in Awaiting : s \in Begun
    BY DEF Awaiting, Begun, IInv, TypeOK
  <2>3. ASSUME NEW s \in Awaiting, LiveOf'[s] # LiveOf[s] PROVE FALSE
    <3>1. s \in SessionIds /\ LiveOf[s] = {}
      BY <2>3 DEF Awaiting, LiveOf, IInv, IssuingOK
    <3> QED BY <2>3, <3>1 DEF LiveOf
  <2> QED BY <2>1, <2>2, <2>3
<1>5. S \in SUBSET Begun
  OBVIOUS
<1> HIDE DEF S
<1> QED BY <1>1, <1>3, <1>4, <1>5 DEF Chain!ChainNext, Chain!End, Begun, LiveOf, Awaiting

\* A login begins a chain.
LEMMA ChainBegins ==
  ASSUME IInv, NEW t \in Tokens, NEW s \in SessionIds, Login(t, s)
  PROVE  Chain!ChainNext
<1>1. /\ \A u \in Minted : session[u] # s
      /\ IssueTokens(t, s, NoToken)
      /\ UNCHANGED <<pc, tok>>
      /\ stored \subseteq Minted /\ Minted \subseteq Tokens
      /\ TypeOK
  BY DEF Login, IInv, TypeOK, Minted
<1>2. /\ t \notin Minted /\ Minted' = Minted \cup {t}
      /\ session'[t] = s /\ stored' = stored \cup {t}
      /\ \A u \in Tokens \ {t} : session'[u] = session[u]
  BY <1>1, MintEffect
<1>3. s \notin Begun /\ Begun' = Begun \cup {s}
  BY <1>1, <1>2 DEF Begun
<1>4. LiveOf[s] = {} /\ LiveOf' = [LiveOf EXCEPT ![s] = {t}]
  <2>1. LiveOf[s] = {}
    BY <1>1 DEF LiveOf
  <2>2. \A z \in SessionIds :
          {u \in stored' : session'[u] = z} = IF z = s THEN {t} ELSE {u \in stored : session[u] = z}
    BY <1>1, <1>2
  <2> QED BY <2>1, <2>2 DEF LiveOf
<1>5. Awaiting' = Awaiting
  <2>1. \A q \in Requests : pc[q] = "issue" => tok[q] \in Tokens \ {t}
    BY <1>1, <1>2 DEF IInv, TypeOK
  <2> QED BY <1>1, <1>2, <2>1 DEF Awaiting
<1>6. Chain!Begin(s, t)
  BY <1>2, <1>3, <1>4, <1>5 DEF Chain!Begin, Chain!Give, Begun, LiveOf, Awaiting
<1> QED BY <1>6 DEF Chain!ChainNext

\* The DELETE that finds the row redeems its session's token.
LEMMA ChainRedeems ==
  ASSUME IInv, NEW r \in Requests, RevokeForRotation(r), tok[r] \in stored
  PROVE  Chain!ChainNext
<1>0. PICK s \in SessionIds : s = session[tok[r]]
  BY DEF IInv, TypeOK, Minted
<1>1. /\ stored' = stored \ {tok[r]} /\ session' = session
      /\ Enter(r, "issue", tok[r]) /\ tok[r] \in Tokens
      /\ TypeOK
  BY DEF RevokeForRotation, IInv, TypeOK, Minted
<1>2. /\ pc'[r] = "issue" /\ tok'[r] = tok[r]
      /\ \A q \in Requests \ {r} : pc'[q] = pc[q] /\ tok'[q] = tok[q]
  BY <1>1, EnterEffect
<1>3. Minted' = Minted /\ Begun' = Begun
  BY <1>1 DEF Minted, Begun
<1>4. \A u \in stored : session[u] = s => u = tok[r]
  BY <1>0 DEF IInv, OneTokenPerSession
<1>5. pc[r] # "issue"
  BY DEF RevokeForRotation
<1>6. LiveOf[s] # {} /\ LiveOf' = [LiveOf EXCEPT ![s] = {}]
  <2>1. tok[r] \in LiveOf[s]
    BY <1>0, <1>1 DEF LiveOf
  <2>2. \A z \in SessionIds :
          {u \in stored' : session'[u] = z} = IF z = s THEN {} ELSE {u \in stored : session[u] = z}
    BY <1>0, <1>1, <1>4
  <2> QED BY <2>1, <2>2 DEF LiveOf
<1>7. Awaiting' = Awaiting \cup {s}
  BY <1>0, <1>1, <1>2, <1>5 DEF Awaiting
<1>8. Chain!Redeem(s)
  BY <1>3, <1>6, <1>7 DEF Chain!Redeem, Begun, LiveOf, Awaiting
<1> QED BY <1>8 DEF Chain!ChainNext

\* The heir's StoreRefreshToken replaces it.
LEMMA ChainReplaces ==
  ASSUME IInv, NEW r \in Requests, NEW t \in Tokens, IssueSuccessor(r, t)
  PROVE  Chain!ChainNext
<1>0. PICK s \in SessionIds : s = session[tok[r]]
  BY DEF IssueSuccessor, IInv, TypeOK, Minted
<1>1. /\ pc[r] = "issue" /\ tok[r] \in Minted /\ Enter(r, "idle", NoToken)
      /\ IssueTokens(t, s, tok[r])
      /\ stored \subseteq Minted /\ Minted \subseteq Tokens
      /\ TypeOK
  BY <1>0 DEF IssueSuccessor, Done, IInv, TypeOK, Minted
<1>2. tok[r] \in Tokens
  BY <1>1
<1>3. /\ t \notin Minted /\ Minted' = Minted \cup {t}
      /\ session'[t] = s /\ stored' = stored \cup {t}
      /\ \A u \in Tokens \ {t} : session'[u] = session[u]
  BY <1>1, <1>2, MintEffect
<1>4. /\ pc'[r] = "idle"
      /\ \A q \in Requests \ {r} : pc'[q] = pc[q] /\ tok'[q] = tok[q]
  BY <1>1, EnterEffect
<1>5. /\ \A u \in stored : session[u] # s
      /\ \A q \in Requests \ {r} : pc[q] = "issue" => session[tok[q]] # s
  BY <1>0, <1>1 DEF IInv, IssuingOK
<1>6. s \in Awaiting /\ s \in Begun
  BY <1>0, <1>1 DEF Awaiting, Begun
<1>7. \A q \in Requests : pc[q] = "issue" => tok[q] \in Tokens \ {t}
  BY <1>1, <1>3 DEF IInv, TypeOK
<1>8. Begun' = Begun
  BY <1>1, <1>3, <1>6 DEF Begun
<1>9. LiveOf[s] = {} /\ LiveOf' = [LiveOf EXCEPT ![s] = {t}]
  <2>1. LiveOf[s] = {}
    BY <1>5 DEF LiveOf
  <2>2. \A z \in SessionIds :
          {u \in stored' : session'[u] = z} = IF z = s THEN {t} ELSE {u \in stored : session[u] = z}
    BY <1>1, <1>3, <1>5
  <2> QED BY <2>1, <2>2 DEF LiveOf
<1>10. Awaiting' = Awaiting \ {s}
  <2>1. \A q \in Requests : pc'[q] = "issue" <=> q # r /\ pc[q] = "issue"
    BY <1>4
  <2>2. \A q \in Requests \ {r} : pc[q] = "issue" => session'[tok'[q]] = session[tok[q]]
    BY <1>3, <1>4, <1>7
  <2> QED BY <1>0, <1>5, <2>1, <2>2 DEF Awaiting
<1>11. Chain!Replace(s, t)
  BY <1>3, <1>6, <1>8, <1>9, <1>10 DEF Chain!Replace, Chain!Give, Begun, LiveOf, Awaiting
<1> QED BY <1>11 DEF Chain!ChainNext

\* Every step of Sessions is a step of the chain, or none.
LEMMA ChainStep ==
  ASSUME IInv, [Next]_vars
  PROVE  [Chain!ChainNext]_(Chain!chain)
<1>0. TypeOK
  BY DEF IInv
<1>1. ASSUME NEW r \in Requests, NEW t \in Tokens \cup {NoToken},
             NEW step \in {"idle", "find", "revokeExpired", "rotate", "logout"},
             Enter(r, step, t), UNCHANGED session, stored' \subseteq stored
      PROVE  Chain!ChainNext
  BY <1>0, <1>1, EnterEffect, ChainEnds
<1>2. ASSUME NEW r \in Requests, NEW t \in Tokens \cup {NoToken},
             NEW step \in {"idle", "find", "revokeExpired", "rotate", "logout"},
             Enter(r, step, t), UNCHANGED <<session, stored>>, pc[r] # "issue"
      PROVE  UNCHANGED Chain!chain
  BY <1>0, <1>2, EnterEffect, ChainStutters
<1>3. ASSUME NEW r \in Requests, NEW t \in Tokens, RefreshToken(r, t) \/ Logout(r, t)
      PROVE  UNCHANGED Chain!chain
  BY <1>2, <1>3 DEF RefreshToken, Logout
<1>4. ASSUME NEW r \in Requests, FindRefreshToken(r)
      PROVE  UNCHANGED Chain!chain
  BY <1>0, <1>2, <1>4 DEF FindRefreshToken, Done, TypeOK
<1>5. ASSUME NEW r \in Requests, RevokeExpired(r) \/ Abandon(r) \/ LogoutRevoke(r)
      PROVE  Chain!ChainNext
  BY <1>1, <1>5 DEF RevokeExpired, Abandon, LogoutRevoke, Done
<1>6. ASSUME NEW r \in Requests, RevokeForRotation(r)
      PROVE  Chain!ChainNext
  <2>1. CASE tok[r] \in stored
    BY <1>6, <2>1, ChainRedeems
  <2>2. CASE tok[r] \notin stored
    BY <1>1, <1>6, <2>2 DEF RevokeForRotation, Done
  <2> QED BY <2>1, <2>2
<1>7. CASE Cleanup
  BY <1>7, ChainEnds DEF Cleanup
<1>8. CASE UNCHANGED vars \/ \E t \in Tokens : Expire(t)
  BY <1>8, ChainStutters DEF vars, Expire
<1> QED BY <1>3, <1>4, <1>5, <1>6, <1>7, <1>8, ChainBegins, ChainReplaces DEF Next, RequestStep

\* Refresh-token rotation implements one chain of tokens per session: however
\* refreshes, logouts, expiry and crashes overlap, a session has at most one
\* token, a token is given out once, and a session that lost its token with no
\* successor on its way (RevokeRefreshToken done, StoreRefreshToken never) is
\* never revived.
THEOREM ChainRefinement == Spec => OneChainPerSession
<1>1. Init => Chain!ChainInit
  BY DEF Init, Chain!ChainInit, Minted
<1>2. IInv /\ [Next]_vars => [Chain!ChainNext]_(Chain!chain)
  BY ChainStep
<1> QED BY <1>1, <1>2, Inductive, PTL DEF Spec, OneChainPerSession, Chain!ChainSpec

-----------------------------------------------------------------------------
\* A refresh token is redeemed at most once, by however many requests it is
\* presented at the same time (RefreshToken's DELETE and its row count).
THEOREM RotationSafety == Spec => []SingleUse
BY Inductive, PTL DEF IInv

\* A session never has two redeemable tokens, whatever refreshes and logouts
\* overlap on it.
THEOREM SessionUniqueness == Spec => []OneTokenPerSession
BY Inductive, PTL DEF IInv

\* Type correctness of the token table and the calls on it.
THEOREM TypeCorrect == Spec => []TypeOK
BY Inductive, PTL DEF IInv

\* A successful logout ends its session for good, also against a refresh that
\* is under way (Logout's DELETE and its row count).
THEOREM LogoutSafety == Spec => []LogoutIsFinal
<1>1. IInv => LogoutIsFinal
  BY DEF IInv, StoredOK, IssuingOK, LogoutIsFinal
<1> QED BY <1>1, Inductive, PTL
=============================================================================
