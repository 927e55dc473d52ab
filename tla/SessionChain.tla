---------------------------- MODULE SessionChain ----------------------------
(***************************************************************************)
(* What refresh-token rotation promises, with no requests, no table and no *)
(* clock in sight: a login begins a session, a session is one token after  *)
(* another, and a session that has lost its token is over for good.        *)
(***************************************************************************)
CONSTANTS Tokens, SessionIds

VARIABLES
  begun,     \* sessions somebody has logged in to
  live,      \* the token of every session, as a set
  pending,   \* sessions whose token was redeemed and not yet replaced
  issued     \* every token ever given out

chain == <<begun, live, pending, issued>>

ChainInit ==
  /\ begun = {}
  /\ live = [s \in SessionIds |-> {}]
  /\ pending = {}
  /\ issued = {}

\* A token is given out once, to a session that has none.
Give(s, t) ==
  /\ t \notin issued
  /\ live[s] = {}
  /\ live' = [live EXCEPT ![s] = {t}]
  /\ issued' = issued \cup {t}

Begin(s, t) ==
  /\ s \notin begun
  /\ begun' = begun \cup {s}
  /\ Give(s, t)
  /\ UNCHANGED pending

Redeem(s) ==
  /\ live[s] # {}
  /\ live' = [live EXCEPT ![s] = {}]
  /\ pending' = pending \cup {s}
  /\ UNCHANGED <<begun, issued>>

Replace(s, t) ==
  /\ s \in pending
  /\ pending' = pending \ {s}
  /\ Give(s, t)
  /\ UNCHANGED begun

\* Logout, expiry, or a rotation that was cut off.
End(S) ==
  /\ live' = [s \in SessionIds |-> IF s \in S THEN {} ELSE live[s]]
  /\ pending' = pending \ S
  /\ UNCHANGED <<begun, issued>>

ChainNext ==
  \/ \E s \in SessionIds, t \in Tokens : Begin(s, t) \/ Replace(s, t)
  \/ \E s \in SessionIds : Redeem(s)
  \/ \E S \in SUBSET begun : End(S)

ChainSpec == ChainInit /\ [][ChainNext]_chain
=============================================================================
