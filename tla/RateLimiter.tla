----------------------------- MODULE RateLimiter -----------------------------
(***************************************************************************)
(* The in-memory rate limiter (backend/internal/middleware/ratelimit.go)   *)
(* for one key: allow and cleanup run under one mutex and touch only the   *)
(* entry of their key, so keys do not interact.  Time is counted in the    *)
(* unit of PerToken's integer division (the code's nanoseconds).           *)
(*                                                                         *)
(* from and count belong to an observer, who starts at a moment of his     *)
(* choice and counts the requests let through since; lastGrant is the time *)
(* of the last one.  The code keeps none of them.                          *)
(***************************************************************************)
EXTENDS Integers

CONSTANTS Rate,    \* requests per window
          Window,
          Idle,    \* age at which cleanup drops an entry (10 minutes)
          Horizon  \* bound on time

PerToken == IF Window \div Rate <= 0 THEN 1 ELSE Window \div Rate

ASSUME RateAssumption == Rate \in Nat \ {0}      \* RateLimit replaces others
ASSUME WindowAssumption == Window \in Nat \ {0}
ASSUME IdleAssumption == Idle \in Nat /\ Rate * PerToken <= Idle  \* 1 minute, 10 minutes
ASSUME HorizonAssumption == Horizon \in Nat

VARIABLES
  now,
  known, tokens, lastRefill,  \* the visitor, if the map has an entry
  from, count, lastGrant

visitor  == <<known, tokens, lastRefill>>
observer == <<from, count, lastGrant>>
vars     == <<now, visitor, observer>>

Never == -1

TypeOK ==
  /\ now \in 0 .. Horizon
  /\ known \in BOOLEAN
  /\ tokens \in 0 .. Rate - 1
  /\ lastRefill \in 0 .. now
  /\ from \in {Never} \cup 0 .. now
  /\ count \in Nat
  /\ lastGrant \in {Never} \cup 0 .. now

-----------------------------------------------------------------------------
\* The observer sees a request pass.
Grant ==
  /\ lastGrant' = now
  /\ count' = IF from = Never THEN count ELSE count + 1
  /\ UNCHANGED <<now, from>>

\* allow, for a key without an entry.
AllowNew ==
  /\ ~known
  /\ known' = TRUE
  /\ tokens' = Rate - 1
  /\ lastRefill' = now
  /\ Grant

TokensToAdd == (now - lastRefill) \div PerToken

\* Faulty variant: the bucket has no brim.
RefilledUncapped == tokens + TokensToAdd

\* Tokens after the refill, at most Rate; its remainder of time is given up.
Refilled ==
  IF tokens + TokensToAdd > Rate THEN Rate ELSE tokens + TokensToAdd

\* Faulty variant: every request restarts the wait for the next token.
RefillTimeAlways == now

RefillTime == IF TokensToAdd > 0 THEN now ELSE lastRefill

\* allow, for a key with an entry: a token is taken ...
AllowKnown ==
  /\ known
  /\ Refilled > 0
  /\ tokens' = Refilled - 1
  /\ lastRefill' = RefillTime
  /\ Grant
  /\ UNCHANGED known

\* ... or there is none: 429.
Deny ==
  /\ known
  /\ Refilled = 0
  /\ tokens' = 0
  /\ lastRefill' = RefillTime
  /\ UNCHANGED <<now, known, observer>>

\* Faulty variant: an entry is dropped as soon as it waits for a token.
CleanupEarly ==
  /\ known
  /\ now - lastRefill > PerToken
  /\ known' = FALSE
  /\ tokens' = 0
  /\ lastRefill' = 0
  /\ UNCHANGED <<now, observer>>

\* cleanup, on its ticker.
Cleanup ==
  /\ known
  /\ now - lastRefill > Idle
  /\ known' = FALSE
  /\ tokens' = 0
  /\ lastRefill' = 0
  /\ UNCHANGED <<now, observer>>

-----------------------------------------------------------------------------
Tick ==
  /\ now < Horizon
  /\ now' = now + 1
  /\ UNCHANGED <<visitor, observer>>

Observe ==
  /\ from = Never
  /\ from' = now
  /\ UNCHANGED <<now, visitor, count, lastGrant>>

Init ==
  /\ now = 0
  /\ known = FALSE
  /\ tokens = 0
  /\ lastRefill = 0
  /\ from = Never
  /\ count = 0
  /\ lastGrant = Never

Next == AllowNew \/ AllowKnown \/ Deny \/ Cleanup \/ Tick \/ Observe

Spec == Init /\ [][Next]_vars

-----------------------------------------------------------------------------
\* Over any stretch of time a key gets through at most its burst of Rate and
\* one request per PerToken, whatever refills were rounded and however often
\* its entry was dropped and made anew.
Throttled == from # Never => count <= Rate + (now - from) \div PerToken

\* A client would be turned away only within PerToken of the last request that
\* did pass: neither hammering the endpoint nor a refill that rounds down pushes
\* its next token further away.
NeverStarved == known /\ Refilled = 0 => now - lastGrant < PerToken
=============================================================================
