----------------------------- MODULE UsersProofs ----------------------------
(***************************************************************************)
(* Theorems about Users, for any number of people, requests and slugs and  *)
(* any constants of the trust score.                                       *)
(***************************************************************************)
EXTENDS Users, TLAPS

-----------------------------------------------------------------------------
(* The inductive invariant, in parts.                                      *)

\* A score somebody may have: that of a number of deals they had at some time.
Earned(p, n) == \E k \in counts[p] : n = Score(k)

\* What a running call may rely on about the person it serves.
LocalOK(r) ==
  /\ pc[r] # "idle" => who[r] \in Persons
  /\ pc[r] = "create" => cand[r] \in Slugs
  /\ pc[r] \in {"issue", "count", "write"} => slug[who[r]] # NoSlug
  /\ pc[r] = "write" => Earned(who[r], num[r])

Locals == \A r \in Requests : LocalOK(r)

\* The history of a person's deals holds their present number and zero.
Counted == \A p \in Persons : released[p] \in counts[p] /\ 0 \in counts[p]

Rows == SlugIdentifiesUser /\ ScoreEarned

IInv == TypeOK /\ Locals /\ Counted /\ Rows

-----------------------------------------------------------------------------
\* A score is a natural number, and the column's default is that of no deal.
LEMMA ScoreFacts == (\A n \in Nat : Score(n) \in Nat) /\ Score(0) = Base
  BY ScoreAssumption, SMT DEF Score

\* Entering a step writes the caller's own local state and nobody else's.
LEMMA EnterEffect ==
  ASSUME TypeOK, NEW r \in Requests, NEW step \in Steps, NEW p \in Persons \cup {Nobody},
         NEW c \in Slugs \cup {NoSlug}, NEW n \in Nat, Enter(r, step, p, c, n)
  PROVE  /\ pc' \in [Requests -> Steps]
         /\ who' \in [Requests -> Persons \cup {Nobody}]
         /\ cand' \in [Requests -> Slugs \cup {NoSlug}]
         /\ num' \in [Requests -> Nat]
         /\ pc'[r] = step /\ who'[r] = p /\ cand'[r] = c /\ num'[r] = n
         /\ \A q \in Requests : q # r =>
              pc'[q] = pc[q] /\ who'[q] = who[q] /\ cand'[q] = cand[q] /\ num'[q] = num[q]
  BY DEF TypeOK, Enter

\* A call that touches no row and no deal only has to justify its own next step.
LEMMA QuietStep ==
  ASSUME IInv, NEW r \in Requests, NEW step \in Steps, NEW p \in Persons \cup {Nobody},
         NEW c \in Slugs \cup {NoSlug}, NEW n \in Nat, Enter(r, step, p, c, n),
         UNCHANGED <<row, deals>>, signedIn' \subseteq Registered,
         step # "idle" => p \in Persons,
         step = "create" => c \in Slugs,
         step \in {"issue", "count", "write"} => slug[p] # NoSlug,
         step = "write" => Earned(p, n)
  PROVE  IInv'
<1>1. TypeOK' /\ Registered' = Registered
  BY EnterEffect DEF IInv, TypeOK, row, deals, Registered
<1>2. Locals'
  <2>1. LocalOK(r)'
    <3>1. pc'[r] = step /\ who'[r] = p /\ cand'[r] = c /\ num'[r] = n
      BY EnterEffect DEF IInv
    <3>2. slug' = slug /\ (Earned(p, n) => Earned(p, n)')
      BY DEF Earned, Score, row, deals
    <3> QED BY <3>1, <3>2 DEF LocalOK, Earned
  <2>2. ASSUME NEW q \in Requests, q # r PROVE LocalOK(q)'
    <3>1. pc'[q] = pc[q] /\ who'[q] = who[q] /\ cand'[q] = cand[q] /\ num'[q] = num[q]
      BY <2>2, EnterEffect DEF IInv
    <3>2. LocalOK(q)
      BY DEF IInv, Locals
    <3> QED BY <3>1, <3>2 DEF LocalOK, Earned, Score, row, deals
  <2> QED BY <2>1, <2>2 DEF Locals
<1>3. Counted' /\ Rows'
  BY <1>1 DEF IInv, Counted, Rows, SlugIdentifiesUser, ScoreEarned, Score, row, deals
<1> QED BY <1>1, <1>2, <1>3 DEF IInv

\* The end of a call is always justified.
LEMMA DoneStep ==
  ASSUME IInv, NEW r \in Requests, Done(r), UNCHANGED <<row, deals>>,
         signedIn' \subseteq Registered
  PROVE  IInv'
  BY QuietStep, "idle" \in Steps DEF Done, Steps

-----------------------------------------------------------------------------
\* Before the first signup.
LEMMA InitInvariant == Init => IInv
<1> SUFFICES ASSUME Init PROVE IInv
  OBVIOUS
<1>1. TypeOK
  BY ScoreAssumption DEF Init, TypeOK, Steps, Registered
<1>2. Locals /\ Counted /\ Rows
  BY DEF Init, Locals, LocalOK, Counted, Rows, SlugIdentifiesUser, ScoreEarned, Registered
<1> QED BY <1>1, <1>2 DEF IInv

\* Looking a slug up, once or again with a suffix.
LEMMA LookupStep ==
  ASSUME IInv, NEW r \in Requests,
         TryBase(r) \/ \E x \in Suffixes : TrySuffix(r, x)
  PROVE  IInv'
<1>1. UNCHANGED <<row, deals>> /\ signedIn' \subseteq Registered /\ who[r] \in Persons
  BY DEF TryBase, TrySuffix, IInv, TypeOK, Locals, LocalOK
<1>2. CASE TryBase(r)
  <2>1. CASE Enter(r, "suffix", who[r], NoSlug, 0)
    BY <1>1, <2>1, QuietStep DEF Steps
  <2>2. CASE Enter(r, "create", who[r], Plain, 0)
    BY <1>1, <2>2, QuietStep DEF Steps, Slugs
  <2> QED BY <1>2, <2>1, <2>2 DEF TryBase
<1>3. ASSUME NEW x \in Suffixes, TrySuffix(r, x) PROVE IInv'
  <2>1. num[r] + 1 \in Nat
    BY DEF IInv, TypeOK
  <2>2. CASE Enter(r, "create", who[r], x, 0)
    BY <1>1, <2>2, QuietStep DEF Steps, Slugs
  <2>3. CASE Enter(r, "suffix", who[r], NoSlug, num[r] + 1)
    BY <1>1, <2>1, <2>3, QuietStep DEF Steps
  <2>4. CASE Done(r)
    BY <1>1, <2>4, DoneStep
  <2> QED BY <1>3, <2>2, <2>3, <2>4 DEF TrySuffix
<1> QED BY <1>2, <1>3

\* The INSERT gives a new person a free slug and the score of no deal.
LEMMA CreateStep ==
  ASSUME IInv, NEW r \in Requests, Create(r)
  PROVE  IInv'
<1>1. CASE Done(r) /\ UNCHANGED row
  BY <1>1, DoneStep DEF Create, IInv, TypeOK
<1>2. CASE ~(Done(r) /\ UNCHANGED row)
  <2> DEFINE p == who[r]
  <2>1. p \in Persons /\ cand[r] \in Slugs /\ slug[p] = NoSlug /\ ~SlugExists(cand[r])
    BY <1>2 DEF Create, IInv, Locals, LocalOK, Registered
  <2>2. /\ slug' = [slug EXCEPT ![p] = cand[r]]
        /\ score' = [score EXCEPT ![p] = Base]
        /\ Enter(r, "issue", p, NoSlug, 0)
        /\ UNCHANGED <<signedIn, deals>>
    BY <1>2 DEF Create
  <2>3. TypeOK'
    <3>1. slug' \in [Persons -> Slugs \cup {NoSlug}] /\ score' \in [Persons -> Nat]
      BY <2>1, <2>2, ScoreAssumption DEF IInv, TypeOK
    <3>2. Registered \subseteq Registered'
      BY <2>1, <2>2, NoSlugAssumption DEF IInv, TypeOK, Registered
    <3>3. /\ pc' \in [Requests -> Steps] /\ who' \in [Requests -> Persons \cup {Nobody}]
          /\ cand' \in [Requests -> Slugs \cup {NoSlug}] /\ num' \in [Requests -> Nat]
      BY <2>1, <2>2, EnterEffect DEF IInv, Steps
    <3> QED BY <2>2, <3>1, <3>2, <3>3 DEF IInv, TypeOK, deals
  <2>4. Locals'
    <3>1. \A q \in Persons : slug[q] # NoSlug => slug'[q] # NoSlug
      BY <2>1, <2>2, NoSlugAssumption DEF IInv, TypeOK
    <3>2. slug'[p] # NoSlug
      BY <2>1, <2>2, NoSlugAssumption DEF IInv, TypeOK
    <3>3. LocalOK(r)'
      BY <2>1, <2>2, <3>2, EnterEffect DEF IInv, LocalOK, Steps
    <3>4. ASSUME NEW q \in Requests, q # r PROVE LocalOK(q)'
      <4>1. pc'[q] = pc[q] /\ who'[q] = who[q] /\ cand'[q] = cand[q] /\ num'[q] = num[q]
        BY <2>1, <2>2, <3>4, EnterEffect DEF IInv, Steps
      <4>2. LocalOK(q)
        BY DEF IInv, Locals
      <4> QED BY <2>2, <3>1, <4>1, <4>2 DEF LocalOK, Earned, Score, deals
    <3> QED BY <3>3, <3>4 DEF Locals
  <2>5. Counted'
    BY <2>2 DEF IInv, Counted, deals
  <2>6. SlugIdentifiesUser'
    BY <2>1, <2>2 DEF IInv, TypeOK, Rows, SlugIdentifiesUser, Registered, SlugExists
  <2>7. ScoreEarned'
    <3>1. ASSUME NEW q \in Persons, slug'[q] # NoSlug PROVE Earned(q, score'[q])
      <4>1. CASE q = p
        BY <2>1, <2>2, <4>1, ScoreFacts DEF IInv, TypeOK, Counted, Earned
      <4>2. CASE q # p
        BY <2>2, <3>1, <4>2 DEF IInv, TypeOK, Rows, ScoreEarned, Registered, Earned
      <4> QED BY <4>1, <4>2
    <3> QED BY <2>2, <3>1 DEF ScoreEarned, Earned, Registered, Score, deals
  <2> QED BY <2>3, <2>4, <2>5, <2>6, <2>7 DEF IInv, Rows
<1> QED BY <1>1, <1>2

\* A read of the CV decides on a score that is that of the present deals.
LEMMA CountStep ==
  ASSUME IInv, NEW r \in Requests, CountReleased(r)
  PROVE  IInv'
<1> DEFINE p == who[r]
           n == Score(released[p])
<1>1. UNCHANGED <<row, deals>> /\ signedIn' \subseteq Registered
  BY DEF CountReleased, IInv, TypeOK
<1>2. p \in Persons /\ slug[p] # NoSlug
  BY DEF CountReleased, IInv, Locals, LocalOK
<1>3. n \in Nat /\ Earned(p, n)
  BY <1>2, ScoreFacts, ScoreAssumption DEF IInv, TypeOK, Counted, Earned
<1>4. CASE Done(r)
  BY <1>1, <1>4, DoneStep
<1>5. CASE Enter(r, "write", p, NoSlug, n)
  <2> HIDE DEF p, n
  <2> QED BY <1>1, <1>2, <1>3, <1>5, QuietStep DEF Steps
<1> QED BY <1>4, <1>5 DEF CountReleased

\* The write stores an earned score, however old.
LEMMA WriteStep ==
  ASSUME IInv, NEW r \in Requests, WriteScore(r)
  PROVE  IInv'
<1> DEFINE p == who[r]
<1>1. /\ p \in Persons /\ slug[p] # NoSlug /\ Earned(p, num[r]) /\ num[r] \in Nat
      /\ score' = [score EXCEPT ![p] = num[r]] /\ Done(r) /\ UNCHANGED <<slug, signedIn, deals>>
  BY DEF WriteScore, IInv, TypeOK, Locals, LocalOK
<1>2. /\ pc' \in [Requests -> Steps] /\ who' \in [Requests -> Persons \cup {Nobody}]
      /\ cand' \in [Requests -> Slugs \cup {NoSlug}] /\ num' \in [Requests -> Nat]
      /\ pc'[r] = "idle"
      /\ \A q \in Requests : q # r =>
           pc'[q] = pc[q] /\ who'[q] = who[q] /\ cand'[q] = cand[q] /\ num'[q] = num[q]
  BY <1>1, EnterEffect, "idle" \in Steps DEF IInv, Done, Steps
<1>3. TypeOK' /\ Registered' = Registered
  BY <1>1, <1>2 DEF IInv, TypeOK, Registered, deals
<1>4. ASSUME NEW q \in Requests PROVE LocalOK(q)'
  <2>1. CASE q = r
    BY <1>2, <2>1 DEF LocalOK
  <2>2. CASE q # r
    BY <1>1, <1>2, <2>2 DEF IInv, Locals, LocalOK, Earned, Score, deals
  <2> QED BY <2>1, <2>2
<1>5. Counted' /\ SlugIdentifiesUser'
  BY <1>1, <1>3 DEF IInv, Counted, Rows, SlugIdentifiesUser, deals
<1>6. ScoreEarned'
  <2>1. ASSUME NEW q \in Persons, slug[q] # NoSlug PROVE Earned(q, score'[q])
    <3>1. CASE q = p
      BY <1>1, <3>1 DEF IInv, TypeOK
    <3>2. CASE q # p
      BY <1>1, <2>1, <3>2 DEF IInv, TypeOK, Rows, ScoreEarned, Registered, Earned
    <3> QED BY <3>1, <3>2
  <2> QED BY <1>1, <2>1 DEF ScoreEarned, Earned, Registered, Score, deals
<1> QED BY <1>3, <1>4, <1>5, <1>6 DEF IInv, Locals, Rows

\* A deal released or reopened adds to the history and takes nothing from it.
LEMMA DealsStep ==
  ASSUME IInv, NEW p \in Freelancers, DealsChange(p)
  PROVE  IInv'
<1>1. p \in Persons /\ UNCHANGED <<row, signedIn, reqs>>
  BY PersonsAssumption DEF DealsChange
<1>2. /\ released' \in [Persons -> 0..MaxDeals]
      /\ counts' \in [Persons -> SUBSET (0..MaxDeals)]
      /\ \A q \in Persons : counts[q] \subseteq counts'[q]
      /\ \A q \in Persons : released'[q] \in counts'[q]
  <2>1. released'[p] \in 0..MaxDeals /\ counts' = [counts EXCEPT ![p] = @ \cup {released'[p]}]
    BY DEF DealsChange
  <2>2. released' = [released EXCEPT ![p] = released'[p]]
    BY <1>1 DEF DealsChange, IInv, TypeOK
  <2> QED BY <1>1, <2>1, <2>2 DEF IInv, TypeOK, Counted
<1>3. TypeOK' /\ Registered' = Registered
  BY <1>1, <1>2 DEF IInv, TypeOK, Registered, row, reqs
<1>4. \A q \in Persons, n \in Nat : Earned(q, n) => Earned(q, n)'
  BY <1>2 DEF Earned, Score
<1>5. Locals'
  BY <1>1, <1>4 DEF IInv, TypeOK, Locals, LocalOK, row, reqs
<1>6. Counted' /\ SlugIdentifiesUser'
  BY <1>1, <1>2, <1>3 DEF IInv, Counted, Rows, SlugIdentifiesUser, row
<1>7. ScoreEarned'
  <2>1. \A q \in Registered : Earned(q, score[q]) /\ score[q] \in Nat
    BY DEF IInv, TypeOK, Rows, ScoreEarned, Earned, Registered
  <2> QED BY <1>1, <1>3, <1>4, <2>1 DEF ScoreEarned, Earned, Registered, row
<1> QED BY <1>3, <1>5, <1>6, <1>7 DEF IInv, Rows

\* Every step of Register, Authenticate and GetProfile keeps the invariant.
LEMMA NextInvariant == IInv /\ [Next]_vars => IInv'
<1> SUFFICES ASSUME IInv, [Next]_vars PROVE IInv'
  OBVIOUS
<1>1. ASSUME NEW r \in Requests, Advance(r) PROVE IInv'
  <2>1. CASE TryBase(r) \/ \E x \in Suffixes : TrySuffix(r, x)
    BY <2>1, LookupStep
  <2>2. CASE Create(r)
    BY <2>2, CreateStep
  <2>3. CASE IssueTokens(r)
    <3>1. Done(r) /\ UNCHANGED <<row, deals>> /\ signedIn' \subseteq Registered
      BY <2>3 DEF IssueTokens, IInv, TypeOK, Locals, LocalOK, Registered
    <3> QED BY <3>1, DoneStep
  <2>4. CASE CountReleased(r)
    BY <2>4, CountStep
  <2>5. CASE WriteScore(r)
    BY <2>5, WriteStep
  <2> QED BY <1>1, <2>1, <2>2, <2>3, <2>4, <2>5 DEF Advance
<1>2. ASSUME NEW r \in Requests, Abandon(r) PROVE IInv'
  BY <1>2, DoneStep DEF Abandon, IInv, TypeOK
<1>3. ASSUME NEW r \in Requests, NEW p \in Persons, Register(r, p) PROVE IInv'
  <2>1. Enter(r, "base", p, NoSlug, 0) /\ UNCHANGED <<row, deals>> /\ signedIn' \subseteq Registered
    BY <1>3 DEF Register, IInv, TypeOK
  <2> QED BY <2>1, QuietStep DEF Steps
<1>4. ASSUME NEW r \in Requests, NEW p \in Persons, Authenticate(r, p) PROVE IInv'
  <2>1. /\ Enter(r, "issue", p, NoSlug, 0) /\ UNCHANGED <<row, deals>>
        /\ signedIn' \subseteq Registered /\ slug[p] # NoSlug
    BY <1>4 DEF Authenticate, IInv, TypeOK, Registered
  <2> QED BY <2>1, QuietStep DEF Steps
<1>5. ASSUME NEW r \in Requests, NEW p \in Persons, GetProfile(r, p) PROVE IInv'
  <2>1. /\ Enter(r, "count", p, NoSlug, score[p]) /\ UNCHANGED <<row, deals>>
        /\ signedIn' \subseteq Registered /\ slug[p] # NoSlug /\ score[p] \in Nat
    BY <1>5 DEF GetProfile, IInv, TypeOK, Registered
  <2> QED BY <2>1, QuietStep DEF Steps
<1>6. CASE UNCHANGED vars
  BY <1>6 DEF vars, row, deals, reqs, IInv, TypeOK, Registered, Locals, LocalOK, Earned, Score,
              Counted, Rows, SlugIdentifiesUser, ScoreEarned
<1> QED BY <1>1, <1>2, <1>3, <1>4, <1>5, <1>6, DealsStep DEF Next, SignUpOrIn

-----------------------------------------------------------------------------
\* Type correctness; tokens are only handed to people who have an account.
THEOREM TypeCorrect == Spec => []TypeOK
BY InitInvariant, NextInvariant, PTL DEF Spec, IInv

\* A slug leads to one person, for any number of concurrent signups under one
\* name (Register's look-up, and the unique index behind its INSERT).
THEOREM SlugSafety == Spec => []SlugIdentifiesUser
BY InitInvariant, NextInvariant, PTL DEF Spec, IInv, Rows

\* A stored trust score was earned, for any number of overlapping reads of the
\* CV and any base, step and cap (refreshTrustScore).
THEOREM ScoreSafety == Spec => []ScoreEarned
BY InitInvariant, NextInvariant, PTL DEF Spec, IInv, Rows
=============================================================================
