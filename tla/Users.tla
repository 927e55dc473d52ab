------------------------------- MODULE Users --------------------------------
(***************************************************************************)
(* The users table: signups and logins (Register, Authenticate and         *)
(* generateUniqueSlug of backend/internal/auth/service.go, repository.go)  *)
(* and the trust score that every read of the public CV computes and       *)
(* writes back (GetProfile and refreshTrustScore of                        *)
(* backend/internal/cv/service.go, repository.go).                         *)
(*                                                                         *)
(* A member of Requests is a slot for one running call; each database      *)
(* statement is one step.  A member of Persons stands for an e-mail        *)
(* address.  All of them have the same display name: names that differ     *)
(* after slugify do not compete, so a slug is its suffix, Plain if none.   *)
(* released is what the other services do to the person's deals; counts    *)
(* records every number of released deals a person ever had.               *)
(***************************************************************************)
EXTENDS Integers

CONSTANTS Persons, Requests, Nobody,
          Suffixes, Plain, NoSlug,  \* what rand.Read can draw, no suffix, no row
          MaxTries,                 \* suffixes generateUniqueSlug draws
          Base, PerDeal, Cap,       \* trustScoreBase, trustScorePerDeal, trustScoreCap
          Freelancers,              \* bound: the persons whose deals change
          MaxDeals                  \* bound on a person's released deals

Slugs == Suffixes \cup {Plain}

ASSUME PersonsAssumption == Nobody \notin Persons /\ Freelancers \subseteq Persons
ASSUME NoSlugAssumption == NoSlug \notin Slugs
ASSUME TriesAssumption == MaxTries \in Nat \ {0}
ASSUME ScoreAssumption == /\ Base \in Nat /\ PerDeal \in Nat /\ Cap \in Nat /\ Base <= Cap
                          /\ MaxDeals \in Nat

VARIABLES
  slug, score,       \* rows of users: a row exists when slug is not NoSlug
  signedIn,          \* persons who have been handed tokens
  released, counts,  \* released deals: how many now, every number there ever was
  pc, who, cand, num \* per request: step, person, slug candidate, tries or score

row  == <<slug, score>>
deals == <<released, counts>>
reqs == <<pc, who, cand, num>>
vars == <<row, signedIn, deals, reqs>>

Registered == {p \in Persons : slug[p] # NoSlug}

Score(n) == IF Base + n * PerDeal < Cap THEN Base + n * PerDeal ELSE Cap

Steps == {"idle", "base", "suffix", "create", "issue", "count", "write"}

TypeOK ==
  /\ slug \in [Persons -> Slugs \cup {NoSlug}]
  /\ score \in [Persons -> Nat]
  /\ signedIn \subseteq Registered
  /\ released \in [Persons -> 0..MaxDeals]
  /\ counts \in [Persons -> SUBSET (0..MaxDeals)]
  /\ pc \in [Requests -> Steps]
  /\ who \in [Requests -> Persons \cup {Nobody}]
  /\ cand \in [Requests -> Slugs \cup {NoSlug}]
  /\ num \in [Requests -> Nat]

Enter(r, step, p, c, n) == /\ pc'   = [pc   EXCEPT ![r] = step]
                           /\ who'  = [who  EXCEPT ![r] = p]
                           /\ cand' = [cand EXCEPT ![r] = c]
                           /\ num'  = [num  EXCEPT ![r] = n]

Done(r) == Enter(r, "idle", Nobody, NoSlug, 0)

-----------------------------------------------------------------------------
(* Register.                                                               *)

\* EmailExists: a known address is refused on the spot.
Register(r, p) ==
  /\ pc[r] = "idle"
  /\ p \notin Registered
  /\ Enter(r, "base", p, NoSlug, 0)
  /\ UNCHANGED <<row, signedIn, deals>>

SlugExists(c) == \E q \in Persons : slug[q] = c

\* Faulty variant: a taken name is refused instead of getting a suffix.
TryBaseOnly(r) ==
  /\ pc[r] = "base"
  /\ IF SlugExists(Plain) THEN Done(r) ELSE Enter(r, "create", who[r], Plain, 0)
  /\ UNCHANGED <<row, signedIn, deals>>

TryBase(r) ==
  /\ pc[r] = "base"
  /\ IF SlugExists(Plain) THEN Enter(r, "suffix", who[r], NoSlug, 0)
                          ELSE Enter(r, "create", who[r], Plain, 0)
  /\ UNCHANGED <<row, signedIn, deals>>

\* One round of the loop; after MaxTries taken ones the signup fails.
TrySuffix(r, x) ==
  /\ pc[r] = "suffix"
  /\ IF ~SlugExists(x) THEN Enter(r, "create", who[r], x, 0)
     ELSE IF num[r] + 1 < MaxTries THEN Enter(r, "suffix", who[r], NoSlug, num[r] + 1)
     ELSE Done(r)
  /\ UNCHANGED <<row, signedIn, deals>>

\* Faulty variant: the slug column has a plain index, not a unique one.
CreateUnindexed(r) ==
  /\ pc[r] = "create"
  /\ IF who[r] \in Registered
       THEN Done(r) /\ UNCHANGED row
       ELSE /\ slug' = [slug EXCEPT ![who[r]] = cand[r]]
            /\ score' = [score EXCEPT ![who[r]] = Base]
            /\ Enter(r, "issue", who[r], NoSlug, 0)
  /\ UNCHANGED <<signedIn, deals>>

\* Faulty variant: tokens are issued although the INSERT failed.
CreateUnchecked(r) ==
  /\ pc[r] = "create"
  /\ slug' = IF who[r] \in Registered \/ SlugExists(cand[r])
               THEN slug ELSE [slug EXCEPT ![who[r]] = cand[r]]
  /\ Enter(r, "issue", who[r], NoSlug, 0)
  /\ UNCHANGED <<score, signedIn, deals>>

\* The INSERT fails (an internal error) if the e-mail or the slug was taken
\* since it was looked up; trust_score has its default.
Create(r) ==
  /\ pc[r] = "create"
  /\ IF who[r] \in Registered \/ SlugExists(cand[r])
       THEN Done(r) /\ UNCHANGED row
       ELSE /\ slug' = [slug EXCEPT ![who[r]] = cand[r]]
            /\ score' = [score EXCEPT ![who[r]] = Base]
            /\ Enter(r, "issue", who[r], NoSlug, 0)
  /\ UNCHANGED <<signedIn, deals>>

\* Authenticate with the right password.
Authenticate(r, p) ==
  /\ pc[r] = "idle"
  /\ p \in Registered
  /\ Enter(r, "issue", p, NoSlug, 0)
  /\ UNCHANGED <<row, signedIn, deals>>

\* issueTokens, see Sessions for what becomes of the token.
IssueTokens(r) ==
  /\ pc[r] = "issue"
  /\ signedIn' = signedIn \cup {who[r]}
  /\ Done(r)
  /\ UNCHANGED <<row, deals>>

-----------------------------------------------------------------------------
(* GetProfile: the row, the anchors (see LiveCV), then the score.          *)

GetProfile(r, p) ==
  /\ pc[r] = "idle"
  /\ p \in Registered
  /\ Enter(r, "count", p, NoSlug, score[p])
  /\ UNCHANGED <<row, signedIn, deals>>

\* Faulty variant: each read adds what one more deal is worth.
CountIncrement(r) ==
  /\ pc[r] = "count"
  /\ IF Score(released[who[r]]) = num[r]
       THEN Done(r)
       ELSE Enter(r, "write", who[r], NoSlug, num[r] + PerDeal)
  /\ UNCHANGED <<row, signedIn, deals>>

\* Faulty variant: a score only ever rises.
CountRising(r) ==
  /\ pc[r] = "count"
  /\ IF Score(released[who[r]]) <= num[r]
       THEN Done(r)
       ELSE Enter(r, "write", who[r], NoSlug, Score(released[who[r]]))
  /\ UNCHANGED <<row, signedIn, deals>>

\* CountReleasedDeals; no write when the score read at the start is right.
CountReleased(r) ==
  /\ pc[r] = "count"
  /\ IF Score(released[who[r]]) = num[r]
       THEN Done(r)
       ELSE Enter(r, "write", who[r], NoSlug, Score(released[who[r]]))
  /\ UNCHANGED <<row, signedIn, deals>>

\* UpdateTrustScore: unconditional.
WriteScore(r) ==
  /\ pc[r] = "write"
  /\ score' = [score EXCEPT ![who[r]] = num[r]]
  /\ Done(r)
  /\ UNCHANGED <<slug, signedIn, deals>>

-----------------------------------------------------------------------------
\* A deal of p is released, or reopened by a stale status write (see Escrow).
DealsChange(p) ==
  /\ p \in Registered
  /\ released' \in {[released EXCEPT ![p] = @ + 1], [released EXCEPT ![p] = @ - 1]}
  /\ released'[p] \in 0..MaxDeals
  /\ counts' = [counts EXCEPT ![p] = @ \cup {released'[p]}]
  /\ UNCHANGED <<row, signedIn, reqs>>

\* A call ends early: context cancelled, database error, crash.
Abandon(r) ==
  /\ pc[r] # "idle"
  /\ Done(r)
  /\ UNCHANGED <<row, signedIn, deals>>

Init ==
  /\ slug = [p \in Persons |-> NoSlug]
  /\ score = [p \in Persons |-> Base]
  /\ signedIn = {}
  /\ released = [p \in Persons |-> 0]
  /\ counts = [p \in Persons |-> {0}]
  /\ pc = [r \in Requests |-> "idle"]
  /\ who = [r \in Requests |-> Nobody]
  /\ cand = [r \in Requests |-> NoSlug]
  /\ num = [r \in Requests |-> 0]

SignUpOrIn(r, p) == Register(r, p) \/ Authenticate(r, p)

Advance(r) ==
  \/ TryBase(r) \/ Create(r) \/ IssueTokens(r) \/ CountReleased(r) \/ WriteScore(r)
  \/ \E x \in Suffixes : TrySuffix(r, x)

Next ==
  \/ \E r \in Requests : Advance(r) \/ Abandon(r)
  \/ \E r \in Requests, p \in Persons : SignUpOrIn(r, p) \/ GetProfile(r, p)
  \/ \E p \in Freelancers : DealsChange(p)

Spec == Init /\ [][Next]_vars

-----------------------------------------------------------------------------
(* Fairness.  A running call goes on to its end; from some point on calls  *)
(* do not fail for want of a database.  People who want an account sign up *)
(* again after a failure and log in once they have one; CVs are read again *)
(* and again.  Of 2^24 suffixes a free one is drawn in the end.            *)

DrawFree(p) == \E r \in Requests, x \in Suffixes :
                 who[r] = p /\ ~SlugExists(x) /\ TrySuffix(r, x)

\* A call that gives up where it could have gone on.
Fails == \E r \in Requests : Abandon(r) /\ ~Advance(r)

Fairness ==
  /\ \A r \in Requests : WF_vars(Advance(r))
  /\ \A p \in Persons : /\ SF_vars(\E r \in Requests : SignUpOrIn(r, p))
                        /\ SF_vars(DrawFree(p))
  /\ \A p \in Freelancers : SF_vars(\E r \in Requests : GetProfile(r, p))
  /\ <>[][~Fails]_vars

FairSpec == Spec /\ Fairness

-----------------------------------------------------------------------------
(* Safety.                                                                 *)

\* A public CV address belongs to one person, although signups look a slug up
\* and insert it in separate statements.
SlugIdentifiesUser ==
  \A p, q \in Registered : slug[p] = slug[q] => p = q

\* A stored score is the score of a number of released deals the person really
\* had at some time: reads of the CV that overlap, fail or repeat never credit
\* a deal twice (refreshTrustScore derives, it does not add up).
ScoreEarned ==
  \A p \in Registered : \E n \in counts[p] : score[p] = Score(n)

(* Liveness.                                                               *)

\* Everybody who keeps trying gets in, although others sign up under the same
\* name at the same time, INSERTs lose the race for a slug, and a signup can
\* fail after its row was written (Register, then Authenticate).
EverybodyGetsIn == \A p \in Persons : <>(p \in signedIn)

\* Once the deals stay as they are every freelancer's stored score becomes
\* theirs and stays so, even if a slow read writes an older one in between.
ScoreCatchesUp ==
  <>[][UNCHANGED released]_released =>
    <>[](\A p \in Freelancers \cap Registered : score[p] = Score(released[p]))
=============================================================================
