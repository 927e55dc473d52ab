# TLA+ models of the Ganji backend

Ganji is an escrow over the Lightning network: a client pays a *hold invoice*
that LNbits holds on the network, the freelancer submits work, and the backend
either settles the hold and forwards the sats to the freelancer or cancels it.
Released work becomes an anchored entry of the freelancer's public Live CV.
This directory models the parts of the Go backend (`src/backend/`) in which an
order of events nobody wrote a test for can lose money, work or a session. Every
definition that stands for code is listed in `PROJECT.json` under `map` with the
lines it translates; the hazards the properties are aimed at are listed there
under `hazards`, each at its line.

## 1. Inventory

Paths are relative to `src/backend/internal/` unless they start with `cmd/`.

| Part | State it keeps | Operations | What is hard | What makes it correct |
|---|---|---|---|---|
| Deal lifecycle (`deals/types.go`) | `deals.status` | `CanTransition` | nothing in the database enforces the table | every write follows the table at the moment it commits |
| Deal creation (`deals/service.go`, `repository.go`) | the hold at LNbits, the new row | `CreateDeal`, `cancelOrphanHold` | LNbits first, Postgres second; both answers can be lost | no paid hold without a row, no created deal without its invoice |
| Escrow (`deals/service.go`, `repository.go`) | `status`, `payout_attempted_at`, `payout_checking_id`, `payee_invoice`, the row lock | approve, share-link approve, resolve (release / refund), reconcile (confirm / reset), dispute, status and payee updates | a three-phase release whose money legs run outside any lock; retries, crashes, stale reads | one payout, after the settlement, recorded; a refund only of sats that went back |
| LNbits client (`lnbits/`) | the hold, the outgoing payments (external) | create, settle, cancel, pay, check | lost answers, calls that take effect after the caller gave up | (assumed: the outcomes its callers distinguish) |
| Payment detection (`webhook/`, `CheckPayment`, `GetPublicDeal`) | `status` | paid => `locked` | lost, repeated and late webhooks | a late `locked` never undoes a later status |
| Hold-expiry sweep (`deals/sweep.go`) | `status` | refund what the network returned | races every other writer; must succeed in the end | returned sats are recorded for good |
| Artifacts and storage (`deals/service.go`, `storage/`) | artifact rows, files | upload, delete, submit work | two stores, no common transaction | a row always has its file |
| Live CV (`cv/`, `ots/client.go`, `cmd/api/workers.go`) | `cv_entries`, proofs, goroutines | anchor on release, heal on read, submit, upgrade | goroutines without supervision, deletions in between | every entry can be re-verified, released work is anchored, stored proofs are confirmed |
| Refresh tokens (`auth/`) | `refresh_tokens` | issue, rotate, logout, clean up | concurrent redeemers of one token, logout against refresh | single use, one chain of tokens per session, logout is final |
| Rate limiter (`middleware/ratelimit.go`) | a bucket per key | `allow`, `cleanup` | integer rounding, buckets forgotten while in debt | bounded throughput, nobody starves |
| Verification of an entry (`cv/service.go`, `ots/verify.go`) | none; reads the entry, its file, a chain source | `VerifyEntry`, `VerifyProof`, `verifyAgainstChain` | lookups that answer for some blocks and fail for others | no contradicted proof verified, the lowest height reported, an unreachable chain only degrades |
| Trust score (`cv/service.go`) | `trust_score` | recomputed at each read of a CV | the older of two reads is written last | earned, and converges to min(100 + 25 n, 1000) |
| Notifications (`email/service.go`, the services' `notify*`) | a semaphore of 10 | `notifyBoth` | three detectors of one payment; the eleventh is dropped; both mails share 15 s | one mail per change, places come back |
| Accounts (`auth/service.go`) | `users` | register, log in, operator promotion | check-then-insert races, a signup that fails half-way | slugs are unique, everybody gets in |
| Share links, verifications (`deals/service.go`) | `share_token`, `verifications` | rotate, insert | - | - |
| Preimage encryption, webhook signature, auth middleware, handlers, router, configuration, migrations, health, WebSocket stubs | none or start-up only | - | - | - |
| Frontend (`src/frontend`) | tokens in the browser | calls of the API | - | - |

The parts meet in three places. They share the deal row: every service method,
the webhook and the sweep write `status`, most of them with a guard in the WHERE
clause, two of them without. They call LNbits, which answers, refuses, or does
neither and may act later. And a release calls the CV service once the deal is
released; what that hook misses the next read of the CV makes up for.

## 2. Modules

| Module | What it is |
|---|---|
| `DealStatus` | statuses, the transition table, the status sets the services use |
| `DealCreation` | the creation of a deal up to the committed row |
| `Escrow` | one deal row, its hold and payouts, and the requests, webhook and sweep racing over them |
| `DealLife` | `DealCreation` and `Escrow` composed: a deal from its creation to its end |
| `EscrowLedger` | what the escrow promises about money, without database, requests or retries |
| `EscrowRefinement` | the mapping of `Escrow`'s state to the ledger's |
| `LiveCV` | the artifacts of one deal, their files, CV entries, submission goroutines, upgrade worker |
| `DealWork` | `Escrow` and `LiveCV` composed: the money and the deliverables of one deal over its status |
| `Sessions` | refresh-token rotation, logout, expiry and clean-up |
| `SessionChain` | what rotation promises: one chain of tokens per session |
| `RateLimiter` | the bucket of one key, the clock, and an observer counting requests |
| `Verifier` | one public verification of a CV entry and its proof |
| `Users` | signups, logins and the trust score: the `users` table |
| `Notifications` | who announces a change of a deal, and the bounded mailer |
| `EscrowProofs`, `CompositionProofs`, `LiveCVProofs`, `SessionsProofs`, `RateLimiterProofs`, `VerifierProofs`, `UsersProofs`, `NotificationsProofs` | theorems and proofs |
| `MC*` | the instances for TLC that add symmetry or a note on their bounds |

Deals do not interact (each has its own row, preimage and hold), so `Escrow`,
`LiveCV` and `Notifications` follow one deal; keys of the rate limiter do not
either. `DealLife` instantiates `DealCreation` over `Escrow`'s hold: its action
property `EscrowTakesOver` says that the commit of the row is an initial state of
`Escrow` and every later step one of `Escrow`'s, so what holds of `Escrow` holds
of the whole deal. `LiveCV!DealMoves` and `Users!DealsChange` let the status move
as `Escrow!LifecycleHonoured` and its exceptions say the other operations move it.
`DealWork` puts the escrow itself in the place of `DealMoves`, and the theorem
`WorkDeliverables` shows that `LiveCV` assumed nothing the escrow does not keep.

A definition marked "Faulty variant" is a plausible mistake in the code next to
it (a dropped guard, a swapped order). It is not part of any specification: it
shows, by replacing the definition that follows it, that a property notices.

### Escrow and the code

| State | Code |
|---|---|
| `status`, `attempted`, `payoutId`, `payee` | columns `status`, `payout_attempted_at` (set or not), `payout_checking_id`, `payee_invoice` |
| `lock` | the transaction that holds `SELECT ... FOR UPDATE` |
| `hold` | the hold invoice: open, held, settled, cancelled, expired |
| `payment` | outgoing payments, by the invoice they pay. LNbits starts a new attempt at every `PayInvoice`, but one payment hash settles once (`explained.md:916-923`): `Attempt` leaves a live payment as it is |
| `lateSettle`, `lateCancel`, `latePay` | calls whose caller stopped waiting and which LNbits may still act on |
| `aged` | `created_at` is before the sweep's cutoff |
| `pc`, `mem`, `arg` | per running call: its next step, the status it read, the invoice it works with |

A step is what another call cannot interrupt: a statement outside a transaction,
a whole transaction, or one LNbits round trip. `refundDispute` is the exception
the code makes itself: it keeps the row locked across two LNbits calls, and so
does the model. Phase 1 of `releaseEscrow` asks LNbits under the lock too, but
only about a payout whose verdict is final, so one step is enough.

`releaseEscrow` is `BeginRelease` (phase 1), `Settle*`, `Pay*`, `ClearAttempt`
(phase 2) and `Finalize`, `FinalizeAborts` (phase 3). It is entered by
`ApproveDeal`, by `ResolveRelease`, and by `PublicApproveDeal` after its check on
a plain read. `SubmitWork` is a status write like `UpdateStatus`'s
`work_submitted` as far as money goes; `LiveCV` has it with its artifact check.
`Abandon` ends a call anywhere: a cancelled context, a database error, a crash;
a crash of the process is one `Abandon` after another.
Anchoring and e-mails at the end of a release do not touch the row; `LiveCV` and
`Notifications` have them.

What LNbits answers about the hold is two things to the code. `paid`
(`ReportedPaid`) is true from the moment the hold is held on CLN and only once it
is settled on LND (`MONEY_FLOW.md:69-73`); payment detection goes by it, and the
model has the larger set of behaviours. The status *string* decides whether a
failed settle is a success, whether a failed cancel is one, and what the sweep
refunds (`Reports`). What the string of a hold that is merely held is, the
repository does not agree on: `SETTLED` in the table of `explained.md:185-186`,
`HOLD` in `service_test.go:1006`, `UNPAID` in `service_test.go:711-724`. The
constant `HeldReports` is the set of strings LNbits may use for it. The runs take
`{"HOLD", "PENDING"}`, the reading under which the comments of
`settleHoldGuarded` and `cancelEscrowHold` make sense; the theorems say which
strings they need to be excluded, and section 5 what the two others would do.

A checking id is an element of `CheckingIds`: an invoice of `Invoices` for the
payout that pays it, or `OtherPayment` for any payment of the wallet that LNbits
reports paid and that has nothing to do with this deal.

Four constants switch assumptions about the people and the configuration around
the code:

* `CarefulReset`: the operator asks for `reset_payout` only when the row records
  no payout id, no release is between its phases, no other reset is running and
  no `PayInvoice` is still on its way. The code cannot know; it asks the operator
  to look into LNbits' history first. (In every case the operator sees no payout
  of the deal that is routing or paid.)
* `CarefulConfirm`: the operator asks for `confirm_payout` only with the checking
  id of a payout of this deal. The code checks that LNbits reports it paid and
  nothing else (`service.go:751`, `519-531`).
* `ClientPaysBeforeDispute`: nobody funds a deal that is disputed or refunded.
* `SweepWaitsForExpiry`: the sweep's cutoff is the invoice's real lifetime, that
  is, `HOLD_INVOICE_EXPIRY_SECONDS` is set and LNbits honours it.

Run 9 below shows what happens without the first, section 5 without the second.
Without the third a cancel
that fails on an unpaid hold is taken for a refund and the client pays
afterwards (section 5); without the fourth (an expiry of 0 means "LNbits default"
to LNbits and "everything is old enough" to the sweep) the sweep refunds a fresh
deal and the client pays it afterwards. Both break `RefundedMeansReturned`.

### DealCreation, DealLife and the code

`CreateHold`, `InsertRow`, `Commit` are the three legs of `CreateDeal`; their
failures lead to `CancelOrphanHold`, except that of the first, after which nobody
knows whether LNbits has an invoice (`LateHold`). A cancellation is sent and its
answer at most logged, so it is `Escrow`'s late cancel from then on. A commit
error leaves the row present or absent. A client can pay an invoice only once it
has left the backend (`Published`): in the answer, or through the committed row.
This alone is why a hold whose row never came about strands nobody:
`NoStrandedPayment` would hold without `cancelOrphanHold`, which serves to free
LNbits of the invoice and matters to the properties by the harm it could do, to
the hold of a row that did commit (`CreatedStaysPayable`, `DeadInvoiceSwept`). In `DealLife` the
services can reach a row that `CreateDeal` believes lost: they race its clean-up.

### LiveCV and the code

An element of `Artifacts` is one upload, with its random id and storage key.
`used`, `blobs`, `artifacts` and `entry` are the minted keys, the files, the rows
and the CV entries; `submits` holds the goroutines `insertAnchors` starts and
`upgrading` the anchors the worker still has to ask about. Upload, deletion and
anchoring are one step per statement or file operation. The answer of a calendar
and the UPDATE that stores it are one step, as nothing of the goroutine's lies
between. `AnswersLost` lets an INSERT commit although its caller sees an error.

### DealWork and the code

`DealWork` runs `Escrow`'s calls and `LiveCV`'s side by side on one status. A
member of `Workers`, which are the requests outside `MoneyCalls`, serves a call on
the deliverables. `SubmitWork` and `UpdateStatus`
are in both modules, for the row lock and the lost update in one and for the
artifact count in the other; here a worker takes both views of the call in one
step, so each is bound by the guards of the two. `SubmitWork` takes its verdict on
the status it loaded, before it counts the artifacts, as the code does. Anchoring
is not tied to a release: the hook after a release and every read of the CV start
it, at any time, and it finds nothing unless the status says released.

### Sessions and the code

A token stands for its hash; its `jti` is random, so no two are alike. `stored`
is the table and `expired` the clock. `session`, `parent` and `loggedOut` are
history: they record where a token came from and which logouts were answered
with success. A request gets past its first step with a token the server minted
only. `RefreshToken` is four steps (verify, find, delete, issue), as in
the code, and what saves it is that the DELETE finds the row only once.
`SessionChain` is told from the session's side: a session's token is redeemed,
replaced, or gone for good; requests, rows and the clock are not in it.

### RateLimiter and the code

`tokens` and `lastRefill` are the bucket, `known` whether `cleanup` has dropped
it; `allow` is `AllowNew`, `AllowKnown` and `Deny`, each with its refill. Time is
a natural number and the division rounds down as Go's does. An observer starts to
count at a time of its choosing (`Observe`), so `Throttled` speaks of every
stretch of time.

### Verifier and the code

One call of `VerifyEntry`. `HashBlob` recomputes the file's hash; `Replay` is one
round of `VerifyProof`'s loop, the four actions after it one round of
`verifyAgainstChain`'s, and `minHeight`, `best`, `fetchErr` are its variables. An
attested sequence is the height it names and two facts the library computes:
whether it replays to a transaction and a root, and whether that root is the
block's. `fetched` is history: the sequences whose block header was obtained.

### Users and the code

`slug` and `score` are the columns; a person is an e-mail address. All persons
have one display name, since names that differ after `slugify` do not compete.
`Register` is a step per statement (e-mail, base slug, suffixes, INSERT, tokens),
`GetProfile` likewise (row, count, write). `counts` is history: every number of
released deals a person had.

### Notifications and the code

A call reads the status, writes it with or without its guard, and announces the
change if its UPDATE counted one row. `slot` is the semaphore and `next` whom the
goroutine in that place mails next. A mail is taken by the server or not, which
covers the failed lookup, a bad address, and the deadline both mails share.
`changes` and `mails` are history. Money is left out here: a status change is
possible whenever its status check passes, which allows more than `Escrow` does.

## 3. Runs

| # | Run | Instance | What it shows |
|---|---|---|---|
| 1 | `escrow_safety` | 3 calls, 2 payee invoices, symmetry; 826,556 states | `PayoutsExclusive` (no second payout, not of the same invoice either), settlement before payout, released means forwarded, refunded means returned, payouts marked and confirmable, the lifecycle honoured by every guarded write, and the refinement `MoneyMovesOnce` |
| 2 | `deal_life` | 2 calls, 1 invoice; 121,314 states | no stranded payment, created deals stay payable, the hand-over to `Escrow`; every call ends, dead invoices are swept for good |
| 3 | `cv_all` | 2 calls, 2 artifacts; 128,977 states | rows have files, entries can be verified, submissions have entries; released work is anchored, stored proofs are confirmed |
| 4 | `sessions_safety` | 3 calls, 4 tokens, 2 sessions, symmetry; 200,861 states | single use, the refinement `OneChainPerSession`, logout is final |
| 5 | `limiter_safety` | rate 3, window 7, idle 6, horizon 24; 84,332 states | throughput bounded, nobody starves |
| 6 | `users` | 2 persons, 2 calls, 2 suffixes, 2 deals; 59,139 states | slugs unique, scores earned; everybody gets in, scores catch up |
| 7 | `notifications` | 2 calls, 2 places, 3 changes; 865,307 states | one mail per change, a payment announced once; places come back |
| 8 | `verifier` | all proofs of up to 3 sequences at 3 heights; 93,816 states | contradicted proofs fail, the lowest attested height is reported or, after a failed lookup, the lowest confirmed one, an unreachable chain degrades |
| 9 | `escrow_hasty_reset` | `CarefulReset = FALSE` | *violation*: `reset_payout` during a release leads to two payouts |
| 10 | `closed_terminal` | `DealWork`, 1 money call, 1 worker, 1 invoice, 1 artifact | *violation*: a status write decided earlier overwrites `released` or `refunded` |
| 11 | `escrow_share_link` | as 1, 2 calls | *violation*: a share link approves a dispute away |
| 12 | `cv_self_heal` | `AnswersLost = TRUE`, 1 call, 2 artifacts | *violation*: one artifact row without a file keeps the others unanchored for ever |

The violations are disagreements between the code and what its documents or
comments say; `PROJECT.json` quotes the lines under `findings`.

**Bounds.** Three calls are enough for the deepest races of the escrow: two
releases and an operator, or a release, a refund and the sweep; each slot is
reused without limit, so a history has any number of calls. Two payee invoices
are what a double payout needs, since one payment hash settles once;
`PayoutsExclusive` excludes a second attempt at the same invoice as well.
`deal_life` has one invoice: neither the hand-over nor liveness depends on
which invoice is paid. Two
artifacts are the least of which one can be anchored and the other not. A session
that is rotated twice while another one is rotated once needs four tokens; three
redeemers are one more than a race needs. In the rate limiter `Window` is not a
multiple of `Rate`, so that rounding happens, and `Horizon` leaves room for a
dropped bucket and a full window after it. Two persons compete for the plain slug
and for a suffix; with a cap of 140 the second deal reaches it. Two places
are the least of which one can be lost, and the third change is the first that
can find both of them taken. Three sequences
are an early, a late and a contradicting one in any order. The safety results do not depend on
these bounds: they are proved for all instances (section 4).

**Deadlock** is checked for the rate limiter, the users and the mailer. The other
systems may really stop: a closed deal with nothing in flight, a CV with
everything confirmed, a verification answered, and (an artefact of the bound) all
tokens used.

**Fairness.** Escrow: a running call goes on, with strong fairness because it may
wait for the row lock, which Postgres grants to its waiters in turn, and because
the LNbits client gives up after 15 s; time passes; the sweep's ticker fires for
ever; from some point on the sweep's own calls are answered. Other calls may fail
for ever. Live CV: running calls and goroutines (60 s) finish, the worker's
ticker fires, a calendar asked again and again has mined the commitment in the
end, the CV is read again and again, and from some point on anchoring fails only
for a reason in the data (a file or an artifact that is missing). Users: running
calls end; from some point on none fails for want of a database; people try
again, CVs are read again, and of the 2^24 suffixes a free one is drawn in the
end. Mailer: a mail ends within 15 s, sent or not. The client, the freelancer and
the operator owe nothing.

## 4. Proofs

TLAPS checks the following for every number of requests, invoices, artifacts,
tokens, sessions, people, places and sequences, and every rate, window and idle
time allowed by the named assumptions. Those say that the null values are not
members of the sets, that switches are Boolean, that bounds are numbers, that a
base score does not exceed the cap and, for the limiter, that a full bucket's
worth of time fits into the idle time (1 minute and 10 minutes in the code).

| Theorem | Assumes | Says |
|---|---|---|
| `TypeCorrect` (all but `CompositionProofs`) | - | the module's `TypeOK` |
| `EscrowProofs`: `SettleBeforePay` | held is not SETTLED | `PayoutAfterSettle` |
| `NoFreeRelease` | careful confirm, held is not SETTLED | a released deal's hold is settled and a payout was sent |
| `LifecycleSafety`, `ClosedSafety` | - | `LifecycleHonoured`; a closed deal is reopened only by the freelancer's unguarded write, to `work_submitted` or `reviewing` |
| `PayoutSafety`, `PayoutsMarked` | careful reset | `PayoutsExclusive`, `LivePayoutMarked` |
| `ReleaseSafety` | careful reset, careful confirm, held is not SETTLED | `ReleasedMeansForwarded` |
| `LedgerRefinement` | careful reset, held is not SETTLED | `Escrow` implements `EscrowLedger` |
| `RefundSafety`, `HungPayoutsConfirmable` | client pays before a dispute, sweep waits for the expiry, held is neither SETTLED nor UNPAID | `RefundedMeansReturned`, `HungPayoutConfirmable` |
| `CompositionProofs`: `CreationSafety`, `CreatedPayable`, `HandOver` | - | `LifeTypeOK`, `NoStrandedPayment`, `CreatedStaysPayable`, `EscrowTakesOver` |
| `LifePayoutSafety` | careful reset | `PayoutsExclusive` of every committed deal |
| `LifeReleaseSafety` | as `ReleaseSafety` | `ReleasedMeansForwarded` of every committed deal |
| `LifeRefundSafety` | as `RefundSafety` | `RefundedMeansReturned` of every committed deal |
| `LifeLedgerRefinement` | careful reset, held is not SETTLED | the deal, its creation included, implements `EscrowLedger` |
| `WorkMoney`, `WorkDeliverables` | - | `DealWork` implements `Escrow`, and `LiveCV` |
| `CVPaidFor` | careful confirm, held is not SETTLED | `EntriesPaidFor` |
| `WorkersInStep` | - | a worker's call is at the same step in both halves of `DealWork` |
| `LiveCVProofs`: `CVListsRows`, `SubmissionSafety` | - | an entry has its artifact's row; `SubmissionsHaveEntry` |
| `RowsHaveFiles`, `CVSafety` | no INSERT answered wrongly | `NoDanglingReference`, `EntriesVerifiable` |
| `SessionsProofs`: `RotationSafety`, `SessionUniqueness`, `LogoutSafety` | - | `SingleUse`, one redeemable token per session, `LogoutIsFinal` |
| `ChainRefinement` | - | `Sessions` implements `SessionChain` (`OneChainPerSession`) |
| `RateLimiterProofs`: `ThrottleSafety`, `Unstarved` | `Rate * PerToken <= Idle` | `Throttled`, `NeverStarved` |
| `VerifierProofs`: `VerdictSafety`, `LowestSafety`, `DegradeSafety` | - | `NoContradictedProofVerified`, `ReportsLowestBlock`, `UnreachableChainDegrades` |
| `UsersProofs`: `SlugSafety`, `ScoreSafety` | - | `SlugIdentifiesUser`, `ScoreEarned` |
| `NotificationsProofs`: `MailSafety`, `PaymentSafety` | - | `OneMailPerChange`, `PaymentAnnouncedOnce` |

**Escrow.** None of the properties is inductive, and no two of them need the same
of the world, so the invariant comes in layers. "Held is not SETTLED" and "held is
not UNPAID" are `HeldIsNotSettled` and `HeldIsNotUnpaid`, conditions on the constant
`HeldReports`. `Base` needs no assumption. Its parts:
`Locals` ties each call's step to what it remembers; `RowLock` says that the lock belongs to a refund of a
disputed deal; `NoEarlyRelease` that nobody has tried to release before work was
submitted; `Decided` that a dispute and the sweep still hold the verdict they
reached when they come to their guarded write, so that every status write but the
unguarded one follows the table (`LifecycleSafety`), and out of a closed status the
table leads nowhere (`ClosedSafety`). On `Base` rests `SettledFirst`, if a held hold
is not called SETTLED: nothing is paid before the hold is settled and no payout
recorded before it is sent (settled is final, so lost and late answers do no harm).
With an operator who confirms carefully, `OwnPayouts` adds that only payouts of the
deal are named and one was sent before the release, and with both a released deal
was paid for (`NoFreeRelease`). With an operator who resets carefully:
`Tracking`, which says that at most one right to pay is outstanding, be it a
release that has committed its marker, a call to LNbits given up, or a payout
already sent; that the marker is set while it is; and that a reset under way
excludes all of them (`PayoutsExclusive` follows). `Recorded` adds that a
released deal keeps the id of its payout. And with
the assumptions of the refund: `CancelDone` says that a refund's hold is gone once its
cancel is done, `SweepInv` that the sweep acts on holds that can no longer be
funded, and `RefundedReturned` draws the conclusion. Each part is proved one action
at a time.

**LiveCV.** Two layers again. Whatever answers are lost, `Locals` says which keys
a running upload, deletion or anchoring call owns, `EntriesHaveRows` that the
foreign key and its cascade keep entries and rows together, and
`SubmissionsHaveEntry` that goroutines start after the row. If no INSERT is
answered wrongly, `Stored` adds the files: an upload about to insert has its file
and no row, a deletion about to remove the file has no row. With it the order "file
before row, row before file" becomes inductive.

**Sessions.** A request about to issue a successor is the only heir of its
session: its token is redeemed, has no successor and no other token of the
session is stored (`IssuingOK`). From this follow single use and, since a logout
that succeeds removed the last token, that nothing comes after it. For the
refinement a login is the chain's `Begin`, the DELETE that finds its row `Redeem`,
the heir's INSERT `Replace`; every other step that removes rows or gives up an heir
is `End` of the sessions it touches (`ChainEnds`; `OneTokenPerSession` is needed
for a session that loses a row to lose all of them), and the rest stutters
(`ChainStutters`).

**DealLife.** Before the commit the row is untouched and the hold is what the
creation's step says; from the commit on `Escrow`'s invariants hold. The hand-over
is the one step that has to establish the second from the first; it is an initial
state of `Escrow`. In the ledger the sats are the client's until the hold is drawn,
and before the commit the hold is only opened and let go.

**DealWork.** Every step is a step of `Escrow` or leaves its variables alone
(`WorkStepOfEscrow`). On the other side the money calls, seen from `LiveCV`, have
to be steps of `DealMoves`: `Base` supplies the transition table at the moment of
the write and the form of the stale ones (`WorkStepOfCV`). `EntriesPaidFor` does
not survive alone, as a stale write may take `released` back while a call is about
to insert an entry; what is inductive is that the deal was paid for (settled and
sent, which nothing undoes) or nothing was anchored and nobody is about to
(`PaidFor` or `NothingAnchored`). `WorkersInStep` shows that joining the two views
of a call does not tear it apart: whenever `LiveCV`'s half is about to write the
status, `Escrow`'s half is about to write the same one.

**RateLimiter.** `Budget` is the potential argument: what the observer counted
plus what is in the bucket, less the burst, is paid for by time up to the last
refill. `Fed` says that the bucket was refilled no later than a request last
passed. The divisions are handled by three arithmetic lemmas.

**Verifier.** The loop invariants: `minHeight` is the lowest height over the
sequences seen (`MinOver`), in the second loop over those fetched, where `best`
is one of that height; no fetched block contradicts the proof while the loop
runs; and a sequence seen but not fetched has left `fetchErr`. At the end the
sequences seen are all there are.

**Users.** A signup's row and a pending write carry what the properties need: a
score about to be written is the score of a recorded count, and a slug enters the
table only if nobody has it, whatever the lookup said before.

**Notifications.** Every announcement is in one place: with the call that made
the change, in one slot, or done; its mails are counted accordingly. That a
payment is announced once needs that no unguarded write ever goes back to
`awaiting_payment`.

**Model-checked only.** Liveness (fairness is out of the prover's reach) and the
counterexamples. **Proved only.** `EntriesPaidFor` and the other results on
`DealWork`: of the composition TLC is asked for the counterexample of run 10.

## 5. Observations without a run

What the models also show of the code, by reading a single action:

* A payout LNbits accepted may fail to route after the deal was released
  (`Finalize` follows `PayAccepted` at once); nothing looks at it again.
  `ReleasedMeansForwarded` says "sent" for that reason.
* `UploadArtifact` inserts its row after a check that may be old, and
  `DeleteArtifact` never looks at the status, so the deliverables of submitted
  work can still change.
* An anchoring call that lost the race for an entry submits the hash again, and
  the second answer overwrites the first proof. `ProofsConfirmed` shows that the
  proof is confirmed all the same.
* A submission that fails is not retried; its entry stays without a proof.
* A dispute raised during phase 2 of a release, or after a failed attempt, finds
  the hold settled: phase 3 refuses to release it, but the sats are no longer
  "frozen on Lightning network" as `backend/explained.md` section 6 has it.
* `confirm_payout` releases a deal on any checking id that LNbits reports paid
  (`service.go:751-788`): a payout of another deal, an incoming payment, even the
  hold's own. With `CarefulConfirm = FALSE` TLC finds a deal released so with
  nothing settled or sent; every other property of run 1 still holds. The
  comment of `ReconcilePayout` has the operator pass "the real payout_checking_id
  from LNbits history"; nothing compares it with the deal.
* If LNbits calls a held hold `SETTLED`, as the table in `explained.md:185-186`
  does, `settleHoldGuarded` takes a settle that failed for a success and the
  payout runs on sats that are still the client's. With `"SETTLED"` among the
  `HeldReports` TLC breaks `PayoutAfterSettle` in six steps.
* If LNbits calls a held hold `UNPAID`, as the mock of
  `TestApproveDealRefusesPayoutUnlessSettled` does for one "still held", the sweep
  refunds a deal that is funded, and so does a refund whose cancel failed. With
  `"UNPAID"` among the `HeldReports` TLC breaks `RefundedMeansReturned` in five
  steps.
* `Verification.BlockHeight` (`verify.go:32`) and `ots_block_height`
  (`API_REFERENCE.md:680`) are documented as the lowest *attested* height. With a
  chain source it is the lowest *confirmed* one (as the comment of
  `verifyAgainstChain` says), which is higher when the lookup of the lowest block
  failed and another one matched; the answer then shows no sign of the failure.
  `ReportsLowestBlock` asks for the documented height in all other cases.
* `explained.md:638` and `:654` still list `awaiting_payment` -> `disputed`; the
  table in `types.go:219-222`, which the model follows, has dropped it.
* `cancelEscrowHold` takes a cancel error plus status UNPAID as a returned hold.
  An unpaid invoice whose cancel failed can still be paid; `Escrow` excludes it
  by `ClientPaysBeforeDispute`.
* The comment of `cancelOrphanHold` names the hold-expiry sweep as the backstop
  for holds left standing. The sweep sees rows only; such a hold ends by LNbits'
  own invoice expiry.
* `verifyAgainstChain` is said to validate every attested sequence; one whose
  block cannot be fetched is passed over when another one matches
  (`UnreachableChainDegrades`: marked as degraded only when none was fetched).
* `GetEntryForVerify` does not ask whether the deal is released, `ListEntries`
  does: an entry of a deal that was reopened can be verified but not found.
* A signup whose tokens fail is answered with an error, and repeating it with
  "e-mail taken"; logging in is the way on (`EverybodyGetsIn`).
* The rate limiter is a token bucket that starts full: 9 requests fit into the
  first minute of an auth route limited to 5 per minute. `Throttled` states the
  bound that does hold.

## 6. Not modelled

SMTP, templates, HTTP encoding, SQL text, AES-GCM, HMAC and the `.ots` format are
conversions or I/O without a state of their own. Access tokens, the operator gate
and the webhook's signature are checks of one request. Verifications are rows
inserted and read, never changed; the rotation of a share link is one UPDATE of a
column no other write reads; the promotion of operators is one idempotent UPDATE
at start-up. Configuration and migrations run at start-up; the constraints the
services rely on (unique keys, foreign keys, ON DELETE CASCADE) are in the
actions. The frontend is a client of the API and its calls are the requests of
the modules.

## 7. Plan

Done: the money core with its abstract ledger, its compositions with the creation
of a deal and with the deliverables, Live CV, the verifier, sessions with their
abstract chain, users and trust score, notifications, rate limiter; all safety
properties of the runs are proved. Next, in this order:

1. *Proofs*: abstract specifications for the mailer and for the users table, and
   their refinements.
2. *Composition*: `Notifications` under `Escrow`, in place of its own view of the
   status changes.
