---------------------------- MODULE Notifications ---------------------------
(***************************************************************************)
(* Who is told about a deal, and how often: the calls of the notifier in   *)
(* backend/internal/deals/service.go and backend/internal/webhook/service.go*)
(* and the bounded, best-effort mailer of backend/internal/email/service.go. *)
(*                                                                         *)
(* One deal.  A member of Requests is a slot for one running service call, *)
(* a member of Slots one of the ten places in the mailer's semaphore.      *)
(* changes lists the announced changes of the deal's status, and an        *)
(* announcement is its index there; changes and mails are what the         *)
(* properties speak of, the code keeps no record of either.  Money is left *)
(* to Escrow: here a write is possible whenever its status check is.       *)
(***************************************************************************)
EXTENDS DealStatus, Integers, Sequences

CONSTANTS Requests, Slots,
          MaxChanges   \* bound on the announced changes

ASSUME ChangesAssumption == MaxChanges \in Nat \ {0}

\* PaymentLocked, DealDisputed, DealReleased, DealRefunded.
Events == {"locked", "disputed", "released", "refunded"}

Recipients == {"freelancer", "client"}
Nobody     == "nobody"

Announcements == 1..MaxChanges
Nothing       == 0

VARIABLES
  status,         \* the deal's status
  changes,        \* the announced statuses the deal was changed to, in order
  pc, mem, to, ann,  \* per request: step, status read, new status, announcement
  slot, next,     \* per slot: what its goroutine announces, whom it mails next
  mails           \* mails handed to the SMTP server

reqs == <<pc, mem, to, ann>>
mailer == <<slot, next, mails>>
vars == <<status, changes, reqs, mailer>>

NoStatus == "none"

TypeOK ==
  /\ status \in Status
  /\ changes \in Seq(Events)
  /\ Len(changes) <= MaxChanges
  /\ pc \in [Requests -> {"idle", "write", "setStatus", "notify"}]
  /\ mem \in [Requests -> Status \cup {NoStatus}]
  /\ to \in [Requests -> Status \cup {NoStatus}]
  /\ ann \in [Requests -> Announcements \cup {Nothing}]
  /\ slot \in [Slots -> Announcements \cup {Nothing}]
  /\ next \in [Slots -> Recipients \cup {Nobody}]
  /\ mails \in [Recipients \X Announcements -> Nat]

Enter(r, step, s, new, a) == /\ pc'  = [pc  EXCEPT ![r] = step]
                             /\ mem' = [mem EXCEPT ![r] = s]
                             /\ to'  = [to  EXCEPT ![r] = new]
                             /\ ann' = [ann EXCEPT ![r] = a]

Done(r) == Enter(r, "idle", NoStatus, NoStatus, Nothing)

\* The write of e changed the row, and its caller goes on to announce it.
Changed(r, e) ==
  /\ Len(changes) < MaxChanges
  /\ status' = e
  /\ changes' = Append(changes, e)
  /\ Enter(r, "notify", NoStatus, NoStatus, Len(changes) + 1)

-----------------------------------------------------------------------------
(* Calls that decide on a plain read and write with UpdateStatusIfCurrent. *)

\* Faulty variant: LNbits' word is written as the deal's status.
DetectPaymentPaid(r) ==
  /\ pc[r] = "idle"
  /\ Enter(r, "write", "awaiting_payment", "paid", Nothing)
  /\ UNCHANGED <<status, changes, mailer>>

\* Webhook, freelancer poll, public page: the hold is reported paid.
DetectPayment(r) ==
  /\ pc[r] = "idle"
  /\ Enter(r, "write", "awaiting_payment", "locked", Nothing)
  /\ UNCHANGED <<status, changes, mailer>>

DisputeDeal(r) ==
  /\ pc[r] = "idle"
  /\ CanTransition(status, "disputed")
  /\ Enter(r, "write", status, "disputed", Nothing)
  /\ UNCHANGED <<status, changes, mailer>>

SweepExpired(r) ==
  /\ pc[r] = "idle"
  /\ status \in OpenStatus
  /\ Enter(r, "write", status, "refunded", Nothing)
  /\ UNCHANGED <<status, changes, mailer>>

\* Faulty variant: the UPDATE has no `AND status = expected`.
WriteAlways(r) ==
  /\ pc[r] = "write"
  /\ Changed(r, to[r])
  /\ UNCHANGED mailer

\* Faulty variant: the notifier is called whatever the UPDATE's row count was.
WriteAnnounceAnyway(r) ==
  /\ pc[r] = "write"
  /\ IF status = mem[r] THEN Changed(r, to[r])
     ELSE /\ changes # <<>>
          /\ Enter(r, "notify", NoStatus, NoStatus, Len(changes))
          /\ UNCHANGED <<status, changes>>
  /\ UNCHANGED mailer

WriteIfCurrent(r) ==
  /\ pc[r] = "write"
  /\ \/ status = mem[r] /\ Changed(r, to[r])
     \/ status # mem[r] /\ Done(r) /\ UNCHANGED <<status, changes>>
  /\ UNCHANGED mailer

(* Calls that check and write under the row lock.                          *)

\* The last phase of releaseEscrow, and confirm_payout.
Release(r) ==
  /\ pc[r] = "idle"
  /\ CanTransition(status, "released")
  /\ Changed(r, "released")
  /\ UNCHANGED mailer

RefundDispute(r) ==
  /\ pc[r] = "idle"
  /\ status = "disputed"
  /\ Changed(r, "refunded")
  /\ UNCHANGED mailer

(* SubmitWork and UpdateStatus: an unguarded write that nobody announces.  *)

UpdateStatus(r, new) ==
  /\ pc[r] = "idle"
  /\ new \notin BackendOnly
  /\ CanTransition(status, new)
  /\ Enter(r, "setStatus", NoStatus, new, Nothing)
  /\ UNCHANGED <<status, changes, mailer>>

WriteStatus(r) ==
  /\ pc[r] = "setStatus"
  /\ status' = to[r]
  /\ Done(r)
  /\ UNCHANGED <<changes, mailer>>

-----------------------------------------------------------------------------
(* notifyBoth.                                                             *)

Free(s) == slot[s] = Nothing

Notify(r, s) ==
  /\ pc[r] = "notify"
  /\ Free(s)
  /\ slot' = [slot EXCEPT ![s] = ann[r]]
  /\ next' = [next EXCEPT ![s] = "freelancer"]
  /\ Done(r)
  /\ UNCHANGED <<status, changes, mails>>

\* "notification queue full, skipping".
NotifyDropped(r) ==
  /\ pc[r] = "notify"
  /\ \A s \in Slots : ~Free(s)
  /\ Done(r)
  /\ UNCHANGED <<status, changes, mailer>>

\* The server takes the mail, or nothing is sent: lookup or address failed, no
\* connection, the 15 s both mails share are over.  A mail taken just before the
\* deadline is reported as an error and not sent again.
Mail(s) == mails' \in {mails, [mails EXCEPT ![<<next[s], slot[s]>>] = @ + 1]}

\* Faulty variant: a failed lookup of the freelancer returns and keeps its slot.
MailFreelancerLeaks(s) ==
  /\ ~Free(s)
  /\ next[s] = "freelancer"
  /\ Mail(s)
  /\ next' = [next EXCEPT ![s] = IF mails' = mails THEN Nobody ELSE "client"]
  /\ UNCHANGED <<status, changes, reqs, slot>>

MailFreelancer(s) ==
  /\ ~Free(s)
  /\ next[s] = "freelancer"
  /\ Mail(s)
  /\ next' = [next EXCEPT ![s] = "client"]
  /\ UNCHANGED <<status, changes, reqs, slot>>

MailClient(s) ==
  /\ ~Free(s)
  /\ next[s] = "client"
  /\ Mail(s)
  /\ slot' = [slot EXCEPT ![s] = Nothing]
  /\ next' = [next EXCEPT ![s] = Nobody]
  /\ UNCHANGED <<status, changes, reqs>>

-----------------------------------------------------------------------------
\* A call ends early: context cancelled, database error, a commit whose answer
\* is lost, after which the change stays unannounced.
Abandon(r) ==
  /\ pc[r] # "idle"
  /\ Done(r)
  /\ UNCHANGED <<status, changes, mailer>>

\* The process dies, with every call and every goroutine.
Crash ==
  /\ \E s \in Slots : ~Free(s)
  /\ pc'  = [r \in Requests |-> "idle"]
  /\ mem' = [r \in Requests |-> NoStatus]
  /\ to'  = [r \in Requests |-> NoStatus]
  /\ ann' = [r \in Requests |-> Nothing]
  /\ slot' = [s \in Slots |-> Nothing]
  /\ next' = [s \in Slots |-> Nobody]
  /\ UNCHANGED <<status, changes, mails>>

Init ==
  /\ status = "awaiting_payment"
  /\ changes = <<>>
  /\ pc = [r \in Requests |-> "idle"]
  /\ mem = [r \in Requests |-> NoStatus]
  /\ to = [r \in Requests |-> NoStatus]
  /\ ann = [r \in Requests |-> Nothing]
  /\ slot = [s \in Slots |-> Nothing]
  /\ next = [s \in Slots |-> Nobody]
  /\ mails = [m \in Recipients \X Announcements |-> 0]

ServiceStep(r) ==
  \/ DetectPayment(r) \/ DisputeDeal(r) \/ SweepExpired(r) \/ WriteIfCurrent(r)
  \/ Release(r) \/ RefundDispute(r)
  \/ \E new \in Status : UpdateStatus(r, new)
  \/ WriteStatus(r)

NotifyStep(r) == (\E s \in Slots : Notify(r, s)) \/ NotifyDropped(r)

MailerStep(s) == MailFreelancer(s) \/ MailClient(s)

Next ==
  \/ \E r \in Requests : ServiceStep(r) \/ NotifyStep(r) \/ Abandon(r)
  \/ \E s \in Slots : MailerStep(s)
  \/ Crash

\* Every mail ends within the goroutine's 15 s, one way or the other.
Fairness == \A s \in Slots : WF_vars(MailerStep(s))

Spec == Init /\ [][Next]_vars /\ Fairness

-----------------------------------------------------------------------------
(* Safety.                                                                 *)

\* Nobody is mailed twice about one change of the deal, or about one that did
\* not happen: webhook, poll, public page and sweep may all see the same payment
\* or expiry, and only the call whose UPDATE changed the row announces it.
OneMailPerChange ==
  \A w \in Recipients, a \in Announcements :
    mails[<<w, a>>] <= (IF a <= Len(changes) THEN 1 ELSE 0)

\* A deal is locked, and its payment announced, at most once, however often the
\* payment is reported and whatever stale status is written in between
\* (explained.md section 21: "First durable deal -> locked transition").
PaymentAnnouncedOnce ==
  \A m, n \in DOMAIN changes : changes[m] = "locked" /\ changes[n] = "locked" => m = n

(* Liveness.                                                               *)

\* Every notification taken on ends and gives its place back, so a burst that
\* filled the queue never silences later notifications for good.
SlotsReturn == \A s \in Slots : ~Free(s) ~> Free(s)
=============================================================================
