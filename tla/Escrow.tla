------------------------------- MODULE Escrow -------------------------------
(***************************************************************************)
(* The money core of the Ganji backend: one deal row in Postgres, its hold *)
(* invoice and its outgoing payouts at LNbits, and the requests, webhook   *)
(* and sweep that race over them (backend/internal/deals/service.go,       *)
(* repository.go, sweep.go, backend/internal/webhook/service.go).          *)
(*                                                                         *)
(* A member of Requests is a slot for one running call of a service        *)
(* method.  Its steps are the points where another call can interleave:    *)
(* every statement outside a transaction, every LNbits round trip, and     *)
(* every transaction as one step unless it keeps the row locked across an  *)
(* LNbits call that can change LNbits (refundDispute).  Phase 1 of         *)
(* releaseEscrow only reads LNbits under the lock, and acts on a verdict   *)
(* (paid, failed) that is final for the payout it asked about, so it is    *)
(* one step.  A plain SELECT never waits; UPDATE and SELECT FOR UPDATE     *)
(* wait for the row lock (`lock`).                                         *)
(***************************************************************************)
EXTENDS DealStatus

CONSTANTS Requests, Invoices, NoRequest, NoInvoice,
          \* A payment LNbits reports paid that is no payout of this deal.
          OtherPayment,
          \* The status strings LNbits may answer for a hold that is held.
          HeldReports,
          \* The operator resets a payout only when nothing can still pay it.
          CarefulReset,
          \* The operator confirms a deal only with a payout made for it.
          CarefulConfirm,
          \* The client does not fund a deal that is disputed or refunded.
          ClientPaysBeforeDispute,
          \* The sweep's lifetime is the invoice's real expiry (configured > 0).
          SweepWaitsForExpiry

ASSUME NullAssumption == /\ NoRequest \notin Requests
                         /\ NoInvoice \notin Invoices
                         /\ OtherPayment \notin Invoices \cup {NoInvoice}
ASSUME SwitchAssumption == {CarefulReset, CarefulConfirm, ClientPaysBeforeDispute,
                            SweepWaitsForExpiry} \subseteq BOOLEAN
ASSUME ReportsAssumption == /\ HeldReports # {}
                            /\ HeldReports \subseteq {"HOLD", "PENDING", "SETTLED", "UNPAID"}

VARIABLES
  status, attempted, payoutId, payee,  \* the deal row
  lock,                                \* who holds SELECT ... FOR UPDATE
  hold, payment,                       \* LNbits: the hold, payouts by invoice
  lateSettle, lateCancel, latePay,     \* calls whose caller may have given up
  aged,                                \* created_at is before the sweep cutoff
  pc, mem, arg                         \* per request: step, status, invoice

row  == <<status, attempted, payoutId, payee>>
net  == <<hold, payment, lateSettle, lateCancel, latePay>>
reqs == <<pc, mem, arg>>
vars == <<row, lock, net, aged, reqs>>

NoStatus == "none"

\* What confirm_payout can name and payout_checking_id can hold.
CheckingIds == Invoices \cup {OtherPayment}

Steps == {"idle", "publicLock", "publicRelease", "settle", "settleErr", "pay",
          "clear", "finalize", "cancel", "cancelErr", "refund", "confirm",
          "reset", "dispute", "setStatus", "setPayee", "lockDeal",
          "sweepCheck", "sweepWrite"}

TypeOK ==
  /\ status \in Status
  /\ attempted \in BOOLEAN
  /\ payoutId \in CheckingIds \cup {NoInvoice}
  /\ payee \in Invoices
  /\ lock \in Requests \cup {NoRequest}
  /\ hold \in {"open", "held", "settled", "cancelled", "expired"}
  /\ payment \in [Invoices -> {"none", "pending", "paid", "failed"}]
  /\ lateSettle \in BOOLEAN
  /\ lateCancel \in BOOLEAN
  /\ latePay \subseteq Invoices
  /\ aged \in BOOLEAN
  /\ pc \in [Requests -> Steps]
  /\ mem \in [Requests -> Status \cup {NoStatus}]
  /\ arg \in [Requests -> CheckingIds \cup {NoInvoice}]

-----------------------------------------------------------------------------
(* Request bookkeeping. *)

Enter(r, step, s, i) == /\ pc'  = [pc  EXCEPT ![r] = step]
                        /\ mem' = [mem EXCEPT ![r] = s]
                        /\ arg' = [arg EXCEPT ![r] = i]

Goto(r, step) == Enter(r, step, mem[r], arg[r])
Done(r)       == Enter(r, "idle", NoStatus, NoInvoice)

\* The row lock is free: an UPDATE or SELECT FOR UPDATE can proceed.
Unlocked == lock = NoRequest

-----------------------------------------------------------------------------
(* What LNbits answers. *)

\* CheckPayment(hold).Paid.  An LND-backed LNbits never reports a held invoice
\* as paid; that backend takes fewer of these steps.
ReportedPaid == hold \in {"held", "settled"}

\* CheckPayment(hold).Details.Status: one of these.
Reports == CASE hold = "open"      -> {"UNPAID", "PENDING"}
             [] hold = "held"      -> HeldReports
             [] hold = "settled"   -> {"SETTLED"}
             [] hold = "cancelled" -> {"CANCELLED"}
             [] hold = "expired"   -> {"EXPIRED"}

\* Faulty variant: anything that is not SETTLED counts as released.
HoldReleasedUnlessSettled(s) == s # "SETTLED"

\* isHoldReleased, and the sweep's switch.
IsHoldReleased(s) == s \in {"UNPAID", "EXPIRED", "CANCELLED"}

\* checkOutgoingPayout never asks which deal, payee or direction a payment has.
PayoutConfirmed(c) == c \in Invoices => payment[c] = "paid"
PayoutFailed(c)    == c \in Invoices /\ payment[c] = "failed"
Live(i)            == payment[i] \in {"pending", "paid"}

-----------------------------------------------------------------------------
(* releaseEscrow, phase 1: lock, authorize, commit the attempt marker.     *)

\* payout_checking_id is set and LNbits confirms it: nothing to pay.
AlreadyPaid == payoutId # NoInvoice /\ PayoutConfirmed(payoutId)

\* Faulty variant: the unconfirmed attempt marker is not consulted.
MayPayIgnoringMarker == payoutId # NoInvoice => PayoutFailed(payoutId)

\* No payout is tracked, or the tracked one is confirmed failed.
MayPay == \/ payoutId = NoInvoice /\ ~attempted
          \/ payoutId # NoInvoice /\ PayoutFailed(payoutId)

\* Faulty variant: the marker is not committed before the money legs.
MarkNothing(r) ==
  /\ MayPay
  /\ payoutId' = NoInvoice
  /\ Enter(r, "settle", status, payee)
  /\ UNCHANGED <<status, attempted, payee>>

MarkAttempt(r) ==
  /\ MayPay
  /\ payoutId' = NoInvoice
  /\ attempted' = TRUE
  /\ Enter(r, "settle", status, payee)
  /\ UNCHANGED <<status, payee>>

ResumeConfirmed(r) ==
  /\ AlreadyPaid
  /\ Enter(r, "finalize", status, payoutId)
  /\ UNCHANGED row

BeginRelease(r) ==
  /\ Unlocked
  /\ CanTransition(status, "released")
  /\ MarkAttempt(r) \/ ResumeConfirmed(r)
  /\ UNCHANGED <<lock, net, aged>>

ApproveDeal(r) == pc[r] = "idle" /\ BeginRelease(r)

ResolveRelease(r) == pc[r] = "idle" /\ status = "disputed" /\ BeginRelease(r)

-----------------------------------------------------------------------------
(* releaseEscrow, phase 2: settle the hold, pay the freelancer, no lock.   *)

SettleOk(r) ==
  /\ pc[r] = "settle"
  /\ hold = "held"
  /\ hold' = "settled"
  /\ Goto(r, "pay")
  /\ UNCHANGED <<row, lock, payment, lateSettle, lateCancel, latePay, aged>>

\* LNbits refuses (not held, already settled), or the reply never comes and
\* the call may still take effect.
SettleFails(r) ==
  /\ pc[r] = "settle"
  /\ lateSettle' \in {lateSettle, TRUE}
  /\ Goto(r, "settleErr")
  /\ UNCHANGED <<row, lock, hold, payment, lateCancel, latePay, aged>>

\* Faulty variant: any settle error is taken for "already settled".
SettleAssumed(r) ==
  /\ pc[r] = "settleErr"
  /\ Goto(r, "pay")
  /\ UNCHANGED <<row, lock, net, aged>>

\* settleHoldGuarded: a settle error is success when LNbits says SETTLED.
SettleConfirmed(r) ==
  /\ pc[r] = "settleErr"
  /\ "SETTLED" \in Reports
  /\ Goto(r, "pay")
  /\ UNCHANGED <<row, lock, net, aged>>

\* The status is not SETTLED, or CheckPayment failed too.
SettleUnconfirmed(r) ==
  /\ pc[r] = "settleErr"
  /\ Goto(r, "clear")
  /\ UNCHANGED <<row, lock, net, aged>>

\* LNbits starts another attempt whenever it is asked; one payment hash settles
\* once, so an invoice that is routing or paid stays what it is.
Attempt(i) == payment' = IF Live(i) THEN payment ELSE [payment EXCEPT ![i] = "pending"]

\* 2xx: LNbits took the payment; it is routing.
PayAccepted(r) ==
  /\ pc[r] = "pay"
  /\ Attempt(arg[r])
  /\ Goto(r, "finalize")
  /\ UNCHANGED <<row, lock, hold, lateSettle, lateCancel, latePay, aged>>

\* 4xx, ErrPayoutRefused: provably not sent.
PayRefused(r) ==
  /\ pc[r] = "pay"
  /\ Goto(r, "clear")
  /\ UNCHANGED <<row, lock, net, aged>>

\* Faulty variant: a timeout is treated like a refusal and clears the marker.
PayAmbiguousCleared(r) ==
  /\ pc[r] = "pay"
  /\ latePay' \in {latePay, latePay \cup {arg[r]}}
  /\ Goto(r, "clear")
  /\ UNCHANGED <<row, lock, hold, payment, lateSettle, lateCancel, aged>>

\* 5xx or timeout: the marker stays, and LNbits may still act on the call.
PayAmbiguous(r) ==
  /\ pc[r] = "pay"
  /\ latePay' \in {latePay, latePay \cup {arg[r]}}
  /\ Done(r)
  /\ UNCHANGED <<row, lock, hold, payment, lateSettle, lateCancel, aged>>

\* clearPayoutAttempt: an autocommit UPDATE of both tracking columns.
ClearPayoutTracking == payoutId' = NoInvoice /\ attempted' = FALSE

ClearAttempt(r) ==
  /\ pc[r] = "clear"
  /\ Unlocked
  /\ ClearPayoutTracking
  /\ Done(r)
  /\ UNCHANGED <<status, payee, lock, net, aged>>

-----------------------------------------------------------------------------
(* releaseEscrow, phase 3: re-lock, re-validate, record, release.          *)

\* mem[r] is originalStatus, the status phase 1 read.
MayFinalize(r) == /\ ~(mem[r] # "disputed" /\ status = "disputed")
                  /\ CanTransition(status, "released")

\* Faulty variant: the payout's checking id is not recorded with the release.
FinalizeUnrecorded(r) ==
  /\ pc[r] = "finalize"
  /\ Unlocked
  /\ MayFinalize(r)
  /\ status' = "released"
  /\ Done(r)
  /\ UNCHANGED <<attempted, payoutId, payee, lock, net, aged>>

Finalize(r) ==
  /\ pc[r] = "finalize"
  /\ Unlocked
  /\ MayFinalize(r)
  /\ payoutId' = IF payoutId = NoInvoice THEN arg[r] ELSE payoutId
  /\ status' = "released"
  /\ Done(r)
  /\ UNCHANGED <<attempted, payee, lock, net, aged>>

FinalizeAborts(r) ==
  /\ pc[r] = "finalize"
  /\ Unlocked
  /\ ~MayFinalize(r)
  /\ Done(r)
  /\ UNCHANGED <<row, lock, net, aged>>

-----------------------------------------------------------------------------
(* PublicApproveDeal: a pre-check on a plain read, then releaseEscrow.     *)

PublicApproveDeal(r) ==
  /\ pc[r] = "idle"
  /\ \/ status = "awaiting_payment" /\ ReportedPaid /\ Goto(r, "publicLock")
     \/ status \in {"locked", "work_submitted"} /\ Goto(r, "publicRelease")
  /\ UNCHANGED <<row, lock, net, aged>>

\* Faulty variant: the UPDATE has no `AND status = expected`.
UpdateStatusAlways(expected, new) == Unlocked /\ status' = new

\* UpdateStatusIfCurrent(expected -> new): the UPDATE's WHERE sees the latest row.
UpdateStatusIfCurrent(expected, new) ==
  /\ Unlocked
  /\ status' = IF status = expected THEN new ELSE status

PublicLock(r) ==
  /\ pc[r] = "publicLock"
  /\ UpdateStatusIfCurrent("awaiting_payment", "locked")
  /\ IF status = "awaiting_payment" THEN Goto(r, "publicRelease") ELSE Done(r)
  /\ UNCHANGED <<attempted, payoutId, payee, lock, net, aged>>

PublicRelease(r) == pc[r] = "publicRelease" /\ BeginRelease(r)

\* authorize fails, or an earlier payout is unconfirmed (ErrPayoutInFlight).
PublicRefused(r) ==
  /\ pc[r] = "publicRelease"
  /\ Unlocked
  /\ ~(CanTransition(status, "released") /\ (MayPay \/ AlreadyPaid))
  /\ Done(r)
  /\ UNCHANGED <<row, lock, net, aged>>

-----------------------------------------------------------------------------
(* refundDispute: one transaction that keeps the row locked over the cancel. *)

RefundDispute(r) ==
  /\ pc[r] = "idle"
  /\ Unlocked
  /\ status = "disputed"
  /\ lock' = r
  /\ Goto(r, "cancel")
  /\ UNCHANGED <<row, net, aged>>

CancelOk(r) ==
  /\ pc[r] = "cancel"
  /\ hold \in {"open", "held"}
  /\ hold' = "cancelled"
  /\ Goto(r, "refund")
  /\ UNCHANGED <<row, lock, payment, lateSettle, lateCancel, latePay, aged>>

CancelFails(r) ==
  /\ pc[r] = "cancel"
  /\ lateCancel' \in {lateCancel, TRUE}
  /\ Goto(r, "cancelErr")
  /\ UNCHANGED <<row, lock, hold, payment, lateSettle, latePay, aged>>

\* cancelEscrowHold: a cancel error is success when the hold is already gone.
CancelConfirmed(r) ==
  /\ pc[r] = "cancelErr"
  /\ \E s \in Reports : IsHoldReleased(s)
  /\ Goto(r, "refund")
  /\ UNCHANGED <<row, lock, net, aged>>

\* Faulty variant: the early return forgets to roll the transaction back.
CancelKeepsLock(r) ==
  /\ pc[r] = "cancelErr"
  /\ Done(r)
  /\ UNCHANGED <<row, lock, net, aged>>

\* Still committed, or CheckPayment failed too: roll back, the deal stays disputed.
CancelUnconfirmed(r) ==
  /\ pc[r] = "cancelErr"
  /\ lock' = NoRequest
  /\ Done(r)
  /\ UNCHANGED <<row, net, aged>>

RecordRefund(r) ==
  /\ pc[r] = "refund"
  /\ status' = "refunded"
  /\ lock' = NoRequest
  /\ Done(r)
  /\ UNCHANGED <<attempted, payoutId, payee, net, aged>>

-----------------------------------------------------------------------------
(* ReconcilePayout: the operator's two rescues of a hung payout.           *)

\* confirm_payout: LNbits must report the named payment paid.  Nothing ties it
\* to the deal but the operator's care.
ConfirmPayout(r, c) ==
  /\ pc[r] = "idle"
  /\ PayoutConfirmed(c)
  /\ CarefulConfirm => c \in Invoices
  /\ Enter(r, "confirm", NoStatus, c)
  /\ UNCHANGED <<row, lock, net, aged>>

ConfirmRelease(r) ==
  /\ pc[r] = "confirm"
  /\ Unlocked
  /\ IF CanTransition(status, "released")
       THEN payoutId' = arg[r] /\ status' = "released"
       ELSE UNCHANGED <<payoutId, status>>
  /\ Done(r)
  /\ UNCHANGED <<attempted, payee, lock, net, aged>>

\* A request between committing the marker and its last write of the row.
Releasing == {"settle", "settleErr", "pay", "clear", "finalize"}

\* What the operator finds in LNbits history before asking for a reset.  A
\* careful one also makes sure that nothing is still on its way.
OperatorSeesNoPayout ==
  /\ \A i \in Invoices : ~Live(i)
  /\ CarefulReset => /\ payoutId = NoInvoice
                     /\ latePay = {}
                     /\ \A q \in Requests : pc[q] \notin Releasing \cup {"reset"}

\* reset_payout: checks on a plain read ...
ResetPayout(r) ==
  /\ pc[r] = "idle"
  /\ status \notin Closed
  /\ payoutId # NoInvoice \/ attempted
  /\ OperatorSeesNoPayout
  /\ Goto(r, "reset")
  /\ UNCHANGED <<row, lock, net, aged>>

\* ... then an unconditional UPDATE.
ResetTracking(r) ==
  /\ pc[r] = "reset"
  /\ Unlocked
  /\ ClearPayoutTracking
  /\ Done(r)
  /\ UNCHANGED <<status, payee, lock, net, aged>>

-----------------------------------------------------------------------------
(* DisputeDeal: checked read, then a write guarded by the status read.     *)

DisputeDeal(r) ==
  /\ pc[r] = "idle"
  /\ CanTransition(status, "disputed")
  /\ Enter(r, "dispute", status, NoInvoice)
  /\ UNCHANGED <<row, lock, net, aged>>

RaiseDispute(r) ==
  /\ pc[r] = "dispute"
  /\ UpdateStatusIfCurrent(mem[r], "disputed")
  /\ Done(r)
  /\ UNCHANGED <<attempted, payoutId, payee, lock, net, aged>>

(* SubmitWork and UpdateStatus: checked read, then an unguarded write.     *)

UpdateStatus(r, new) ==
  /\ pc[r] = "idle"
  /\ new \notin BackendOnly
  /\ CanTransition(status, new)
  /\ Enter(r, "setStatus", new, NoInvoice)
  /\ UNCHANGED <<row, lock, net, aged>>

WriteStatus(r) ==
  /\ pc[r] = "setStatus"
  /\ Unlocked
  /\ status' = mem[r]
  /\ Done(r)
  /\ UNCHANGED <<attempted, payoutId, payee, lock, net, aged>>

(* UpdatePayeeInvoice: checked read, then an unguarded write.              *)

\* Faulty variant: an empty invoice is accepted.
UpdatePayeeUnchecked(r, i) ==
  /\ pc[r] = "idle"
  /\ status \notin Closed
  /\ Enter(r, "setPayee", NoStatus, NoInvoice)
  /\ UNCHANGED <<row, lock, net, aged>>

UpdatePayeeInvoice(r, i) ==
  /\ pc[r] = "idle"
  /\ status \notin Closed
  /\ i # payee
  /\ Enter(r, "setPayee", NoStatus, i)
  /\ UNCHANGED <<row, lock, net, aged>>

WritePayee(r) ==
  /\ pc[r] = "setPayee"
  /\ Unlocked
  /\ payee' = arg[r]
  /\ Done(r)
  /\ UNCHANGED <<status, attempted, payoutId, lock, net, aged>>

-----------------------------------------------------------------------------
(* Payment detection: webhook, freelancer poll, public page.               *)

DetectPayment(r) ==
  /\ pc[r] = "idle"
  /\ ReportedPaid
  /\ Goto(r, "lockDeal")
  /\ UNCHANGED <<row, lock, net, aged>>

LockDeal(r) ==
  /\ pc[r] = "lockDeal"
  /\ UpdateStatusIfCurrent("awaiting_payment", "locked")
  /\ Done(r)
  /\ UNCHANGED <<attempted, payoutId, payee, lock, net, aged>>

(* SweepExpiredHolds: list, ask LNbits, then a guarded write.              *)

\* One background goroutine sweeps.
SweepList(r) ==
  /\ pc[r] = "idle"
  /\ \A q \in Requests : pc[q] \notin {"sweepCheck", "sweepWrite"}
  /\ aged
  /\ status \in OpenStatus
  /\ Enter(r, "sweepCheck", status, NoInvoice)
  /\ UNCHANGED <<row, lock, net, aged>>

SweepCheck(r) ==
  /\ pc[r] = "sweepCheck"
  /\ \E s \in Reports : IF IsHoldReleased(s) THEN Goto(r, "sweepWrite") ELSE Done(r)
  /\ UNCHANGED <<row, lock, net, aged>>

SweepRefund(r) ==
  /\ pc[r] = "sweepWrite"
  /\ UpdateStatusIfCurrent(mem[r], "refunded")
  /\ Done(r)
  /\ UNCHANGED <<attempted, payoutId, payee, lock, net, aged>>

-----------------------------------------------------------------------------
(* Failure of a request: context cancelled, database error, crash of the   *)
(* process (every request at once is one Abandon after another).           *)

Abandon(r) ==
  /\ pc[r] # "idle"
  /\ lock' = IF lock = r THEN NoRequest ELSE lock
  /\ Done(r)
  /\ UNCHANGED <<row, net, aged>>

-----------------------------------------------------------------------------
(* The Lightning network, the client, and time (external to the backend).  *)

ClientPays ==
  /\ hold = "open"
  /\ ClientPaysBeforeDispute => status \notin {"disputed", "refunded"}
  /\ hold' = "held"
  /\ UNCHANGED <<row, lock, payment, lateSettle, lateCancel, latePay, aged, reqs>>

\* The invoice expires unpaid, or the held payment times out and returns.
HoldExpires ==
  /\ hold \in {"open", "held"}
  /\ hold' = "expired"
  /\ UNCHANGED <<row, lock, payment, lateSettle, lateCancel, latePay, aged, reqs>>

DealAges ==
  /\ ~aged
  /\ SweepWaitsForExpiry => hold # "open"
  /\ aged' = TRUE
  /\ UNCHANGED <<row, lock, net, reqs>>

PayoutLands(i) ==
  /\ payment[i] = "pending"
  /\ payment' = [payment EXCEPT ![i] = "paid"]
  /\ UNCHANGED <<row, lock, hold, lateSettle, lateCancel, latePay, aged, reqs>>

PayoutFails(i) ==
  /\ payment[i] = "pending"
  /\ payment' = [payment EXCEPT ![i] = "failed"]
  /\ UNCHANGED <<row, lock, hold, lateSettle, lateCancel, latePay, aged, reqs>>

\* A call whose caller has given up reaches LNbits after all.
LateSettle ==
  /\ lateSettle
  /\ lateSettle' = FALSE
  /\ hold' = IF hold = "held" THEN "settled" ELSE hold
  /\ UNCHANGED <<row, lock, payment, lateCancel, latePay, aged, reqs>>

LateCancel ==
  /\ lateCancel
  /\ lateCancel' = FALSE
  /\ hold' = IF hold \in {"open", "held"} THEN "cancelled" ELSE hold
  /\ UNCHANGED <<row, lock, payment, lateSettle, latePay, aged, reqs>>

LatePay(i) ==
  /\ i \in latePay
  /\ latePay' = latePay \ {i}
  /\ Attempt(i)
  /\ UNCHANGED <<row, lock, hold, lateSettle, lateCancel, aged, reqs>>

-----------------------------------------------------------------------------
\* The row CreateDeal inserts, which nobody has touched.
FreshRow ==
  /\ status = "awaiting_payment"
  /\ attempted = FALSE
  /\ payoutId = NoInvoice
  /\ payee \in Invoices
  /\ lock = NoRequest
  /\ payment = [i \in Invoices |-> "none"]
  /\ lateSettle = FALSE
  /\ latePay = {}
  /\ aged = FALSE
  /\ pc = [r \in Requests |-> "idle"]
  /\ mem = [r \in Requests |-> NoStatus]
  /\ arg = [r \in Requests |-> NoInvoice]

\* CreateDeal has committed the row of a hold invoice.  If the commit's answer
\* was lost, cancelOrphanHold is on its way for this live row.
Init == FreshRow /\ hold = "open" /\ lateCancel \in BOOLEAN

ReleaseStep(r) ==
  \/ ApproveDeal(r) \/ ResolveRelease(r)
  \/ PublicApproveDeal(r) \/ PublicLock(r) \/ PublicRelease(r) \/ PublicRefused(r)
  \/ SettleOk(r) \/ SettleFails(r) \/ SettleConfirmed(r) \/ SettleUnconfirmed(r)
  \/ PayAccepted(r) \/ PayRefused(r) \/ PayAmbiguous(r)
  \/ ClearAttempt(r) \/ Finalize(r) \/ FinalizeAborts(r)

RefundStep(r) ==
  \/ RefundDispute(r) \/ CancelOk(r) \/ CancelFails(r)
  \/ CancelConfirmed(r) \/ CancelUnconfirmed(r) \/ RecordRefund(r)

ReconcileStep(r) ==
  \/ \E c \in CheckingIds : ConfirmPayout(r, c)
  \/ ConfirmRelease(r) \/ ResetPayout(r) \/ ResetTracking(r)

StatusStep(r) ==
  \/ DisputeDeal(r) \/ RaiseDispute(r)
  \/ \E new \in Status : UpdateStatus(r, new)
  \/ WriteStatus(r)
  \/ \E i \in Invoices : UpdatePayeeInvoice(r, i)
  \/ WritePayee(r)
  \/ DetectPayment(r) \/ LockDeal(r)
  \/ SweepList(r) \/ SweepCheck(r) \/ SweepRefund(r)

RequestStep(r) ==
  ReleaseStep(r) \/ RefundStep(r) \/ ReconcileStep(r) \/ StatusStep(r) \/ Abandon(r)

NetworkStep ==
  \/ ClientPays \/ HoldExpires \/ DealAges
  \/ \E i \in Invoices : PayoutLands(i) \/ PayoutFails(i) \/ LatePay(i)
  \/ LateSettle \/ LateCancel

Next == (\E r \in Requests : RequestStep(r)) \/ NetworkStep

Spec == Init /\ [][Next]_vars
-----------------------------------------------------------------------------
(* Fairness.  A running call keeps going: the HTTP client of the LNbits    *)
(* calls has a 15 s timeout and Postgres grants a row lock to its waiters  *)
(* in turn, hence strong fairness.  Time passes, the sweep's ticker fires  *)
(* for ever, and from some point on LNbits and the database answer the     *)
(* sweep; other calls may go on failing for ever.                          *)

Advance(r) == /\ pc[r] # "idle"
              /\ ReleaseStep(r) \/ RefundStep(r) \/ ReconcileStep(r) \/ StatusStep(r)

\* The sweep stops before its next step (one with an effect of its own).
SweepFails == \E r \in Requests : /\ pc[r] \in {"sweepCheck", "sweepWrite"}
                                  /\ Abandon(r)
                                  /\ ~SweepCheck(r)
                                  /\ ~SweepRefund(r)

Fairness ==
  /\ \A r \in Requests : SF_vars(Advance(r))
  /\ WF_vars(DealAges)
  /\ SF_vars(\E r \in Requests : SweepList(r))
  /\ <>[][~SweepFails]_vars

FairSpec == Spec /\ Fairness

-----------------------------------------------------------------------------
(* Safety.                                                                 *)

\* releaseEscrow, retries and reconciliation included, never have two payouts
\* to the freelancer routing or arrived at once, whichever payee invoice each
\* attempt used (explained.md section 3: "never a second payout without proof").
NoDoublePayout == \A i, j \in Invoices : Live(i) /\ Live(j) => i = j

\* NoDoublePayout, and no second attempt at the same invoice either: while a
\* payout is routing or has arrived, no release is about to call PayInvoice and
\* no such call is still on its way (LNbits has no idempotency key, explained.md
\* section 23: "Dedup must therefore live in Ganji").
PayoutsExclusive ==
  /\ NoDoublePayout
  /\ (\E i \in Invoices : Live(i)) => latePay = {} /\ \A r \in Requests : pc[r] # "pay"

\* A released deal's hold was settled and its recorded payout was sent: no
\* interleaving of approve, reconcile, reset and stale writes reaches
\* `released` without the money legs, or loses the payout's id.
ReleasedMeansForwarded ==
  status = "released" => /\ hold = "settled"
                         /\ payoutId \in Invoices
                         /\ payment[payoutId] # "none"

\* A refunded deal's sats are with the client: the hold is neither held nor
\* settled and nothing was paid out, whether refundDispute or the sweep wrote it
\* and whatever release was in flight.
RefundedMeansReturned ==
  status = "refunded" => /\ hold \notin {"held", "settled"}
                         /\ \A i \in Invoices : ~Live(i)

\* PayInvoice is only ever called on a settled hold (settleHoldGuarded), also
\* when the settle's answer was lost, late or an error.
PayoutAfterSettle ==
  \/ \E r \in Requests : pc[r] = "pay"
  \/ latePay # {}
  \/ \E i \in Invoices : payment[i] # "none"
  => hold = "settled"

\* Money that moved or may still move leaves a durable trace: the row carries
\* payout_attempted_at, so no later release pays blindly.
LivePayoutMarked ==
  (\E i \in Invoices : Live(i) \/ i \in latePay) => attempted

\* A payout that is out is never stranded: the deal is released, or in a status
\* from which the operator's confirm_payout can release it.
HungPayoutConfirmable ==
  (\E i \in Invoices : Live(i)) =>
    status = "released" \/ CanTransition(status, "released")

\* Every status change follows the transition table at the moment it is written,
\* however old the status it was decided on, except the sweep's refund of any
\* open deal and the unguarded write of UpdateStatus and SubmitWork.
LifecycleHonoured ==
  [][\/ status' = status
     \/ CanTransition(status, status')
     \/ status \in OpenStatus /\ status' = "refunded"
     \/ \E r \in Requests : WriteStatus(r)]_vars

(* Liveness.                                                               *)

\* Every running call ends: none waits for ever for the row lock that
\* refundDispute keeps across its LNbits calls.
RequestsFinish == \A r \in Requests : pc[r] # "idle" ~> pc[r] = "idle"

(* What comments and documents say of the program and the code does not do. *)

\* types.go: released and refunded are terminal, with no transitions out.
ClosedIsTerminal == [][(status \in Closed) => (status' = status)]_status

\* API_REFERENCE.md: a share link never approves out of `disputed`.
ShareLinkRespectsDispute ==
  [][\A r \in Requests :
       PublicRelease(r) => status # "disputed"]_vars
=============================================================================
