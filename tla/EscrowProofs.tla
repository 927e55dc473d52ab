---------------------------- MODULE EscrowProofs ----------------------------
(***************************************************************************)
(* Theorems about Escrow, for any number of concurrent requests and payee  *)
(* invoices.                                                               *)
(***************************************************************************)
EXTENDS EscrowRefinement, TLAPS

-----------------------------------------------------------------------------
(* How LNbits reports a held hold: what some of the theorems assume.       *)

\* A hold that is merely held is not reported SETTLED ...
HeldIsNotSettled == "SETTLED" \notin HeldReports

\* ... and not reported UNPAID.
HeldIsNotUnpaid == "UNPAID" \notin HeldReports

-----------------------------------------------------------------------------
(* The inductive invariant, in parts.                                      *)

\* A release that has committed the marker and has not moved money.
Unpaid == {"settle", "settleErr", "pay", "clear"}

\* r owns the one outstanding attempt: nothing has been paid under the marker,
\* or what was paid is not known to have arrived.
Token(r) == \/ pc[r] \in Unpaid
            \/ pc[r] = "finalize" /\ ~PayoutConfirmed(arg[r])

\* What a running call may rely on about its own local state.
LocalOK(r) ==
  /\ pc[r] \in Unpaid \cup {"setPayee"} => arg[r] \in Invoices
  /\ pc[r] \in {"finalize", "confirm"} => arg[r] \in CheckingIds
  /\ pc[r] = "finalize" /\ arg[r] \in Invoices => payment[arg[r]] # "none"
  /\ pc[r] = "confirm" => PayoutConfirmed(arg[r])
  /\ pc[r] = "setStatus" => mem[r] \in {"work_submitted", "reviewing"}

Locals == \A r \in Requests : LocalOK(r)

\* An outstanding attempt is unique, marked, and excludes any other payout.
OneAttempt ==
  /\ \A r, q \in Requests : Token(r) /\ Token(q) => r = q
  /\ \A r \in Requests : Token(r) =>
       /\ attempted /\ payoutId \notin Invoices /\ latePay = {}
       /\ \A i \in Invoices : Live(i) => pc[r] = "finalize" /\ i = arg[r]

\* A careful reset runs alone.
QuietReset ==
  /\ \A r, q \in Requests : pc[r] = "reset" /\ pc[q] = "reset" => r = q
  /\ \A r \in Requests : pc[r] = "reset" =>
       /\ attempted /\ payoutId \notin Invoices /\ latePay = {}
       /\ \A i \in Invoices : ~Live(i)
       /\ \A q \in Requests : ~Token(q)

\* A payout LNbits has, or may still get, is marked and is the only one.
OnePayout ==
  /\ \A i \in Invoices : Live(i) => attempted /\ payoutId \notin Invoices \ {i} /\ latePay = {}
  /\ \A i, j \in Invoices : Live(i) /\ Live(j) => i = j
  /\ latePay # {} => attempted /\ payoutId \notin Invoices
  /\ \A i, j \in latePay : i = j

Tracking == OneAttempt /\ QuietReset /\ OnePayout

\* Nothing is paid before the hold is settled, nothing recorded before it is paid.
SettledFirst ==
  /\ PayoutAfterSettle
  /\ payoutId \in Invoices => payment[payoutId] # "none"

\* Only payouts of this deal are named, and one was sent before the release.
OwnPayouts ==
  /\ payoutId # OtherPayment
  /\ \A r \in Requests : arg[r] # OtherPayment
  /\ status = "released" => \E i \in Invoices : payment[i] # "none"

\* A released deal keeps the id of its payout.
Recorded == status = "released" => payoutId # NoInvoice

\* The steps of refundDispute that run with the row locked.
Cancelling == {"cancel", "cancelErr", "refund"}

\* The row lock belongs to the refund of a disputed deal.
RowLock ==
  \A r \in Requests :
    /\ lock = r <=> pc[r] \in Cancelling
    /\ lock = r => status = "disputed"

\* No sats are committed to the hold.
HoldGone == hold \in {"open", "cancelled", "expired"}

\* The hold is gone once the refund is about to be written.
CancelDone == \A r \in Requests : pc[r] = "refund" => HoldGone

\* The sweep acts only on a hold that can no longer be funded.
SweepInv ==
  /\ aged => hold # "open"
  /\ \A r \in Requests : pc[r] \in {"sweepCheck", "sweepWrite"} => aged
  /\ \A r \in Requests : pc[r] = "sweepWrite" => HoldGone

\* Before the work is submitted nobody has tried to release.
NoEarlyRelease ==
  status \in {"awaiting_payment", "locked"} =>
    /\ ~lateSettle /\ hold # "settled"
    /\ \A r \in Requests : pc[r] \notin Releasing

-----------------------------------------------------------------------------
(* Type correctness.                                                       *)

\* Every step of Escrow keeps its variables in their types.
LEMMA TypeOKStep == TypeOK /\ Locals /\ [Next]_vars => TypeOK'
<1> SUFFICES ASSUME TypeOK, Locals, [Next]_vars PROVE TypeOK'
  OBVIOUS
<1> USE DEF TypeOK, Enter, Goto, Done, Unlocked, row, net, reqs, CheckingIds
<1>1. ASSUME NEW r \in Requests, ReleaseStep(r) PROVE TypeOK'
  <2>1. CASE ApproveDeal(r) \/ ResolveRelease(r) \/ PublicRelease(r)
    BY <2>1 DEF ApproveDeal, ResolveRelease, PublicRelease, BeginRelease,
                MarkAttempt, ResumeConfirmed, Steps
  <2>2. CASE PublicApproveDeal(r) \/ PublicLock(r) \/ PublicRefused(r)
    BY <2>2 DEF PublicApproveDeal, PublicLock, PublicRefused, UpdateStatusIfCurrent, Steps, NoStatus, Status
  <2>3. CASE SettleOk(r) \/ SettleFails(r) \/ SettleConfirmed(r) \/ SettleUnconfirmed(r)
    BY <2>3 DEF SettleOk, SettleFails, SettleConfirmed, SettleUnconfirmed, Steps
  <2>4. CASE PayAccepted(r) \/ PayRefused(r) \/ PayAmbiguous(r)
    BY <2>4 DEF PayAccepted, Attempt, PayRefused, PayAmbiguous, Locals, LocalOK, Unpaid, Steps, NoStatus
  <2>5. CASE ClearAttempt(r)
    BY <2>5 DEF ClearAttempt, ClearPayoutTracking, Steps
  <2>6. CASE Finalize(r)
    BY <2>6 DEF Finalize, Locals, LocalOK, Status, Steps
  <2>7. CASE FinalizeAborts(r)
    BY <2>7 DEF FinalizeAborts, Steps
  <2> QED BY <1>1, <2>1, <2>2, <2>3, <2>4, <2>5, <2>6, <2>7 DEF ReleaseStep
<1>2. ASSUME NEW r \in Requests, RefundStep(r) PROVE TypeOK'
  <2>1. CASE RefundDispute(r) \/ CancelOk(r) \/ CancelFails(r) \/ CancelConfirmed(r)
    BY <2>1 DEF RefundDispute, CancelOk, CancelFails, CancelConfirmed, Steps
  <2>2. CASE CancelUnconfirmed(r) \/ RecordRefund(r)
    BY <2>2 DEF CancelUnconfirmed, RecordRefund, Status, Steps
  <2> QED BY <1>2, <2>1, <2>2 DEF RefundStep
<1>3. ASSUME NEW r \in Requests, ReconcileStep(r) PROVE TypeOK'
  <2>1. CASE \E c \in CheckingIds : ConfirmPayout(r, c)
    BY <2>1 DEF ConfirmPayout, Steps
  <2>2. CASE ConfirmRelease(r)
    BY <2>2 DEF ConfirmRelease, Locals, LocalOK, Status, Steps
  <2>3. CASE ResetPayout(r)
    BY <2>3 DEF ResetPayout, Steps
  <2>4. CASE ResetTracking(r)
    BY <2>4 DEF ResetTracking, ClearPayoutTracking, Steps
  <2> QED BY <1>3, <2>1, <2>2, <2>3, <2>4 DEF ReconcileStep
<1>4. ASSUME NEW r \in Requests, StatusStep(r) PROVE TypeOK'
  <2>1. CASE DisputeDeal(r) \/ RaiseDispute(r) \/ DetectPayment(r) \/ LockDeal(r)
    BY <2>1 DEF DisputeDeal, RaiseDispute, DetectPayment, LockDeal, UpdateStatusIfCurrent, Status, Steps, NoStatus
  <2>2. CASE (\E new \in Status : UpdateStatus(r, new)) \/ WriteStatus(r)
    BY <2>2 DEF UpdateStatus, WriteStatus, Locals, LocalOK, Unpaid, Status, Steps, NoStatus
  <2>3. CASE (\E i \in Invoices : UpdatePayeeInvoice(r, i)) \/ WritePayee(r)
    BY <2>3 DEF UpdatePayeeInvoice, WritePayee, Locals, LocalOK, Unpaid, Steps, NoStatus
  <2>4. CASE SweepList(r) \/ SweepCheck(r) \/ SweepRefund(r)
    BY <2>4 DEF SweepList, SweepCheck, SweepRefund, UpdateStatusIfCurrent, Status, Steps, NoStatus
  <2> QED BY <1>4, <2>1, <2>2, <2>3, <2>4 DEF StatusStep
<1>5. ASSUME NEW r \in Requests, Abandon(r) PROVE TypeOK'
  BY <1>5 DEF Abandon, Steps, NoStatus
<1>6. CASE NetworkStep
  BY <1>6 DEF NetworkStep, ClientPays, HoldExpires, DealAges, PayoutLands, PayoutFails,
              LatePay, Attempt, LateSettle, LateCancel
<1>7. CASE UNCHANGED vars
  BY <1>7 DEF vars
<1> QED BY <1>1, <1>2, <1>3, <1>4, <1>5, <1>6, <1>7 DEF Next, RequestStep

-----------------------------------------------------------------------------
(* Local state.                                                            *)

\* A payout never becomes unknown again, and an arrived one stays arrived.
PaymentGrows == \A i \in Invoices : /\ payment[i] # "none" => payment'[i] # "none"
                                    /\ payment[i] = "paid" => payment'[i] = "paid"

\* A step of one request leaves the other requests' local facts alone.
LEMMA LocalsFrame ==
  ASSUME TypeOK, Locals, PaymentGrows, NEW r \in Requests,
         NEW step, NEW s, NEW i, Enter(r, step, s, i), LocalOK(r)'
  PROVE  Locals'
<1> SUFFICES ASSUME NEW q \in Requests, q # r PROVE LocalOK(q)'
  BY DEF Locals
<1>1. pc'[q] = pc[q] /\ mem'[q] = mem[q] /\ arg'[q] = arg[q]
  BY DEF Enter, TypeOK
<1>2. LocalOK(q)
  BY DEF Locals
<1> QED BY <1>1, <1>2 DEF LocalOK, PaymentGrows, PayoutConfirmed, Unpaid

\* Every running call's local facts hold as long as it runs.
LEMMA LocalsStep == TypeOK /\ Locals /\ [Next]_vars => Locals'
<1> SUFFICES ASSUME TypeOK, Locals, [Next]_vars PROVE Locals'
  OBVIOUS
<1> USE DEF PaymentGrows
<1>1. ASSUME NEW r \in Requests, RequestStep(r) PROVE Locals'
  <2>0. /\ LocalOK(r)
        /\ pc \in [Requests -> Steps] /\ mem \in [Requests -> Status \cup {NoStatus}]
        /\ arg \in [Requests -> CheckingIds \cup {NoInvoice}]
        /\ payee \in Invoices /\ payoutId \in CheckingIds \cup {NoInvoice}
    BY DEF Locals, TypeOK
  <2>1. ASSUME NEW step \in {"idle", "publicLock", "publicRelease", "cancel", "cancelErr",
                             "refund", "reset", "dispute", "lockDeal", "sweepCheck", "sweepWrite"},
               NEW s, NEW i, Enter(r, step, s, i), payment' = payment
        PROVE  Locals'
    <3>1. LocalOK(r)'
      BY <2>0, <2>1 DEF Enter, LocalOK, Unpaid
    <3> QED BY <2>1, <3>1, LocalsFrame
  <2>2. ASSUME NEW step \in Unpaid, Goto(r, step), pc[r] \in Unpaid, payment' = payment
        PROVE  Locals'
    <3>1. LocalOK(r)'
      BY <2>0, <2>2 DEF Goto, Enter, LocalOK, Unpaid
    <3> QED BY <2>2, <3>1, LocalsFrame DEF Goto
  <2>3. CASE MarkAttempt(r) /\ UNCHANGED net
    <3>1. LocalOK(r)'
      BY <2>0, <2>3 DEF MarkAttempt, Enter, LocalOK, Unpaid, net
    <3> QED BY <2>3, <3>1, LocalsFrame DEF MarkAttempt, net
  <2>4. CASE ResumeConfirmed(r) /\ UNCHANGED net
    <3>1. LocalOK(r)'
      BY <2>0, <2>4 DEF ResumeConfirmed, AlreadyPaid, PayoutConfirmed, Enter, LocalOK, Unpaid, net
    <3> QED BY <2>4, <3>1, LocalsFrame DEF ResumeConfirmed, net
  <2>5. CASE PayAccepted(r)
    <3>1. arg[r] \in Invoices /\ PaymentGrows
      BY <2>0, <2>5 DEF PayAccepted, Attempt, LocalOK, Unpaid, TypeOK, Live
    <3>2. LocalOK(r)'
      BY <2>0, <2>5, <3>1 DEF PayAccepted, Attempt, Live, Goto, Enter, LocalOK, Unpaid, TypeOK, CheckingIds
    <3> QED BY <2>5, <3>1, <3>2, LocalsFrame DEF PayAccepted, Goto
  <2>6. CASE \E c \in CheckingIds : ConfirmPayout(r, c)
    <3>1. PICK c \in CheckingIds : ConfirmPayout(r, c)
      BY <2>6
    <3>2. LocalOK(r)'
      BY <2>0, <3>1 DEF ConfirmPayout, PayoutConfirmed, Enter, LocalOK, Unpaid, net
    <3> QED BY <3>1, <3>2, LocalsFrame DEF ConfirmPayout, net
  <2>7. CASE \E new \in Status : UpdateStatus(r, new)
    <3>1. PICK new \in Status : UpdateStatus(r, new)
      BY <2>7
    <3>2. new \in {"work_submitted", "reviewing"}
      BY <3>1 DEF UpdateStatus, CanTransition, ValidTransitions, BackendOnly, Status, TypeOK, Closed
    <3>3. LocalOK(r)'
      BY <2>0, <3>1, <3>2 DEF UpdateStatus, Enter, LocalOK, Unpaid
    <3> QED BY <3>1, <3>3, LocalsFrame DEF UpdateStatus, net
  <2>8. CASE \E i \in Invoices : UpdatePayeeInvoice(r, i)
    <3>1. PICK i \in Invoices : UpdatePayeeInvoice(r, i)
      BY <2>8
    <3>2. LocalOK(r)'
      BY <2>0, <3>1 DEF UpdatePayeeInvoice, Enter, LocalOK, Unpaid
    <3> QED BY <3>1, <3>2, LocalsFrame DEF UpdatePayeeInvoice, net
  <2>9. CASE ReleaseStep(r)
    <3>1. CASE ApproveDeal(r) \/ ResolveRelease(r) \/ PublicRelease(r)
      BY <2>3, <2>4, <3>1 DEF ApproveDeal, ResolveRelease, PublicRelease, BeginRelease
    <3>2. CASE SettleOk(r) \/ SettleFails(r) \/ SettleConfirmed(r) \/ SettleUnconfirmed(r) \/ PayRefused(r)
      BY <2>2, <3>2 DEF SettleOk, SettleFails, SettleConfirmed, SettleUnconfirmed, PayRefused, Unpaid, net
    <3>3. CASE PublicApproveDeal(r) \/ PublicLock(r) \/ PublicRefused(r) \/ PayAmbiguous(r)
               \/ ClearAttempt(r) \/ Finalize(r) \/ FinalizeAborts(r)
      BY <2>1, <3>3 DEF PublicApproveDeal, PublicLock, PublicRefused, PayAmbiguous, ClearAttempt,
                        Finalize, FinalizeAborts, Goto, Done, net
    <3> QED BY <2>5, <2>9, <3>1, <3>2, <3>3 DEF ReleaseStep
  <2>10. CASE RefundStep(r) \/ Abandon(r)
    BY <2>1, <2>10 DEF RefundStep, RefundDispute, CancelOk, CancelFails, CancelConfirmed,
                       CancelUnconfirmed, RecordRefund, Abandon, Goto, Done, net
  <2>11. CASE ReconcileStep(r)
    BY <2>1, <2>6, <2>11 DEF ReconcileStep, ConfirmRelease, ResetPayout, ResetTracking, Goto, Done, net
  <2>12. CASE StatusStep(r)
    BY <2>1, <2>7, <2>8, <2>12 DEF StatusStep, DisputeDeal, RaiseDispute, WriteStatus, WritePayee,
                       DetectPayment, LockDeal, SweepList, SweepCheck, SweepRefund, Goto, Done, net
  <2> QED BY <1>1, <2>9, <2>10, <2>11, <2>12 DEF RequestStep
<1>2. CASE NetworkStep
  <2>1. PaymentGrows /\ UNCHANGED reqs
    BY <1>2 DEF NetworkStep, ClientPays, HoldExpires, DealAges, PayoutLands, PayoutFails,
                LatePay, Attempt, LateSettle, LateCancel, net, Live, TypeOK
  <2> QED BY <2>1 DEF Locals, LocalOK, reqs, Unpaid, PayoutConfirmed
<1>3. CASE UNCHANGED vars
  BY <1>3 DEF vars, net, reqs, Locals, LocalOK, PayoutConfirmed
<1> QED BY <1>1, <1>2, <1>3 DEF Next

-----------------------------------------------------------------------------
(* Payout tracking.                                                        *)

\* The state the tracking facts are about, requests apart.
tracked == <<attempted, payoutId, payment, latePay>>

\* A request that leaves the payout state alone and enters a step that is
\* neither part of a release nor a reset disturbs nothing.
LEMMA QuietStep ==
  ASSUME TypeOK, Tracking, NEW r \in Requests, NEW step, NEW s, NEW i,
         Enter(r, step, s, i), step \notin Unpaid \cup {"finalize", "reset"},
         UNCHANGED tracked
  PROVE  Tracking'
<1>1. \A q \in Requests : /\ Token(q)' => q # r /\ Token(q) /\ pc'[q] = pc[q] /\ arg'[q] = arg[q]
                          /\ pc'[q] = "reset" => q # r /\ pc[q] = "reset"
  BY DEF Enter, TypeOK, Token, Unpaid, tracked, PayoutConfirmed
<1>2. \A j \in Invoices : Live(j)' <=> Live(j)
  BY DEF Live, tracked
<1>3. OneAttempt'
  BY <1>1, <1>2 DEF Tracking, OneAttempt, tracked
<1>4. QuietReset'
  BY <1>1, <1>2 DEF Tracking, QuietReset, tracked
<1>5. OnePayout'
  BY <1>2 DEF Tracking, OnePayout, tracked
<1> QED BY <1>3, <1>4, <1>5 DEF Tracking

\* A release moving on between its steps before the payout keeps its token.
LEMMA UnpaidStep ==
  ASSUME TypeOK, Tracking, NEW r \in Requests, NEW step \in Unpaid,
         pc[r] \in Unpaid, Goto(r, step), UNCHANGED tracked
  PROVE  Tracking'
<1>1. \A q \in Requests : /\ Token(q)' => Token(q) /\ arg'[q] = arg[q]
                          /\ pc'[q] = "finalize" <=> pc[q] = "finalize"
                          /\ pc'[q] = "reset" => pc[q] = "reset"
  BY DEF Goto, Enter, TypeOK, Token, Unpaid, tracked, PayoutConfirmed
<1>2. \A j \in Invoices : Live(j)' <=> Live(j)
  BY DEF Live, tracked
<1>3. OneAttempt'
  BY <1>1, <1>2 DEF Tracking, OneAttempt, tracked
<1>4. QuietReset'
  BY <1>1, <1>2 DEF Tracking, QuietReset, tracked
<1>5. OnePayout'
  BY <1>2 DEF Tracking, OnePayout, tracked
<1> QED BY <1>3, <1>4, <1>5 DEF Tracking

\* When phase 1 may pay, nothing is outstanding: no attempt, no reset, no
\* payout at LNbits and none on its way.
LEMMA NothingOutstanding ==
  ASSUME TypeOK, Tracking, MayPay
  PROVE  /\ \A q \in Requests : ~Token(q) /\ pc[q] # "reset"
         /\ \A i \in Invoices : ~Live(i)
         /\ latePay = {}
<1>1. \A q \in Requests : ~Token(q) /\ pc[q] # "reset"
  BY NullAssumption DEF Tracking, OneAttempt, QuietReset, MayPay, PayoutFailed
<1>2. \A i \in Invoices : ~Live(i)
  BY DEF Tracking, OnePayout, MayPay, PayoutFailed, Live
<1>3. latePay = {}
  BY DEF Tracking, OnePayout, MayPay, PayoutFailed
<1> QED BY <1>1, <1>2, <1>3

\* Phase 1 commits the marker only when nothing is outstanding, and then owns
\* the one attempt.
LEMMA MarkAttemptStep ==
  ASSUME TypeOK, Tracking, NEW r \in Requests, MarkAttempt(r), UNCHANGED net
  PROVE  Tracking'
<1>1. /\ \A q \in Requests : ~Token(q) /\ pc[q] # "reset"
      /\ \A i \in Invoices : ~Live(i)
      /\ latePay = {}
  BY NothingOutstanding DEF MarkAttempt
<1>2. /\ attempted' /\ payoutId' = NoInvoice /\ latePay' = {}
      /\ \A i \in Invoices : ~Live(i)'
  BY <1>1 DEF MarkAttempt, net, Live
<1>3. \A q \in Requests : /\ Token(q)' => q = r
                          /\ pc'[q] # "reset"
  BY <1>1 DEF MarkAttempt, Enter, Token, TypeOK, net, PayoutConfirmed
<1> QED BY <1>2, <1>3, NullAssumption DEF Tracking, OneAttempt, QuietReset, OnePayout

\* Resuming a payout that has arrived excludes an outstanding attempt.
LEMMA ResumeStep ==
  ASSUME TypeOK, Tracking, NEW r \in Requests, ResumeConfirmed(r), UNCHANGED net
  PROVE  Tracking'
<1>1. PayoutConfirmed(payoutId)
  BY DEF ResumeConfirmed, AlreadyPaid
<1>2. \A q \in Requests : /\ Token(q)' => q # r /\ Token(q) /\ pc'[q] = pc[q] /\ arg'[q] = arg[q]
                          /\ pc'[q] = "reset" => q # r /\ pc[q] = "reset"
  BY <1>1 DEF ResumeConfirmed, Enter, TypeOK, Token, Unpaid, net, PayoutConfirmed
<1>3. UNCHANGED tracked /\ \A j \in Invoices : Live(j)' <=> Live(j)
  BY DEF Live, tracked, net, ResumeConfirmed, row
<1> QED BY <1>2, <1>3 DEF Tracking, OneAttempt, QuietReset, OnePayout, tracked

\* The owner of the attempt turns it into the one payout that is routing.
LEMMA PayAcceptedStep ==
  ASSUME TypeOK, Locals, Tracking, NEW r \in Requests, PayAccepted(r)
  PROVE  Tracking'
<1>1. Token(r) /\ arg[r] \in Invoices /\ arg'[r] = arg[r] /\ pc'[r] = "finalize"
  BY DEF PayAccepted, Token, Unpaid, Locals, LocalOK, TypeOK, Goto, Enter
<1>2. /\ attempted' /\ payoutId' \notin Invoices /\ latePay' = {}
      /\ \A i \in Invoices : Live(i)' => i = arg[r]
  BY <1>1 DEF PayAccepted, Attempt, Tracking, OneAttempt, Live, row, TypeOK
<1>3. \A q \in Requests : pc[q] # "reset" /\ (q # r => ~Token(q))
  BY <1>1 DEF Tracking, QuietReset, OneAttempt
<1>4. \A q \in Requests : q # r /\ pc[q] = "finalize" => arg[q] \notin Invoices
  BY <1>1, <1>3 DEF Tracking, OneAttempt, Token, PayoutConfirmed, Live, PayAccepted
<1>5. \A q \in Requests : /\ Token(q)' => q = r
                          /\ pc'[q] # "reset"
  BY <1>3, <1>4 DEF PayAccepted, Goto, Enter, Token, TypeOK, PayoutConfirmed
<1> QED BY <1>1, <1>2, <1>5 DEF Tracking, OneAttempt, QuietReset, OnePayout

\* An ambiguous PayInvoice ends the attempt but leaves the marker, and at most
\* its own call is still on its way.
LEMMA PayAmbiguousStep ==
  ASSUME TypeOK, Locals, Tracking, NEW r \in Requests, PayAmbiguous(r)
  PROVE  Tracking'
<1>1. Token(r) /\ arg[r] \in Invoices
  BY DEF PayAmbiguous, Token, Unpaid, Locals, LocalOK
<1>2. \A q \in Requests : pc[q] # "reset" /\ (q # r => ~Token(q))
  BY <1>1 DEF Tracking, QuietReset, OneAttempt
<1>3. /\ attempted' /\ payoutId' \notin Invoices /\ latePay' \subseteq {arg[r]}
      /\ \A i \in Invoices : ~Live(i)'
  BY <1>1 DEF PayAmbiguous, Tracking, OneAttempt, Live, row
<1>4. \A q \in Requests : ~Token(q)' /\ pc'[q] # "reset"
  BY <1>2 DEF PayAmbiguous, Done, Enter, Token, Unpaid, TypeOK, PayoutConfirmed
<1> QED BY <1>3, <1>4 DEF Tracking, OneAttempt, QuietReset, OnePayout

\* Clearing the tracking is safe for the two callers that own the deal: a
\* release that provably sent nothing, and a careful reset.
LEMMA ClearStep ==
  ASSUME TypeOK, Tracking, NEW r \in Requests, ClearAttempt(r) \/ ResetTracking(r)
  PROVE  Tracking'
<1>1. /\ pc'[r] = "idle" /\ UNCHANGED <<payment, latePay>>
      /\ \A q \in Requests : q # r => pc'[q] = pc[q] /\ arg'[q] = arg[q]
  BY DEF ClearAttempt, ResetTracking, Done, Enter, TypeOK, net
<1>2. /\ latePay = {} /\ \A i \in Invoices : ~Live(i)
      /\ \A q \in Requests : q # r => ~Token(q) /\ pc[q] # "reset"
  <2>1. CASE ClearAttempt(r)
    BY <2>1 DEF ClearAttempt, Token, Unpaid, Tracking, OneAttempt, QuietReset
  <2>2. CASE ResetTracking(r)
    BY <2>2 DEF ResetTracking, Tracking, QuietReset
  <2> QED BY <2>1, <2>2
<1>3. \A q \in Requests : ~Token(q)' /\ pc'[q] # "reset"
  BY <1>1, <1>2 DEF Token, Unpaid, PayoutConfirmed
<1>4. latePay' = {} /\ \A i \in Invoices : ~Live(i)'
  BY <1>1, <1>2 DEF Live
<1> QED BY <1>3, <1>4 DEF Tracking, OneAttempt, QuietReset, OnePayout

\* A finished request that records a payment LNbits reports paid, or the payout
\* of the one attempt: what phase 3 and confirm_payout have in common.
LEMMA RecordStep ==
  ASSUME TypeOK, Tracking, NEW r \in Requests, Done(r), NEW c \in CheckingIds,
         PayoutConfirmed(c) \/ (pc[r] = "finalize" /\ c = arg[r]),
         payoutId' \in {payoutId, c}, UNCHANGED <<attempted, payment, latePay>>
  PROVE  Tracking'
<1>1. /\ pc'[r] = "idle"
      /\ \A q \in Requests : q # r => pc'[q] = pc[q] /\ arg'[q] = arg[q]
  BY DEF Done, Enter, TypeOK
<1>2. \A q \in Requests : /\ Token(q)' => q # r /\ Token(q) /\ pc'[q] = pc[q] /\ arg'[q] = arg[q]
                          /\ pc'[q] = "reset" => q # r /\ pc[q] = "reset"
  BY <1>1 DEF Token, Unpaid, PayoutConfirmed
<1>3. \A j \in Invoices : Live(j)' <=> Live(j)
  BY DEF Live
<1>4. CASE c = OtherPayment
  <2>1. payoutId' \in Invoices => payoutId' = payoutId
    BY <1>4, NullAssumption
  <2> QED BY <1>2, <1>3, <2>1 DEF Tracking, OneAttempt, QuietReset, OnePayout
<1>5. CASE c \in Invoices
  <2>1. Live(c) \/ Token(r)
    BY <1>5 DEF PayoutConfirmed, Live, Token
  <2>2. \A q \in Requests : /\ q # r => ~Token(q)
                            /\ pc[q] # "reset"
    BY <1>5, <2>1 DEF Tracking, OneAttempt, QuietReset, Token, Unpaid, PayoutConfirmed, Live
  <2>3. latePay = {} /\ \A i \in Invoices : Live(i) => i = c
    BY <1>5, <2>1 DEF Tracking, OneAttempt, OnePayout, Token, PayoutConfirmed, Live
  <2>4. \A i \in Invoices : Live(i) => payoutId' \notin Invoices \ {i}
    BY <2>3 DEF Tracking, OnePayout
  <2>5. OnePayout'
    BY <1>3, <2>3, <2>4 DEF Tracking, OnePayout
  <2>6. \A q \in Requests : ~Token(q)' /\ pc'[q] # "reset"
    BY <1>2, <2>2
  <2> QED BY <2>5, <2>6 DEF Tracking, OneAttempt, QuietReset
<1> QED BY <1>4, <1>5 DEF CheckingIds

\* Phase 3 records the payout it made, or the one that has arrived.
LEMMA FinalizeStep ==
  ASSUME TypeOK, Locals, Tracking, NEW r \in Requests, Finalize(r)
  PROVE  Tracking'
<1>1. arg[r] \in CheckingIds /\ payoutId' \in {payoutId, arg[r]}
  BY DEF Finalize, Locals, LocalOK
<1> QED BY <1>1, RecordStep DEF Finalize, net

\* confirm_payout records a payout that has arrived, hence the only one, or a
\* payment that has nothing to do with the deal.
LEMMA ConfirmStep ==
  ASSUME TypeOK, Locals, Tracking, NEW r \in Requests, ConfirmRelease(r)
  PROVE  Tracking'
<1>1. arg[r] \in CheckingIds /\ PayoutConfirmed(arg[r]) /\ payoutId' \in {payoutId, arg[r]}
  BY DEF ConfirmRelease, Locals, LocalOK
<1> QED BY <1>1, RecordStep DEF ConfirmRelease, net

\* A careful reset starts only when nothing is outstanding.
LEMMA ResetStep ==
  ASSUME TypeOK, Tracking, NEW r \in Requests, CarefulReset, ResetPayout(r)
  PROVE  Tracking'
<1>1. UNCHANGED tracked /\ \A i \in Invoices : Live(i)' <=> Live(i)
  BY DEF ResetPayout, tracked, row, net, Live
<1>2. /\ attempted /\ payoutId = NoInvoice /\ latePay = {}
      /\ \A i \in Invoices : ~Live(i)
      /\ \A q \in Requests : pc[q] \notin Releasing \cup {"reset"}
  BY DEF ResetPayout, OperatorSeesNoPayout
<1>3. \A q \in Requests : ~Token(q)' /\ (pc'[q] = "reset" => q = r)
  BY <1>2 DEF ResetPayout, Goto, Enter, Releasing, Token, Unpaid, TypeOK, PayoutConfirmed
<1> QED BY <1>1, <1>2, <1>3, NullAssumption DEF Tracking, OneAttempt, QuietReset, OnePayout, tracked

\* A routing payout that arrives or fails leaves at most one payout alive.
LEMMA PayoutLandsStep ==
  ASSUME TypeOK, Locals, Tracking, NEW i \in Invoices, PayoutLands(i) \/ PayoutFails(i)
  PROVE  Tracking'
<1>1. /\ UNCHANGED <<attempted, payoutId, latePay, pc, arg>>
      /\ payment[i] = "pending" /\ Live(i)
      /\ \A j \in Invoices : j # i => payment'[j] = payment[j]
      /\ payment'[i] \in {"paid", "failed"}
  BY DEF PayoutLands, PayoutFails, row, reqs, TypeOK, Live
<1>2. \A j \in Invoices : Live(j)' => Live(j)
  BY <1>1 DEF Live
<1>3. \A q \in Requests : Token(q)' => Token(q)
  BY <1>1 DEF Token, PayoutConfirmed
<1> QED BY <1>1, <1>2, <1>3 DEF Tracking, OneAttempt, QuietReset, OnePayout

\* A PayInvoice whose caller gave up finds nobody else paying when it lands.
LEMMA LatePayStep ==
  ASSUME TypeOK, Locals, Tracking, NEW i \in Invoices, LatePay(i)
  PROVE  Tracking'
<1>1. /\ UNCHANGED <<attempted, payoutId, pc, arg>> /\ i \in latePay
      /\ latePay' = latePay \ {i}
      /\ \A j \in Invoices : j # i => payment'[j] = payment[j]
  BY DEF LatePay, Attempt, row, reqs, TypeOK
<1>2. /\ latePay' = {} /\ attempted /\ payoutId \notin Invoices
      /\ \A j \in Invoices : ~Live(j)
      /\ \A q \in Requests : ~Token(q) /\ pc[q] # "reset"
  BY <1>1 DEF Tracking, OneAttempt, QuietReset, OnePayout
<1>3. \A q \in Requests : pc[q] = "finalize" => arg[q] \notin Invoices
  BY <1>2 DEF Token, PayoutConfirmed, Live
<1>4. \A q \in Requests : ~Token(q)' /\ pc'[q] # "reset"
  BY <1>1, <1>2, <1>3 DEF Token, Unpaid, PayoutConfirmed
<1>5. \A j \in Invoices : Live(j)' => j = i
  BY <1>1, <1>2 DEF Live
<1> QED BY <1>1, <1>2, <1>4, <1>5 DEF Tracking, OneAttempt, QuietReset, OnePayout

\* With a careful operator every step keeps at most one payout outstanding.
LEMMA TrackingStep ==
  CarefulReset /\ TypeOK /\ Locals /\ Tracking /\ [Next]_vars => Tracking'
<1> SUFFICES ASSUME CarefulReset, TypeOK, Locals, Tracking, [Next]_vars PROVE Tracking'
  OBVIOUS
<1> USE DEF tracked, row, net
<1>1. ASSUME NEW r \in Requests, RequestStep(r) PROVE Tracking'
  <2>1. ASSUME NEW step \in Steps \ (Unpaid \cup {"finalize", "reset"}), NEW s, NEW i,
               Enter(r, step, s, i), UNCHANGED tracked
        PROVE  Tracking'
    BY <2>1, QuietStep
  <2>2. CASE ReleaseStep(r)
    <3>1. CASE ApproveDeal(r) \/ ResolveRelease(r) \/ PublicRelease(r)
      BY <3>1, MarkAttemptStep, ResumeStep DEF ApproveDeal, ResolveRelease, PublicRelease, BeginRelease
    <3>2. CASE SettleOk(r) \/ SettleFails(r) \/ SettleConfirmed(r) \/ SettleUnconfirmed(r) \/ PayRefused(r)
      BY <3>2, UnpaidStep DEF SettleOk, SettleFails, SettleConfirmed, SettleUnconfirmed, PayRefused, Unpaid
    <3>3. CASE PublicApproveDeal(r) \/ PublicLock(r) \/ PublicRefused(r) \/ FinalizeAborts(r)
      BY <2>1, <3>3 DEF PublicApproveDeal, PublicLock, PublicRefused, FinalizeAborts, Goto, Done,
                        Steps, Unpaid
    <3> QED BY <2>2, <3>1, <3>2, <3>3, PayAcceptedStep, PayAmbiguousStep, ClearStep, FinalizeStep
               DEF ReleaseStep
  <2>3. CASE RefundStep(r) \/ Abandon(r)
    BY <2>1, <2>3 DEF RefundStep, RefundDispute, CancelOk, CancelFails, CancelConfirmed,
                      CancelUnconfirmed, RecordRefund, Abandon, Goto, Done, Steps, Unpaid
  <2>4. CASE ReconcileStep(r)
    <3>1. CASE \E c \in CheckingIds : ConfirmPayout(r, c)
      BY <2>1, <3>1 DEF ConfirmPayout, Steps, Unpaid
    <3> QED BY <2>4, <3>1, ConfirmStep, ResetStep, ClearStep DEF ReconcileStep
  <2>5. CASE StatusStep(r)
    <3>1. CASE DisputeDeal(r) \/ RaiseDispute(r) \/ DetectPayment(r) \/ LockDeal(r)
      BY <2>1, <3>1 DEF DisputeDeal, RaiseDispute, DetectPayment, LockDeal, Goto, Done, Steps, Unpaid
    <3>2. CASE (\E new \in Status : UpdateStatus(r, new)) \/ WriteStatus(r)
      BY <2>1, <3>2 DEF UpdateStatus, WriteStatus, Done, Steps, Unpaid
    <3>3. CASE (\E i \in Invoices : UpdatePayeeInvoice(r, i)) \/ WritePayee(r)
      BY <2>1, <3>3 DEF UpdatePayeeInvoice, WritePayee, Done, Steps, Unpaid
    <3>4. CASE SweepList(r) \/ SweepCheck(r) \/ SweepRefund(r)
      BY <2>1, <3>4 DEF SweepList, SweepCheck, SweepRefund, Goto, Done, Steps, Unpaid
    <3> QED BY <2>5, <3>1, <3>2, <3>3, <3>4 DEF StatusStep
  <2> QED BY <1>1, <2>2, <2>3, <2>4, <2>5 DEF RequestStep
<1>2. CASE NetworkStep
  <2>1. ASSUME UNCHANGED <<attempted, payoutId, payment, latePay, pc, arg>> PROVE Tracking'
    BY <2>1 DEF Tracking, OneAttempt, QuietReset, OnePayout, Token, Live, PayoutConfirmed
  <2>2. CASE ClientPays \/ HoldExpires \/ DealAges \/ LateSettle \/ LateCancel
    BY <2>1, <2>2 DEF ClientPays, HoldExpires, DealAges, LateSettle, LateCancel, reqs
  <2> QED BY <1>2, <2>2, PayoutLandsStep, LatePayStep DEF NetworkStep
<1>3. CASE UNCHANGED vars
  BY <1>3 DEF vars, reqs, Tracking, OneAttempt, QuietReset, OnePayout, Token, Live, PayoutConfirmed
<1> QED BY <1>1, <1>2, <1>3 DEF Next

-----------------------------------------------------------------------------
(* Settled before paid, paid before released.                              *)

\* A request that enters no payment step, keeps the payouts and at most forgets
\* their id preserves SettledFirst.
LEMMA SettledQuiet ==
  ASSUME TypeOK, SettledFirst, NEW r \in Requests, NEW step, NEW s, NEW i,
         Enter(r, step, s, i), step # "pay", UNCHANGED <<payment, latePay>>,
         payoutId' \in {payoutId, NoInvoice},
         hold = "settled" => hold' = "settled"
  PROVE  SettledFirst'
<1>1. \A q \in Requests : pc'[q] = "pay" => pc[q] = "pay"
  BY DEF Enter, TypeOK
<1> QED BY <1>1, NullAssumption DEF SettledFirst, PayoutAfterSettle

\* Every step pays only on a settled hold, and records only what was paid.
LEMMA SettledFirstStep ==
  HeldIsNotSettled /\ TypeOK /\ Locals /\ SettledFirst /\ [Next]_vars => SettledFirst'
<1> SUFFICES ASSUME HeldIsNotSettled, TypeOK, Locals, SettledFirst, [Next]_vars PROVE SettledFirst'
  OBVIOUS
<1> USE DEF row, net
<1>1. ASSUME NEW r \in Requests, RequestStep(r) PROVE SettledFirst'
  <2>1. ASSUME NEW step, NEW s, NEW i, Enter(r, step, s, i), step # "pay",
               UNCHANGED <<payment, latePay>>, payoutId' \in {payoutId, NoInvoice},
               hold = "settled" => hold' = "settled"
        PROVE  SettledFirst'
    BY <2>1, SettledQuiet
  <2>2. ASSUME Enter(r, "pay", mem[r], arg[r]), UNCHANGED <<payoutId, payment, latePay>>,
               hold' = "settled"
        PROVE  SettledFirst'
    BY <2>2 DEF SettledFirst, PayoutAfterSettle
  <2>3. CASE ReleaseStep(r)
    <3>2. CASE ApproveDeal(r) \/ ResolveRelease(r) \/ PublicRelease(r)
      BY <2>1, <3>2 DEF ApproveDeal, ResolveRelease, PublicRelease, BeginRelease, MarkAttempt,
                        ResumeConfirmed
    <3>3. CASE PublicApproveDeal(r) \/ PublicLock(r) \/ PublicRefused(r)
      BY <2>1, <3>3 DEF PublicApproveDeal, PublicLock, PublicRefused, UpdateStatusIfCurrent, Goto, Done
    <3>4. CASE SettleOk(r) \/ SettleConfirmed(r)
      BY <2>2, <3>4 DEF SettleOk, SettleConfirmed, Goto, Reports, HeldIsNotSettled, TypeOK
    <3>5. CASE SettleFails(r) \/ SettleUnconfirmed(r) \/ PayRefused(r) \/ FinalizeAborts(r)
      BY <2>1, <3>5 DEF SettleFails, SettleUnconfirmed, PayRefused, FinalizeAborts, Goto, Done
    <3>6. CASE PayAccepted(r)
      <4>1. hold = "settled" /\ hold' = "settled" /\ arg[r] \in Invoices
        BY <3>6 DEF PayAccepted, SettledFirst, PayoutAfterSettle, Locals, LocalOK, Unpaid
      <4>2. \A i \in Invoices : payment[i] # "none" => payment'[i] # "none"
        BY <3>6, <4>1 DEF PayAccepted, Attempt, TypeOK
      <4> QED BY <3>6, <4>1, <4>2 DEF PayAccepted, SettledFirst, PayoutAfterSettle, TypeOK
    <3>7. CASE PayAmbiguous(r)
      <4>1. hold' = "settled" /\ UNCHANGED <<payoutId, payment>>
        BY <3>7 DEF PayAmbiguous, SettledFirst, PayoutAfterSettle
      <4> QED BY <4>1 DEF SettledFirst, PayoutAfterSettle
    <3>8. CASE ClearAttempt(r)
      BY <2>1, <3>8 DEF ClearAttempt, ClearPayoutTracking, Done
    <3>9. CASE Finalize(r)
      <4>1. arg[r] \in Invoices => payment[arg[r]] # "none"
        BY <3>9 DEF Finalize, Locals, LocalOK
      <4>2. PayoutAfterSettle'
        BY <3>9 DEF Finalize, Done, Enter, TypeOK, SettledFirst, PayoutAfterSettle
      <4> QED BY <3>9, <4>1, <4>2 DEF Finalize, SettledFirst
    <3> QED BY <2>3, <3>2, <3>3, <3>4, <3>5, <3>6, <3>7, <3>8, <3>9 DEF ReleaseStep
  <2>4. CASE RefundStep(r) \/ Abandon(r)
    BY <2>1, <2>4 DEF RefundStep, RefundDispute, CancelOk, CancelFails, CancelConfirmed,
                      CancelUnconfirmed, RecordRefund, Abandon, Goto, Done
  <2>5. CASE ReconcileStep(r)
    <3>1. CASE \E c \in CheckingIds : ConfirmPayout(r, c)
      BY <2>1, <3>1 DEF ConfirmPayout
    <3>2. CASE ConfirmRelease(r)
      <4>1. arg[r] \in Invoices => payment[arg[r]] # "none"
        BY <3>2 DEF ConfirmRelease, Locals, LocalOK, PayoutConfirmed
      <4>2. PayoutAfterSettle'
        BY <3>2 DEF ConfirmRelease, Done, Enter, TypeOK, SettledFirst, PayoutAfterSettle
      <4> QED BY <3>2, <4>1, <4>2 DEF ConfirmRelease, SettledFirst
    <3>3. CASE ResetPayout(r)
      BY <2>1, <3>3 DEF ResetPayout, Goto
    <3>4. CASE ResetTracking(r)
      BY <2>1, <3>4 DEF ResetTracking, ClearPayoutTracking, Done
    <3> QED BY <2>5, <3>1, <3>2, <3>3, <3>4 DEF ReconcileStep
  <2>6. CASE StatusStep(r)
    <3>1. CASE DisputeDeal(r) \/ RaiseDispute(r) \/ DetectPayment(r) \/ LockDeal(r)
      BY <2>1, <3>1 DEF DisputeDeal, RaiseDispute, DetectPayment, LockDeal, UpdateStatusIfCurrent, Goto, Done
    <3>2. CASE \E new \in Status : UpdateStatus(r, new)
      BY <2>1, <3>2 DEF UpdateStatus
    <3>3. CASE WriteStatus(r)
      BY <2>1, <3>3 DEF WriteStatus, Locals, LocalOK, Done
    <3>4. CASE (\E i \in Invoices : UpdatePayeeInvoice(r, i)) \/ WritePayee(r)
      BY <2>1, <3>4 DEF UpdatePayeeInvoice, WritePayee, Done
    <3>5. CASE SweepList(r) \/ SweepCheck(r) \/ SweepRefund(r)
      BY <2>1, <3>5 DEF SweepList, SweepCheck, SweepRefund, UpdateStatusIfCurrent, Goto, Done
    <3> QED BY <2>6, <3>1, <3>2, <3>3, <3>4, <3>5 DEF StatusStep
  <2> QED BY <1>1, <2>3, <2>4, <2>5, <2>6 DEF RequestStep
<1>2. CASE NetworkStep
  <2>1. CASE ClientPays \/ HoldExpires \/ DealAges \/ LateSettle \/ LateCancel
    BY <2>1 DEF ClientPays, HoldExpires, DealAges, LateSettle, LateCancel, reqs,
                SettledFirst, PayoutAfterSettle
  <2>2. ASSUME NEW i \in Invoices, PayoutLands(i) \/ PayoutFails(i) \/ LatePay(i) PROVE SettledFirst'
    <3>1. hold' = "settled" /\ UNCHANGED <<payoutId, pc>>
      BY <2>2 DEF PayoutLands, PayoutFails, LatePay, SettledFirst, PayoutAfterSettle, reqs
    <3>2. \A j \in Invoices : payment[j] # "none" => payment'[j] # "none"
      BY <2>2 DEF PayoutLands, PayoutFails, LatePay, Attempt, TypeOK
    <3> QED BY <3>1, <3>2 DEF SettledFirst, PayoutAfterSettle, TypeOK
  <2> QED BY <1>2, <2>1, <2>2 DEF NetworkStep
<1>3. CASE UNCHANGED vars
  BY <1>3 DEF vars, reqs, SettledFirst, PayoutAfterSettle
<1> QED BY <1>1, <1>2, <1>3 DEF Next

\* A careful operator's calls, like all the others, name only payouts of this
\* deal, and a release is preceded by the one it records.
LEMMA OwnPayoutsStep ==
  CarefulConfirm /\ TypeOK /\ Locals /\ OwnPayouts /\ [Next]_vars => OwnPayouts'
<1> SUFFICES ASSUME CarefulConfirm, TypeOK, Locals, OwnPayouts, [Next]_vars PROVE OwnPayouts'
  OBVIOUS
<1> USE DEF row, net
<1>1. ASSUME NEW r \in Requests, RequestStep(r) PROVE OwnPayouts'
  <2>1. ASSUME NEW step, NEW s, NEW i, Enter(r, step, s, i), i # OtherPayment,
               payoutId' # OtherPayment,
               \A j \in Invoices : payment[j] # "none" => payment'[j] # "none",
               status' = "released" => \/ status = "released"
                                       \/ \E j \in Invoices : payment[j] # "none"
        PROVE  OwnPayouts'
    <3>1. \A q \in Requests : arg'[q] = IF q = r THEN i ELSE arg[q]
      BY <2>1 DEF Enter, TypeOK
    <3> QED BY <2>1, <3>1 DEF OwnPayouts
  <2>2. ASSUME NEW step, NEW s, NEW i, Enter(r, step, s, i), i \in {NoInvoice, arg[r], payoutId, payee},
               payoutId' \in {payoutId, NoInvoice, arg[r]}, payment' = payment,
               status' # "released" \/ status' = status
        PROVE  OwnPayouts'
    <3>1. i # OtherPayment /\ payoutId' # OtherPayment
      BY <2>2, NullAssumption DEF OwnPayouts, TypeOK
    <3> QED BY <2>1, <2>2, <3>1
  <2>3. arg[r] # OtherPayment
    BY DEF OwnPayouts
  <2>4. CASE ReleaseStep(r)
    <3>1. CASE ApproveDeal(r) \/ ResolveRelease(r) \/ PublicRelease(r)
      BY <2>2, <3>1 DEF ApproveDeal, ResolveRelease, PublicRelease, BeginRelease, MarkAttempt,
                        ResumeConfirmed
    <3>2. CASE PublicApproveDeal(r) \/ PublicLock(r) \/ PublicRefused(r)
      BY <2>2, <3>2 DEF PublicApproveDeal, PublicLock, PublicRefused, UpdateStatusIfCurrent, Goto, Done
    <3>3. CASE SettleOk(r) \/ SettleFails(r) \/ SettleConfirmed(r) \/ SettleUnconfirmed(r)
      BY <2>2, <3>3 DEF SettleOk, SettleFails, SettleConfirmed, SettleUnconfirmed, Goto
    <3>4. CASE PayAccepted(r)
      <4>1. \A j \in Invoices : payment[j] # "none" => payment'[j] # "none"
        BY <3>4 DEF PayAccepted, Attempt, TypeOK
      <4>2. payoutId' # OtherPayment /\ status' = status
        BY <3>4 DEF PayAccepted, OwnPayouts
      <4> QED BY <2>1, <2>3, <3>4, <4>1, <4>2 DEF PayAccepted, Goto
    <3>5. CASE PayRefused(r) \/ PayAmbiguous(r) \/ ClearAttempt(r) \/ FinalizeAborts(r)
      BY <2>2, <3>5 DEF PayRefused, PayAmbiguous, ClearAttempt, ClearPayoutTracking,
                        FinalizeAborts, Goto, Done
    <3>6. CASE Finalize(r)
      <4>1. arg[r] \in Invoices /\ payment[arg[r]] # "none"
        BY <2>3, <3>6 DEF Finalize, Locals, LocalOK, CheckingIds
      <4>2. payoutId' # OtherPayment
        BY <2>3, <3>6 DEF Finalize, OwnPayouts
      <4> QED BY <2>1, <3>6, <4>1, <4>2, NullAssumption DEF Finalize, Done
    <3> QED BY <2>4, <3>1, <3>2, <3>3, <3>4, <3>5, <3>6 DEF ReleaseStep
  <2>5. CASE RefundStep(r) \/ Abandon(r)
    BY <2>2, <2>5 DEF RefundStep, RefundDispute, CancelOk, CancelFails, CancelConfirmed,
                      CancelUnconfirmed, RecordRefund, Abandon, Goto, Done
  <2>6. CASE ReconcileStep(r)
    <3>1. CASE \E c \in CheckingIds : ConfirmPayout(r, c)
      BY <2>1, <3>1, NullAssumption DEF ConfirmPayout, OwnPayouts
    <3>2. CASE ConfirmRelease(r)
      <4>1. arg[r] \in Invoices /\ payment[arg[r]] # "none"
        BY <2>3, <3>2 DEF ConfirmRelease, Locals, LocalOK, CheckingIds, PayoutConfirmed
      <4>2. payoutId' # OtherPayment
        BY <2>3, <3>2 DEF ConfirmRelease, OwnPayouts
      <4> QED BY <2>1, <3>2, <4>1, <4>2, NullAssumption DEF ConfirmRelease, Done
    <3>3. CASE ResetPayout(r) \/ ResetTracking(r)
      BY <2>2, <3>3 DEF ResetPayout, ResetTracking, ClearPayoutTracking, Goto, Done
    <3> QED BY <2>6, <3>1, <3>2, <3>3 DEF ReconcileStep
  <2>7. CASE StatusStep(r)
    <3>1. CASE DisputeDeal(r) \/ RaiseDispute(r) \/ DetectPayment(r) \/ LockDeal(r)
      BY <2>2, <3>1 DEF DisputeDeal, RaiseDispute, DetectPayment, LockDeal, UpdateStatusIfCurrent, Goto, Done
    <3>2. CASE (\E new \in Status : UpdateStatus(r, new)) \/ WriteStatus(r)
      BY <2>2, <3>2 DEF UpdateStatus, WriteStatus, Locals, LocalOK, Done
    <3>3. CASE \E i \in Invoices : UpdatePayeeInvoice(r, i)
      BY <2>1, <3>3, NullAssumption DEF UpdatePayeeInvoice, OwnPayouts
    <3>4. CASE WritePayee(r)
      BY <2>2, <3>4 DEF WritePayee, Done
    <3>5. CASE SweepList(r) \/ SweepCheck(r) \/ SweepRefund(r)
      BY <2>2, <3>5 DEF SweepList, SweepCheck, SweepRefund, UpdateStatusIfCurrent, Goto, Done
    <3> QED BY <2>7, <3>1, <3>2, <3>3, <3>4, <3>5 DEF StatusStep
  <2> QED BY <1>1, <2>4, <2>5, <2>6, <2>7 DEF RequestStep
<1>2. CASE NetworkStep
  <2>1. /\ UNCHANGED <<status, payoutId, arg>>
        /\ \A j \in Invoices : payment[j] # "none" => payment'[j] # "none"
    BY <1>2 DEF NetworkStep, ClientPays, HoldExpires, DealAges, PayoutLands, PayoutFails, LatePay,
                Attempt, LateSettle, LateCancel, reqs, TypeOK
  <2> QED BY <2>1 DEF OwnPayouts
<1>3. CASE UNCHANGED vars
  BY <1>3 DEF vars, reqs, OwnPayouts
<1> QED BY <1>1, <1>2, <1>3 DEF Next

-----------------------------------------------------------------------------
(* The row lock, the sweep and the refund.                                 *)

\* A request outside refundDispute keeps the lock's meaning: it writes the
\* status only when nobody holds the row.
LEMMA LockQuiet ==
  ASSUME TypeOK, RowLock, NEW r \in Requests, NEW step, NEW s, NEW i,
         Enter(r, step, s, i), step \notin Cancelling, pc[r] \notin Cancelling,
         lock' = lock, Unlocked \/ status' = status
  PROVE  RowLock'
<1> SUFFICES ASSUME NEW q \in Requests
             PROVE  /\ lock' = q <=> pc'[q] \in Cancelling
                    /\ lock' = q => status' = "disputed"
  BY DEF RowLock
<1>1. q # r => pc'[q] = pc[q]
  BY DEF Enter, TypeOK
<1>2. pc'[r] = step
  BY DEF Enter, TypeOK
<1> QED BY <1>1, <1>2, NullAssumption DEF RowLock, Unlocked, Cancelling

\* Ending the transaction of a refund frees the row.
LEMMA LockReleased ==
  ASSUME TypeOK, RowLock, NEW r \in Requests, Done(r), lock = r, lock' = NoRequest
  PROVE  RowLock'
<1> SUFFICES ASSUME NEW q \in Requests PROVE pc'[q] \notin Cancelling
  BY NullAssumption DEF RowLock, Cancelling
<1> QED BY DEF Done, Enter, TypeOK, RowLock, Cancelling

\* Every step leaves the row locked by refundDispute alone, on a disputed deal.
LEMMA RowLockStep ==
  TypeOK /\ RowLock /\ [Next]_vars => RowLock'
<1> SUFFICES ASSUME TypeOK, RowLock, [Next]_vars PROVE RowLock'
  OBVIOUS
<1> USE DEF row, net
<1>1. ASSUME NEW r \in Requests, RequestStep(r) PROVE RowLock'
  <2>1. ASSUME NEW step \in Steps \ Cancelling, NEW s, NEW i,
               Enter(r, step, s, i), pc[r] \in Steps \ Cancelling,
               lock' = lock, Unlocked \/ status' = status
        PROVE  RowLock'
    BY <2>1, LockQuiet
  <2>2. CASE ReleaseStep(r)
    <3>1. CASE ApproveDeal(r) \/ ResolveRelease(r) \/ PublicRelease(r)
      BY <2>1, <3>1 DEF ApproveDeal, ResolveRelease, PublicRelease, BeginRelease, MarkAttempt,
                        ResumeConfirmed, Steps, Cancelling
    <3>2. CASE PublicApproveDeal(r) \/ PublicLock(r) \/ PublicRefused(r)
      BY <2>1, <3>2 DEF PublicApproveDeal, PublicLock, PublicRefused, UpdateStatusIfCurrent,
                        Goto, Done, Steps, Cancelling
    <3>3. CASE SettleOk(r) \/ SettleFails(r) \/ SettleConfirmed(r) \/ SettleUnconfirmed(r)
      BY <2>1, <3>3 DEF SettleOk, SettleFails, SettleConfirmed, SettleUnconfirmed, Goto, Steps, Cancelling
    <3>4. CASE PayAccepted(r) \/ PayRefused(r) \/ PayAmbiguous(r)
      BY <2>1, <3>4 DEF PayAccepted, PayRefused, PayAmbiguous, Goto, Done, Steps, Cancelling
    <3>5. CASE ClearAttempt(r) \/ Finalize(r) \/ FinalizeAborts(r)
      BY <2>1, <3>5 DEF ClearAttempt, Finalize, FinalizeAborts, Goto, Done, Steps, Cancelling
    <3> QED BY <2>2, <3>1, <3>2, <3>3, <3>4, <3>5 DEF ReleaseStep
  <2>3. CASE RefundStep(r)
    <3>1. CASE RefundDispute(r)
      <4> SUFFICES ASSUME NEW q \in Requests
                   PROVE  /\ lock' = q <=> pc'[q] \in Cancelling
                          /\ lock' = q => status' = "disputed"
        BY DEF RowLock
      <4> QED BY <3>1, NullAssumption DEF RefundDispute, Goto, Enter, TypeOK, RowLock,
                                          Unlocked, Cancelling
    <3>2. ASSUME NEW step \in Cancelling, Goto(r, step), pc[r] \in Cancelling,
                 UNCHANGED <<lock, status>>
          PROVE  RowLock'
      <4> SUFFICES ASSUME NEW q \in Requests
                   PROVE  /\ lock' = q <=> pc'[q] \in Cancelling
                          /\ lock' = q => status' = "disputed"
        BY DEF RowLock
      <4> QED BY <3>2 DEF Goto, Enter, TypeOK, RowLock
    <3>3. CASE CancelOk(r) \/ CancelFails(r) \/ CancelConfirmed(r)
      BY <3>2, <3>3 DEF CancelOk, CancelFails, CancelConfirmed, Cancelling
    <3>4. CASE CancelUnconfirmed(r) \/ RecordRefund(r)
      BY <3>4, LockReleased DEF CancelUnconfirmed, RecordRefund, RowLock, Cancelling
    <3> QED BY <2>3, <3>1, <3>3, <3>4 DEF RefundStep
  <2>4. CASE Abandon(r)
    <3>1. CASE pc[r] \in Cancelling
      BY <2>4, <3>1, LockReleased DEF Abandon, RowLock
    <3>2. CASE pc[r] \notin Cancelling
      <4>1. lock # r /\ pc[r] \in Steps
        BY <3>2 DEF RowLock, TypeOK
      <4> QED BY <2>1, <2>4, <3>2, <4>1 DEF Abandon, Done, Steps, Cancelling
    <3> QED BY <3>1, <3>2
  <2>5. CASE ReconcileStep(r)
    <3>1. CASE (\E c \in CheckingIds : ConfirmPayout(r, c)) \/ ConfirmRelease(r)
      BY <2>1, <3>1 DEF ConfirmPayout, ConfirmRelease, Done, Steps, Cancelling
    <3>2. CASE ResetPayout(r) \/ ResetTracking(r)
      BY <2>1, <3>2 DEF ResetPayout, ResetTracking, Goto, Done, Steps, Cancelling
    <3> QED BY <2>5, <3>1, <3>2 DEF ReconcileStep
  <2>6. CASE StatusStep(r)
    <3>1. CASE DisputeDeal(r) \/ RaiseDispute(r) \/ DetectPayment(r) \/ LockDeal(r)
      BY <2>1, <3>1 DEF DisputeDeal, RaiseDispute, DetectPayment, LockDeal, UpdateStatusIfCurrent,
                        Goto, Done, Steps, Cancelling
    <3>2. CASE (\E new \in Status : UpdateStatus(r, new)) \/ WriteStatus(r)
      BY <2>1, <3>2 DEF UpdateStatus, WriteStatus, Done, Steps, Cancelling
    <3>3. CASE (\E i \in Invoices : UpdatePayeeInvoice(r, i)) \/ WritePayee(r)
      BY <2>1, <3>3 DEF UpdatePayeeInvoice, WritePayee, Done, Steps, Cancelling
    <3>4. CASE SweepList(r) \/ SweepCheck(r) \/ SweepRefund(r)
      BY <2>1, <3>4 DEF SweepList, SweepCheck, SweepRefund, UpdateStatusIfCurrent, Goto, Done,
                        Steps, Cancelling
    <3> QED BY <2>6, <3>1, <3>2, <3>3, <3>4 DEF StatusStep
  <2> QED BY <1>1, <2>2, <2>3, <2>4, <2>5, <2>6 DEF RequestStep
<1>2. CASE NetworkStep
  <2>1. ASSUME UNCHANGED <<lock, status, pc>> PROVE RowLock'
    BY <2>1 DEF RowLock, Cancelling
  <2>2. CASE ClientPays
    BY <2>1, <2>2 DEF ClientPays, RowLock, reqs
  <2>3. CASE HoldExpires \/ DealAges \/ LateSettle \/ LateCancel
    BY <2>1, <2>3 DEF HoldExpires, DealAges, LateSettle, LateCancel, reqs
  <2>4. CASE \E i \in Invoices : PayoutLands(i) \/ PayoutFails(i) \/ LatePay(i)
    BY <2>1, <2>4 DEF PayoutLands, PayoutFails, LatePay, reqs
  <2> QED BY <1>2, <2>2, <2>3, <2>4 DEF NetworkStep
<1>3. CASE UNCHANGED vars
  BY <1>3 DEF vars, reqs, RowLock, Cancelling
<1> QED BY <1>1, <1>2, <1>3 DEF Next

\* A status that reads as released is the status of a hold that is gone.
LEMMA ReleasedReport ==
  ASSUME HeldIsNotUnpaid, TypeOK, NEW s \in Reports, IsHoldReleased(s)
  PROVE  HoldGone
<1>1. CASE hold = "held"
  <2>1. s \in HeldReports
    BY <1>1 DEF Reports
  <2> QED BY <2>1, ReportsAssumption DEF IsHoldReleased, HeldIsNotUnpaid
<1>2. CASE hold = "settled"
  <2>1. s = "SETTLED"
    BY <1>2 DEF Reports
  <2> QED BY <2>1 DEF IsHoldReleased
<1> QED BY <1>1, <1>2 DEF HoldGone, TypeOK

\* Nobody funds the hold again between a successful cancel and the record of the
\* refund: the row is locked and disputed all the while.
LEMMA CancelDoneStep ==
  HeldIsNotUnpaid /\ ClientPaysBeforeDispute /\ TypeOK /\ RowLock /\ CancelDone /\ [Next]_vars
    => CancelDone'
<1> SUFFICES ASSUME HeldIsNotUnpaid, ClientPaysBeforeDispute, TypeOK, RowLock, CancelDone, [Next]_vars
             PROVE  CancelDone'
  OBVIOUS
<1> USE DEF row, net
<1>1. ASSUME NEW r \in Requests, RequestStep(r) PROVE CancelDone'
  <2>0. ASSUME NEW step, NEW s, NEW i, Enter(r, step, s, i),
               hold' = hold \/ hold' \in {"settled", "cancelled"},
               hold' = "settled" => hold \in {"held", "settled"},
               step = "refund" => hold' \in {"open", "cancelled", "expired"}
        PROVE  CancelDone'
    <3>1. \A q \in Requests : pc'[q] = IF q = r THEN step ELSE pc[q]
      BY <2>0 DEF Enter, TypeOK
    <3> QED BY <2>0, <3>1 DEF CancelDone, HoldGone, TypeOK
  <2>1. CASE ReleaseStep(r)
    <3>1. CASE ApproveDeal(r) \/ ResolveRelease(r) \/ PublicRelease(r)
      BY <2>0, <3>1 DEF ApproveDeal, ResolveRelease, PublicRelease, BeginRelease, MarkAttempt,
                        ResumeConfirmed
    <3>2. CASE PublicApproveDeal(r) \/ PublicLock(r) \/ PublicRefused(r)
      BY <2>0, <3>2 DEF PublicApproveDeal, PublicLock, PublicRefused, Goto, Done
    <3>3. CASE SettleOk(r) \/ SettleFails(r) \/ SettleConfirmed(r) \/ SettleUnconfirmed(r)
      BY <2>0, <3>3 DEF SettleOk, SettleFails, SettleConfirmed, SettleUnconfirmed, Goto
    <3>4. CASE PayAccepted(r) \/ PayRefused(r) \/ PayAmbiguous(r)
      BY <2>0, <3>4 DEF PayAccepted, PayRefused, PayAmbiguous, Goto, Done
    <3>5. CASE ClearAttempt(r) \/ Finalize(r) \/ FinalizeAborts(r)
      BY <2>0, <3>5 DEF ClearAttempt, Finalize, FinalizeAborts, Done
    <3> QED BY <2>1, <3>1, <3>2, <3>3, <3>4, <3>5 DEF ReleaseStep
  <2>2. CASE RefundStep(r) \/ Abandon(r)
    BY <2>0, <2>2, ReleasedReport DEF RefundStep, RefundDispute, CancelOk, CancelFails,
         CancelConfirmed, CancelUnconfirmed, RecordRefund, Abandon, Goto, Done, HoldGone
  <2>3. CASE ReconcileStep(r)
    BY <2>0, <2>3 DEF ReconcileStep, ConfirmPayout, ConfirmRelease, ResetPayout, ResetTracking,
                      Goto, Done
  <2>4. CASE StatusStep(r)
    <3>1. CASE DisputeDeal(r) \/ RaiseDispute(r) \/ DetectPayment(r) \/ LockDeal(r)
      BY <2>0, <3>1 DEF DisputeDeal, RaiseDispute, DetectPayment, LockDeal, Goto, Done
    <3>2. CASE (\E new \in Status : UpdateStatus(r, new)) \/ WriteStatus(r)
      BY <2>0, <3>2 DEF UpdateStatus, WriteStatus, Done
    <3>3. CASE (\E i \in Invoices : UpdatePayeeInvoice(r, i)) \/ WritePayee(r)
      BY <2>0, <3>3 DEF UpdatePayeeInvoice, WritePayee, Done
    <3>4. CASE SweepList(r) \/ SweepCheck(r) \/ SweepRefund(r)
      BY <2>0, <3>4 DEF SweepList, SweepCheck, SweepRefund, Goto, Done
    <3> QED BY <2>4, <3>1, <3>2, <3>3, <3>4 DEF StatusStep
  <2> QED BY <1>1, <2>1, <2>2, <2>3, <2>4 DEF RequestStep
<1>2. CASE NetworkStep
  <2>1. CASE ClientPays
    <3>1. \A q \in Requests : pc[q] # "refund"
      BY <2>1 DEF ClientPays, RowLock, Cancelling
    <3> QED BY <2>1, <3>1 DEF ClientPays, CancelDone, HoldGone, reqs
  <2>2. CASE HoldExpires \/ DealAges \/ LateSettle \/ LateCancel
    BY <2>2 DEF HoldExpires, DealAges, LateSettle, LateCancel, CancelDone, HoldGone, reqs
  <2>3. CASE \E i \in Invoices : PayoutLands(i) \/ PayoutFails(i) \/ LatePay(i)
    BY <2>3 DEF PayoutLands, PayoutFails, LatePay, CancelDone, HoldGone, reqs
  <2> QED BY <1>2, <2>1, <2>2, <2>3 DEF NetworkStep
<1>3. CASE UNCHANGED vars
  BY <1>3 DEF vars, reqs, CancelDone, HoldGone
<1> QED BY <1>1, <1>2, <1>3 DEF Next

\* The sweep only ever acts on a deal whose hold can no longer be funded.
LEMMA SweepStep ==
  HeldIsNotUnpaid /\ SweepWaitsForExpiry /\ TypeOK /\ SweepInv /\ [Next]_vars => SweepInv'
<1> SUFFICES ASSUME HeldIsNotUnpaid, SweepWaitsForExpiry, TypeOK, SweepInv, [Next]_vars PROVE SweepInv'
  OBVIOUS
<1> USE DEF row, net, HoldGone
<1>1. ASSUME NEW r \in Requests, RequestStep(r) PROVE SweepInv'
  <2>1. ASSUME NEW step, NEW s, NEW i, Enter(r, step, s, i), aged' = aged,
               hold' = hold, step = "sweepCheck" => aged,
               step = "sweepWrite" => aged /\ HoldGone
        PROVE  SweepInv'
    <3>1. \A q \in Requests : pc'[q] = IF q = r THEN step ELSE pc[q]
      BY <2>1 DEF Enter, TypeOK
    <3> QED BY <2>1, <3>1 DEF SweepInv
  <2>2. CASE ReleaseStep(r)
    <3>1. CASE ApproveDeal(r) \/ ResolveRelease(r) \/ PublicRelease(r)
      BY <2>1, <3>1 DEF ApproveDeal, ResolveRelease, PublicRelease, BeginRelease, MarkAttempt,
                        ResumeConfirmed
    <3>2. CASE PublicApproveDeal(r) \/ PublicLock(r) \/ PublicRefused(r)
      BY <2>1, <3>2 DEF PublicApproveDeal, PublicLock, PublicRefused, Goto, Done
    <3>3. CASE SettleConfirmed(r) \/ SettleUnconfirmed(r)
      BY <2>1, <3>3 DEF SettleConfirmed, SettleUnconfirmed, Goto
    <3>7. CASE SettleFails(r)
      BY <3>7 DEF SettleFails, Goto, Enter, SweepInv, TypeOK
    <3>6. CASE SettleOk(r)
      BY <3>6 DEF SettleOk, Goto, Enter, SweepInv, TypeOK
    <3>4. CASE PayAccepted(r) \/ PayRefused(r) \/ PayAmbiguous(r)
      BY <2>1, <3>4 DEF PayAccepted, PayRefused, PayAmbiguous, Goto, Done
    <3>5. CASE ClearAttempt(r) \/ Finalize(r) \/ FinalizeAborts(r)
      BY <2>1, <3>5 DEF ClearAttempt, Finalize, FinalizeAborts, Done
    <3> QED BY <2>2, <3>1, <3>2, <3>3, <3>4, <3>5, <3>6, <3>7 DEF ReleaseStep
  <2>3. CASE RefundStep(r) \/ Abandon(r)
    <3>1. CASE CancelOk(r)
      BY <3>1 DEF CancelOk, Goto, Enter, SweepInv, TypeOK
    <3>4. CASE CancelFails(r)
      BY <3>4 DEF CancelFails, Goto, Enter, SweepInv, TypeOK
    <3>2. CASE RefundDispute(r) \/ CancelConfirmed(r)
      BY <2>1, <3>2 DEF RefundDispute, CancelConfirmed, Goto
    <3>3. CASE CancelUnconfirmed(r) \/ RecordRefund(r) \/ Abandon(r)
      BY <2>1, <3>3 DEF CancelUnconfirmed, RecordRefund, Abandon, Done
    <3> QED BY <2>3, <3>1, <3>2, <3>3, <3>4 DEF RefundStep
  <2>4. CASE ReconcileStep(r)
    BY <2>1, <2>4 DEF ReconcileStep, ConfirmPayout, ConfirmRelease, ResetPayout, ResetTracking, Goto, Done
  <2>5. CASE StatusStep(r)
    <3>1. CASE DisputeDeal(r) \/ RaiseDispute(r) \/ DetectPayment(r) \/ LockDeal(r)
      BY <2>1, <3>1 DEF DisputeDeal, RaiseDispute, DetectPayment, LockDeal, Goto, Done
    <3>2. CASE (\E new \in Status : UpdateStatus(r, new)) \/ WriteStatus(r)
      BY <2>1, <3>2 DEF UpdateStatus, WriteStatus, Done
    <3>3. CASE (\E i \in Invoices : UpdatePayeeInvoice(r, i)) \/ WritePayee(r)
      BY <2>1, <3>3 DEF UpdatePayeeInvoice, WritePayee, Done
    <3>4. CASE SweepList(r) \/ SweepRefund(r)
      BY <2>1, <3>4 DEF SweepList, SweepRefund, Done
    <3>5. CASE SweepCheck(r)
      <4>1. \A s \in Reports : IsHoldReleased(s) => HoldGone
        BY ReleasedReport
      <4> QED BY <2>1, <3>5, <4>1 DEF SweepCheck, SweepInv, Goto, Done
    <3> QED BY <2>5, <3>1, <3>2, <3>3, <3>4, <3>5 DEF StatusStep
  <2> QED BY <1>1, <2>2, <2>3, <2>4, <2>5 DEF RequestStep
<1>2. CASE NetworkStep
  BY <1>2 DEF NetworkStep, ClientPays, HoldExpires, DealAges, PayoutLands, PayoutFails, LatePay,
              LateSettle, LateCancel, reqs, SweepInv
<1>3. CASE UNCHANGED vars
  BY <1>3 DEF vars, reqs, SweepInv
<1> QED BY <1>1, <1>2, <1>3 DEF Next

\* No release has begun, and no settle was ever sent, while the deal waits for
\* its payment or its work.
LEMMA NoEarlyReleaseStep ==
  TypeOK /\ Locals /\ NoEarlyRelease /\ [Next]_vars => NoEarlyRelease'
<1> SUFFICES ASSUME TypeOK, Locals, NoEarlyRelease, [Next]_vars PROVE NoEarlyRelease'
  OBVIOUS
<1> USE DEF row, net
<1> DEFINE Early(s) == s \in {"awaiting_payment", "locked"}
<1>1. ASSUME NEW r \in Requests, RequestStep(r) PROVE NoEarlyRelease'
  <2>1. ASSUME NEW step, NEW s, NEW i, Enter(r, step, s, i), Early(status') => Early(status),
               lateSettle' = lateSettle, hold' = hold \/ hold' # "settled",
               step \notin Releasing \/ ~Early(status')
        PROVE  NoEarlyRelease'
    <3>1. \A q \in Requests : pc'[q] = IF q = r THEN step ELSE pc[q]
      BY <2>1 DEF Enter, TypeOK
    <3> QED BY <2>1, <3>1 DEF NoEarlyRelease
  <2>2. ASSUME pc[r] \in Releasing, status' = status PROVE NoEarlyRelease'
    BY <2>2 DEF NoEarlyRelease
  <2>3. CASE ReleaseStep(r)
    <3>1. CASE ApproveDeal(r) \/ ResolveRelease(r) \/ PublicRelease(r)
      <4>1. ~Early(status') /\ status' = status
        BY <3>1 DEF ApproveDeal, ResolveRelease, PublicRelease, BeginRelease, MarkAttempt,
                    ResumeConfirmed, CanTransition, ValidTransitions, Status, Closed
      <4> QED BY <4>1 DEF NoEarlyRelease
    <3>2. CASE PublicApproveDeal(r) \/ PublicLock(r) \/ PublicRefused(r)
      BY <2>1, <3>2 DEF PublicApproveDeal, PublicLock, PublicRefused, UpdateStatusIfCurrent,
                        Goto, Done, Releasing
    <3>3. CASE SettleOk(r) \/ SettleFails(r) \/ SettleConfirmed(r) \/ SettleUnconfirmed(r)
      BY <2>2, <3>3 DEF SettleOk, SettleFails, SettleConfirmed, SettleUnconfirmed, Releasing
    <3>4. CASE PayAccepted(r) \/ PayRefused(r) \/ PayAmbiguous(r) \/ ClearAttempt(r) \/ FinalizeAborts(r)
      BY <2>2, <3>4 DEF PayAccepted, PayRefused, PayAmbiguous, ClearAttempt, FinalizeAborts, Releasing
    <3>5. CASE Finalize(r)
      BY <3>5 DEF Finalize, NoEarlyRelease
    <3> QED BY <2>3, <3>1, <3>2, <3>3, <3>4, <3>5 DEF ReleaseStep
  <2>4. CASE RefundStep(r) \/ Abandon(r)
    BY <2>1, <2>4 DEF RefundStep, RefundDispute, CancelOk, CancelFails, CancelConfirmed,
                      CancelUnconfirmed, RecordRefund, Abandon, Goto, Done, Releasing
  <2>5. CASE ReconcileStep(r)
    BY <2>1, <2>5 DEF ReconcileStep, ConfirmPayout, ConfirmRelease, ResetPayout, ResetTracking,
                      Goto, Done, Releasing
  <2>6. CASE StatusStep(r)
    <3>1. CASE DisputeDeal(r) \/ RaiseDispute(r) \/ DetectPayment(r) \/ LockDeal(r)
      BY <2>1, <3>1 DEF DisputeDeal, RaiseDispute, DetectPayment, LockDeal, UpdateStatusIfCurrent,
                        Goto, Done, Releasing
    <3>2. CASE \E new \in Status : UpdateStatus(r, new)
      BY <2>1, <3>2 DEF UpdateStatus, Releasing
    <3>3. CASE WriteStatus(r)
      BY <3>3 DEF WriteStatus, Locals, LocalOK, NoEarlyRelease
    <3>4. CASE (\E i \in Invoices : UpdatePayeeInvoice(r, i)) \/ WritePayee(r)
      BY <2>1, <3>4 DEF UpdatePayeeInvoice, WritePayee, Done, Releasing
    <3>5. CASE SweepList(r) \/ SweepCheck(r) \/ SweepRefund(r)
      BY <2>1, <3>5 DEF SweepList, SweepCheck, SweepRefund, UpdateStatusIfCurrent, Goto, Done, Releasing
    <3> QED BY <2>6, <3>1, <3>2, <3>3, <3>4, <3>5 DEF StatusStep
  <2> QED BY <1>1, <2>3, <2>4, <2>5, <2>6 DEF RequestStep
<1>2. CASE NetworkStep
  BY <1>2 DEF NetworkStep, ClientPays, HoldExpires, DealAges, PayoutLands, PayoutFails, LatePay,
              LateSettle, LateCancel, reqs, NoEarlyRelease
<1>3. CASE UNCHANGED vars
  BY <1>3 DEF vars, reqs, NoEarlyRelease
<1> QED BY <1>1, <1>2, <1>3 DEF Next

\* A refund is recorded only for sats that are back with the client.
RefundedReturned == status = "refunded" => hold \notin {"held", "settled"}

\* No step turns the deal to refunded over held or settled sats, or commits the
\* sats of a refunded deal.
LEMMA RefundedStep ==
  ASSUME ClientPaysBeforeDispute, TypeOK, Locals, CancelDone, SweepInv, RefundedReturned,
         [Next]_vars
  PROVE  RefundedReturned'
<1> USE DEF row, net, RefundedReturned
<1>1. ASSUME NEW r \in Requests, RequestStep(r) PROVE RefundedReturned'
  <2>1. ASSUME status' # "refunded" \/ status' = status,
               hold' = hold \/ hold' = "cancelled" \/ hold = "held"
        PROVE  RefundedReturned'
    BY <2>1 DEF TypeOK
  <2>2. CASE ReleaseStep(r)
    <3>1. CASE ApproveDeal(r) \/ ResolveRelease(r) \/ PublicRelease(r)
      BY <2>1, <3>1 DEF ApproveDeal, ResolveRelease, PublicRelease, BeginRelease, MarkAttempt,
                        ResumeConfirmed
    <3>2. CASE PublicApproveDeal(r) \/ PublicLock(r) \/ PublicRefused(r)
      BY <2>1, <3>2 DEF PublicApproveDeal, PublicLock, PublicRefused, UpdateStatusIfCurrent
    <3>3. CASE SettleOk(r) \/ SettleFails(r) \/ SettleConfirmed(r) \/ SettleUnconfirmed(r)
      BY <2>1, <3>3 DEF SettleOk, SettleFails, SettleConfirmed, SettleUnconfirmed
    <3>4. CASE PayAccepted(r) \/ PayRefused(r) \/ PayAmbiguous(r)
      BY <2>1, <3>4 DEF PayAccepted, PayRefused, PayAmbiguous
    <3>5. CASE ClearAttempt(r) \/ Finalize(r) \/ FinalizeAborts(r)
      BY <2>1, <3>5 DEF ClearAttempt, Finalize, FinalizeAborts
    <3> QED BY <2>2, <3>1, <3>2, <3>3, <3>4, <3>5 DEF ReleaseStep
  <2>3. CASE RefundStep(r) \/ Abandon(r)
    <3>1. CASE RecordRefund(r)
      BY <3>1 DEF RecordRefund, CancelDone, HoldGone
    <3>2. CASE RefundDispute(r) \/ CancelOk(r) \/ CancelFails(r) \/ CancelConfirmed(r)
               \/ CancelUnconfirmed(r) \/ Abandon(r)
      BY <2>1, <3>2 DEF RefundDispute, CancelOk, CancelFails, CancelConfirmed, CancelUnconfirmed, Abandon
    <3> QED BY <2>3, <3>1, <3>2 DEF RefundStep
  <2>4. CASE ReconcileStep(r)
    BY <2>1, <2>4 DEF ReconcileStep, ConfirmPayout, ConfirmRelease, ResetPayout, ResetTracking
  <2>5. CASE StatusStep(r)
    <3>1. CASE DisputeDeal(r) \/ RaiseDispute(r) \/ DetectPayment(r) \/ LockDeal(r)
      BY <2>1, <3>1 DEF DisputeDeal, RaiseDispute, DetectPayment, LockDeal, UpdateStatusIfCurrent
    <3>2. CASE \E new \in Status : UpdateStatus(r, new)
      BY <2>1, <3>2 DEF UpdateStatus
    <3>3. CASE WriteStatus(r)
      BY <2>1, <3>3 DEF WriteStatus, Locals, LocalOK
    <3>4. CASE (\E i \in Invoices : UpdatePayeeInvoice(r, i)) \/ WritePayee(r)
      BY <2>1, <3>4 DEF UpdatePayeeInvoice, WritePayee
    <3>5. CASE SweepList(r) \/ SweepCheck(r)
      BY <2>1, <3>5 DEF SweepList, SweepCheck
    <3>6. CASE SweepRefund(r)
      BY <3>6 DEF SweepRefund, SweepInv, HoldGone
    <3> QED BY <2>5, <3>1, <3>2, <3>3, <3>4, <3>5, <3>6 DEF StatusStep
  <2> QED BY <1>1, <2>2, <2>3, <2>4, <2>5 DEF RequestStep
<1>2. CASE NetworkStep
  BY <1>2 DEF NetworkStep, ClientPays, HoldExpires, DealAges, PayoutLands, PayoutFails, LatePay,
              LateSettle, LateCancel
<1>3. CASE UNCHANGED vars
  BY <1>3 DEF vars
<1> QED BY <1>1, <1>2, <1>3 DEF Next

-----------------------------------------------------------------------------
(* The payout's id.                                                        *)

\* Once released a deal keeps its payout's id: no release or reset that could
\* clear it is under way.
LEMMA RecordedStep ==
  TypeOK /\ Locals /\ Tracking /\ OwnPayouts /\ Recorded /\ [Next]_vars => Recorded'
<1> SUFFICES ASSUME TypeOK, Locals, Tracking, OwnPayouts, Recorded, [Next]_vars PROVE Recorded'
  OBVIOUS
<1> USE DEF row, Recorded
<1>1. ASSUME NEW r \in Requests, RequestStep(r) PROVE Recorded'
  <2>1. ASSUME payoutId' = payoutId, status' # "released" \/ status' = status PROVE Recorded'
    BY <2>1
  <2>2. CASE ReleaseStep(r)
    <3>1. CASE ApproveDeal(r) \/ ResolveRelease(r) \/ PublicRelease(r)
      <4>1. status' # "released"
        BY <3>1 DEF ApproveDeal, ResolveRelease, PublicRelease, BeginRelease, MarkAttempt,
                    ResumeConfirmed, CanTransition, ValidTransitions, Status, Closed
      <4> QED BY <4>1
    <3>2. CASE PublicApproveDeal(r) \/ PublicLock(r) \/ PublicRefused(r)
      BY <2>1, <3>2 DEF PublicApproveDeal, PublicLock, PublicRefused, UpdateStatusIfCurrent
    <3>3. CASE SettleOk(r) \/ SettleFails(r) \/ SettleConfirmed(r) \/ SettleUnconfirmed(r)
      BY <2>1, <3>3 DEF SettleOk, SettleFails, SettleConfirmed, SettleUnconfirmed
    <3>4. CASE PayAccepted(r) \/ PayRefused(r) \/ PayAmbiguous(r) \/ FinalizeAborts(r)
      BY <2>1, <3>4 DEF PayAccepted, PayRefused, PayAmbiguous, FinalizeAborts
    <3>5. CASE ClearAttempt(r)
      <4>1. payoutId = NoInvoice
        BY <3>5 DEF ClearAttempt, Token, Unpaid, Tracking, OneAttempt, OwnPayouts, TypeOK, CheckingIds
      <4> QED BY <3>5, <4>1 DEF ClearAttempt
    <3>6. CASE Finalize(r)
      BY <3>6, NullAssumption DEF Finalize, Locals, LocalOK, CheckingIds
    <3> QED BY <2>2, <3>1, <3>2, <3>3, <3>4, <3>5, <3>6 DEF ReleaseStep
  <2>3. CASE RefundStep(r) \/ Abandon(r)
    BY <2>1, <2>3 DEF RefundStep, RefundDispute, CancelOk, CancelFails, CancelConfirmed,
                      CancelUnconfirmed, RecordRefund, Abandon
  <2>4. CASE ReconcileStep(r)
    <3>1. CASE ResetTracking(r)
      <4>1. payoutId = NoInvoice
        BY <3>1 DEF ResetTracking, Tracking, QuietReset, OwnPayouts, TypeOK, CheckingIds
      <4> QED BY <3>1, <4>1 DEF ResetTracking
    <3>2. CASE ConfirmRelease(r)
      BY <3>2, NullAssumption DEF ConfirmRelease, Locals, LocalOK, CheckingIds
    <3> QED BY <2>1, <2>4, <3>1, <3>2 DEF ReconcileStep, ConfirmPayout, ResetPayout
  <2>5. CASE StatusStep(r)
    BY <2>1, <2>5 DEF StatusStep, DisputeDeal, RaiseDispute, UpdateStatus, WriteStatus,
                      UpdatePayeeInvoice, WritePayee, DetectPayment, LockDeal, SweepList,
                      SweepCheck, SweepRefund, UpdateStatusIfCurrent, Locals, LocalOK
  <2> QED BY <1>1, <2>2, <2>3, <2>4, <2>5 DEF RequestStep
<1>2. CASE NetworkStep
  BY <1>2 DEF NetworkStep, ClientPays, HoldExpires, DealAges, PayoutLands, PayoutFails, LatePay,
              LateSettle, LateCancel
<1>3. CASE UNCHANGED vars
  BY <1>3 DEF vars
<1> QED BY <1>1, <1>2, <1>3 DEF Next

-----------------------------------------------------------------------------
(* Verdicts carried to a guarded write.                                    *)

\* What the guarded writers remember of the status they decided on.
Decided ==
  \A r \in Requests :
    /\ pc[r] = "dispute" => CanTransition(mem[r], "disputed")
    /\ pc[r] \in {"sweepCheck", "sweepWrite"} => mem[r] \in OpenStatus

\* DisputeDeal and the sweep carry their verdict to their write.
LEMMA DecidedStep == TypeOK /\ Decided /\ [Next]_vars => Decided'
<1> SUFFICES ASSUME TypeOK, Decided, [Next]_vars PROVE Decided'
  OBVIOUS
<1>1. ASSUME NEW r \in Requests, NEW step, NEW s, NEW i, Enter(r, step, s, i),
             step = "dispute" => CanTransition(s, "disputed"),
             step \in {"sweepCheck", "sweepWrite"} => s \in OpenStatus
      PROVE  Decided'
  <2>1. \A q \in Requests : /\ pc'[q] = IF q = r THEN step ELSE pc[q]
                            /\ mem'[q] = IF q = r THEN s ELSE mem[q]
    BY <1>1 DEF Enter, TypeOK
  <2> QED BY <1>1, <2>1 DEF Decided
<1>2. ASSUME NEW r \in Requests, RequestStep(r) PROVE Decided'
  <2>1. CASE ReleaseStep(r)
    <3>1. CASE ApproveDeal(r) \/ ResolveRelease(r) \/ PublicRelease(r)
      BY <1>1, <3>1 DEF ApproveDeal, ResolveRelease, PublicRelease, BeginRelease, MarkAttempt,
                        ResumeConfirmed
    <3>2. CASE PublicApproveDeal(r) \/ PublicLock(r) \/ PublicRefused(r)
      BY <1>1, <3>2 DEF PublicApproveDeal, PublicLock, PublicRefused, Goto, Done
    <3>3. CASE SettleOk(r) \/ SettleFails(r) \/ SettleConfirmed(r) \/ SettleUnconfirmed(r)
      BY <1>1, <3>3 DEF SettleOk, SettleFails, SettleConfirmed, SettleUnconfirmed, Goto
    <3>4. CASE PayAccepted(r) \/ PayRefused(r) \/ PayAmbiguous(r)
      BY <1>1, <3>4 DEF PayAccepted, PayRefused, PayAmbiguous, Goto, Done
    <3>5. CASE ClearAttempt(r) \/ Finalize(r) \/ FinalizeAborts(r)
      BY <1>1, <3>5 DEF ClearAttempt, Finalize, FinalizeAborts, Done
    <3> QED BY <2>1, <3>1, <3>2, <3>3, <3>4, <3>5 DEF ReleaseStep
  <2>2. CASE RefundStep(r) \/ Abandon(r)
    BY <1>1, <2>2 DEF RefundStep, RefundDispute, CancelOk, CancelFails, CancelConfirmed,
                      CancelUnconfirmed, RecordRefund, Abandon, Goto, Done
  <2>3. CASE ReconcileStep(r)
    BY <1>1, <2>3 DEF ReconcileStep, ConfirmPayout, ConfirmRelease, ResetPayout, ResetTracking,
                      Goto, Done
  <2>4. CASE StatusStep(r)
    <3>1. CASE DisputeDeal(r) \/ RaiseDispute(r) \/ DetectPayment(r) \/ LockDeal(r)
      BY <1>1, <3>1 DEF DisputeDeal, RaiseDispute, DetectPayment, LockDeal, Goto, Done
    <3>2. CASE (\E new \in Status : UpdateStatus(r, new)) \/ WriteStatus(r)
      BY <1>1, <3>2 DEF UpdateStatus, WriteStatus, Done
    <3>3. CASE (\E i \in Invoices : UpdatePayeeInvoice(r, i)) \/ WritePayee(r)
      BY <1>1, <3>3 DEF UpdatePayeeInvoice, WritePayee, Done
    <3>4. CASE SweepList(r) \/ SweepCheck(r) \/ SweepRefund(r)
      BY <1>1, <3>4 DEF SweepList, SweepCheck, SweepRefund, Goto, Done, Decided
    <3> QED BY <2>4, <3>1, <3>2, <3>3, <3>4 DEF StatusStep
  <2> QED BY <1>2, <2>1, <2>2, <2>3, <2>4 DEF RequestStep
<1>3. CASE NetworkStep
  BY <1>3 DEF NetworkStep, ClientPays, HoldExpires, DealAges, PayoutLands, PayoutFails, LatePay,
              LateSettle, LateCancel, reqs, Decided
<1>4. CASE UNCHANGED vars
  BY <1>4 DEF vars, reqs, Decided
<1> QED BY <1>2, <1>3, <1>4 DEF Next

-----------------------------------------------------------------------------
(* The theorems.                                                           *)

\* What holds whatever the operator, the client, LNbits' status strings and the
\* sweep's settings do.
Base == TypeOK /\ Locals /\ RowLock /\ NoEarlyRelease /\ Decided

\* Escrow starts in a state that satisfies every part of the invariant.
LEMMA InitInv ==
  Init => /\ Base /\ SettledFirst /\ OwnPayouts /\ Tracking /\ Recorded
          /\ CancelDone /\ SweepInv /\ RefundedReturned
<1>1. Init => TypeOK /\ Locals
  BY DEF Init, FreshRow, TypeOK, Locals, LocalOK, Unpaid, Status, Steps, NoStatus
<1>2. Init => Tracking
  BY DEF Init, FreshRow, Tracking, OneAttempt, QuietReset, OnePayout, Token, Unpaid, Live
<1>3. Init => SettledFirst /\ OwnPayouts /\ Recorded /\ NoEarlyRelease /\ RefundedReturned
  BY NullAssumption DEF Init, FreshRow, SettledFirst, PayoutAfterSettle, OwnPayouts, Recorded,
                        NoEarlyRelease, RefundedReturned, Releasing
<1>4. Init => RowLock /\ Decided /\ CancelDone /\ SweepInv
  BY NullAssumption DEF Init, FreshRow, RowLock, Cancelling, Decided, CancelDone, SweepInv
<1> QED BY <1>1, <1>2, <1>3, <1>4 DEF Base

\* Base is inductive by itself.
LEMMA BaseStep == Base /\ [Next]_vars => Base'
BY TypeOKStep, LocalsStep, RowLockStep, NoEarlyReleaseStep, DecidedStep DEF Base

\* Base holds of every behaviour.
LEMMA BaseInvariant == Spec => []Base
BY InitInv, BaseStep, PTL DEF Spec

\* Type correctness: no interleaving of the requests, the sweep, LNbits and
\* failures leaves a variable outside its type.
THEOREM TypeCorrect == Spec => []TypeOK
BY BaseInvariant, PTL DEF Base

\* Settling before paying, when LNbits says SETTLED only of a settled hold.
LEMMA SettledInvariant == HeldIsNotSettled => (Spec => []SettledFirst)
<1> SUFFICES ASSUME HeldIsNotSettled PROVE Spec => []SettledFirst
  OBVIOUS
<1>1. Base /\ SettledFirst /\ [Next]_vars => SettledFirst'
  BY SettledFirstStep DEF Base
<1> QED BY <1>1, InitInv, BaseInvariant, PTL DEF Spec

\* PayInvoice only ever runs on a settled hold, whatever the operator resets or
\* confirms, unless LNbits calls a merely held hold SETTLED.
THEOREM SettleBeforePay == HeldIsNotSettled => (Spec => []PayoutAfterSettle)
<1>1. SettledFirst => PayoutAfterSettle
  BY DEF SettledFirst
<1> QED BY <1>1, SettledInvariant, PTL

\* Only this deal's payouts are on record, for an operator who names no other.
LEMMA OwnInvariant == CarefulConfirm => (Spec => []OwnPayouts)
<1> SUFFICES ASSUME CarefulConfirm PROVE Spec => []OwnPayouts
  OBVIOUS
<1>1. Base /\ OwnPayouts /\ [Next]_vars => OwnPayouts'
  BY OwnPayoutsStep DEF Base
<1> QED BY <1>1, InitInv, BaseInvariant, PTL DEF Spec

\* A released deal's sats were settled and a payout was sent for it.
ReleasedMeansPaid ==
  status = "released" => hold = "settled" /\ \E i \in Invoices : payment[i] # "none"

\* Not even a hasty reset, a stale status write or a lost answer can make a deal
\* released without the money legs of releaseEscrow.  Two things could, and are
\* assumed away: confirm_payout naming a payment that is not this deal's payout,
\* and LNbits reporting a held hold as SETTLED.
THEOREM NoFreeRelease ==
  CarefulConfirm /\ HeldIsNotSettled => (Spec => []ReleasedMeansPaid)
<1>1. SettledFirst /\ OwnPayouts => ReleasedMeansPaid
  BY DEF SettledFirst, OwnPayouts, PayoutAfterSettle, ReleasedMeansPaid
<1> QED BY <1>1, SettledInvariant, OwnInvariant, PTL

\* Who may still pay, for an operator who resets only quiet deals.
LEMMA TrackingInvariant == CarefulReset => (Spec => [](Base /\ Tracking))
<1> SUFFICES ASSUME CarefulReset PROVE Spec => [](Base /\ Tracking)
  OBVIOUS
<1>1. Base /\ Tracking /\ [Next]_vars => Tracking'
  BY TrackingStep DEF Base
<1> QED BY <1>1, InitInv, BaseInvariant, PTL DEF Spec

\* At most one payout is out, and while it is nobody calls PayInvoice.
LEMMA TrackingExclusive == Tracking => PayoutsExclusive
<1> SUFFICES ASSUME Tracking PROVE PayoutsExclusive
  OBVIOUS
<1>1. NoDoublePayout
  BY DEF Tracking, OnePayout, NoDoublePayout
<1>2. ASSUME NEW i \in Invoices, Live(i), NEW r \in Requests PROVE pc[r] # "pay"
  BY <1>2 DEF Tracking, OneAttempt, Token, Unpaid
<1>3. ASSUME NEW i \in Invoices, Live(i) PROVE latePay = {}
  BY <1>3 DEF Tracking, OnePayout
<1> QED BY <1>1, <1>2, <1>3 DEF PayoutsExclusive

\* releaseEscrow never pays twice: with any number of concurrent approves,
\* retries, timeouts and payee invoices, at most one payout is out and no other
\* PayInvoice is under way, provided the operator resets only quiet deals.  What
\* confirm_payout names does not matter.
THEOREM PayoutSafety == CarefulReset => (Spec => []PayoutsExclusive)
BY TrackingExclusive, TrackingInvariant, PTL

\* Money that moved, or may still, is marked in the row.
THEOREM PayoutsMarked == CarefulReset => (Spec => []LivePayoutMarked)
<1>1. Tracking => LivePayoutMarked
  BY DEF Tracking, OnePayout, LivePayoutMarked
<1> QED BY <1>1, TrackingInvariant, PTL

\* The payout's id stays on record, for an operator careful with both rescues.
LEMMA RecordedInvariant == CarefulReset /\ CarefulConfirm => (Spec => []Recorded)
<1> SUFFICES ASSUME CarefulReset, CarefulConfirm PROVE Spec => []Recorded
  OBVIOUS
<1>1. Base /\ Tracking /\ OwnPayouts /\ Recorded /\ [Next]_vars => Recorded'
  BY RecordedStep DEF Base
<1> QED BY <1>1, InitInv, TrackingInvariant, OwnInvariant, PTL DEF Spec

\* What a released deal's row and hold look like.
LEMMA RecordedForwarded ==
  Base /\ SettledFirst /\ OwnPayouts /\ Recorded => ReleasedMeansForwarded
BY DEF Base, SettledFirst, PayoutAfterSettle, OwnPayouts, Recorded, ReleasedMeansForwarded,
       TypeOK, CheckingIds

\* A released deal was settled and paid out, and its payout's id is on record,
\* for an operator who resets only quiet deals and confirms only this deal's
\* payouts, and an LNbits that says SETTLED only of a settled hold.
THEOREM ReleaseSafety ==
  CarefulReset /\ CarefulConfirm /\ HeldIsNotSettled => (Spec => []ReleasedMeansForwarded)
BY RecordedForwarded, BaseInvariant, SettledInvariant, OwnInvariant, RecordedInvariant, PTL

\* The part of the invariant about the refund, for a client who funds the deal
\* before any dispute, a sweep that waits for the invoice's expiry and an LNbits
\* that does not call a held hold UNPAID.
LEMMA RefundInvariant ==
  ASSUME HeldIsNotUnpaid, ClientPaysBeforeDispute, SweepWaitsForExpiry
  PROVE  Spec => [](Base /\ CancelDone /\ SweepInv /\ RefundedReturned)
<1>1. Base /\ CancelDone /\ SweepInv /\ RefundedReturned /\ [Next]_vars
        => CancelDone' /\ SweepInv' /\ RefundedReturned'
  BY CancelDoneStep, SweepStep, RefundedStep DEF Base
<1> QED BY <1>1, InitInv, BaseInvariant, PTL DEF Spec

\* A refunded deal's sats went back: nothing held, nothing settled, nothing paid,
\* as long as LNbits reports a held hold as neither SETTLED nor UNPAID.
THEOREM RefundSafety ==
  HeldIsNotSettled /\ HeldIsNotUnpaid /\ ClientPaysBeforeDispute /\ SweepWaitsForExpiry
    => (Spec => []RefundedMeansReturned)
<1> SUFFICES ASSUME HeldIsNotSettled, HeldIsNotUnpaid, ClientPaysBeforeDispute, SweepWaitsForExpiry
             PROVE  Spec => []RefundedMeansReturned
  OBVIOUS
<1>1. SettledFirst /\ RefundedReturned => RefundedMeansReturned
  BY DEF SettledFirst, PayoutAfterSettle, RefundedReturned, RefundedMeansReturned, Live
<1> QED BY <1>1, SettledInvariant, RefundInvariant, PTL

\* A payout that is out can always be confirmed: the deal is released or can be.
THEOREM HungPayoutsConfirmable ==
  HeldIsNotSettled /\ HeldIsNotUnpaid /\ ClientPaysBeforeDispute /\ SweepWaitsForExpiry
    => (Spec => []HungPayoutConfirmable)
<1> SUFFICES ASSUME HeldIsNotSettled, HeldIsNotUnpaid, ClientPaysBeforeDispute, SweepWaitsForExpiry
             PROVE  Spec => []HungPayoutConfirmable
  OBVIOUS
<1>1. Base /\ SettledFirst /\ RefundedReturned => HungPayoutConfirmable
  <2> SUFFICES ASSUME Base, SettledFirst, RefundedReturned, NEW i \in Invoices, Live(i)
               PROVE  status = "released" \/ CanTransition(status, "released")
    BY DEF HungPayoutConfirmable
  <2>1. hold = "settled"
    BY DEF SettledFirst, PayoutAfterSettle, Live
  <2>2. status \in {"work_submitted", "reviewing", "disputed", "released"}
    BY <2>1 DEF Base, TypeOK, Status, NoEarlyRelease, RefundedReturned
  <2> QED BY <2>2 DEF CanTransition, ValidTransitions, Status, Closed
<1> QED BY <1>1, SettledInvariant, RefundInvariant, PTL

\* A call's write of the status, guarded or under the lock, follows the table.
LEMMA RequestHonours ==
  ASSUME Base, NEW r \in Requests, RequestStep(r), ~WriteStatus(r)
  PROVE  \/ status' = status
         \/ CanTransition(status, status')
         \/ status \in OpenStatus /\ status' = "refunded"
<1> USE DEF row
<1>0. CanTransition("awaiting_payment", "locked")
  BY DEF CanTransition, ValidTransitions, Status, Closed
<1>1. CASE ReleaseStep(r)
  <2>1. CASE PublicLock(r)
    BY <1>0, <2>1 DEF PublicLock, UpdateStatusIfCurrent
  <2>2. CASE Finalize(r)
    BY <2>2 DEF Finalize, MayFinalize
  <2>3. CASE ApproveDeal(r) \/ ResolveRelease(r) \/ PublicRelease(r)
    BY <2>3 DEF ApproveDeal, ResolveRelease, PublicRelease, BeginRelease, MarkAttempt,
                ResumeConfirmed
  <2>4. CASE ~(PublicLock(r) \/ Finalize(r) \/ ApproveDeal(r) \/ ResolveRelease(r) \/ PublicRelease(r))
    BY <1>1, <2>4 DEF ReleaseStep, PublicApproveDeal, PublicRefused, SettleOk, SettleFails,
                      SettleConfirmed, SettleUnconfirmed, PayAccepted, PayRefused, PayAmbiguous,
                      ClearAttempt, FinalizeAborts
  <2> QED BY <2>1, <2>2, <2>3, <2>4
<1>2. CASE RefundStep(r)
  <2>1. CASE RecordRefund(r)
    BY <2>1 DEF RecordRefund, Base, RowLock, Cancelling, OpenStatus
  <2> QED BY <1>2, <2>1 DEF RefundStep, RefundDispute, CancelOk, CancelFails, CancelConfirmed,
                            CancelUnconfirmed
<1>3. CASE ReconcileStep(r) \/ Abandon(r)
  BY <1>3 DEF ReconcileStep, ConfirmPayout, ConfirmRelease, ResetPayout, ResetTracking, Abandon
<1>4. CASE StatusStep(r)
  <2>1. CASE RaiseDispute(r)
    BY <2>1 DEF RaiseDispute, UpdateStatusIfCurrent, Base, Decided
  <2>2. CASE LockDeal(r)
    BY <1>0, <2>2 DEF LockDeal, UpdateStatusIfCurrent
  <2>3. CASE SweepRefund(r)
    BY <2>3 DEF SweepRefund, UpdateStatusIfCurrent, Base, Decided
  <2>4. CASE ~(RaiseDispute(r) \/ LockDeal(r) \/ SweepRefund(r))
    BY <1>4, <2>4 DEF StatusStep, DisputeDeal, UpdateStatus, UpdatePayeeInvoice, WritePayee,
                      DetectPayment, SweepList, SweepCheck
  <2> QED BY <2>1, <2>2, <2>3, <2>4
<1> QED BY <1>1, <1>2, <1>3, <1>4 DEF RequestStep

\* Every write of the status but the freelancer's unguarded one follows the
\* transition table at the moment it commits, or is the sweep's refund.
THEOREM LifecycleSafety == Spec => LifecycleHonoured
<1>1. ASSUME Base, [Next]_vars
      PROVE  [\/ status' = status
              \/ CanTransition(status, status')
              \/ status \in OpenStatus /\ status' = "refunded"
              \/ \E r \in Requests : WriteStatus(r)]_vars
  <2>1. CASE NetworkStep
    BY <2>1 DEF NetworkStep, ClientPays, HoldExpires, DealAges, PayoutLands, PayoutFails, LatePay,
                LateSettle, LateCancel, row
  <2>2. CASE \E r \in Requests : RequestStep(r)
    BY <1>1, <2>2, RequestHonours
  <2> QED BY <1>1, <2>1, <2>2 DEF Next
<1> QED BY <1>1, BaseInvariant, PTL DEF Spec, LifecycleHonoured

\* A closed deal changes its status only by the freelancer's unguarded write, and
\* only back to one of the two statuses that write can carry: releases, refunds,
\* disputes, payment detection, reconciliation and the sweep leave it closed.
ClosedButForStaleWrites ==
  [][(status \in Closed) =>
       \/ status' = status
       \/ \E r \in Requests : WriteStatus(r) /\ status' \in {"work_submitted", "reviewing"}]_vars

\* What remains of "released and refunded are terminal" (types.go), for any number
\* of requests and without any assumption on operator, client or sweep.
THEOREM ClosedSafety == Spec => ClosedButForStaleWrites
<1>1. ASSUME Base,
             [\/ status' = status
              \/ CanTransition(status, status')
              \/ status \in OpenStatus /\ status' = "refunded"
              \/ \E r \in Requests : WriteStatus(r)]_vars
      PROVE  [(status \in Closed) =>
                \/ status' = status
                \/ \E r \in Requests : WriteStatus(r) /\ status' \in {"work_submitted", "reviewing"}]_vars
  <2>1. SUFFICES ASSUME status \in Closed, status' # status
                 PROVE  \E r \in Requests :
                          WriteStatus(r) /\ status' \in {"work_submitted", "reviewing"}
    OBVIOUS
  <2>2. ~CanTransition(status, status') /\ status \notin OpenStatus
    BY <2>1 DEF CanTransition, ValidTransitions, Closed, OpenStatus, Status
  <2>3. PICK r \in Requests : WriteStatus(r)
    BY <1>1, <2>1, <2>2 DEF vars, row
  <2>4. status' \in {"work_submitted", "reviewing"}
    BY <1>1, <2>3 DEF WriteStatus, Base, Locals, LocalOK
  <2> QED BY <2>3, <2>4
<1> QED BY <1>1, BaseInvariant, LifecycleSafety, PTL DEF LifecycleHonoured, ClosedButForStaleWrites

\* Every step of every request, of LNbits and of the parties is one money move of
\* the ledger or none.
LEMMA LedgerStep ==
  ASSUME Base, SettledFirst, Tracking, [Next]_vars
  PROVE  [Ledger!LedgerNext]_(Ledger!ledger)
<1>1. ASSUME UNCHANGED <<hold, payment>> PROVE UNCHANGED Ledger!ledger
  BY <1>1 DEF Ledger!ledger, Live
<1>2. ASSUME UNCHANGED payment, hold' # hold,
             \/ hold = "open" /\ hold' = "held"
             \/ hold \in {"open", "held"} /\ hold' \in {"cancelled", "expired"}
             \/ hold = "held" /\ hold' = "settled"
      PROVE  Ledger!LedgerNext
  BY <1>2 DEF Ledger!LedgerNext, Ledger!Fund, Ledger!Return, Ledger!Settle, Location, Live
<1>3. ASSUME NEW i \in Invoices, payment' = [payment EXCEPT ![i] = "pending"],
             hold = "settled", UNCHANGED hold, \A j \in Invoices : ~Live(j)
      PROVE  Ledger!LedgerNext
  <2>1. {j \in Invoices : Live(j)} = {} /\ {j \in Invoices : Live(j)'} = {i}
    BY <1>3 DEF Base, TypeOK, Live
  <2>2. {j \in Invoices : (payment'[j] = "paid")} = {j \in Invoices : payment[j] = "paid"}
    BY <1>3 DEF Base, TypeOK, Live
  <2> QED BY <1>3, <2>1, <2>2 DEF Ledger!LedgerNext, Ledger!Forward, Location
<1>4. ASSUME NEW i \in Invoices, PayoutLands(i) \/ PayoutFails(i) PROVE Ledger!LedgerNext
  <2>1. \A j \in Invoices : Live(j) => j = i
    BY <1>4 DEF PayoutLands, PayoutFails, Live, Tracking, OnePayout
  <2>2. {j \in Invoices : Live(j)} = {i} /\ {j \in Invoices : payment[j] = "paid"} = {}
    BY <1>4, <2>1 DEF PayoutLands, PayoutFails, Live
  <2>3. CASE PayoutLands(i)
    <3>1. {j \in Invoices : Live(j)'} = {i} /\ {j \in Invoices : (payment'[j] = "paid")} = {i}
      BY <2>1, <2>3 DEF PayoutLands, Live, Base, TypeOK
    <3> QED BY <2>2, <2>3, <3>1 DEF PayoutLands, Ledger!LedgerNext, Ledger!Arrive
  <2>4. CASE PayoutFails(i)
    <3>1. {j \in Invoices : Live(j)'} = {} /\ {j \in Invoices : (payment'[j] = "paid")} = {}
      BY <2>1, <2>4 DEF PayoutFails, Live, Base, TypeOK
    <3> QED BY <2>2, <2>4, <3>1 DEF PayoutFails, Ledger!LedgerNext, Ledger!Bounce
  <2> QED BY <1>4, <2>3, <2>4
<1>5. ASSUME NEW i \in Invoices, LatePay(i) PROVE Ledger!LedgerNext
  <2>1. hold = "settled" /\ \A j \in Invoices : ~Live(j)
    BY <1>5 DEF LatePay, Tracking, OnePayout, SettledFirst, PayoutAfterSettle
  <2> QED BY <1>3, <1>5, <2>1 DEF LatePay, Attempt
<1>6. ASSUME NEW r \in Requests, PayAccepted(r) PROVE Ledger!LedgerNext
  <2>1. hold = "settled" /\ arg[r] \in Invoices /\ Token(r) /\ pc[r] # "finalize"
    BY <1>6 DEF PayAccepted, Base, SettledFirst, PayoutAfterSettle, Locals, LocalOK, Token, Unpaid
  <2>2. \A j \in Invoices : ~Live(j)
    BY <2>1 DEF Tracking, OneAttempt
  <2> QED BY <1>3, <1>6, <2>1, <2>2 DEF PayAccepted, Attempt
<1>7. ASSUME NEW r \in Requests, SettleOk(r) \/ CancelOk(r) PROVE Ledger!LedgerNext
  BY <1>2, <1>7 DEF SettleOk, CancelOk
<1>8. ASSUME NEW r \in Requests, ReleaseStep(r), ~SettleOk(r), ~PayAccepted(r)
      PROVE  UNCHANGED <<hold, payment>>
  BY <1>8 DEF ReleaseStep, ApproveDeal, ResolveRelease, BeginRelease, PublicApproveDeal,
              PublicLock, PublicRelease, PublicRefused, SettleFails, SettleConfirmed,
              SettleUnconfirmed, PayRefused, PayAmbiguous, ClearAttempt, Finalize,
              FinalizeAborts, net
<1>9. ASSUME NEW r \in Requests, RefundStep(r) \/ Abandon(r), ~CancelOk(r)
      PROVE  UNCHANGED <<hold, payment>>
  BY <1>9 DEF RefundStep, RefundDispute, CancelFails, CancelConfirmed, CancelUnconfirmed,
              RecordRefund, Abandon, net
<1>10. ASSUME NEW r \in Requests, ReconcileStep(r) \/ StatusStep(r)
       PROVE  UNCHANGED <<hold, payment>>
  BY <1>10 DEF ReconcileStep, ConfirmPayout, ConfirmRelease, ResetPayout, ResetTracking,
               StatusStep, DisputeDeal, RaiseDispute, UpdateStatus, WriteStatus,
               UpdatePayeeInvoice, WritePayee, DetectPayment, LockDeal, SweepList,
               SweepCheck, SweepRefund, net
<1>11. ASSUME NEW r \in Requests, RequestStep(r)
       PROVE  Ledger!LedgerNext \/ UNCHANGED Ledger!ledger
  BY <1>1, <1>6, <1>7, <1>8, <1>9, <1>10, <1>11 DEF RequestStep
<1>12. CASE ClientPays \/ HoldExpires \/ DealAges
  BY <1>1, <1>2, <1>12 DEF ClientPays, HoldExpires, DealAges, net
<1>13. CASE LateSettle \/ LateCancel
  BY <1>1, <1>2, <1>13 DEF LateSettle, LateCancel
<1>14. CASE UNCHANGED vars
  BY <1>1, <1>14 DEF vars, net
<1> QED BY <1>4, <1>5, <1>11, <1>12, <1>13, <1>14 DEF Next, NetworkStep

\* The escrow implements the money ledger, retries, lost answers, crashes and
\* reconciliation included, provided the operator resets only quiet deals and
\* LNbits says SETTLED only of a settled hold.
THEOREM LedgerRefinement ==
  CarefulReset /\ HeldIsNotSettled => (Spec => MoneyMovesOnce)
<1> SUFFICES ASSUME CarefulReset, HeldIsNotSettled PROVE Spec => Ledger!LedgerSpec
  BY DEF MoneyMovesOnce
<1>1. Init => Ledger!LedgerInit
  BY DEF Init, FreshRow, Ledger!LedgerInit, Location, Live
<1> QED BY <1>1, LedgerStep, SettledInvariant, TrackingInvariant, PTL DEF Spec, Ledger!LedgerSpec
=============================================================================
