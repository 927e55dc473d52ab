-------------------------- MODULE CompositionProofs -------------------------
(***************************************************************************)
(* Proofs about the compositions of Escrow, for any number of requests,    *)
(* payee invoices and artifacts.  DealLife: CreateDeal hands Escrow one of *)
(* its initial states, and from there on takes no step Escrow does not     *)
(* have.  DealWork: the deliverables and the money, over one status.       *)
(***************************************************************************)
EXTENDS DealLife, DealWork, EscrowProofs

CreationTypeOK ==
  /\ committed \in BOOLEAN
  /\ lateHold \in BOOLEAN
  /\ lateCancel \in BOOLEAN
  /\ step \in Creation!CreationSteps

\* Where the creation stands and what it may have left at LNbits and in the table.
Stage ==
  /\ step = "idle" => ~committed /\ hold = "none" /\ ~lateHold /\ ~lateCancel
  /\ step \in {"insert", "commit"} => ~committed /\ hold = "open" /\ ~lateHold /\ ~lateCancel
  /\ step = "created" => committed
  /\ lateHold => ~committed /\ hold = "none"

\* Until the commit nobody has used the row or paid the invoice.
Untouched ==
  ~committed => FreshRow /\ hold \in {"none", "open", "cancelled", "expired"}

CreationInv == CreationTypeOK /\ Stage /\ Untouched

-----------------------------------------------------------------------------
\* CreateDeal's steps, each by its effect on the row and the hold.
LEMMA CreateDealStep ==
  ASSUME CreationInv, CreateDeal
  PROVE  /\ CreationInv'
         /\ committed => UNCHANGED vars
         /\ ~committed /\ committed' => Init'
<1> USE DEF CreationInv, CreationTypeOK, Stage, Untouched, Creation!CreationSteps,
            CreateDeal, row, net, reqs, vars, FreshRow, Init
<1>1. CASE Creation!CreateHold \/ Creation!CreateHoldFails
  BY <1>1 DEF Creation!CreateHold, Creation!CreateHoldFails
<1>2. CASE Creation!InsertRow
  BY <1>2 DEF Creation!InsertRow
<1>3. CASE Creation!InsertFails
  <2>1. /\ ~committed /\ committed' = committed /\ ~lateHold /\ lateHold' = lateHold
        /\ hold = "open" /\ hold' = hold /\ lateCancel' = TRUE /\ step' = "failed"
    BY <1>3 DEF Creation!InsertFails, Creation!CancelOrphanHold
  <2>2. FreshRow'
    BY <2>1
  <2> QED BY <2>1, <2>2
<1>4. CASE Creation!Commit
  BY <1>4 DEF Creation!Commit
<1>5. CASE Creation!CommitFails
  BY <1>5 DEF Creation!CommitFails, Creation!CancelOrphanHold
<1>6. CASE Creation!Crash
  BY <1>6 DEF Creation!Crash
<1>7. CASE Creation!LateHold
  BY <1>7 DEF Creation!LateHold
<1> QED BY <1>1, <1>2, <1>3, <1>4, <1>5, <1>6, <1>7 DEF Creation!CreationStep

\* What happens outside the backend is a step of Escrow, and before the commit
\* only the unpaid invoice can change.
LEMMA HappenStep ==
  ASSUME CreationInv, Happen
  PROVE  CreationInv' /\ NetworkStep
<1> USE DEF CreationInv, CreationTypeOK, Stage, Untouched, creation, FreshRow, row, reqs
<1>1. NetworkStep
  BY DEF Happen, NetworkStep
<1>2. CASE Creation!Published /\ ClientPays /\ UNCHANGED creation
  BY <1>1, <1>2 DEF Creation!Published, ClientPays
<1>3. CASE step \in {"created", "failed"} /\ HoldExpires /\ UNCHANGED creation
  BY <1>1, <1>3 DEF HoldExpires
<1>4. CASE committed /\ DealAges /\ UNCHANGED creation
  BY <1>1, <1>4 DEF DealAges, net
<1>5. CASE (\E i \in Invoices : PayoutLands(i) \/ PayoutFails(i) \/ LatePay(i)) /\ UNCHANGED creation
  BY <1>1, <1>5 DEF PayoutLands, PayoutFails, LatePay
<1>6. CASE (LateSettle \/ LateCancel) /\ UNCHANGED creation
  BY <1>1, <1>6 DEF LateSettle, LateCancel
<1> QED BY <1>2, <1>3, <1>4, <1>5, <1>6 DEF Happen

\* Requests never touch what the creation keeps, nor the type of lateCancel.
LEMMA ServeStep ==
  ASSUME CreationInv, Base, NEW r \in Requests, Serve(r)
  PROVE  CreationInv' /\ Next
<1>1. Next /\ committed /\ UNCHANGED creation
  BY DEF Serve, Next
<1>2. TypeOK'
  BY <1>1, TypeOKStep DEF Base
<1> QED BY <1>1, <1>2 DEF CreationInv, CreationTypeOK, Stage, Untouched, creation, TypeOK

\* Every step of the deal's life is, for the row and the hold, a step of Escrow
\* or the commit that creates one of its initial states.
LEMMA LifeStep ==
  ASSUME CreationInv, committed => Base, [LifeNext]_lifeVars
  PROVE  /\ CreationInv'
         /\ committed' => IF committed THEN [Next]_vars ELSE Init'
<1>1. CASE CreateDeal
  BY <1>1, CreateDealStep
<1>2. ASSUME NEW r \in Requests, Serve(r)
      PROVE  CreationInv' /\ committed /\ Next
  BY <1>2, ServeStep DEF Serve
<1>3. CASE Happen
  <2>1. CreationInv' /\ NetworkStep /\ committed' = committed
    BY <1>3, HappenStep DEF Happen, creation
  <2> QED BY <2>1 DEF Next
<1>4. CASE UNCHANGED lifeVars
  BY <1>4 DEF lifeVars, creation, vars, row, net, reqs, CreationInv, CreationTypeOK, Stage,
              Untouched, FreshRow
<1> QED BY <1>1, <1>2, <1>3, <1>4 DEF LifeNext

-----------------------------------------------------------------------------
\* A request cancels a hold, or may have asked for it, only under a dispute, and
\* no request returns a deal to awaiting_payment.
LEMMA ServeKeepsPayable ==
  ASSUME Base, NEW r \in Requests, RequestStep(r), status' = "awaiting_payment"
  PROVE  /\ status = "awaiting_payment"
         /\ hold' = "cancelled" => hold = "cancelled"
         /\ lateCancel' = lateCancel
<1> USE DEF row, net, UpdateStatusIfCurrent
<1>1. CASE ReleaseStep(r)
  BY <1>1 DEF ReleaseStep, ApproveDeal, ResolveRelease, BeginRelease, MarkAttempt,
              ResumeConfirmed, PublicApproveDeal, PublicLock, PublicRelease, PublicRefused,
              SettleOk, SettleFails, SettleConfirmed, SettleUnconfirmed, PayAccepted,
              PayRefused, PayAmbiguous, ClearAttempt, Finalize, FinalizeAborts
<1>2. CASE RefundStep(r)
  <2>1. pc[r] \in Cancelling => status = "disputed"
    BY DEF Base, RowLock
  <2> QED
    BY <1>2, <2>1 DEF RefundStep, Cancelling, RefundDispute, CancelOk, CancelFails,
                      CancelConfirmed, CancelUnconfirmed, RecordRefund
<1>3. CASE ReconcileStep(r)
  BY <1>3 DEF ReconcileStep, ConfirmPayout, ConfirmRelease, ResetPayout, ResetTracking
<1>4. CASE StatusStep(r)
  <2>1. pc[r] = "setStatus" => mem[r] # "awaiting_payment"
    BY DEF Base, Locals, LocalOK
  <2> QED
    BY <1>4, <2>1 DEF StatusStep, DisputeDeal, RaiseDispute, UpdateStatus, WriteStatus,
                      UpdatePayeeInvoice, WritePayee, DetectPayment, LockDeal, SweepList,
                      SweepCheck, SweepRefund
<1>5. CASE Abandon(r)
  BY <1>5 DEF Abandon
<1> QED BY <1>1, <1>2, <1>3, <1>4, <1>5 DEF RequestStep

\* Nothing cancels the invoice of a created deal that awaits its payment.
LEMMA PayableStep ==
  ASSUME CreationInv, committed => Base, CreatedStaysPayable, [LifeNext]_lifeVars
  PROVE  CreatedStaysPayable'
<1> SUFFICES ASSUME step' = "created", status' = "awaiting_payment"
             PROVE  hold' # "cancelled" /\ ~lateCancel'
  BY DEF CreatedStaysPayable
<1>1. CASE CreateDeal
  <2>1. Creation!Commit \/ (Creation!LateHold /\ step = "created")
    BY <1>1 DEF CreateDeal, Creation!CreationStep, Creation!CreateHold, Creation!CreateHoldFails,
                Creation!InsertRow, Creation!InsertFails, Creation!CommitFails, Creation!Crash,
                Creation!CancelOrphanHold, Creation!LateHold
  <2>2. Creation!Commit
    BY <2>1 DEF Creation!LateHold, CreationInv, Stage
  <2> QED BY <2>2 DEF Creation!Commit, CreationInv, Stage
<1>2. ASSUME NEW r \in Requests, Serve(r) PROVE hold' # "cancelled" /\ ~lateCancel'
  <2>1. Base /\ RequestStep(r) /\ step = "created"
    BY <1>2 DEF Serve, creation
  <2> QED BY <2>1, ServeKeepsPayable DEF CreatedStaysPayable
<1>3. CASE Happen
  <2>1. step = "created" /\ status = "awaiting_payment" /\ hold # "cancelled" /\ ~lateCancel
    BY <1>3 DEF Happen, creation, row, ClientPays, HoldExpires, DealAges, PayoutLands,
                PayoutFails, LatePay, LateSettle, LateCancel, CreatedStaysPayable
  <2> QED BY <1>3, <2>1 DEF Happen, net, ClientPays, HoldExpires, DealAges, PayoutLands,
                            PayoutFails, LatePay, LateSettle, LateCancel
<1>4. CASE UNCHANGED lifeVars
  BY <1>4 DEF lifeVars, creation, vars, row, net, CreatedStaysPayable
<1> QED BY <1>1, <1>2, <1>3, <1>4 DEF LifeNext

LifeInv == CreationInv /\ (committed => Base) /\ CreatedStaysPayable

\* The invariant of the whole deal, from CreateDeal's first call on.
LEMMA LifeInvariant == LifeSpec => []LifeInv
<1>1. LifeInit => LifeInv
  BY DEF LifeInit, Creation!Init, LifeInv, CreationInv, CreationTypeOK, Stage, Untouched,
         CreatedStaysPayable, Creation!CreationSteps
<1>2. LifeInv /\ [LifeNext]_lifeVars
        => /\ CreationInv' /\ CreatedStaysPayable'
           /\ committed' => Base' \/ Init'
  <2> SUFFICES ASSUME LifeInv, [LifeNext]_lifeVars
               PROVE  /\ CreationInv' /\ CreatedStaysPayable'
                      /\ committed' => Base' \/ Init'
    OBVIOUS
  <2>1. CreationInv' /\ CreatedStaysPayable'
    BY LifeStep, PayableStep DEF LifeInv
  <2>2. committed' => IF committed THEN [Next]_vars ELSE Init'
    BY LifeStep DEF LifeInv
  <2>3. committed /\ [Next]_vars => Base'
    BY BaseStep DEF LifeInv
  <2> QED BY <2>1, <2>2, <2>3
<1> QED BY <1>1, <1>2, InitInv, PTL DEF LifeSpec, LifeInv

\* A step after the commit is one of Escrow's, and the commit is its Init.
LEMMA LifeHandOver ==
  LifeInv /\ [LifeNext]_lifeVars
    => /\ committed /\ committed' => [Next]_vars
       /\ ~committed /\ committed' => Init'
BY LifeStep DEF LifeInv

\* A row, once committed, stays: no operation deletes a deal.
LEMMA CommittedStays == LifeInv /\ [LifeNext]_lifeVars /\ committed => committed'
BY DEF LifeInv, CreationInv, Stage, LifeNext, CreateDeal, Serve, Happen, lifeVars, creation,
       Creation!CreationStep, Creation!CreateHold, Creation!CreateHoldFails, Creation!InsertRow,
       Creation!InsertFails, Creation!Commit, Creation!CommitFails, Creation!Crash,
       Creation!LateHold

\* CreateDeal, whatever of it fails, is lost or comes late, never leaves a paying
\* client without a row.
THEOREM CreationSafety == LifeSpec => [](LifeTypeOK /\ NoStrandedPayment)
<1>1. LifeInv => LifeTypeOK
  <2>1. CreationInv /\ ~committed /\ hold # "none" => TypeOK
    BY DEF CreationInv, CreationTypeOK, Untouched, FreshRow, TypeOK, Status, Steps, NoStatus
  <2> QED BY <2>1 DEF LifeInv, LifeTypeOK, CreationInv, CreationTypeOK, Base
<1>2. LifeInv => NoStrandedPayment
  BY DEF LifeInv, CreationInv, Untouched, NoStrandedPayment
<1> QED BY <1>1, <1>2, LifeInvariant, PTL

\* Nothing takes down the invoice of a created deal that still awaits its payment:
\* neither its own creation, nor a refund, which needs a dispute that no stale
\* status write can take back to awaiting_payment.
THEOREM CreatedPayable == LifeSpec => []CreatedStaysPayable
BY LifeInvariant, PTL DEF LifeInv

\* The hand-over: CreateDeal commits a row only into a state Escrow may start in,
\* and every later step of the deal is one of Escrow's.
THEOREM HandOver == LifeSpec => EscrowTakesOver
<1>1. LifeInv /\ [LifeNext]_lifeVars
        => [committed' => IF committed THEN [Next]_vars ELSE Init']_lifeVars
  BY LifeStep DEF LifeInv
<1> QED BY <1>1, LifeInvariant, PTL DEF LifeSpec, EscrowTakesOver

-----------------------------------------------------------------------------
(* Escrow's money properties, of the whole deal.                           *)

\* Who may still pay, from the commit on.
LEMMA LifeTracking ==
  ASSUME CarefulReset PROVE LifeSpec => [](LifeInv /\ (committed => Tracking))
<1>1. LifeInit => ~committed
  BY DEF LifeInit, Creation!Init
<1>2. LifeInv /\ (committed => Tracking) /\ [LifeNext]_lifeVars
        => (committed' => Tracking' \/ Init')
  BY LifeHandOver, TrackingStep DEF LifeInv, Base
<1> QED BY <1>1, <1>2, InitInv, LifeInvariant, PTL DEF LifeSpec

\* Settling before paying, from the commit on.
LEMMA LifeSettled ==
  ASSUME HeldIsNotSettled PROVE LifeSpec => [](LifeInv /\ (committed => SettledFirst))
<1>1. LifeInit => ~committed
  BY DEF LifeInit, Creation!Init
<1>2. LifeInv /\ (committed => SettledFirst) /\ [LifeNext]_lifeVars
        => (committed' => SettledFirst' \/ Init')
  BY LifeHandOver, SettledFirstStep DEF LifeInv, Base
<1> QED BY <1>1, <1>2, InitInv, LifeInvariant, PTL DEF LifeSpec

\* What is on record, from the commit on, for an operator careful with both rescues.
LEMMA LifeRecorded ==
  ASSUME CarefulReset, CarefulConfirm
  PROVE  LifeSpec => [](committed => OwnPayouts /\ Recorded)
<1>1. LifeInit => ~committed
  BY DEF LifeInit, Creation!Init
<1>2. LifeInv /\ (committed => Tracking) /\ (committed => OwnPayouts /\ Recorded) /\ [LifeNext]_lifeVars
        => (committed' => (OwnPayouts /\ Recorded)' \/ Init')
  BY LifeHandOver, OwnPayoutsStep, RecordedStep DEF LifeInv, Base
<1> QED BY <1>1, <1>2, InitInv, LifeTracking, PTL DEF LifeSpec

\* Whatever CreateDeal left behind, a deal is never paid out twice, also when the
\* operator confirms it with a payment that is not its own.
THEOREM LifePayoutSafety ==
  CarefulReset => (LifeSpec => [](committed => PayoutsExclusive))
<1> SUFFICES ASSUME CarefulReset
             PROVE  LifeSpec => [](committed => PayoutsExclusive)
  OBVIOUS
<1> QED BY TrackingExclusive, LifeTracking, PTL

\* Whatever CreateDeal left behind, a released deal was settled and paid out and
\* keeps its payout's id, for an operator who resets only quiet deals and confirms
\* only this deal's payouts.
THEOREM LifeReleaseSafety ==
  CarefulReset /\ CarefulConfirm /\ HeldIsNotSettled
    => (LifeSpec => [](committed => ReleasedMeansForwarded))
<1> SUFFICES ASSUME CarefulReset, CarefulConfirm, HeldIsNotSettled
             PROVE  LifeSpec => [](committed => ReleasedMeansForwarded)
  OBVIOUS
<1> QED BY RecordedForwarded, LifeSettled, LifeRecorded, PTL DEF LifeInv

\* Whatever CreateDeal left behind, a refunded deal's sats are with the client.
THEOREM LifeRefundSafety ==
  HeldIsNotSettled /\ HeldIsNotUnpaid /\ ClientPaysBeforeDispute /\ SweepWaitsForExpiry
    => (LifeSpec => [](committed => RefundedMeansReturned))
<1> SUFFICES ASSUME HeldIsNotSettled, HeldIsNotUnpaid, ClientPaysBeforeDispute, SweepWaitsForExpiry
             PROVE  LifeSpec => [](committed => RefundedMeansReturned)
  OBVIOUS
<1> DEFINE Returned == CancelDone /\ SweepInv /\ RefundedReturned
<1>1. LifeInit => ~committed
  BY DEF LifeInit, Creation!Init
<1>2. LifeInv /\ (committed => Returned) /\ [LifeNext]_lifeVars
        => (committed' => Returned' \/ Init')
  BY LifeHandOver, CancelDoneStep, SweepStep, RefundedStep DEF LifeInv, Base
<1>3. SettledFirst /\ Returned => RefundedMeansReturned
  BY DEF SettledFirst, PayoutAfterSettle, RefundedReturned, RefundedMeansReturned, Live
<1>4. Init => Returned
  BY InitInv
<1> HIDE DEF Returned
<1> QED BY <1>1, <1>2, <1>3, <1>4, LifeSettled, PTL DEF LifeSpec, LifeInv

-----------------------------------------------------------------------------
(* The money ledger, from before the invoice exists.                       *)

\* EscrowRefinement's mapping; before the hold is drawn the client has the sats.
LifeLedger == INSTANCE EscrowLedger
                WITH escrow   <- IF hold = "none" THEN "client" ELSE Location[hold],
                     payouts  <- {i \in Invoices : Live(i)},
                     received <- {i \in Invoices : payment[i] = "paid"}

\* Before the commit the creation and the network only open the hold and let it
\* go; no payout exists.
LEMMA UncommittedLedgerStep ==
  ASSUME LifeInv, [LifeNext]_lifeVars, ~committed
  PROVE  [LifeLedger!LedgerNext]_(LifeLedger!ledger)
<1> USE DEF LifeInv, CreationInv, Stage, Untouched, FreshRow
<1>1. UNCHANGED payment
  <2>1. CASE CreateDeal
    BY <2>1 DEF CreateDeal
  <2>2. CASE Happen
    BY <2>2 DEF Happen, ClientPays, HoldExpires, DealAges, PayoutLands, PayoutFails, LatePay,
                LateSettle, LateCancel, net
  <2>3. CASE UNCHANGED lifeVars
    BY <2>3 DEF lifeVars, vars, net
  <2> QED BY <2>1, <2>2, <2>3 DEF LifeNext, Serve
<1>2. \/ hold' = hold
      \/ hold = "none" /\ hold' = "open"
      \/ hold = "open" /\ hold' \in {"cancelled", "expired"}
  <2>1. CASE CreateDeal
    BY <2>1 DEF CreateDeal, Creation!CreationStep, Creation!CreateHold, Creation!CreateHoldFails,
                Creation!InsertRow, Creation!InsertFails, Creation!Commit, Creation!CommitFails,
                Creation!Crash, Creation!LateHold
  <2>2. CASE Happen
    BY <2>2 DEF Happen, Creation!Published, ClientPays, HoldExpires, DealAges, PayoutLands,
                PayoutFails, LatePay, LateSettle, LateCancel, net
  <2>3. CASE UNCHANGED lifeVars
    BY <2>3 DEF lifeVars, vars, net
  <2> QED BY <2>1, <2>2, <2>3 DEF LifeNext, Serve
<1>3. UNCHANGED <<{i \in Invoices : Live(i)}, {i \in Invoices : payment[i] = "paid"}>>
  BY <1>1 DEF Live
<1>4. CASE hold = "open" /\ hold' \in {"cancelled", "expired"}
  BY <1>3, <1>4 DEF LifeLedger!LedgerNext, LifeLedger!Return, Location
<1>5. CASE hold' = hold \/ (hold = "none" /\ hold' = "open")
  BY <1>3, <1>5 DEF LifeLedger!ledger, Location
<1> QED BY <1>2, <1>4, <1>5

\* From the commit on Escrow's steps are the ledger's.
LEMMA CommittedLedgerStep ==
  ASSUME Base, Base', SettledFirst, Tracking, [Next]_vars
  PROVE  [LifeLedger!LedgerNext]_(LifeLedger!ledger)
<1>1. [Ledger!LedgerNext]_(Ledger!ledger)
  BY LedgerStep
<1>2. hold # "none" /\ hold' # "none"
  BY DEF Base, TypeOK
<1>3. CASE UNCHANGED Ledger!ledger
  BY <1>2, <1>3 DEF Ledger!ledger, LifeLedger!ledger
<1>4. CASE Ledger!LedgerNext
  BY <1>2, <1>4 DEF Ledger!LedgerNext, Ledger!Fund, Ledger!Return, Ledger!Settle,
                    Ledger!Forward, Ledger!Bounce, Ledger!Arrive,
                    LifeLedger!LedgerNext, LifeLedger!Fund, LifeLedger!Return,
                    LifeLedger!Settle, LifeLedger!Forward, LifeLedger!Bounce, LifeLedger!Arrive
<1> QED BY <1>1, <1>3, <1>4

\* The whole deal, from CreateDeal's first call to LNbits on, moves the client's
\* sats as the money ledger does: they are held, and returned or settled, once,
\* and settled sats reach the freelancer by one payout at a time.
THEOREM LifeLedgerRefinement ==
  CarefulReset /\ HeldIsNotSettled => (LifeSpec => LifeLedger!LedgerSpec)
<1> SUFFICES ASSUME CarefulReset, HeldIsNotSettled PROVE LifeSpec => LifeLedger!LedgerSpec
  OBVIOUS
<1>1. LifeInit => LifeLedger!LedgerInit
  BY DEF LifeInit, Creation!Init, FreshRow, LifeLedger!LedgerInit, Live
<1>2. /\ LifeInv /\ LifeInv'
      /\ committed => Tracking /\ SettledFirst
      /\ [LifeNext]_lifeVars
      => [LifeLedger!LedgerNext]_(LifeLedger!ledger)
  <2> SUFFICES ASSUME LifeInv, LifeInv', committed => Tracking /\ SettledFirst,
                      [LifeNext]_lifeVars
               PROVE  [LifeLedger!LedgerNext]_(LifeLedger!ledger)
    OBVIOUS
  <2>1. CASE ~committed
    BY <2>1, UncommittedLedgerStep
  <2>2. CASE committed
    <3>1. committed' /\ [Next]_vars
      BY <2>2, LifeHandOver, CommittedStays
    <3> QED BY <2>2, <3>1, CommittedLedgerStep DEF LifeInv
  <2> QED BY <2>1, <2>2
<1> QED BY <1>1, <1>2, LifeTracking, LifeSettled, PTL DEF LifeSpec, LifeLedger!LedgerSpec

-----------------------------------------------------------------------------
(* DealWork: the Live CV on top of the escrow.                             *)

\* Workers are requests.
LEMMA WorkersServe == Workers \subseteq Requests
BY DEF Workers

\* Every step of the money and the deliverables is, for the row and the sats, a
\* step of Escrow or none.
LEMMA WorkStepOfEscrow == [WorkNext]_workVars => [Next]_vars
<1> SUFFICES ASSUME [WorkNext]_workVars PROVE [Next]_vars
  OBVIOUS
<1>1. ASSUME NEW r \in Workers, WorkStep(r) PROVE [Next]_vars
  <2>1. r \in Requests
    BY WorkersServe
  <2>2. ASSUME NEW new \in Status, UpdateStatus(r, new) PROVE Next
    BY <2>1, <2>2 DEF Next, RequestStep, StatusStep
  <2>3. ASSUME Abandon(r) \/ WriteStatus(r) PROVE Next
    BY <2>1, <2>3 DEF Next, RequestStep, StatusStep
  <2>4. "work_submitted" \in Status
    BY DEF Status
  <2> QED BY <1>1, <2>2, <2>3, <2>4 DEF WorkStep, SubmitWork, SubmitCheck, ChangeStatus,
                                       CommitStatus, AbandonWork
<1>2. CASE (\E r \in Requests \ Workers : MoneyStep(r)) \/ NetworkStep
  BY <1>2 DEF MoneyStep, Next
<1>3. CASE DeliverableStep \/ UNCHANGED workVars
  BY <1>3 DEF DeliverableStep, workVars
<1> QED BY <1>1, <1>2, <1>3 DEF WorkNext

\* Whatever happens to the deliverables, the money side of a deal behaves as
\* Escrow says, so that everything proved of Escrow holds of DealWork.
THEOREM WorkMoney == WorkSpec => Spec
BY WorkStepOfEscrow, PTL DEF WorkSpec, WorkInit, Spec

\* Every step is, for the deliverables, one of LiveCV's: Escrow's writes of the
\* status are the moves LiveCV expects.
LEMMA WorkStepOfCV == Base /\ [WorkNext]_workVars => [CV!Next]_(CV!vars)
<1> SUFFICES ASSUME Base, [WorkNext]_workVars PROVE [CV!Next]_(CV!vars)
  OBVIOUS
<1> USE DEF CV!Next
<1>1. ASSUME UNCHANGED deliverables, UNCHANGED status PROVE UNCHANGED CV!vars
  BY <1>1 DEF deliverables, CV!vars, CV!files, CV!reqs
<1>2. ASSUME UNCHANGED deliverables, status' \in Status,
             \/ CanTransition(status, status')
             \/ status \in OpenStatus /\ status' = "refunded"
      PROVE  CV!Next
  <2>1. CV!DealMoves(status')
    BY <1>2 DEF CV!DealMoves, CV!CanTransition, CV!ValidTransitions, CV!OpenStatus, CV!Closed,
                CV!Status, CanTransition, ValidTransitions, OpenStatus, Closed, Status,
                deliverables, CV!files, CV!reqs
  <2> QED BY <1>2, <2>1 DEF CV!Status, Status
<1>3. ASSUME NEW r \in Requests \ Workers, MoneyStep(r) PROVE [CV!Next]_(CV!vars)
  <2>1. RequestStep(r) /\ ~WriteStatus(r) /\ UNCHANGED deliverables
    BY <1>3 DEF MoneyStep, WriteStatus
  <2>2. status' \in Status
    BY <2>1, BaseStep DEF Next, Base, TypeOK
  <2> QED BY <1>1, <1>2, <2>1, <2>2, RequestHonours
<1>4. CASE NetworkStep /\ UNCHANGED deliverables
  <2>1. UNCHANGED status
    BY <1>4 DEF NetworkStep, ClientPays, HoldExpires, DealAges, PayoutLands, PayoutFails,
                LatePay, LateSettle, LateCancel, row
  <2> QED BY <1>1, <1>4, <2>1
<1>5. ASSUME NEW r \in Workers, WorkStep(r) PROVE CV!Next
  BY <1>5 DEF WorkStep, SubmitWork, SubmitCheck, ChangeStatus, CommitStatus, AbandonWork,
              CV!ServiceStep, CV!StatusStep, Status, CV!Status
<1>6. CASE DeliverableStep
  BY <1>6 DEF DeliverableStep, CV!ServiceStep
<1>7. CASE UNCHANGED workVars
  BY <1>1, <1>7 DEF workVars, vars, row
<1> QED BY <1>3, <1>4, <1>5, <1>6, <1>7 DEF WorkNext

\* The assumption LiveCV makes about the rest of the deal is discharged: on top of
\* Escrow the deliverables behave as LiveCV says.
THEOREM WorkDeliverables == WorkSpec => CVUnderEscrow
<1>1. WorkInit => CV!Init
  BY DEF WorkInit
<1> QED BY <1>1, WorkMoney, BaseInvariant, WorkStepOfCV, PTL DEF WorkSpec, CVUnderEscrow, CV!Spec

\* The freelancer's work is paid for: settled, and a payout sent.
PaidFor == hold = "settled" /\ \E i \in Invoices : payment[i] # "none"

\* The CV is empty and no call is about to write to it.
NothingAnchored ==
  /\ entry = [a \in Artifacts |-> "none"]
  /\ DOMAIN cvPc = Workers
  /\ \A r \in Workers : cvPc[r] \notin {"anchor", "insertAnchor"}

\* A settled hold stays settled and a payout, though it may fail, was sent.
LEMMA PaidForStays == TypeOK /\ Locals /\ PaidFor /\ [Next]_vars => PaidFor'
<1> SUFFICES ASSUME TypeOK, Locals, PaidFor, [Next]_vars PROVE PaidFor'
  OBVIOUS
<1> USE DEF PaidFor
<1>1. ASSUME UNCHANGED <<hold, payment>> PROVE PaidFor'
  BY <1>1
<1>2. ASSUME NEW i \in Invoices, NEW v \in {"pending", "paid", "failed"},
             payment' \in {payment, [payment EXCEPT ![i] = v]}, hold' = hold
      PROVE  PaidFor'
  BY <1>2 DEF TypeOK
<1>3. ASSUME NEW r \in Requests, RequestStep(r) PROVE PaidFor'
  <2>1. CASE PayAccepted(r)
    <3>1. arg[r] \in Invoices
      BY <2>1 DEF PayAccepted, Locals, LocalOK, Unpaid
    <3> QED BY <1>2, <2>1, <3>1 DEF PayAccepted, Attempt
  <2>2. CASE SettleOk(r) \/ CancelOk(r)
    BY <2>2 DEF SettleOk, CancelOk
  <2>3. CASE ReleaseStep(r) /\ ~PayAccepted(r) /\ ~SettleOk(r)
    BY <1>1, <2>3 DEF ReleaseStep, ApproveDeal, ResolveRelease, BeginRelease, PublicApproveDeal,
                PublicLock, PublicRelease, PublicRefused, SettleFails, SettleConfirmed,
                SettleUnconfirmed, PayRefused, PayAmbiguous, ClearAttempt, Finalize,
                FinalizeAborts, net
  <2>4. CASE (RefundStep(r) \/ Abandon(r)) /\ ~CancelOk(r)
    BY <1>1, <2>4 DEF RefundStep, RefundDispute, CancelFails, CancelConfirmed,
                CancelUnconfirmed, RecordRefund, Abandon, net
  <2>5. CASE ReconcileStep(r) \/ StatusStep(r)
    BY <1>1, <2>5 DEF ReconcileStep, ConfirmPayout, ConfirmRelease, ResetPayout, ResetTracking,
                 StatusStep, DisputeDeal, RaiseDispute, UpdateStatus, WriteStatus,
                 UpdatePayeeInvoice, WritePayee, DetectPayment, LockDeal, SweepList,
                 SweepCheck, SweepRefund, net
  <2> QED BY <1>3, <2>1, <2>2, <2>3, <2>4, <2>5 DEF RequestStep
<1>4. CASE ClientPays \/ HoldExpires \/ DealAges \/ LateSettle \/ LateCancel
  BY <1>4 DEF ClientPays, HoldExpires, DealAges, LateSettle, LateCancel, net
<1>5. ASSUME NEW i \in Invoices, PayoutLands(i) \/ PayoutFails(i) \/ LatePay(i) PROVE PaidFor'
  BY <1>2, <1>5 DEF PayoutLands, PayoutFails, LatePay, Attempt
<1>6. CASE UNCHANGED vars
  BY <1>1, <1>6 DEF vars, net
<1> QED BY <1>3, <1>4, <1>5, <1>6 DEF Next, NetworkStep

\* A call on the deliverables that enters a step other than the anchoring ones.
LEMMA EntersElsewhere ==
  ASSUME NothingAnchored, NEW r \in Workers, NEW at, NEW s, NEW a, NEW rest,
         CV!Enter(r, at, s, a, rest), at \notin {"anchor", "insertAnchor"},
         UNCHANGED entry
  PROVE  NothingAnchored'
BY DEF NothingAnchored, CV!Enter

\* While the deal is not released nothing gets onto an empty CV.
LEMMA EmptyCVStays ==
  ASSUME NothingAnchored, status # "released", [WorkNext]_workVars
  PROVE  NothingAnchored'
<1>1. ASSUME UNCHANGED deliverables PROVE NothingAnchored'
  BY <1>1 DEF deliverables, NothingAnchored
<1>2. CASE (\E r \in Requests \ Workers : MoneyStep(r)) \/ (NetworkStep /\ UNCHANGED deliverables)
  BY <1>1, <1>2 DEF MoneyStep
<1>3. ASSUME NEW r \in Workers, WorkStep(r) PROVE NothingAnchored'
  BY <1>3, EntersElsewhere DEF WorkStep, SubmitWork, SubmitCheck, ChangeStatus, CommitStatus,
           AbandonWork, CV!SubmitWork, CV!SubmitCheck, CV!UpdateStatus, CV!WriteStatus,
           CV!Abandon, CV!Done
<1>4. ASSUME NEW r \in Workers, CV!UploadStep(r) PROVE NothingAnchored'
  BY <1>4, EntersElsewhere DEF CV!UploadStep, CV!UploadArtifact, CV!SaveBlob, CV!SaveFails,
           CV!CreateArtifact, CV!CreateFails, CV!CleanupBlob, CV!RemoveBlob, CV!Goto, CV!Done
<1>5. ASSUME NEW r \in Workers, CV!DeleteStep(r) PROVE NothingAnchored'
  <2>1. CASE CV!DeleteRow(r)
    <3>1. entry' = entry
      BY <2>1 DEF CV!DeleteRow, NothingAnchored
    <3> QED BY <2>1, <3>1, EntersElsewhere DEF CV!DeleteRow, CV!Goto, CV!Done
  <2> QED BY <1>5, <2>1, EntersElsewhere DEF CV!DeleteStep, CV!DeleteArtifact, CV!DeleteBlob,
             CV!RemoveBlob, CV!Done
<1>6. ASSUME NEW r \in Workers, CV!AnchorStep(r) \/ CV!AnchorFails(r) PROVE FALSE
  BY <1>6 DEF CV!AnchorStep, CV!ListUnanchored, CV!Unanchored, CV!InsertAnchor, CV!HashBlob,
           CV!HashFails, CV!AnchorFails, NothingAnchored
<1>7. ASSUME NEW r \in Workers, NEW a \in Artifacts, CV!GoroutineStep(r, a)
      PROVE  NothingAnchored'
  BY <1>7 DEF CV!GoroutineStep, CV!SubmitOk, CV!SubmitFails, CV!UpdateAnchorOTS, CV!reqs,
              NothingAnchored
<1>8. CASE CV!WorkerStep
  BY <1>8 DEF CV!WorkerStep, CV!ListPending, CV!UpgradeOk, CV!UpgradeSkips, CV!UpdateAnchorOTS,
              CV!reqs, NothingAnchored
<1>9. CASE UNCHANGED workVars
  BY <1>1, <1>9 DEF workVars
<1> QED BY <1>2, <1>3, <1>4, <1>5, <1>6, <1>7, <1>8, <1>9 DEF WorkNext, DeliverableStep

\* The Live CV lists paid work only, whatever the operator resets, the client
\* pays late, the database fails to answer or a stale status write undoes; what
\* it takes is an operator who confirms a deal only with its own payout, and an
\* LNbits that says SETTLED only of a settled hold.
THEOREM CVPaidFor ==
  CarefulConfirm /\ HeldIsNotSettled => (WorkSpec => []EntriesPaidFor)
<1> SUFFICES ASSUME CarefulConfirm, HeldIsNotSettled PROVE WorkSpec => []EntriesPaidFor
  OBVIOUS
<1>1. WorkInit => NothingAnchored
  BY DEF WorkInit, CV!Init, NothingAnchored
<1>2. Base /\ ReleasedMeansPaid /\ (PaidFor \/ NothingAnchored) /\ [WorkNext]_workVars
        => PaidFor' \/ NothingAnchored'
  <2> SUFFICES ASSUME Base, ReleasedMeansPaid, PaidFor \/ NothingAnchored, [WorkNext]_workVars
               PROVE  PaidFor' \/ NothingAnchored'
    OBVIOUS
  <2>1. CASE PaidFor
    BY <2>1, PaidForStays, WorkStepOfEscrow DEF Base
  <2>2. CASE ~PaidFor
    <3>1. status # "released"
      BY <2>2 DEF PaidFor, ReleasedMeansPaid
    <3> QED BY <2>2, <3>1, EmptyCVStays
  <2> QED BY <2>1, <2>2
<1>3. PaidFor \/ NothingAnchored => EntriesPaidFor
  BY DEF PaidFor, NothingAnchored, EntriesPaidFor
<1> QED BY <1>1, <1>2, <1>3, WorkMoney, BaseInvariant, NoFreeRelease, PTL DEF WorkSpec

-----------------------------------------------------------------------------
(* The two halves of a worker's call stay in step.                         *)

Writing == {"submitCheck", "setStatus"}

\* What Escrow's half of a worker's call does while LiveCV's is at a given step.
InStep ==
  \A r \in Workers :
    /\ cvPc[r] \notin Writing => pc[r] = "idle"
    /\ cvPc[r] = "setStatus" => pc[r] = "setStatus" /\ mem[r] = cvMem[r]
    /\ cvPc[r] = "submitCheck" =>
         IF CanTransition(cvMem[r], "work_submitted")
           THEN pc[r] = "setStatus" /\ mem[r] = "work_submitted"
           ELSE pc[r] = "idle"

CVDomains == DOMAIN cvPc = Workers /\ DOMAIN cvMem = Workers

\* A worker's step that takes both halves along leaves the other workers alone.
LEMMA BothEnter ==
  ASSUME TypeOK, CVDomains, InStep, NEW r \in Workers,
         NEW at, NEW s, NEW a, NEW rest, CV!Enter(r, at, s, a, rest),
         \/ UNCHANGED <<pc, mem>>
         \/ \E e, t, i : Enter(r, e, t, i),
         at \notin Writing => pc'[r] = "idle",
         at = "setStatus" => pc'[r] = "setStatus" /\ mem'[r] = s,
         at = "submitCheck" => IF CanTransition(s, "work_submitted")
                                 THEN pc'[r] = "setStatus" /\ mem'[r] = "work_submitted"
                                 ELSE pc'[r] = "idle"
  PROVE  CVDomains' /\ InStep'
<1>1. /\ CVDomains' /\ cvPc'[r] = at /\ cvMem'[r] = s
      /\ \A q \in Workers \ {r} : cvPc'[q] = cvPc[q] /\ cvMem'[q] = cvMem[q]
  BY DEF CV!Enter, CVDomains
<1>2. \A q \in Workers \ {r} : pc'[q] = pc[q] /\ mem'[q] = mem[q]
  BY WorkersServe DEF Enter, TypeOK
<1> QED BY <1>1, <1>2 DEF InStep

\* SubmitWork, UpdateStatus and their writes.
LEMMA WriterInStep ==
  ASSUME TypeOK, CVDomains, InStep, NEW r \in Workers, WorkStep(r)
  PROVE  CVDomains' /\ InStep'
<1>0. r \in Requests /\ "work_submitted" # NoStatus
  BY WorkersServe DEF NoStatus
<1>1. CASE SubmitWork(r)
  <2>1. CV!Enter(r, "submitCheck", status, NoArtifact, {})
    BY <1>1 DEF SubmitWork, CV!SubmitWork
  <2>2. CASE CanTransition(status, "work_submitted")
    <3>1. Enter(r, "setStatus", "work_submitted", NoInvoice)
      BY <1>1, <2>2 DEF SubmitWork, UpdateStatus
    <3>2. pc'[r] = "setStatus" /\ mem'[r] = "work_submitted"
      BY <1>0, <3>1 DEF Enter, TypeOK
    <3> QED BY <2>1, <2>2, <3>1, <3>2, BothEnter DEF Writing
  <2>3. CASE ~CanTransition(status, "work_submitted")
    <3>1. UNCHANGED <<pc, mem>> /\ pc[r] = "idle"
      BY <1>1, <2>3 DEF SubmitWork, CV!SubmitWork, vars, reqs, InStep, Writing
    <3> QED BY <2>1, <2>3, <3>1, BothEnter DEF Writing
  <2> QED BY <2>2, <2>3
<1>2. CASE SubmitCheck(r)
  <2>1. CASE CV!Enter(r, "setStatus", "work_submitted", NoArtifact, {})
                /\ CanTransition(cvMem[r], "work_submitted")
    <3>1. cvPc'[r] = "setStatus"
      BY <2>1 DEF CV!Enter, CVDomains
    <3>2. UNCHANGED <<pc, mem>> /\ pc[r] = "setStatus" /\ mem[r] = "work_submitted"
      BY <1>2, <2>1, <3>1 DEF SubmitCheck, CV!SubmitCheck, vars, reqs, InStep
    <3> QED BY <2>1, <3>2, BothEnter DEF Writing
  <2>2. CASE CV!Done(r)
    <3>1. CV!Enter(r, "idle", CV!NoStatus, NoArtifact, {})
      BY <2>2 DEF CV!Done
    <3>2. cvPc'[r] = "idle"
      BY <3>1 DEF CV!Enter, CVDomains
    <3>3. CASE pc[r] = "setStatus"
      <4>1. Enter(r, "idle", NoStatus, NoInvoice)
        BY <1>2, <3>2, <3>3 DEF SubmitCheck, Abandon, Done
      <4>2. pc'[r] = "idle"
        BY <1>0, <4>1 DEF Enter, TypeOK
      <4> QED BY <3>1, <4>1, <4>2, BothEnter DEF Writing
    <3>4. CASE pc[r] # "setStatus"
      <4>1. UNCHANGED <<pc, mem>> /\ pc[r] = "idle"
        BY <1>2, <3>4 DEF SubmitCheck, CV!SubmitCheck, vars, reqs, InStep
      <4> QED BY <3>1, <4>1, BothEnter DEF Writing
    <3> QED BY <3>3, <3>4
  <2>3. CV!CanTransition(cvMem[r], "work_submitted") <=> CanTransition(cvMem[r], "work_submitted")
    BY DEF CV!CanTransition, CV!ValidTransitions, CV!Status, CV!Closed, CanTransition,
           ValidTransitions, Status, Closed
  <2> QED BY <1>2, <2>1, <2>2, <2>3 DEF SubmitCheck, CV!SubmitCheck
<1>3. ASSUME NEW new \in Status, ChangeStatus(r, new) PROVE CVDomains' /\ InStep'
  <2>1. CV!Enter(r, "setStatus", new, NoArtifact, {}) /\ Enter(r, "setStatus", new, NoInvoice)
    BY <1>3 DEF ChangeStatus, CV!UpdateStatus, UpdateStatus
  <2>2. pc'[r] = "setStatus" /\ mem'[r] = new
    BY <1>0, <2>1 DEF Enter, TypeOK
  <2> QED BY <2>1, <2>2, BothEnter DEF Writing
<1>4. CASE CommitStatus(r)
  <2>1. CV!Enter(r, "idle", CV!NoStatus, NoArtifact, {}) /\ Enter(r, "idle", NoStatus, NoInvoice)
    BY <1>4 DEF CommitStatus, CV!WriteStatus, WriteStatus, CV!Done, Done
  <2>2. pc'[r] = "idle"
    BY <1>0, <2>1 DEF Enter, TypeOK
  <2> QED BY <2>1, <2>2, BothEnter DEF Writing
<1>5. CASE AbandonWork(r)
  <2>1. CV!Enter(r, "idle", CV!NoStatus, NoArtifact, {})
    BY <1>5 DEF AbandonWork, CV!Abandon, CV!Done
  <2>2. CASE pc[r] = "setStatus"
    <3>1. Enter(r, "idle", NoStatus, NoInvoice)
      BY <1>5, <2>2 DEF AbandonWork, Abandon, Done
    <3>2. pc'[r] = "idle"
      BY <1>0, <3>1 DEF Enter, TypeOK
    <3> QED BY <2>1, <3>1, <3>2, BothEnter DEF Writing
  <2>3. CASE pc[r] # "setStatus"
    <3>1. UNCHANGED <<pc, mem>> /\ pc[r] = "idle"
      BY <1>5, <2>3 DEF AbandonWork, vars, reqs, InStep, Writing
    <3> QED BY <2>1, <3>1, BothEnter DEF Writing
  <2> QED BY <2>2, <2>3
<1> QED BY <1>1, <1>2, <1>3, <1>4, <1>5 DEF WorkStep

\* Every step of a call of Escrow's writes that call's own local state only.
LEMMA EveryStepEnters ==
  ASSUME NEW r \in Requests, RequestStep(r)
  PROVE  \E e, t, i : Enter(r, e, t, i)
<1>1. CASE ReleaseStep(r)
  BY <1>1 DEF ReleaseStep, ApproveDeal, ResolveRelease, BeginRelease, MarkAttempt,
              ResumeConfirmed, PublicApproveDeal, PublicLock, PublicRelease, PublicRefused,
              SettleOk, SettleFails, SettleConfirmed, SettleUnconfirmed, PayAccepted,
              PayRefused, PayAmbiguous, ClearAttempt, Finalize, FinalizeAborts, Goto, Done
<1>2. CASE RefundStep(r) \/ Abandon(r)
  BY <1>2 DEF RefundStep, RefundDispute, CancelOk, CancelFails, CancelConfirmed,
              CancelUnconfirmed, RecordRefund, Abandon, Goto, Done
<1>3. CASE ReconcileStep(r)
  BY <1>3 DEF ReconcileStep, ConfirmPayout, ConfirmRelease, ResetPayout, ResetTracking, Goto, Done
<1>4. CASE StatusStep(r)
  BY <1>4 DEF StatusStep, DisputeDeal, RaiseDispute, UpdateStatus, WriteStatus,
              UpdatePayeeInvoice, WritePayee, DetectPayment, LockDeal, SweepList, SweepCheck,
              SweepRefund, Goto, Done
<1> QED BY <1>1, <1>2, <1>3, <1>4 DEF RequestStep

\* Uploads, deletions and anchoring run while Escrow's half is idle.
LEMMA DelivererInStep ==
  ASSUME TypeOK, CVDomains, InStep, DeliverableStep
  PROVE  CVDomains' /\ InStep'
<1>1. UNCHANGED <<pc, mem>>
  BY DEF DeliverableStep, vars, reqs
<1>2. ASSUME NEW r \in Workers, NEW at, NEW s, NEW a, NEW rest, CV!Enter(r, at, s, a, rest),
             at \notin Writing, cvPc[r] \notin Writing
      PROVE  CVDomains' /\ InStep'
  <2>1. pc[r] = "idle"
    BY <1>2 DEF InStep
  <2> QED BY <1>1, <1>2, <2>1, BothEnter DEF Writing
<1>3. ASSUME NEW r \in Workers, CV!UploadStep(r) PROVE CVDomains' /\ InStep'
  BY <1>2, <1>3 DEF CV!UploadStep, CV!UploadArtifact, CV!SaveBlob, CV!SaveFails,
     CV!CreateArtifact, CV!CreateFails, CV!CleanupBlob, CV!RemoveBlob, CV!Goto, CV!Done, Writing
<1>4. ASSUME NEW r \in Workers, CV!DeleteStep(r) PROVE CVDomains' /\ InStep'
  BY <1>2, <1>4 DEF CV!DeleteStep, CV!DeleteArtifact, CV!DeleteRow, CV!DeleteBlob,
     CV!RemoveBlob, CV!Goto, CV!Done, Writing
<1>5. ASSUME NEW r \in Workers, CV!AnchorStep(r) \/ CV!AnchorFails(r) PROVE CVDomains' /\ InStep'
  <2>1. CASE CV!InsertAnchor(r)
    BY <1>2, <2>1 DEF CV!InsertAnchor, CV!Done, Writing
  <2>2. CASE CV!ListUnanchored(r) \/ CV!AnchorFails(r)
    BY <1>2, <2>2 DEF CV!ListUnanchored, CV!AnchorFails, CV!Done, Writing
  <2>3. ASSUME NEW a \in Artifacts, CV!HashBlob(r, a) \/ CV!HashFails(r, a)
        PROVE  CVDomains' /\ InStep'
    BY <1>2, <2>3 DEF CV!HashBlob, CV!HashFails, CV!Done, Writing
  <2> QED BY <1>5, <2>1, <2>2, <2>3 DEF CV!AnchorStep
<1>6. CASE (\E r \in Workers, a \in Artifacts : CV!GoroutineStep(r, a)) \/ CV!WorkerStep
  BY <1>1, <1>6 DEF CV!GoroutineStep, CV!SubmitOk, CV!SubmitFails, CV!WorkerStep,
     CV!ListPending, CV!UpgradeOk, CV!UpgradeSkips, CV!reqs, CVDomains, InStep
<1> QED BY <1>3, <1>4, <1>5, <1>6 DEF DeliverableStep

\* The composition never tears a call apart: whenever LiveCV's half is about to
\* write the status, Escrow's half is about to write the same one.
THEOREM WorkersInStep == WorkSpec => []InStep
<1>1. WorkInit => CVDomains /\ InStep
  BY WorkersServe DEF WorkInit, Init, FreshRow, CV!Init, CVDomains, InStep, Writing
<1>2. Base /\ CVDomains /\ InStep /\ [WorkNext]_workVars => CVDomains' /\ InStep'
  <2> SUFFICES ASSUME TypeOK, CVDomains, InStep, [WorkNext]_workVars
               PROVE  CVDomains' /\ InStep'
    BY DEF Base
  <2>1. ASSUME UNCHANGED deliverables,
               \A q \in Workers : pc'[q] = pc[q] /\ mem'[q] = mem[q]
        PROVE  CVDomains' /\ InStep'
    BY <2>1 DEF deliverables, CVDomains, InStep
  <2>2. ASSUME NEW r \in Requests \ Workers, MoneyStep(r) PROVE CVDomains' /\ InStep'
    <3>1. \E e, t, i : Enter(r, e, t, i)
      BY <2>2, EveryStepEnters DEF MoneyStep
    <3>2. \A q \in Workers : pc'[q] = pc[q] /\ mem'[q] = mem[q]
      BY <3>1, WorkersServe DEF Enter, TypeOK
    <3> QED BY <2>1, <2>2, <3>2 DEF MoneyStep
  <2>3. CASE NetworkStep /\ UNCHANGED deliverables
    <3>1. UNCHANGED <<pc, mem>>
      BY <2>3 DEF NetworkStep, ClientPays, HoldExpires, DealAges, PayoutLands, PayoutFails,
                  LatePay, LateSettle, LateCancel, reqs
    <3> QED BY <2>1, <2>3, <3>1
  <2>4. CASE UNCHANGED workVars
    BY <2>1, <2>4 DEF workVars, vars, reqs
  <2> QED BY <2>2, <2>3, <2>4, WriterInStep, DelivererInStep DEF WorkNext
<1> QED BY <1>1, <1>2, WorkMoney, BaseInvariant, PTL DEF WorkSpec
=============================================================================
