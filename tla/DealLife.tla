------------------------------ MODULE DealLife ------------------------------
(***************************************************************************)
(* A deal from CreateDeal to its end: DealCreation and Escrow composed over *)
(* one hold invoice.  Before the commit nobody else can reach the row; a   *)
(* commit whose answer was lost leaves a row that requests use while       *)
(* CreateDeal takes its invoice down.                                      *)
(***************************************************************************)
EXTENDS Escrow

VARIABLES committed, lateHold, step

Creation == INSTANCE DealCreation

creation == <<committed, lateHold, step>>
lifeVars == <<vars, creation>>

LifeTypeOK ==
  /\ committed \in BOOLEAN
  /\ lateHold \in BOOLEAN
  /\ step \in Creation!CreationSteps
  /\ hold # "none" => TypeOK

-----------------------------------------------------------------------------
\* The columns CreateDeal inserts, before anything has happened to them.
LifeInit == Creation!Init /\ FreshRow

CreateDeal ==
  /\ Creation!CreationStep
  /\ UNCHANGED <<row, lock, payment, lateSettle, latePay, aged, reqs>>

\* Every service call starts by loading the row.
Serve(r) == /\ committed
            /\ RequestStep(r)
            /\ UNCHANGED creation

\* The client and the network (external).  An invoice outlives the request that
\* drew it: LNBITS_HOLD_INVOICE_EXPIRY_SECONDS is 30 days.
Happen ==
  /\ \/ Creation!Published /\ ClientPays
     \/ step \in {"created", "failed"} /\ HoldExpires
     \/ committed /\ DealAges
     \/ \E i \in Invoices : PayoutLands(i) \/ PayoutFails(i) \/ LatePay(i)
     \/ LateSettle
     \/ LateCancel
  /\ UNCHANGED creation

LifeNext == CreateDeal \/ (\E r \in Requests : Serve(r)) \/ Happen

LifeSpec == LifeInit /\ [][LifeNext]_lifeVars

\* Escrow's fairness, over the whole deal.
LifeFairness ==
  /\ \A r \in Requests : SF_lifeVars(Advance(r) /\ UNCHANGED creation)
  /\ WF_lifeVars(committed /\ DealAges /\ UNCHANGED creation)
  /\ SF_lifeVars(\E r \in Requests : committed /\ SweepList(r) /\ UNCHANGED creation)
  /\ <>[][~SweepFails]_lifeVars

FairLifeSpec == LifeSpec /\ LifeFairness

-----------------------------------------------------------------------------
(* Safety.                                                                 *)

\* No client's money is ever in a hold without a row behind it, whatever call
\* of CreateDeal failed, was lost or came late (cancelOrphanHold: "so a paying
\* client is never stranded against a hold with no DB row behind it").
NoStrandedPayment == hold \in {"held", "settled"} => committed

\* While a deal answered as created waits for its payment, its invoice is not
\* cancelled and no cancellation is on its way, neither from its own creation
\* nor from a refund that raced the first status changes.
CreatedStaysPayable ==
  step = "created" /\ status = "awaiting_payment" => hold # "cancelled" /\ ~lateCancel

\* From the commit on the deal is Escrow's: the row appears with the hold open
\* and unpaid, as Escrow's Init says, and what CreateDeal still does to it, the
\* clean-up after a commit that did persist included, is a step of Escrow.
EscrowTakesOver ==
  [][committed' => IF committed THEN [Next]_vars ELSE Init']_lifeVars

(* Liveness.                                                               *)

\* CreateDeal: "a dead invoice on a live row is swept to refunded", and so is
\* every deal whose sats are back with the client, for good, whatever stale
\* status writes, disputes and failing calls come in between.
DeadInvoiceSwept ==
  committed /\ hold \in {"cancelled", "expired"} ~> [](status = "refunded")
=============================================================================
