------------------------------ MODULE DealWork ------------------------------
(***************************************************************************)
(* The money and the deliverables of one deal, composed over its row's     *)
(* status: Escrow moves the sats and decides when a deal is released,      *)
(* LiveCV reads that status and puts the work on the freelancer's CV.      *)
(*                                                                         *)
(* A member of MoneyCalls is a slot for one of Escrow's calls, the other   *)
(* requests, the Workers, are slots for calls on the deliverables.         *)
(* SubmitWork and UpdateStatus belong to both modules: a worker takes the  *)
(* steps LiveCV gives them, which look at the artifacts, together with the *)
(* steps Escrow gives them, which wait for the row lock.                   *)
(***************************************************************************)
EXTENDS Escrow

CONSTANTS MoneyCalls, Artifacts, NoArtifact, AnswersLost

Workers == Requests \ MoneyCalls

VARIABLES used, blobs, artifacts, entry, submits, upgrading,  \* as in LiveCV
          cvPc, cvMem, cur, todo                              \* per worker

CV == INSTANCE LiveCV WITH Requests <- Workers, pc <- cvPc, mem <- cvMem

deliverables == <<used, blobs, artifacts, entry, submits, upgrading, cvPc, cvMem, cur, todo>>
workVars     == <<vars, deliverables>>

WorkInit == Init /\ CV!Init

-----------------------------------------------------------------------------
\* Escrow's calls other than the two status writers.
MoneyStep(r) == /\ RequestStep(r)
                /\ "setStatus" \notin {pc[r], pc'[r]}
                /\ UNCHANGED deliverables

\* The verdict on the status is taken when the deal is loaded, the artifacts are
\* counted afterwards.
SubmitWork(r) ==
  /\ CV!SubmitWork(r)
  /\ IF CanTransition(status, "work_submitted") THEN UpdateStatus(r, "work_submitted")
                                                ELSE UNCHANGED vars

SubmitCheck(r) ==
  /\ CV!SubmitCheck(r)
  /\ IF pc[r] = "setStatus" /\ cvPc'[r] = "idle" THEN Abandon(r) ELSE UNCHANGED vars

ChangeStatus(r, new) == CV!UpdateStatus(r, new) /\ UpdateStatus(r, new)

CommitStatus(r) == CV!WriteStatus(r) /\ WriteStatus(r)

AbandonWork(r) ==
  /\ CV!Abandon(r)
  /\ IF pc[r] = "setStatus" THEN Abandon(r) ELSE UNCHANGED vars

WorkStep(r) ==
  \/ SubmitWork(r) \/ SubmitCheck(r)
  \/ \E new \in Status : ChangeStatus(r, new)
  \/ CommitStatus(r) \/ AbandonWork(r)

\* Uploads, deletions, anchoring, submissions and the upgrade worker.
DeliverableStep ==
  /\ \/ \E r \in Workers : \/ CV!UploadStep(r) \/ CV!DeleteStep(r)
                           \/ CV!AnchorStep(r) \/ CV!AnchorFails(r)
     \/ \E r \in Workers, a \in Artifacts : CV!GoroutineStep(r, a)
     \/ CV!WorkerStep
  /\ UNCHANGED vars

WorkNext ==
  \/ \E r \in Requests \ Workers : MoneyStep(r)
  \/ NetworkStep /\ UNCHANGED deliverables
  \/ \E r \in Workers : WorkStep(r)
  \/ DeliverableStep

WorkSpec == WorkInit /\ [][WorkNext]_workVars

-----------------------------------------------------------------------------
(* Safety.                                                                 *)

\* The Live CV lists only work that was paid for: its hold was settled and a
\* payout sent before the artifact was anchored, however the release, disputes,
\* refunds and stale status writes interleave with the anchoring
\* (releasedArtifactSelector reads the status outside every lock).
EntriesPaidFor ==
  (\E a \in Artifacts : entry[a] # "none") =>
    hold = "settled" /\ \E i \in Invoices : payment[i] # "none"

\* LiveCV's view of the rest of the deal (DealMoves) is one Escrow lives up to.
CVUnderEscrow == CV!Spec
=============================================================================
