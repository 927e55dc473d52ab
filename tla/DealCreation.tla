---------------------------- MODULE DealCreation ----------------------------
(***************************************************************************)
(* CreateDeal (backend/internal/deals/service.go, repository.go) for one   *)
(* deal: the hold invoice is drawn at LNbits first, then the deal row is   *)
(* committed, and cancelOrphanHold takes the hold down again when the row  *)
(* fails.  DealLife composes this module with Escrow, which owns the row   *)
(* and the hold from the commit on.                                        *)
(***************************************************************************)
VARIABLES
  committed,   \* the deal row is in the table
  hold,        \* the hold invoice at LNbits
  lateHold,    \* a CreateHoldInvoice call given up that may still take effect
  lateCancel,  \* a CancelHold call under way or given up, the same
  step         \* where the request creating the deal is

vars == <<committed, hold, lateHold, lateCancel, step>>

CreationSteps == {"idle", "insert", "commit", "created", "failed"}

Init ==
  /\ committed = FALSE
  /\ hold = "none"
  /\ lateHold = FALSE
  /\ lateCancel = FALSE
  /\ step = "idle"

-----------------------------------------------------------------------------
(* The request.                                                            *)

\* Faulty variant: the row is written before its invoice is drawn.
CreateRowFirst ==
  /\ step = "idle"
  /\ step' = "insert"
  /\ UNCHANGED <<committed, hold, lateHold, lateCancel>>

CreateHold ==
  /\ step = "idle"
  /\ hold' = "open"
  /\ step' = "insert"
  /\ UNCHANGED <<committed, lateHold, lateCancel>>

\* The input is invalid, or the call fails: refused, or taking effect without
\* anybody hearing of it.
CreateHoldFails ==
  /\ step = "idle"
  /\ lateHold' \in BOOLEAN
  /\ step' = "failed"
  /\ UNCHANGED <<committed, hold, lateCancel>>

\* cancelOrphanHold sends CancelHold, waits 10 s at most and only logs an error,
\* so that LNbits may cancel at any later time or never; the caller answers with
\* its own error.
CancelOrphanHold == lateCancel' = TRUE /\ step' = "failed"

\* BeginTx and the INSERT, which nobody sees before the commit.
InsertRow ==
  /\ step = "insert"
  /\ step' = "commit"
  /\ UNCHANGED <<committed, hold, lateHold, lateCancel>>

InsertFails ==
  /\ step = "insert"
  /\ CancelOrphanHold
  /\ UNCHANGED <<committed, hold, lateHold>>

\* Faulty variant: the request answers without the commit's verdict.
CommitUnchecked ==
  /\ step = "commit"
  /\ committed' \in BOOLEAN
  /\ step' = "created"
  /\ UNCHANGED <<hold, lateHold, lateCancel>>

Commit ==
  /\ step = "commit"
  /\ committed' = TRUE
  /\ step' = "created"
  /\ UNCHANGED <<hold, lateHold, lateCancel>>

\* Faulty variant: the ambiguous commit is answered like a successful one.
CommitFailsCreated ==
  /\ step = "commit"
  /\ committed' \in BOOLEAN
  /\ lateCancel' = TRUE
  /\ step' = "created"
  /\ UNCHANGED <<hold, lateHold>>

\* "A commit error is ambiguous": the row may have persisted.
CommitFails ==
  /\ step = "commit"
  /\ committed' \in BOOLEAN
  /\ CancelOrphanHold
  /\ UNCHANGED <<hold, lateHold>>

\* The process dies: an open transaction is rolled back, unless its commit had
\* reached the database.
Crash ==
  /\ step \in {"insert", "commit"}
  /\ committed' \in {FALSE, step = "commit"}
  /\ step' = "failed"
  /\ UNCHANGED <<hold, lateHold, lateCancel>>

\* The abandoned CreateHoldInvoice reaches LNbits after all (external).
LateHold ==
  /\ lateHold
  /\ lateHold' = FALSE
  /\ hold' = "open"
  /\ UNCHANGED <<committed, lateCancel, step>>

\* Every way CreateDeal goes on, and its late call.
CreationStep ==
  \/ CreateHold \/ CreateHoldFails \/ InsertRow \/ InsertFails
  \/ Commit \/ CommitFails \/ Crash \/ LateHold

\* The invoice leaves the backend in the answer to the freelancer, and from the
\* row: the deal's listings and its public payment page.
Published == committed \/ step = "created"
=============================================================================
