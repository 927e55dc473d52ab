----------------------------- MODULE DealStatus -----------------------------
(***************************************************************************)
(* The deal lifecycle of backend/internal/deals/types.go: the statuses a   *)
(* deal row can carry and the transitions the services ask CanTransition   *)
(* about.  Nothing in the database enforces this table: each service reads *)
(* a status, asks CanTransition, and writes the new status itself.         *)
(***************************************************************************)

\* The `status` column (types.go, Status constants).
Status == {"awaiting_payment", "locked", "work_submitted", "reviewing",
           "disputed", "released", "refunded"}

\* released and refunded: the money has moved and the deal is over.
Closed == {"released", "refunded"}

\* Faulty variant: disputed deals are left out of the sweep.
OpenUndisputed == {"awaiting_payment", "locked", "work_submitted", "reviewing"}

\* The statuses ListOpenBefore selects for the hold-expiry sweep.
OpenStatus == {"awaiting_payment", "locked", "work_submitted", "reviewing",
               "disputed"}

\* The statuses the freelancer's generic status endpoint refuses to write.
BackendOnly == {"locked", "released", "disputed", "refunded"}

ValidTransitions ==
  [s \in Status |->
     CASE s = "awaiting_payment" -> {"locked", "work_submitted", "refunded"}
       [] s = "locked"           -> {"work_submitted", "disputed"}
       [] s = "work_submitted"   -> {"reviewing", "released", "disputed"}
       [] s = "reviewing"        -> {"released", "disputed"}
       [] s = "disputed"         -> {"released", "refunded"}
       [] s \in Closed           -> {}]

CanTransition(from, to) == to \in ValidTransitions[from]
=============================================================================
