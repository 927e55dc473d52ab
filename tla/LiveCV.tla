------------------------------- MODULE LiveCV -------------------------------
(***************************************************************************)
(* The deliverables of one deal and the Live CV built from them: uploads,  *)
(* deletions and work submission (backend/internal/deals/service.go), blob *)
(* storage (backend/internal/storage/local.go), the anchoring of released  *)
(* work, its OpenTimestamps submissions and the proof-upgrade worker       *)
(* (backend/internal/cv/service.go, repository.go, backend/cmd/api).       *)
(*                                                                         *)
(* A member of Requests is a slot for one running service call; a member   *)
(* of Artifacts stands for one upload's artifact id and storage key, both  *)
(* of which are random and never used twice.  A statement on the database  *)
(* and an operation on the file store is one step each.                    *)
(***************************************************************************)
EXTENDS DealStatus

CONSTANTS Requests, Artifacts, NoArtifact,
          \* The database can commit an INSERT and the caller see an error.
          AnswersLost

ASSUME NoArtifactAssumption == NoArtifact \notin Artifacts
ASSUME AnswersLostAssumption == AnswersLost \in BOOLEAN

VARIABLES
  status,         \* the deal's status
  used,           \* artifacts whose key has been minted
  blobs,          \* files in storage
  artifacts,      \* rows of the artifacts table
  entry,          \* cv_entries row of an artifact, and its proof columns
  submits,        \* submission goroutines: <<request that spawned it, artifact>>
  upgrading,      \* the upgrade worker: pending anchors still to ask about
  pc, mem, cur, todo  \* per request: step, status, artifact, candidates left

files == <<used, blobs, artifacts>>
reqs  == <<pc, mem, cur, todo>>
vars  == <<status, files, entry, submits, upgrading, reqs>>

NoStatus == "none"

Steps == {"idle", "save", "insert", "cleanup", "deleteRow", "deleteBlob",
          "submitCheck", "setStatus", "anchor", "insertAnchor"}

\* none: no row; anchored: a hash, no proof; pending, confirmed: a proof.
Entries == {"none", "anchored", "pending", "confirmed"}

TypeOK ==
  /\ status \in Status
  /\ used \subseteq Artifacts
  /\ blobs \subseteq used
  /\ artifacts \subseteq used
  /\ entry \in [Artifacts -> Entries]
  /\ submits \subseteq Requests \X used
  /\ upgrading \subseteq Artifacts
  /\ pc \in [Requests -> Steps]
  /\ mem \in [Requests -> Status \cup {NoStatus}]
  /\ cur \in [Requests -> Artifacts \cup {NoArtifact}]
  /\ todo \in [Requests -> SUBSET Artifacts]

-----------------------------------------------------------------------------
Enter(r, step, s, a, rest) == /\ pc'   = [pc   EXCEPT ![r] = step]
                              /\ mem'  = [mem  EXCEPT ![r] = s]
                              /\ cur'  = [cur  EXCEPT ![r] = a]
                              /\ todo' = [todo EXCEPT ![r] = rest]

Goto(r, step) == Enter(r, step, mem[r], cur[r], todo[r])
Done(r)       == Enter(r, "idle", NoStatus, NoArtifact, {})

-----------------------------------------------------------------------------
(* UploadArtifact: a status check, the blob, then the row.                 *)

Uploadable == {"awaiting_payment", "locked"}

\* Faulty variant: the key comes from the file name, so it can be taken already.
UploadNamedKey(r, a) ==
  /\ pc[r] = "idle"
  /\ status \in Uploadable
  /\ Enter(r, "save", NoStatus, a, {})
  /\ UNCHANGED <<status, files, entry, submits, upgrading>>

UploadArtifact(r, a) ==
  /\ pc[r] = "idle"
  /\ status \in Uploadable
  /\ a \notin used
  /\ used' = used \cup {a}
  /\ Enter(r, "save", NoStatus, a, {})
  /\ UNCHANGED <<status, blobs, artifacts, entry, submits, upgrading>>

\* Save renames a synced temporary file, so a blob is whole or absent.  An
\* upload beyond the size cap is saved, noticed and deleted again.
SaveBlob(r) ==
  /\ pc[r] = "save"
  /\ blobs' = blobs \cup {cur[r]}
  /\ \/ Goto(r, "insert")
     \/ Goto(r, "cleanup")
  /\ UNCHANGED <<status, used, artifacts, entry, submits, upgrading>>

\* Save fails; if only the directory sync after the rename did, the blob stays.
SaveFails(r) ==
  /\ pc[r] = "save"
  /\ blobs' \in {blobs, blobs \cup {cur[r]}}
  /\ Done(r)
  /\ UNCHANGED <<status, used, artifacts, entry, submits, upgrading>>

CreateArtifact(r) ==
  /\ pc[r] = "insert"
  /\ artifacts' = artifacts \cup {cur[r]}
  /\ Done(r)
  /\ UNCHANGED <<status, used, blobs, entry, submits, upgrading>>

\* CreateArtifact returns an error: the blob is deleted again.
CreateFails(r) ==
  /\ pc[r] = "insert"
  /\ \/ UNCHANGED artifacts
     \/ AnswersLost /\ artifacts' = artifacts \cup {cur[r]}
  /\ Goto(r, "cleanup")
  /\ UNCHANGED <<status, used, blobs, entry, submits, upgrading>>

\* storage.Delete, best effort, as the last step of its caller.
RemoveBlob(r) ==
  /\ blobs' \in {blobs, blobs \ {cur[r]}}
  /\ Done(r)
  /\ UNCHANGED <<status, used, artifacts, entry, submits, upgrading>>

CleanupBlob(r) == pc[r] = "cleanup" /\ RemoveBlob(r)

-----------------------------------------------------------------------------
(* DeleteArtifact: the row first, then the blob; no look at the status.    *)

DeleteArtifact(r, a) ==
  /\ pc[r] = "idle"
  /\ a \in artifacts
  /\ Enter(r, "deleteRow", NoStatus, a, {})
  /\ UNCHANGED <<status, files, entry, submits, upgrading>>

\* Faulty variant: the blob goes first.
DeleteBlobFirst(r) ==
  /\ pc[r] = "deleteRow"
  /\ blobs' = blobs \ {cur[r]}
  /\ Goto(r, "deleteBlob")
  /\ UNCHANGED <<status, used, artifacts, entry, submits, upgrading>>

\* Faulty variant: cv_entries has no ON DELETE CASCADE.
DeleteRowOnly(r) ==
  /\ pc[r] = "deleteRow"
  /\ artifacts' = artifacts \ {cur[r]}
  /\ Goto(r, "deleteBlob")
  /\ UNCHANGED <<status, used, blobs, entry, submits, upgrading>>

\* DELETE ... WHERE id, with cv_entries ON DELETE CASCADE; a row that is gone
\* already is ErrArtifactNotFound and the blob is left to the other call.
DeleteRow(r) ==
  /\ pc[r] = "deleteRow"
  /\ artifacts' = artifacts \ {cur[r]}
  /\ entry' = [entry EXCEPT ![cur[r]] = "none"]
  /\ IF cur[r] \in artifacts THEN Goto(r, "deleteBlob") ELSE Done(r)
  /\ UNCHANGED <<status, used, blobs, submits, upgrading>>

DeleteBlob(r) == pc[r] = "deleteBlob" /\ RemoveBlob(r)

-----------------------------------------------------------------------------
(* SubmitWork and UpdateStatus: checks on plain reads, an unguarded write. *)

SubmitWork(r) ==
  /\ pc[r] = "idle"
  /\ Enter(r, "submitCheck", status, NoArtifact, {})
  /\ UNCHANGED <<status, files, entry, submits, upgrading>>

SubmitCheck(r) ==
  /\ pc[r] = "submitCheck"
  /\ IF artifacts # {} /\ CanTransition(mem[r], "work_submitted")
       THEN Enter(r, "setStatus", "work_submitted", NoArtifact, {})
       ELSE Done(r)
  /\ UNCHANGED <<status, files, entry, submits, upgrading>>

UpdateStatus(r, new) ==
  /\ pc[r] = "idle"
  /\ new \notin BackendOnly
  /\ CanTransition(status, new)
  /\ Enter(r, "setStatus", new, NoArtifact, {})
  /\ UNCHANGED <<status, files, entry, submits, upgrading>>

WriteStatus(r) ==
  /\ pc[r] = "setStatus"
  /\ status' = mem[r]
  /\ Done(r)
  /\ UNCHANGED <<files, entry, submits, upgrading>>

\* What the other operations write (Escrow!LifecycleHonoured): transitions of
\* the table, and the sweep's refund of any open deal.
DealMoves(new) ==
  /\ \/ CanTransition(status, new)
     \/ status \in OpenStatus /\ new = "refunded"
  /\ status' = new
  /\ UNCHANGED <<files, entry, submits, upgrading, reqs>>

-----------------------------------------------------------------------------
(* Anchoring: the hook after a release, and every read of the public CV.   *)

\* Faulty variant: work of which a part is anchored counts as anchored.
UnanchoredDeals ==
  {a \in artifacts : /\ status = "released"
                     /\ \A b \in artifacts : entry[b] = "none"}

\* releasedArtifactSelector.
Unanchored == {a \in artifacts : status = "released" /\ entry[a] = "none"}

\* AnchorReleasedDeal and healAnchors: the candidates, in no particular order.
ListUnanchored(r) ==
  /\ pc[r] = "idle"
  /\ Unanchored # {}
  /\ Enter(r, "anchor", NoStatus, NoArtifact, Unanchored)
  /\ UNCHANGED <<status, files, entry, submits, upgrading>>

\* Open and hash the next candidate's blob ...
HashBlob(r, a) ==
  /\ pc[r] = "anchor"
  /\ a \in todo[r]
  /\ a \in blobs
  /\ Enter(r, "insertAnchor", NoStatus, a, todo[r] \ {a})
  /\ UNCHANGED <<status, files, entry, submits, upgrading>>

\* ... or find none: insertAnchors returns, the rest is not anchored.
HashFails(r, a) ==
  /\ pc[r] = "anchor"
  /\ a \in todo[r]
  /\ a \notin blobs
  /\ Done(r)
  /\ UNCHANGED <<status, files, entry, submits, upgrading>>

\* Faulty variant: the goroutine is started before the row is known to be there.
SubmitThenInsert(r) ==
  /\ pc[r] = "insertAnchor"
  /\ submits' = submits \cup {<<r, cur[r]>>}
  /\ \/ entry[cur[r]] = "none" /\ entry' = [entry EXCEPT ![cur[r]] = "anchored"]
     \/ UNCHANGED entry
  /\ IF todo[r] = {} THEN Done(r) ELSE Enter(r, "anchor", NoStatus, NoArtifact, todo[r])
  /\ UNCHANGED <<status, files, upgrading>>

\* INSERT ... ON CONFLICT DO NOTHING, and a goroutine that submits the hash,
\* whether or not the row is new.  Without its artifact the INSERT breaks the
\* foreign key and insertAnchors returns.
InsertAnchor(r) ==
  /\ pc[r] = "insertAnchor"
  /\ IF cur[r] \in artifacts
       THEN /\ entry' = [entry EXCEPT ![cur[r]] = IF @ = "none" THEN "anchored" ELSE @]
            /\ submits' = submits \cup {<<r, cur[r]>>}
            /\ IF todo[r] = {} THEN Done(r)
                               ELSE Enter(r, "anchor", NoStatus, NoArtifact, todo[r])
       ELSE Done(r) /\ UNCHANGED <<entry, submits>>
  /\ UNCHANGED <<status, files, upgrading>>

\* A run of insertAnchors ends with an error; the row may have been written.
AnchorFails(r) ==
  /\ pc[r] \in {"anchor", "insertAnchor"}
  /\ \/ UNCHANGED entry
     \/ /\ AnswersLost
        /\ pc[r] = "insertAnchor"
        /\ cur[r] \in artifacts
        /\ entry[cur[r]] = "none"
        /\ entry' = [entry EXCEPT ![cur[r]] = "anchored"]
  /\ Done(r)
  /\ UNCHANGED <<status, files, submits, upgrading>>

-----------------------------------------------------------------------------
(* OpenTimestamps: the submission goroutines and the upgrade worker.       *)

\* UpdateAnchorOTS: an UPDATE of all proof columns, if the entry exists.
UpdateAnchorOTS(a, proof) ==
  entry' = [entry EXCEPT ![a] = IF @ = "none" THEN @ ELSE proof]

SubmitOk(r, a) ==
  /\ <<r, a>> \in submits
  /\ submits' = submits \ {<<r, a>>}
  /\ UpdateAnchorOTS(a, "pending")
  /\ UNCHANGED <<status, files, upgrading, reqs>>

\* Every calendar failed, the 60 s ran out, the UPDATE failed, or a crash.
SubmitFails(r, a) ==
  /\ <<r, a>> \in submits
  /\ submits' = submits \ {<<r, a>>}
  /\ UNCHANGED <<status, files, entry, upgrading, reqs>>

ListPending ==
  /\ upgrading = {}
  /\ upgrading' = {a \in Artifacts : entry[a] = "pending"}
  /\ UNCHANGED <<status, files, entry, submits, reqs>>

\* Faulty variant: the upgraded proof is stored without ots_confirmed_at.
UpgradeUnconfirmed(a) ==
  /\ a \in upgrading
  /\ upgrading' = upgrading \ {a}
  /\ UpdateAnchorOTS(a, "pending")
  /\ UNCHANGED <<status, files, submits, reqs>>

\* The calendar has mined the commitment: store the upgraded proof.
UpgradeOk(a) ==
  /\ a \in upgrading
  /\ upgrading' = upgrading \ {a}
  /\ UpdateAnchorOTS(a, "confirmed")
  /\ UNCHANGED <<status, files, submits, reqs>>

\* Not mined yet, or an error: next cycle.
UpgradeSkips(a) ==
  /\ a \in upgrading
  /\ upgrading' = upgrading \ {a}
  /\ UNCHANGED <<status, files, entry, submits, reqs>>

\* A request ends early: context cancelled, database error, crash.
Abandon(r) ==
  /\ pc[r] \notin {"idle", "anchor", "insertAnchor"}
  /\ Done(r)
  /\ UNCHANGED <<status, files, entry, submits, upgrading>>

-----------------------------------------------------------------------------
Init ==
  /\ status = "awaiting_payment"
  /\ used = {}
  /\ blobs = {}
  /\ artifacts = {}
  /\ entry = [a \in Artifacts |-> "none"]
  /\ submits = {}
  /\ upgrading = {}
  /\ pc = [r \in Requests |-> "idle"]
  /\ mem = [r \in Requests |-> NoStatus]
  /\ cur = [r \in Requests |-> NoArtifact]
  /\ todo = [r \in Requests |-> {}]

UploadStep(r) ==
  \/ \E a \in Artifacts : UploadArtifact(r, a)
  \/ SaveBlob(r) \/ SaveFails(r) \/ CreateArtifact(r) \/ CreateFails(r) \/ CleanupBlob(r)

DeleteStep(r) ==
  \/ \E a \in Artifacts : DeleteArtifact(r, a)
  \/ DeleteRow(r) \/ DeleteBlob(r)

StatusStep(r) ==
  \/ SubmitWork(r) \/ SubmitCheck(r)
  \/ \E new \in Status : UpdateStatus(r, new)
  \/ WriteStatus(r)

AnchorStep(r) ==
  \/ ListUnanchored(r) \/ InsertAnchor(r)
  \/ \E a \in Artifacts : HashBlob(r, a) \/ HashFails(r, a)

ServiceStep(r) == UploadStep(r) \/ DeleteStep(r) \/ StatusStep(r) \/ AnchorStep(r)

GoroutineStep(r, a) == SubmitOk(r, a) \/ SubmitFails(r, a)

WorkerStep == ListPending \/ \E a \in Artifacts : UpgradeOk(a) \/ UpgradeSkips(a)

Next ==
  \/ \E r \in Requests : ServiceStep(r) \/ Abandon(r) \/ AnchorFails(r)
  \/ \E r \in Requests, a \in Artifacts : GoroutineStep(r, a)
  \/ WorkerStep
  \/ \E new \in Status : DealMoves(new)

Spec == Init /\ [][Next]_vars

-----------------------------------------------------------------------------
(* Fairness.  A running call goes on to its end, goroutines finish (60 s), *)
(* the upgrade worker's ticker fires for ever and the calendars mine every *)
(* commitment in the end.  The public CV is read again and again, and from *)
(* some point on these reads fail only for a reason in the data (a missing *)
(* blob or artifact, which are steps of AnchorStep), not of infrastructure. *)

Fairness ==
  /\ \A r \in Requests : WF_vars(pc[r] # "idle" /\ ServiceStep(r))
  /\ \A r \in Requests, a \in Artifacts : WF_vars(GoroutineStep(r, a))
  /\ WF_vars(WorkerStep)
  /\ \A a \in Artifacts : SF_vars(UpgradeOk(a))
  /\ SF_vars(\E r \in Requests : ListUnanchored(r))
  /\ <>[][\A r \in Requests : AnchorFails(r) => AnchorStep(r)]_vars

FairSpec == Spec /\ Fairness

-----------------------------------------------------------------------------
(* Safety.                                                                 *)

\* A row never refers to a missing file, whatever upload, deletion or crash
\* ran: the blob is saved before the row exists and deleted after it is gone
\* (DeleteArtifact: "cannot leave a dangling DB reference").
NoDanglingReference == artifacts \subseteq blobs

\* Every line of the CV can be re-verified: VerifyEntry finds its artifact and
\* its file, also after deletions that race the anchoring.
EntriesVerifiable ==
  \A a \in Artifacts : entry[a] # "none" => a \in artifacts /\ a \in blobs

\* A submission under way has an entry to store its proof in, unless the
\* artifact was deleted meanwhile (insertAnchors: row first, then goroutine).
SubmissionsHaveEntry ==
  \A r \in Requests, a \in artifacts : <<r, a>> \in submits => entry[a] # "none"

(* Liveness.                                                               *)

\* Released work whose file exists gets onto the CV: reads of the CV heal what
\* the hook after the release missed (API_REFERENCE.md: "Anchoring is
\* self-healing").
ReleasedWorkAnchored ==
  \A a \in Artifacts :
    <>[](status = "released" /\ a \in artifacts /\ a \in blobs)
      => <>[](entry[a] # "none")

\* A stored proof ends up confirmed unless its artifact is deleted, even when
\* a late submission overwrites it (UpgradeOTSProofs).
ProofsConfirmed ==
  \A a \in Artifacts : entry[a] = "pending" ~> entry[a] \in {"confirmed", "none"}
=============================================================================
