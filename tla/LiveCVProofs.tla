---------------------------- MODULE LiveCVProofs ----------------------------
(***************************************************************************)
(* Theorems about LiveCV, for any number of concurrent requests and        *)
(* artifacts.  What is about the files needs the database's answers not to *)
(* be lost (~AnswersLost); what is about rows and entries does not.        *)
(***************************************************************************)
EXTENDS LiveCV, TLAPS

-----------------------------------------------------------------------------
(* The inductive invariant, in parts.                                      *)

\* The steps of UploadArtifact, those before its row can exist, and the steps of
\* DeleteArtifact.
Uploading == {"save", "insert", "cleanup"}
Rowless   == {"save", "insert"}
Deleting  == {"deleteRow", "deleteBlob"}

\* No two uploads share an artifact, and until its row is inserted an upload is
\* alone with it: nobody submits or deletes it.
UploadOK(r) ==
  /\ pc[r] \in Uploading =>
       /\ cur[r] \in used
       /\ \A q \in Requests \ {r} : pc[q] \in Uploading => cur[q] # cur[r]
  /\ pc[r] \in Rowless =>
       /\ cur[r] \notin artifacts
       /\ \A q \in Requests : <<q, cur[r]>> \notin submits
       /\ \A q \in Requests : pc[q] \in Deleting => cur[q] # cur[r]

DeleteOK(r) == pc[r] \in Deleting => cur[r] \in used

AnchorOK(r) == pc[r] = "insertAnchor" => cur[r] \in Artifacts

WriteOK(r) == pc[r] = "setStatus" => mem[r] \in Status

Locals == \A r \in Requests : UploadOK(r) /\ DeleteOK(r) /\ AnchorOK(r) /\ WriteOK(r)

\* A line of the CV refers to an artifact's row: the foreign key at the INSERT,
\* the cascade at the DELETE.
EntriesHaveRows == \A a \in Artifacts : entry[a] # "none" => a \in artifacts

Consistent == EntriesHaveRows /\ SubmissionsHaveEntry

IInv == TypeOK /\ Locals /\ Consistent

-----------------------------------------------------------------------------
(* A step of one request leaves the others' local state alone.             *)

\* Entering a step writes the caller's own local state and nobody else's.
LEMMA EnterEffect ==
  ASSUME TypeOK, NEW r \in Requests, NEW step, NEW s, NEW a, NEW rest,
         Enter(r, step, s, a, rest)
  PROVE  /\ pc'[r] = step /\ mem'[r] = s /\ cur'[r] = a /\ todo'[r] = rest
         /\ \A q \in Requests \ {r} : /\ pc'[q] = pc[q] /\ mem'[q] = mem[q]
                                      /\ cur'[q] = cur[q] /\ todo'[q] = todo[q]
BY DEF TypeOK, Enter

-----------------------------------------------------------------------------
(* One lemma per group of actions.                                         *)

\* UploadArtifact, from its status check to the clean-up of its blob.
LEMMA UploadPreserves ==
  ASSUME IInv, NEW r \in Requests, UploadStep(r)
  PROVE  IInv'
<1> USE DEF IInv, Consistent
<1>1. ASSUME NEW a \in Artifacts, UploadArtifact(r, a) PROVE IInv'
  <2>1. Enter(r, "save", NoStatus, a, {})
    BY <1>1 DEF UploadArtifact
  <2>2. TypeOK'
    <3>1. Requests \X used \subseteq Requests \X (used \cup {a})
      OBVIOUS
    <3> QED BY <1>1, <3>1 DEF Enter, Goto, Done, UploadArtifact, TypeOK, Steps
  <2>3. Locals'
    BY <1>1, <2>1, EnterEffect DEF UploadArtifact, TypeOK, Locals, UploadOK,
       DeleteOK, AnchorOK, WriteOK, Uploading, Rowless, Deleting
  <2>4. Consistent'
    BY <1>1 DEF UploadArtifact, EntriesHaveRows, SubmissionsHaveEntry
  <2> QED BY <2>2, <2>3, <2>4
<1>2. CASE SaveBlob(r)
  <2>1. PICK step \in {"insert", "cleanup"} : Enter(r, step, mem[r], cur[r], todo[r])
    BY <1>2 DEF SaveBlob, Goto
  <2>2. cur[r] \in used
    BY <1>2 DEF SaveBlob, Locals, UploadOK, Uploading
  <2>3. TypeOK'
    BY <1>2, <2>2 DEF Enter, Goto, Done, SaveBlob, TypeOK, Steps
  <2>4. Locals'
    BY <1>2, <2>1, EnterEffect DEF SaveBlob, TypeOK, Locals, UploadOK,
       DeleteOK, AnchorOK, WriteOK, Uploading, Rowless, Deleting
  <2>5. Consistent'
    BY <1>2 DEF SaveBlob, EntriesHaveRows, SubmissionsHaveEntry
  <2> QED BY <2>3, <2>4, <2>5
<1>3. CASE SaveFails(r)
  <2>1. Enter(r, "idle", NoStatus, NoArtifact, {})
    BY <1>3 DEF SaveFails, Done
  <2>2. cur[r] \in used
    BY <1>3 DEF SaveFails, Locals, UploadOK, Uploading
  <2>3. TypeOK'
    BY <1>3, <2>2 DEF Enter, Goto, Done, SaveFails, TypeOK, Steps
  <2>4. Locals'
    BY <1>3, <2>1, EnterEffect DEF SaveFails, TypeOK, Locals, UploadOK,
       DeleteOK, AnchorOK, WriteOK, Uploading, Rowless, Deleting
  <2>5. Consistent'
    BY <1>3 DEF SaveFails, EntriesHaveRows, SubmissionsHaveEntry
  <2> QED BY <2>3, <2>4, <2>5
<1>4. CASE CreateArtifact(r)
  <2>1. Enter(r, "idle", NoStatus, NoArtifact, {})
    BY <1>4 DEF CreateArtifact, Done
  <2>2. /\ cur[r] \in used \ artifacts
        /\ \A q \in Requests : <<q, cur[r]>> \notin submits
    BY <1>4 DEF CreateArtifact, Locals, UploadOK, Uploading, Rowless
  <2>3. TypeOK'
    BY <1>4, <2>2 DEF Enter, Goto, Done, CreateArtifact, TypeOK, Steps
  <2>4. Locals'
    BY <1>4, <2>1, EnterEffect DEF CreateArtifact, TypeOK, Locals, UploadOK,
       DeleteOK, AnchorOK, WriteOK, Uploading, Rowless, Deleting
  <2>5. Consistent'
    BY <1>4, <2>2 DEF CreateArtifact, EntriesHaveRows, SubmissionsHaveEntry
  <2> QED BY <2>3, <2>4, <2>5
<1>5. CASE CreateFails(r)
  <2>1. Enter(r, "cleanup", mem[r], cur[r], todo[r])
    BY <1>5 DEF CreateFails, Goto
  <2>2. /\ cur[r] \in used \ artifacts
        /\ \A q \in Requests : <<q, cur[r]>> \notin submits
        /\ artifacts' \in {artifacts, artifacts \cup {cur[r]}}
    BY <1>5 DEF CreateFails, Locals, UploadOK, Uploading, Rowless
  <2>3. TypeOK'
    BY <1>5, <2>2 DEF Enter, Goto, CreateFails, TypeOK, Steps
  <2>4. Locals'
    BY <1>5, <2>1, <2>2, EnterEffect DEF CreateFails, TypeOK, Locals, UploadOK,
       DeleteOK, AnchorOK, WriteOK, Uploading, Rowless, Deleting
  <2>5. Consistent'
    BY <1>5, <2>2 DEF CreateFails, EntriesHaveRows, SubmissionsHaveEntry
  <2> QED BY <2>3, <2>4, <2>5
<1>6. CASE CleanupBlob(r)
  <2>1. Enter(r, "idle", NoStatus, NoArtifact, {})
    BY <1>6 DEF CleanupBlob, RemoveBlob, Done
  <2>2. cur[r] \in used
    BY <1>6 DEF CleanupBlob, Locals, UploadOK, Uploading
  <2>3. TypeOK'
    BY <1>6 DEF Enter, Goto, Done, CleanupBlob, RemoveBlob, TypeOK, Steps
  <2>4. Locals'
    BY <1>6, <2>1, EnterEffect DEF CleanupBlob, RemoveBlob, TypeOK, Locals, UploadOK,
       DeleteOK, AnchorOK, WriteOK, Uploading, Rowless, Deleting
  <2>5. Consistent'
    BY <1>6, <2>2 DEF CleanupBlob, RemoveBlob, EntriesHaveRows, SubmissionsHaveEntry
  <2> QED BY <2>3, <2>4, <2>5
<1> QED BY <1>1, <1>2, <1>3, <1>4, <1>5, <1>6 DEF UploadStep

\* DeleteArtifact: the row and its entry go before the blob.
LEMMA DeletePreserves ==
  ASSUME IInv, NEW r \in Requests, DeleteStep(r)
  PROVE  IInv'
<1> USE DEF IInv, Consistent
<1>1. ASSUME NEW a \in Artifacts, DeleteArtifact(r, a) PROVE IInv'
  <2>1. Enter(r, "deleteRow", NoStatus, a, {})
    BY <1>1 DEF DeleteArtifact
  <2>2. TypeOK'
    BY <1>1 DEF Enter, Goto, Done, DeleteArtifact, files, TypeOK, Steps
  <2>3. Locals'
    BY <1>1, <2>1, EnterEffect DEF DeleteArtifact, files, TypeOK, Locals, UploadOK,
       DeleteOK, AnchorOK, WriteOK, Uploading, Rowless, Deleting
  <2>4. Consistent'
    BY <1>1 DEF DeleteArtifact, files, EntriesHaveRows, SubmissionsHaveEntry
  <2> QED BY <2>2, <2>3, <2>4
<1>2. CASE DeleteRow(r)
  <2>1. \/ Enter(r, "deleteBlob", mem[r], cur[r], todo[r])
        \/ Enter(r, "idle", NoStatus, NoArtifact, {})
    BY <1>2 DEF DeleteRow, Goto, Done
  <2>2. cur[r] \in used
    BY <1>2 DEF DeleteRow, Locals, DeleteOK, Deleting
  <2>3. TypeOK'
    <3>1. CASE Goto(r, "deleteBlob")
      BY <1>2, <3>1 DEF Enter, Goto, DeleteRow, TypeOK, Steps, Entries
    <3>2. CASE Done(r)
      BY <1>2, <3>2 DEF Enter, Done, DeleteRow, TypeOK, Steps, Entries
    <3> QED BY <1>2, <3>1, <3>2 DEF DeleteRow
  <2>4. Locals'
    <3>1. \A q \in Requests \ {r} : pc'[q] = pc[q] /\ mem'[q] = mem[q] /\ cur'[q] = cur[q]
      BY <2>1, EnterEffect
    <3>2. \/ pc'[r] = "deleteBlob" /\ cur'[r] = cur[r]
          \/ pc'[r] = "idle"
      BY <2>1, EnterEffect
    <3> QED BY <1>2, <3>1, <3>2 DEF DeleteRow, TypeOK, Locals, UploadOK,
       DeleteOK, AnchorOK, WriteOK, Uploading, Rowless, Deleting
  <2>5. Consistent'
    BY <1>2 DEF DeleteRow, TypeOK, EntriesHaveRows, SubmissionsHaveEntry
  <2> QED BY <2>3, <2>4, <2>5
<1>3. CASE DeleteBlob(r)
  <2>1. Enter(r, "idle", NoStatus, NoArtifact, {})
    BY <1>3 DEF DeleteBlob, RemoveBlob, Done
  <2>2. cur[r] \in used
    BY <1>3 DEF DeleteBlob, Locals, DeleteOK, Deleting
  <2>3. TypeOK'
    BY <1>3 DEF Enter, Goto, Done, DeleteBlob, RemoveBlob, TypeOK, Steps
  <2>4. Locals'
    BY <1>3, <2>1, <2>2, EnterEffect DEF DeleteBlob, RemoveBlob, TypeOK, Locals, UploadOK,
       DeleteOK, AnchorOK, WriteOK, Uploading, Rowless, Deleting
  <2>5. Consistent'
    BY <1>3, <2>2 DEF DeleteBlob, RemoveBlob, EntriesHaveRows, SubmissionsHaveEntry
  <2> QED BY <2>3, <2>4, <2>5
<1> QED BY <1>1, <1>2, <1>3 DEF DeleteStep

\* SubmitWork and UpdateStatus touch the status only.
LEMMA StatusPreserves ==
  ASSUME IInv, NEW r \in Requests, StatusStep(r)
  PROVE  IInv'
<1> USE DEF IInv, Consistent
<1>1. /\ UNCHANGED <<files, entry, submits, upgrading>>
      /\ pc[r] \in {"idle", "submitCheck", "setStatus"}
      /\ pc[r] # "setStatus" => UNCHANGED status
      /\ \E step \in {"submitCheck", "setStatus", "idle"}, s \in Status \cup {NoStatus} :
           /\ Enter(r, step, s, NoArtifact, {})
           /\ step = "setStatus" => s \in Status
  BY DEF StatusStep, SubmitWork, SubmitCheck, UpdateStatus, WriteStatus, Done, files,
     TypeOK, Status, NoStatus
<1>2. PICK step \in {"submitCheck", "setStatus", "idle"}, s \in Status \cup {NoStatus} :
         /\ Enter(r, step, s, NoArtifact, {})
         /\ step = "setStatus" => s \in Status
  BY <1>1
<1>3. status' \in Status
  <2>1. CASE WriteStatus(r)
    BY <2>1 DEF WriteStatus, Locals, WriteOK
  <2>2. CASE ~WriteStatus(r)
    BY <2>2 DEF StatusStep, SubmitWork, SubmitCheck, UpdateStatus, TypeOK
  <2> QED BY <2>1, <2>2
<1>4. TypeOK'
  BY <1>1, <1>2, <1>3 DEF Enter, files, TypeOK, Steps
<1>5. Locals'
  BY <1>1, <1>2, EnterEffect DEF files, TypeOK, Locals, UploadOK,
     DeleteOK, AnchorOK, WriteOK, Uploading, Rowless, Deleting
<1>6. Consistent'
  BY <1>1 DEF files, EntriesHaveRows, SubmissionsHaveEntry
<1> QED BY <1>4, <1>5, <1>6

\* A run of insertAnchors writes an entry only next to its artifact's row.
LEMMA AnchorPreserves ==
  ASSUME IInv, NEW r \in Requests, AnchorStep(r) \/ AnchorFails(r)
  PROVE  IInv'
<1> USE DEF IInv, Consistent
<1>1. CASE ListUnanchored(r)
  <2>1. TypeOK'
    BY <1>1 DEF ListUnanchored, Unanchored, Enter, files, TypeOK, Steps
  <2>2. Locals'
    BY <1>1, EnterEffect DEF ListUnanchored, files, TypeOK, Locals, UploadOK,
       DeleteOK, AnchorOK, WriteOK, Uploading, Rowless, Deleting
  <2>3. Consistent'
    BY <1>1 DEF ListUnanchored, files, EntriesHaveRows, SubmissionsHaveEntry
  <2> QED BY <2>1, <2>2, <2>3
<1>2. ASSUME NEW a \in Artifacts, HashBlob(r, a) PROVE IInv'
  <2>1. TypeOK'
    BY <1>2 DEF HashBlob, Enter, files, TypeOK, Steps
  <2>2. Locals'
    BY <1>2, EnterEffect DEF HashBlob, files, TypeOK, Locals, UploadOK,
       DeleteOK, AnchorOK, WriteOK, Uploading, Rowless, Deleting
  <2>3. Consistent'
    BY <1>2 DEF HashBlob, files, EntriesHaveRows, SubmissionsHaveEntry
  <2> QED BY <2>1, <2>2, <2>3
<1>3. ASSUME Done(r), pc[r] \in {"anchor", "insertAnchor"},
             UNCHANGED <<status, files, entry, submits, upgrading>>
      PROVE  IInv'
  <2>1. TypeOK'
    BY <1>3 DEF Enter, Done, files, TypeOK, Steps
  <2>2. Locals'
    BY <1>3, EnterEffect DEF Done, files, TypeOK, Locals, UploadOK,
       DeleteOK, AnchorOK, WriteOK, Uploading, Rowless, Deleting
  <2>3. Consistent'
    BY <1>3 DEF files, EntriesHaveRows, SubmissionsHaveEntry
  <2> QED BY <2>1, <2>2, <2>3
<1>4. CASE InsertAnchor(r) /\ cur[r] \in artifacts
  <2>1. /\ pc[r] = "insertAnchor" /\ cur[r] \in artifacts
        /\ cur[r] \in Artifacts /\ cur[r] \in used
        /\ entry' = [entry EXCEPT ![cur[r]] = IF @ = "none" THEN "anchored" ELSE @]
        /\ submits' = submits \cup {<<r, cur[r]>>}
        /\ UNCHANGED <<status, files, upgrading>>
    BY <1>4 DEF InsertAnchor, TypeOK
  <2>2. PICK step \in {"idle", "anchor"}, rest \in SUBSET Artifacts :
           Enter(r, step, NoStatus, NoArtifact, rest)
    BY <1>4 DEF InsertAnchor, Done, TypeOK
  <2>3. TypeOK'
    BY <2>1, <2>2 DEF Enter, files, TypeOK, Steps, Entries
  <2>4. Locals'
    <3>1. \A q \in Requests \ {r} : pc'[q] = pc[q] /\ mem'[q] = mem[q] /\ cur'[q] = cur[q]
      BY <2>2, EnterEffect
    <3>2. pc'[r] \in {"idle", "anchor"}
      BY <2>2, EnterEffect
    <3>3. ASSUME NEW q \in Requests \ {r}, pc[q] \in Rowless
          PROVE  cur[q] # cur[r]
      BY <2>1, <3>3 DEF Locals, UploadOK
    <3> QED BY <2>1, <3>1, <3>2, <3>3 DEF files, Locals, UploadOK, DeleteOK, AnchorOK,
           WriteOK, Uploading, Rowless, Deleting
  <2>5. Consistent'
    BY <2>1 DEF files, TypeOK, EntriesHaveRows, SubmissionsHaveEntry
  <2> QED BY <2>3, <2>4, <2>5
<1>5. CASE InsertAnchor(r) /\ cur[r] \notin artifacts
  BY <1>3, <1>5 DEF InsertAnchor, files
<1>6. ASSUME NEW a \in Artifacts, HashFails(r, a) PROVE IInv'
  BY <1>3, <1>6 DEF HashFails
<1>7. CASE AnchorFails(r) /\ UNCHANGED entry
  BY <1>3, <1>7 DEF AnchorFails
<1>8. CASE AnchorFails(r) /\ ~UNCHANGED entry
  <2>1. /\ pc[r] = "insertAnchor" /\ cur[r] \in artifacts /\ cur[r] \in Artifacts
        /\ entry' = [entry EXCEPT ![cur[r]] = "anchored"]
        /\ Enter(r, "idle", NoStatus, NoArtifact, {})
        /\ UNCHANGED <<status, files, submits, upgrading>>
    BY <1>8 DEF AnchorFails, Done, TypeOK
  <2>2. TypeOK'
    BY <2>1 DEF Enter, files, TypeOK, Steps, Entries
  <2>3. Locals'
    BY <2>1, EnterEffect DEF files, TypeOK, Locals, UploadOK,
       DeleteOK, AnchorOK, WriteOK, Uploading, Rowless, Deleting
  <2>4. Consistent'
    BY <2>1 DEF files, TypeOK, EntriesHaveRows, SubmissionsHaveEntry
  <2> QED BY <2>2, <2>3, <2>4
<1> QED BY <1>1, <1>2, <1>4, <1>5, <1>6, <1>7, <1>8 DEF AnchorStep

\* Goroutines, the worker and the rest of the deal write no row that matters.
LEMMA BackgroundPreserves ==
  ASSUME IInv,
         \/ \E r \in Requests, a \in Artifacts : GoroutineStep(r, a)
         \/ WorkerStep
         \/ \E new \in Status : DealMoves(new)
         \/ UNCHANGED vars
  PROVE  IInv'
<1> USE DEF IInv, Consistent
<1>1. /\ UNCHANGED <<files, reqs>>
      /\ submits' \subseteq submits
      /\ upgrading' \subseteq Artifacts
      /\ status' \in Status
  BY DEF GoroutineStep, SubmitOk, SubmitFails, WorkerStep, ListPending, UpgradeOk,
     UpgradeSkips, DealMoves, vars, TypeOK
<1>2. /\ entry' \in [Artifacts -> Entries]
      /\ \A a \in Artifacts : entry'[a] = "none" <=> entry[a] = "none"
  <2>1. ASSUME NEW a \in Artifacts, NEW proof \in {"pending", "confirmed"},
               UpdateAnchorOTS(a, proof)
        PROVE  <1>2!1 /\ <1>2!2
    BY <2>1 DEF UpdateAnchorOTS, TypeOK, Entries
  <2>2. CASE UNCHANGED entry
    BY <2>2 DEF TypeOK
  <2> QED BY <2>1, <2>2 DEF GoroutineStep, SubmitOk, SubmitFails, WorkerStep, ListPending,
         UpgradeOk, UpgradeSkips, DealMoves, vars
<1>3. TypeOK'
  BY <1>1, <1>2 DEF files, reqs, TypeOK
<1>4. Locals'
  BY <1>1 DEF files, reqs, Locals, UploadOK, DeleteOK, AnchorOK, WriteOK
<1>5. Consistent'
  BY <1>1, <1>2 DEF files, TypeOK, EntriesHaveRows, SubmissionsHaveEntry
<1> QED BY <1>3, <1>4, <1>5

\* A call that ends early leaves what it has written behind.
LEMMA AbandonPreserves ==
  ASSUME IInv, NEW r \in Requests, Abandon(r)
  PROVE  IInv'
<1> USE DEF IInv, Consistent
<1>1. TypeOK'
  BY DEF Abandon, Done, Enter, files, TypeOK, Steps
<1>2. Locals'
  BY EnterEffect DEF Abandon, Done, files, TypeOK, Locals, UploadOK,
     DeleteOK, AnchorOK, WriteOK, Uploading, Rowless, Deleting
<1>3. Consistent'
  BY DEF Abandon, files, EntriesHaveRows, SubmissionsHaveEntry
<1> QED BY <1>1, <1>2, <1>3

-----------------------------------------------------------------------------
\* The invariant is inductive, whether or not the database's answers arrive.
LEMMA IInvStep == IInv /\ [Next]_vars => IInv'
BY UploadPreserves, DeletePreserves, StatusPreserves, AnchorPreserves,
   BackgroundPreserves, AbandonPreserves DEF Next, ServiceStep

\* It holds of every behaviour.
LEMMA Inductive == Spec => []IInv
<1>1. Init => IInv
  BY DEF Init, IInv, TypeOK, Steps, Status, Entries, Locals, UploadOK, DeleteOK, AnchorOK,
     WriteOK, Uploading, Rowless, Deleting, Consistent, EntriesHaveRows, SubmissionsHaveEntry
<1> QED BY <1>1, IInvStep, PTL DEF Spec

-----------------------------------------------------------------------------
(* The files, when a failed INSERT has left no row.                        *)

\* Every row has its file: an upload about to insert has saved it, and a call
\* about to remove a file has no row left, or never had one.
Stored ==
  /\ NoDanglingReference
  /\ \A r \in Requests :
       /\ pc[r] = "insert" => cur[r] \in blobs
       /\ pc[r] \in {"cleanup", "deleteBlob"} => cur[r] \notin artifacts

\* The blob is saved before the row exists and removed after it is gone.
LEMMA StoredStep ==
  ASSUME ~AnswersLost, IInv, Stored, [Next]_vars
  PROVE  Stored'
<1> USE DEF IInv, Stored, NoDanglingReference
<1>1. ASSUME NEW r \in Requests, NEW step, NEW s, NEW a, NEW rest,
             Enter(r, step, s, a, rest), UNCHANGED <<blobs, artifacts>>,
             step = "insert" => a \in blobs,
             step \in {"cleanup", "deleteBlob"} => a \notin artifacts
      PROVE  Stored'
  BY <1>1, EnterEffect
<1>2. ASSUME NEW r \in Requests, UploadStep(r) PROVE Stored'
  <2>1. pc[r] \in Uploading => \A q \in Requests \ {r} : pc[q] \in Uploading => cur[q] # cur[r]
    BY DEF Locals, UploadOK
  <2>2. pc[r] \in Rowless => /\ cur[r] \notin artifacts
                             /\ \A q \in Requests : pc[q] \in Deleting => cur[q] # cur[r]
    BY DEF Locals, UploadOK
  <2>3. ASSUME NEW a \in Artifacts, UploadArtifact(r, a) PROVE Stored'
    BY <1>1, <2>3 DEF UploadArtifact
  <2>4. CASE SaveBlob(r)
    <3>1. PICK step \in {"insert", "cleanup"} : Enter(r, step, mem[r], cur[r], todo[r])
      BY <2>4 DEF SaveBlob, Goto
    <3> QED BY <2>2, <2>4, <3>1, EnterEffect DEF SaveBlob, Rowless
  <2>5. CASE SaveFails(r)
    BY <2>5, EnterEffect DEF SaveFails, Done
  <2>6. CASE CreateArtifact(r)
    <3>1. \A q \in Requests \ {r} : pc[q] \in {"cleanup", "deleteBlob"} => cur[q] # cur[r]
      BY <2>1, <2>2, <2>6 DEF CreateArtifact, Uploading, Rowless, Deleting
    <3> QED BY <2>6, <3>1, EnterEffect DEF CreateArtifact, Done
  <2>7. CASE CreateFails(r)
    BY <1>1, <2>2, <2>7 DEF CreateFails, Goto, Rowless
  <2>8. CASE CleanupBlob(r)
    <3>1. \A q \in Requests \ {r} : pc[q] = "insert" => cur[q] # cur[r]
      BY <2>1, <2>8 DEF CleanupBlob, Uploading
    <3> QED BY <2>8, <3>1, EnterEffect DEF CleanupBlob, RemoveBlob, Done
  <2> QED BY <1>2, <2>3, <2>4, <2>5, <2>6, <2>7, <2>8 DEF UploadStep
<1>3. ASSUME NEW r \in Requests, DeleteStep(r) PROVE Stored'
  <2>1. ASSUME NEW a \in Artifacts, DeleteArtifact(r, a) PROVE Stored'
    BY <1>1, <2>1 DEF DeleteArtifact, files
  <2>2. CASE DeleteRow(r)
    <3>1. \/ Enter(r, "deleteBlob", mem[r], cur[r], todo[r])
          \/ Enter(r, "idle", NoStatus, NoArtifact, {})
      BY <2>2 DEF DeleteRow, Goto, Done
    <3> QED BY <2>2, <3>1, EnterEffect DEF DeleteRow
  <2>3. CASE DeleteBlob(r)
    <3>1. \A q \in Requests \ {r} : pc[q] = "insert" => cur[q] # cur[r]
      BY <2>3 DEF DeleteBlob, Locals, UploadOK, Rowless, Deleting
    <3> QED BY <2>3, <3>1, EnterEffect DEF DeleteBlob, RemoveBlob, Done
  <2> QED BY <1>3, <2>1, <2>2, <2>3 DEF DeleteStep
<1>4. ASSUME NEW r \in Requests, StatusStep(r) \/ Abandon(r) PROVE Stored'
  BY <1>1, <1>4 DEF StatusStep, SubmitWork, SubmitCheck, UpdateStatus, WriteStatus, Abandon,
                    Done, files
<1>5. ASSUME NEW r \in Requests, AnchorStep(r) \/ AnchorFails(r) PROVE Stored'
  BY <1>1, <1>5 DEF AnchorStep, ListUnanchored, HashBlob, HashFails, InsertAnchor, AnchorFails,
                    Done, files
<1>6. ASSUME \/ \E r \in Requests, a \in Artifacts : GoroutineStep(r, a)
             \/ WorkerStep
             \/ \E new \in Status : DealMoves(new)
             \/ UNCHANGED vars
      PROVE  Stored'
  BY <1>6 DEF GoroutineStep, SubmitOk, SubmitFails, WorkerStep, ListPending, UpgradeOk,
              UpgradeSkips, DealMoves, vars, files, reqs
<1> QED BY <1>2, <1>3, <1>4, <1>5, <1>6 DEF Next, ServiceStep

\* Rows and files agree from the start on.
LEMMA StoredInvariant ==
  ASSUME ~AnswersLost
  PROVE  Spec => [](IInv /\ Stored)
<1>1. Init => Stored
  BY DEF Init, Stored, NoDanglingReference
<1> QED BY <1>1, Inductive, StoredStep, PTL DEF Spec

-----------------------------------------------------------------------------
(* The theorems.                                                           *)

\* Type correctness of the artifacts, the entries and the calls on them.
THEOREM TypeCorrect == Spec => []TypeOK
BY Inductive, PTL DEF IInv

\* Every submission under way has an entry to store its proof in, unless its
\* artifact was deleted (insertAnchors commits the row before its goroutine);
\* lost answers of the database included.
THEOREM SubmissionSafety == Spec => []SubmissionsHaveEntry
BY Inductive, PTL DEF IInv, Consistent

\* The Live CV never lists work whose artifact row is gone, whatever deletion
\* races the anchoring and whatever answer is lost.
THEOREM CVListsRows == Spec => []EntriesHaveRows
BY Inductive, PTL DEF IInv, Consistent

\* Whatever uploads, deletions, crashes and anchoring runs overlap, an artifact
\* row has its file (UploadArtifact saves it first, DeleteArtifact removes it
\* last), provided that a failed INSERT left no row.
THEOREM RowsHaveFiles ==
  ASSUME ~AnswersLost
  PROVE  Spec => []NoDanglingReference
BY StoredInvariant, PTL DEF Stored

\* Every entry of the Live CV can be re-verified: its artifact and its file are
\* there (insertAnchors, DeleteArtifact and the cascade on cv_entries).
THEOREM CVSafety ==
  ASSUME ~AnswersLost
  PROVE  Spec => []EntriesVerifiable
<1>1. IInv /\ Stored => EntriesVerifiable
  BY DEF IInv, Stored, Consistent, EntriesHaveRows, NoDanglingReference, EntriesVerifiable
<1> QED BY <1>1, StoredInvariant, PTL
=============================================================================
