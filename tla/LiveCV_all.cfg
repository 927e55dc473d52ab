SPECIFICATION FairSpec
CONSTANTS
  Requests = {r1, r2}
  Artifacts = {a1, a2}
  NoArtifact = NoArtifact
  AnswersLost = FALSE
CHECK_DEADLOCK FALSE
INVARIANTS
  TypeOK
  NoDanglingReference
  EntriesVerifiable
  SubmissionsHaveEntry
PROPERTIES
  ReleasedWorkAnchored
  ProofsConfirmed
