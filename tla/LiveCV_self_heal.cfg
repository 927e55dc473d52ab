SPECIFICATION FairSpec
CONSTANTS
  Requests = {r1}
  Artifacts = {a1, a2}
  NoArtifact = NoArtifact
  AnswersLost = TRUE
CHECK_DEADLOCK FALSE
PROPERTIES
  ReleasedWorkAnchored
