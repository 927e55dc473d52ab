SPECIFICATION Spec
CONSTANTS
  MaxHeight = 3
  MaxSeqs = 3
CHECK_DEADLOCK FALSE
INVARIANTS
  TypeOK
  NoContradictedProofVerified
  ReportsLowestBlock
  UnreachableChainDegrades
