SPECIFICATION Spec
CONSTANTS
  Rate = 3
  Window = 7
  Idle = 6
  Horizon = 24
INVARIANTS
  TypeOK
  Throttled
  NeverStarved
