SPECIFICATION Spec
CONSTANTS
  Requests = {r1, r2, r3}
  Tokens = {t1, t2, t3, t4}
  SessionIds = {s1, s2}
  NoToken = NoToken
  NoSession = NoSession
CHECK_DEADLOCK FALSE
SYMMETRY Symmetry
INVARIANTS
  TypeOK
  SingleUse
  LogoutIsFinal
PROPERTIES
  OneChainPerSession
