\* Rotations over SSM, one parameter per key, with the waits of the runbook.
SPECIFICATION Spec
CONSTANTS
  Kids = {k1, k2}
  NoKid = NoKid
  Operators = {o1}
  Pods = {p1, p2}
  Provider = "ssm"
  Refresh = 2
  AssertionTtl = 1
  TokenTtl = 2
  RetireFloor = 4
  RetireMargin = 1
  StageWait = 4
  CacheMaxAge = 2
  Cooldown = 1
  LoadsFail = FALSE
  MaxTime = 10
SYMMETRY Symmetry
CHECK_DEADLOCK FALSE
INVARIANTS
  TypeOK
  ValidTokensVerify
PROPERTIES
  KeysOnlyMoveForward
