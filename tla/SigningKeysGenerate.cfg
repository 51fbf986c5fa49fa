\* generate while the provider cannot be read.
SPECIFICATION Spec
CONSTANTS
  Kids = {k1, k2, k3}
  NoKid = NoKid
  Operators = {o1}
  Pods = {p1}
  Provider = "secretsmanager"
  Refresh = 1
  AssertionTtl = 1
  TokenTtl = 1
  RetireFloor = 2
  RetireMargin = 0
  StageWait = 1
  CacheMaxAge = 1
  Cooldown = 1
  LoadsFail = TRUE
  MaxTime = 2
SYMMETRY Symmetry
CHECK_DEADLOCK FALSE
INVARIANTS
  GenerateOnlyBootstraps
