\* The configuration changes once while transactions are created, used and looked up, in five
\* seconds: one more than a cached configuration and its store can last (3 + 1).
SPECIFICATION Spec
CONSTANTS
  o1 = o1
  o2 = o2
  cb = cb
  Origins = {o1, o2}
  Callbacks = {cb}
  NoValue = NoValue
  NoClient = NoClient
  Requests = {r1, r2, r3}
  Kinds = {"create", "sign-in", "lookup"}
  Configs <- MCConfigs
  Asks <- MCAsks
  Ttl = 3
  NegativeTtl = 1
  Latency = 1
  MaxVersion = 2
  MaxTime = 5
SYMMETRY Symmetry
CHECK_DEADLOCK FALSE
INVARIANTS
  TypeOK
  FreshReadsAreCurrent
  SignInsAreStillAllowed
PROPERTIES
  StalenessIsBounded
