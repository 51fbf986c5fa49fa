\* One application id that may be created twice, one portal page, five requests.
SPECIFICATION Spec
CONSTANTS
  Clients = {rms, ams}
  NoClient = NoClient
  Params = {p}
  Sids = {s1, s2}
  NoSid = NoSid
  NoTxn = NoTxn
  AppIds = {app}
  PortalIds = {portal}
  Requests = {r1, r2, r3, r4, r5}
  MaxReuse = 2
SYMMETRY Symmetry
CHECK_DEADLOCK FALSE
INVARIANTS
  TypeOK
  SingleUse
  SignedInTransactionKeepsItsSession
  ScopeFollowsSignIn
PROPERTIES
  ImplementsPromise
