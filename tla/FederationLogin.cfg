\* Two users of one browser, a portal transaction, idle expiry at any moment, one failure.
SPECIFICATION Spec
CONSTANTS
  Clients = {rms, ams}
  NoClient = NoClient
  Params = {p}
  Sids = {r1, r2, r3}
  NoSid = NoSid
  NoTxn = NoTxn
  Requests = {r1, r2, r3}
  Users = {u1, u2}
  Browsers = {b1}
  NoBrowser = NoBrowser
  Txns = {t1, tp}
  t1 = t1
  t2 = t2
  tp = tp
  rms = rms
  ams = ams
  TxnClient <- MCTxnClient
  MaxFailures = 1
  Kinds = {"login", "continue", "endSession", "logout", "forceSid", "forceUser"}
  Events = {"idle expiry"}
SYMMETRY Symmetry
CHECK_DEADLOCK FALSE
INVARIANTS
  TypeOK
  RevokedStaysUnreachable
  ForceLogoutIsComplete
  EveryReachableSessionIsIndexed
  ReauthenticationRetiresOldSession
PROPERTIES
  ImplementsSession
