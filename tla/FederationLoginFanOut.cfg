\* Assertions issued while a session is revoked and a user disabled; no failure, no expiry.
SPECIFICATION FairSpec
CONSTANTS
  Clients = {rms, ams}
  NoClient = NoClient
  Params = {p}
  Sids = {r1, r2, r3}
  NoSid = NoSid
  NoTxn = NoTxn
  Requests = {r1, r2, r3}
  Users = {u1}
  Browsers = {b1}
  NoBrowser = NoBrowser
  Txns = {t1, t2}
  t1 = t1
  t2 = t2
  tp = tp
  rms = rms
  ams = ams
  TxnClient <- MCTxnClient
  MaxFailures = 0
  Kinds = {"login", "continue", "logout"}
  Events = {"user disabled"}
CHECK_DEADLOCK FALSE
INVARIANTS
  DisabledUserGetsNoNewAssertion
PROPERTIES
  RecordedApplicationsAreNotified
