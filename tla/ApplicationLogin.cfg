\* Two tabs of one browser; the link of a top-level page is opened in another one.
SPECIFICATION SafetySpec
CONSTANTS
  t1 = t1
  t2 = t2
  b1 = b1
  b2 = b2
  Tabs = {t1, t2}
  Browsers = {b1, b2}
  Users = {u1}
  NoUser = NoUser
  NoPost = NoPost
  MaxStarts = 2
  Starts <- MCStarts
  TabBrowser <- MCTabBrowser
  Disturbances = {"topLevel", "again", "lost", "expired"}
  MaxFailures = 2
CHECK_DEADLOCK FALSE
INVARIANTS
  SessionIsOfOneBrowser
  TransactionIsTakenOnce
  StuckOnlyByAccident
