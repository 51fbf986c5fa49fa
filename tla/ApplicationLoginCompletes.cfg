\* One tab, every kind of disturbance, two of them; seven starts are enough for that.
SPECIFICATION Spec
CONSTANTS
  t1 = t1
  t2 = t2
  b1 = b1
  b2 = b2
  Tabs = {t1}
  Browsers = {b1}
  Users = {u1}
  NoUser = NoUser
  NoPost = NoPost
  MaxStarts = 7
  Starts <- MCStarts
  TabBrowser <- MCTabBrowser
  Disturbances = {"refused", "lost", "expired", "again", "topLevel", "wandering"}
  MaxFailures = 2
CHECK_DEADLOCK FALSE
INVARIANTS
  TypeOK
PROPERTIES
  SignInCompletes
