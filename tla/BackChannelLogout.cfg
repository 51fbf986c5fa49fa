\* One notification with all its attempts, two logins of the application.
SPECIFICATION FairSpec
CONSTANTS
  Callbacks = {c1, c2}
  Logouts = {l1}
  Attempts = 3
  MaxFailures = 3
CHECK_DEADLOCK FALSE
INVARIANTS
  TypeOK
  EverySessionIsIndexed
  SucceededLogoutEndsSessions
PROPERTIES
  SentLogoutTakesEffect
