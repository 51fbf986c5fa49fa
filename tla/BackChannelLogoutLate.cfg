\* A login that is under way when the logout is delivered.
SPECIFICATION Spec
CONSTANTS
  Callbacks = {c1, c2}
  Logouts = {l1}
  Attempts = 3
  MaxFailures = 0
CHECK_DEADLOCK FALSE
INVARIANTS
  NoSessionAfterLogout
