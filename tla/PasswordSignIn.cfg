\* One account, known or not, two requests and one address; one crash, migration or change.
SPECIFICATION Spec
CONSTANTS
  Accounts = {a}
  Addresses = {i}
  Passwords = {p1, p2}
  Requests = {owner, r}
  Owner = owner
  MaxPerIdentifier = 2
  MaxPerIp = 2
  MaxAttempts = 4
  MaxEvents = 1
CHECK_DEADLOCK FALSE
INVARIANTS
  TypeOK
  GuessesBeforeLock
  GuessesInWindow
PROPERTIES
  OwnerGetsIn
