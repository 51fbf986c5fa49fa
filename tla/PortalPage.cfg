\* One browser, its user and another one, an administrator; two disturbances of any kind.
SPECIFICATION Spec
CONSTANTS
  a = a
  b = b
  core = core
  bu = bu
  Assignments <- MCAssignments
  Users = {a, b}
  NoUser = NoUser
  Workspaces = {core, bu}
  NoWorkspace = NoWorkspace
  CoreRight = {core}
  Disturbances = {"wander", "refused", "lost", "elsewhere", "ended", "expired", "late", "reassigned", "admin"}
  MaxFailures = 2
  MaxSessions = 6
  MaxPages = 3
CHECK_DEADLOCK FALSE
INVARIANTS
  TypeOK
  SelectionIsOfTheUserShown
  WorkspaceAndApplicationsAreOfOneUser
  AdministratorHeldTheRight
  EverySpinnerAwaitsAnAnswer
PROPERTIES
  PortalOpens
