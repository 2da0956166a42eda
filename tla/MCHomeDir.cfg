SPECIFICATION Spec
CONSTANTS
  r1 = r1  r2 = r2  r3 = r3
  ip1 = ip1
  Runs = {r1, r2, r3}
  Hours = {0}
  DefaultHours = 1
  Before <- MCBefore
  Requests <- MCRequests
  Editions <- MCEditions
  Chunks = 2
  MaxVersion = 2
  IPs = {ip1}
  MaxTime = 2
  AtOnce = 2
VIEW View
ACTION_CONSTRAINT Relevant
SYMMETRY Symmetry
INVARIANTS TypeOK SettingsKept InstalledWhole ManifestNotAhead FreshRecords NoUnaskedQueries
PROPERTIES OpenedStaysSame SuccessMeansCurrent
CHECK_DEADLOCK FALSE
