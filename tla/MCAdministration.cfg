SPECIFICATION AdminSpec
CONSTANTS
  r1 = r1
  r2 = r2
  e1 = e1
  e2 = e2
  i1 = i1
  i2 = i2
  None = None
  Requests = {r1, r2}
  Emails = {e1, e2}
  Issuers = {i1, i2}
  AirplaneIssuers = {}
  MaxIds = 3
  MaxLogouts = 1
  Inspectors = {r1, r2}
  Types = {a, b}
  MaxVersions = 3
SYMMETRY Symmetry
INVARIANTS
  InspectionInv
  UsersInv
PROPERTIES
  LastPrivilegedKept
  BoundOnce
  PrivilegeIsGranted
CHECK_DEADLOCK FALSE
