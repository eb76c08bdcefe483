SPECIFICATION Spec
CONSTANTS
  r1 = r1
  r2 = r2
  e1 = e1
  e2 = e2
  i1 = i1
  None = None
  Requests = {r1, r2}
  Emails = {e1, e2}
  Issuers = {i1}
  AirplaneIssuers = {}
  MaxIds = 2
  MaxLogouts = 0
SYMMETRY Symmetry
INVARIANTS
  AtLeastOnePrivileged
