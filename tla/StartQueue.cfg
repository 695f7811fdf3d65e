CONSTANTS
  Players = {p1, p2}
  Servers = {s1, s2}
  Excluded = {}
  HubServer = hub
  QueueServer = hub
  LoginServer = login
  UseHubQueue = TRUE
  Jobs = {j1, j2}
  MaxAdmissions = 2
  None = None
SPECIFICATION MCSpec
INVARIANT StartInv
PROPERTY PatientExact
SYMMETRY Symmetry
