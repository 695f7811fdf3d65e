CONSTANTS
  Players = {p1}
  Servers = {s1, s2}
  Excluded = {s2}
  HubServer = hub
  QueueServer = limbo
  LoginServer = login
  UseHubQueue = TRUE
  Jobs = {j1, j2}
  MaxAdmissions = 2
  None = None
SPECIFICATION FairSpec
PROPERTY WaitsEnd
