CONSTANTS
  Players = {p1, p2}
  Few = {p1}
  Servers = {login, s1}
  LoginServer = login
  Excluded = {}
  Timers = {t1, t2}
  Lossy = TRUE
  None = None
SPECIFICATION MCFairSpec
INVARIANTS StopInv SerialReports
PROPERTY StopsAsPromised
