CONSTANTS
  Servers = {s1, s2}
  Few = {s1}
  Flagged = {s1, s2}
  Requests = {r1, r2}
  Budget = 1
  Faults = TRUE
  MaxBoots = 2
  MaxEvents = 2
SPECIFICATION MCSpec
INVARIANTS LifecycleInv SerialStatusAgrees
PROPERTIES SerialStartKeeps
CHECK_DEADLOCK FALSE
