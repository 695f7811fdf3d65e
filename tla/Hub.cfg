CONSTANTS
  Clients = {c1, c2}
  Talkers = {c1}
  SendCap = 1
  BroadcastCap = 1
  MaxMessages = 3
  None = None
SPECIFICATION MCFairSpec
INVARIANTS HubInv NoGaps
PROPERTIES HubServes
CHECK_DEADLOCK FALSE
