CONSTANTS
  Clients = {c1}
  SendCap = 1
  BroadcastCap = 1
  MaxMessages = 2
  None = None
SPECIFICATION Spec
INVARIANTS HubSurvives
CHECK_DEADLOCK FALSE
