CONSTANTS
  Containers = {c1}
  Streams = {g1, g2, g3, g4}
  Consoles = {k1, k2, k3, k4}
  MaxRetries = 1
  MaxRuns = 3
  MaxErrors = 2
  MaxEvents = 3
  None = None
  Units = {u1, u2}
  Flagged = {u1}
  Manual = {j1}
  Scheduler = cron
  Interval = 2
  Retention = 1
  Faults = TRUE
  MaxDay = 3
  MaxRecords = 2
  MaxRestarts = 1
SPECIFICATION MCSpec
INVARIANTS StreamsInv PromptSettles BackupInv SerialBackupGood
PROPERTIES RetriesEnd RecordsSettle
CHECK_DEADLOCK FALSE
