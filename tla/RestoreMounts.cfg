SPECIFICATION RestoreSpec
CONSTANTS
    DataFiles = {sqlite}
    Database = sqlite
    Mounted = {"servers", "java"}
    Restores = {q1}
    Archives = {a1}
    MaxWrites = 0
    MaxCuts = 0
    Absent = none
CHECK_DEADLOCK FALSE
INVARIANT RestoresServers
