SPECIFICATION MCSpec
CONSTANTS
    ip1 = ip1  ip2 = ip2  steve = steve  none = none
    Addresses = {ip1, ip2}
    Limit = 2
    Window = 2
    MaxTime = 5
    MaxAttempts = 3
    NoAttempt = none
    AuthPlayers = {steve}
    AuthConfigs <- MCAuthConfigs
    MaxSessions = 2
    MaxKicks = 2
    AuthNone = none
    MaxRequests = 3
    ProfUsers <- MCProfUsers
    ProfNone = none
    SchemaServers = {1, 2}
    ServerNames <- MCServerNames
    Sanitize <- MCSanitize
    OldVersions = {0, 1, 2, 3}
    MaxCrashes = 5
    SchemaNone = none
CHECK_DEADLOCK FALSE
INVARIANTS ServedApart AuthInv SerialProfileFound SchemaKeepsData
PROPERTY ProfilerEnds
