SPECIFICATION MCSpec
CONSTANTS
    ip1 = ip1  ip2 = ip2  steve = steve  none = none
    Addresses = {ip1}
    Limit = 1
    Window = 1
    MaxTime = 1
    MaxAttempts = 1
    NoAttempt = none
    AuthPlayers = {steve}
    AuthConfigs <- MCAuthConfigs
    MaxSessions = 0
    MaxKicks = 0
    AuthNone = none
    MaxRequests = 3
    ProfUsers <- MCProfUsers
    ProfNone = none
    SchemaServers = {1, 2}
    ServerNames <- MCServerNames
    Sanitize <- MCSanitize
    OldVersions = {0, 1, 2, 3}
    MaxCrashes = 0
    SchemaNone = none
CHECK_DEADLOCK FALSE
INVARIANT PlayersUnique
