SPECIFICATION MCSpec
CONSTANTS
    a = a  b = b  c1 = c1  d1 = d1  t1 = t1  t2 = t2  s1 = s1  p1 = p1  none = none
    NetNames = {a, b, c1}
    NetDomains = {d1}
    NetPorts = {1, 2}
    NetThreads = {t1, t2}
    NetUsers <- MCNetUsers
    NetNone = none
    LinkServers = {s1}
    LinkProxies = {p1}
    LinkFiles = {"f", "g"}
    LinkRequests = {1, 2}
    LinkUsers <- MCLinkUsers
    LinkNone = none
    VelocityNames <- MCVelocityNames
    JarRequests = {1, 2}
    JarUsers <- MCJarUsers
    JarNone = none
    PlugProjects = {a, b, c1}
    PlugNeeds <- MCPlugNeeds
    PlugBundled <- MCBundled
    PlugRequests = {1, 2}
    PlugUsers <- MCPlugUsers
    PlugNone = none
    DataFiles = {sqlite, tile}
    Database = sqlite
    Mounted = {}
    Restores = {q1}
    Archives = {a1, a2}
    MaxWrites = 1
    MaxCuts = 1
    Absent = none
CHECK_DEADLOCK FALSE
INVARIANTS NetInv SerialFilesAgree SerialMotdRight SerialOwnDirectory ProxyStatusSettles LinksInv SerialLinksAgree SerialJarMatchesRow VelocityIsNewest SerialPluginsAgree BundledReady SerialRestoreExact
PROPERTIES SerialLinksKeepData UpdateSettles
