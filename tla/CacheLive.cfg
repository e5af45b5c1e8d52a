CONSTANTS
    Callers = {c1}
    Evictors = {}
    Destructor = dtor
    Keys = {k1, k2}
    Promises = {p1, p2}
    None = None
    Peer = Peer
    AllowModes = {TRUE}
    CacheOnlyModes = {FALSE}
    UsesTier2 = TRUE
    UsesTier3 = TRUE
    UsesBackup = TRUE
    HasPeer = FALSE
    MayShutDown = TRUE
    NumThreads = 1
    NumBackup = 1
    MaxRequests = 2
    k1 = k1
    k2 = k2
    d = d
    s = s
    m = m
    pad = pad
    slc = slc
    Requests <- StaticRequests
    Compatible <- MCCompatible
    AdapterKey <- MCAdapterKey
SPECIFICATION FairSpec
PROPERTY FuturesSettle
PROPERTY ShutDownCompletes
