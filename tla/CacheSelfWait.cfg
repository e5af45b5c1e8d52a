CONSTANTS
    Callers = {c1, c2}
    Evictors = {e1}
    Destructor = dtor
    Keys = {k1}
    Promises = {p1, p2, p3}
    None = None
    Peer = Peer
    AllowModes = {TRUE}
    CacheOnlyModes = {FALSE}
    UsesTier2 = TRUE
    UsesTier3 = FALSE
    UsesBackup = FALSE
    HasPeer = FALSE
    MayShutDown = FALSE
    NumThreads = 2
    NumBackup = 1
    MaxRequests = 2
    k1 = k1
    k2 = k2
    d = d
    s = s
    m = m
    pad = pad
    slc = slc
    Requests <- OneRequest
    Compatible <- MCCompatible
    AdapterKey <- MCAdapterKey
SPECIFICATION FairSpec
PROPERTY FuturesSettle
