CONSTANTS
    Callers = {c1, c2}
    Evictors = {e1}
    Destructor = dtor
    Keys = {k1}
    Promises = {p1, p2, p3}
    None = None
    Peer = Peer
    AllowModes = {TRUE}
    CacheOnlyModes = {FALSE}
    UsesTier2 = TRUE
    UsesTier3 = TRUE
    UsesBackup = TRUE
    HasPeer = TRUE
    MayShutDown = FALSE
    NumThreads = 2
    NumBackup = 1
    MaxRequests = 3
    k1 = k1
    k2 = k2
    d = d
    s = s
    m = m
    pad = pad
    slc = slc
    Requests <- OneRequest
    Compatible <- MCCompatible
    AdapterKey <- MCAdapterKey
SPECIFICATION Spec
INVARIANT PendingHasSetter
PROPERTY ValidTier2NeverLost
