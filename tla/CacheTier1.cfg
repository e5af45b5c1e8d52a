CONSTANTS
    Callers = {c1, c2}
    Evictors = {e1}
    Destructor = dtor
    Keys = {k1, k2}
    Promises = {p1, p2, p3}
    None = None
    Peer = Peer
    AllowModes = {TRUE, FALSE}
    CacheOnlyModes = {TRUE, FALSE}
    UsesTier2 = FALSE
    UsesTier3 = FALSE
    UsesBackup = FALSE
    HasPeer = FALSE
    MayShutDown = TRUE
    NumThreads = 2
    NumBackup = 1
    MaxRequests = 3
    k1 = k1
    k2 = k2
    d = d
    s = s
    m = m
    pad = pad
    slc = slc
    Requests <- StaticRequests
    Compatible <- MCCompatible
    AdapterKey <- MCAdapterKey
SPECIFICATION FairSpec
INVARIANT TypeOK
INVARIANT PendingIsCached
INVARIANT EvictedEntriesGone
INVARIANT DestroyedInOrder
PROPERTY ImplementsFutures
PROPERTY EvictAllReturns
