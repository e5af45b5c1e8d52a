CONSTANTS
    Callers = {c1, c2}
    Evictors = {e1}
    Destructor = dtor
    Keys = {d, s, m, pad, slc}
    Promises = {p1, p2, p3, p4}
    None = None
    Peer = Peer
    AllowModes = {TRUE, FALSE}
    CacheOnlyModes = {TRUE, FALSE}
    UsesTier2 = FALSE
    UsesTier3 = FALSE
    UsesBackup = FALSE
    HasPeer = FALSE
    MayShutDown = FALSE
    NumThreads = 2
    NumBackup = 1
    MaxRequests = 2
    k1 = k1
    k2 = k2
    d = d
    s = s
    m = m
    pad = pad
    slc = slc
    Requests <- DynamicRequests
    Compatible <- MCCompatible
    AdapterKey <- MCAdapterKey
SPECIFICATION Spec
INVARIANT PendingHasSetter
INVARIANT NoCheckFails
