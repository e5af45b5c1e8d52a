CONSTANTS
    t1 = t1
    t2 = t2
    Threads = {t1, t2}
    MaxBuffers = 3
    Deployments <- Supported
CHECK_DEADLOCK FALSE
SPECIFICATION FairSpec
INVARIANT TypeOK
INVARIANT PendingHasTask
INVARIANT NoTaskWaitsBehind
INVARIANT NoDeferredArgument
INVARIANT AnsweredOkIsPending
INVARIANT CallHasTask
INVARIANT QueuesDrained
INVARIANT SoloKeepsItsOp
INVARIANT EffectsKeptInOrder
PROPERTY SnapshotCoversStream
PROPERTY ImplementsBufferFutures
PROPERTY BuffersSettle
PROPERTY CallsReturn
PROPERTY ShutdownReturns
