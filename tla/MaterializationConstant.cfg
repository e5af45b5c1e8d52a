CONSTANTS
    t1 = t1
    t2 = t2
    Threads = {t1}
    MaxBuffers = 3
    Deployments <- Constant
SPECIFICATION Spec
INVARIANT GraphKeyHasOps
