CONSTANTS
    NumRanks = 3
    Coordinator = 0
    Stage = "DISPATCH"
    WaitsForResults = TRUE
    a1 = a1
    b1 = b1
    c1 = c1
    d2 = d2
    e2 = e2
    f3 = f3
    g1 = g1
    Executables <- MCExecutables
    NumCollectives <- MCNumCollectives
    Workloads <- Staircase
SPECIFICATION FairSpec
PROPERTY HandshakesAnswered
CHECK_DEADLOCK FALSE
