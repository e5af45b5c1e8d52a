CONSTANTS
    NumRanks = 3
    MaxCalls = 2
    Absent = Absent
    MaxSize = 2
    MaxTags = 2
    MaxTensors = 2
    StripeChunk = 8
    Deployments <- OneEvenRank
SPECIFICATION Spec
INVARIANT MatchedCallsSucceed
