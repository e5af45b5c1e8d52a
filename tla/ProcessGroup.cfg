CONSTANTS
    NumRanks = 3
    MaxCalls = 2
    Absent = Absent
    MaxSize = 2
    MaxTags = 2
    MaxTensors = 2
    StripeChunk = 8
    Deployments <- Supported
SPECIFICATION FairSpec
INVARIANT TypeOK
INVARIANT SlicesTile
INVARIANT MeetsSameCall
INVARIANT MatchedCallsSucceed
INVARIANT SendReportsTruth
INVARIANT SettledOnce
INVARIANT DeliveredToMatch
PROPERTY OperationsEnd
