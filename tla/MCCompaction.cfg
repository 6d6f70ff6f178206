SPECIFICATION FairSpec
CONSTANTS
    Histories <- MCHistories
    Renderings <- MCRenderings
    MaxCalls = 1
    Threshold = 4
    Retain = 1
    CompactionRetries = 1
    MaxOverflowRetries = 1
    MaxSteps = 2
    MaxAsks = 1
    MaxTwists = 1
    MaxSpan = 2
    MaxTotal = 5
INVARIANTS TypeOK SurfaceSound CachesAgree LockHonest
PROPERTIES SummaryFaithful RequestSound TurnSettles
CHECK_DEADLOCK FALSE
