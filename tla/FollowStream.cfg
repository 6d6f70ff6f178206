SPECIFICATION FairSpec
CONSTANTS
    MaxSteps = 2
    MaxAttempts = 2
    MaxChunks = 1
    MaxLives = 2
    MaxBacklog = 1
    MaxTwists = 2
INVARIANTS TypeOK WindowContiguous TransientsOwned
PROPERTIES FollowsToTheEnd
CHECK_DEADLOCK FALSE
