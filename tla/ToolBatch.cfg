SPECIFICATION FairSpec
CONSTANTS
    Calls = 4
    MaxParallel = 2
    Failing = {"tool/call", "prepare", "dispatch", "complete", "tool/result"}
INVARIANTS TypeOK Scheduled Accounted
PROPERTIES StepsAllowed BatchSettles
