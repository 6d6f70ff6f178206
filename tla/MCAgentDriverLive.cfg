CONSTANTS
    Message = {m1, m2}
    MaxCalls = 1
    MaxStep = 1
    MaxAttempt = 2
    MaxDepth = 1
    Vetoable = {"step/end", "turn/end"}
SPECIFICATION FairSpec
CHECK_DEADLOCK FALSE
PROPERTIES Converges
