CONSTANTS
    Message = {m1, m2}
    MaxCalls = 2
    MaxStep = 2
    MaxAttempt = 2
    MaxDepth = 3
    Vetoable = {"turn/start", "step/start"}
SPECIFICATION Spec
SYMMETRY Messages
CHECK_DEADLOCK FALSE
INVARIANTS TypeOK InputKept NothingLeft
PROPERTIES LogHonest
