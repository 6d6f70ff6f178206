SPECIFICATION RepairSpec
CONSTANTS
    MaxCalls = 2
    MaxTurns = 2
    MaxSteps = 2
    MaxCrashes = 2
INVARIANTS RepairSound
\* the bounds end the log
CHECK_DEADLOCK FALSE
