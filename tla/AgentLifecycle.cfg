SPECIFICATION FairSpec
CONSTANTS
    Lifecycles = {a, b}
    Kinds = {"create", "resume", "configured"}
    MaxLog = 2
    None = None
INVARIANTS TypeOK Whole NothingLeaked LogKept
PROPERTIES DisposalConverges
CHECK_DEADLOCK FALSE
