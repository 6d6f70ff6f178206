SPECIFICATION Spec
CONSTANTS
    h1 = h1
    h2 = h2
    h3 = h3
    p1 = p1
    p2 = p2
    NoHandle = NoHandle
    Handles = {h1, h2, h3}
    Creator = h1
    Home <- MCHome
    MaxEvents = 2
    MaxFaults = 2
    LateWork = FALSE
INVARIANTS TypeOK FileKept NothingStuck
PROPERTIES AppendOnly
\* the system may stop: every life has ended
CHECK_DEADLOCK FALSE
