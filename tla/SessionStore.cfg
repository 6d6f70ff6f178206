SPECIFICATION FairSpec
CONSTANTS
    Sessions = {a, b}
    Listeners = 2
    MaxEvents = 2
    MaxEnters = 3
    MaxDepth = 3
    None = None
INVARIANTS TypeOK ObserversAgree EntryOutlivesNotices
PROPERTIES DeferredDetachHappens
CHECK_DEADLOCK FALSE
