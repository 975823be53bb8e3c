SPECIFICATION FairSpec
CONSTANTS
    CallIds = {c1, c2}
    Uas = {u1, u2}
    NoCall = NoCall
    NoHandle = NoHandle
    NoUa = NoUa
    Methods <- AllMethods
    Faults = {"alloc", "register", "connect"}
    QueueBound = 1
    Modes = {"accounts", "together", "in turn"}
INVARIANTS TypeOK CurrentIsLiveOrFailed LiveIsReachable
PROPERTIES CallsAsPromised EndComesThrough ProgressResolves
CHECK_DEADLOCK FALSE
