SPECIFICATION FairSpec
CONSTANTS
    Uas = {u1}
    NoUa = NoUa
    NetThreads <- NoNetThread
    Methods <- AllMethods
    Faults = {"alloc", "register"}
    QueueBound = 0
PROPERTY ProgressResolves
CHECK_DEADLOCK FALSE
