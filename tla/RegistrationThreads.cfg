SPECIFICATION Spec
CONSTANTS
    Uas = {u1}
    NoUa = NoUa
    NetThreads <- OneNetThread
    Methods <- AllMethods
    Faults = {"alloc"}
    QueueBound = 0
INVARIANTS TypeOK NoStuckProgress AppAgreesWithCache OnlyOkIsHonest
CHECK_DEADLOCK FALSE
