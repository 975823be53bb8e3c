SPECIFICATION Spec
CONSTANTS
    Uas = {u1, u2}
    NoUa = NoUa
    NetThreads <- NoNetThread
    Methods <- JustInit
    Faults = {"alloc", "codecs"}
    QueueBound = 0
SYMMETRY UaSymmetry
INVARIANT AppAgreesWithCache
CHECK_DEADLOCK FALSE
