SPECIFICATION FairSpec
CONSTANTS
    Callers = {main}
    Wrappers <- LockedWrappers
    Raised <- AllEvents
    GetEnvFails = FALSE
    UpcallBound = 2
INVARIANTS TypeOK KotlinIsUnlocked HeardAsMeant
PROPERTIES OneAtATime CallsReturn
CHECK_DEADLOCK FALSE
