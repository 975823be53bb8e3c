SPECIFICATION Spec
CONSTANTS
    CallIds = {c1}
    NoCall = NoCall
    Methods <- AllMethods
    Peer <- AnyUpdate
    Faults = {"connect"}
    Overlap = TRUE
    Timers <- AnyTimer
    Tones <- AnyTone
    RaisesVolume = TRUE
INVARIANTS TypeOK UpAfterRing
CHECK_DEADLOCK FALSE
