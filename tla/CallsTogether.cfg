SPECIFICATION Spec
CONSTANTS
    CallIds = {c1, c2}
    NoCall = NoCall
    Methods <- CallAndDetach
    Peer <- IncomingAndClose
    Faults = {}
    Overlap = TRUE
    Timers = {}
    Tones = {}
    RaisesVolume = FALSE
INVARIANT EndIsTold
CHECK_DEADLOCK FALSE
