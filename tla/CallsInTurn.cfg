SPECIFICATION Spec
CONSTANTS
    CallIds = {c1, c2}
    NoCall = NoCall
    Methods <- CallAndHold
    Peer <- AnyPeer
    Faults = {}
    Overlap = FALSE
    Timers <- AnyTimer
    Tones <- AnyTone
    RaisesVolume = FALSE
INVARIANTS LiveIsReachable SilentWhenOver PeerHoldIsTold
PROPERTY EventsInOrder
CHECK_DEADLOCK FALSE
