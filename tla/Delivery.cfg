SPECIFICATION Spec
CONSTANTS
    Engines = {"e1", "e2"}
    Together = FALSE
    MaxEvents = 3
    MaxInits = 2
INVARIANTS TypeOK HeardOnceInOrder
PROPERTIES DueArrives
CHECK_DEADLOCK FALSE
