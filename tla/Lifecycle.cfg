SPECIFICATION FairSpec
CONSTANTS
    Words <- MCWords
    StaticLines <- MCStaticLines
    AudioModules <- MCAudioModules
    Dns <- NoDns
    Files <- MCFiles
    Processes = 3
    Attachments = 2
    Faults <- SomeFaults
    Signals = TRUE
INVARIANTS TypeOK NothingLeftOpen StartsOnce SettingsStay
PROPERTIES StopIsHeard
CHECK_DEADLOCK FALSE
