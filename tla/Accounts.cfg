SPECIFICATION Spec
CONSTANTS
    Null = Null
    Texts = {"t", "bad"}
    Unknown = {"bad"}
    Names = {"display_name"}
    Numbers = {"regint"}
    Hosts = {"h"}
    Jints <- MCJints
    Word = 256
    Half = 16
    Slots = 2
    Length <- MCLength
    CodecSize = 8
    ListSize = 18
    Builds <- MCBuilds
INVARIANTS TypeOK AskedIsOffered
PROPERTIES SettingsAreKept
