SPECIFICATION Spec
CONSTANTS
    Networks = {"wifi", "cell"}
    Offers <- MCOffers
    Wifi = {"wifi"}
    HotSpotAddrs = {{}, {"h1", "h6"}}
    Matching = {"w1", "c1", "c9", "h1"}
    Rejected = {"c9"}
    Undecodable = {"bad"}
    TextLimit = 3
    NetMaxNs = 2
    Modes = {"alone", "calm"}
    Changes <- MCChanges
INVARIANTS TypeOK AddressesFollow TransportsFollow ActiveServersFirst WifiLockFollows
CHECK_DEADLOCK FALSE
