CONSTANTS
    Clicks = {c1, c2, c3}
    Forced = {c2}
    Nss = {n1, n2}
    None = None
    MaxMoves = 1
    RingSize = 1
    ChanCap = 2
    MaxSeq = 3
    MaxDrops = 2
    StreamFaults = {}
    MaxVersion = 2
    Dead = Dead
    MaxKills = 1
    MaxVisits = 3
    InstallFaults = {}
SPECIFICATION ApiSpec
CHECK_DEADLOCK FALSE
INVARIANT InstallIsSafe
PROPERTY UpgradeLands
PROPERTY ClicksAreServed
PROPERTY StreamIsFaithful
