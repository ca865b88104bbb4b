CONSTANTS
    Limits <- MCLimits
    Options <- MCOptions
    Webapps = {"eproc"}
    Extras = {"x", "y"}
    ExtraNeeds = {"x", "y", "mailpit"}
    Configs <- MCConfigs
    Kinds = {"json", "yaml", "def", "workspace"}
    Templates <- MCTemplates
    Contents <- MCContents
    MaxOps = 3
    ScopePaths <- MCScopes
    VersionNums <- MCVersions
    SuffixLists <- MCSuffixes
    MaxFiles = 3
    Plain = {host}
    Sections = {email}
    Fields = {from}
    Values = {a, b}
    None = None
    MaxEdits = 3
    MaxSetupCrashes = 1
    Keys = {k1, k2}
    MaxSlots = 3
    MaxVersion = 3
    StoreFaults = {}
    Apps = {"gateway", "proxy", "mailhog"}
    Gateway = "gateway"
    Proxy = "proxy"
    PortApp = "mailhog"
    MaxHash = 2
    MaxCrashes = 2
    MaxEvents = 4
    AdoptionFaults = {}
SPECIFICATION DocSpec
CHECK_DEADLOCK FALSE
INVARIANT BudgetFits
INVARIANT Startable
INVARIANT EditsStick
INVARIANT LatestHeadsTheList
INVARIANT ReadIsHonest
PROPERTY HistoryIsFaithful
PROPERTY AdoptionIsFaithful
