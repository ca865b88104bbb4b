CONSTANTS
    a = a
    b = b
    Apps = {a, b}
    Versions = {1}
    DependsOn <- NoDeps
    InitContainers <- NoInit
    Probed = {}
    Watched = {}
    Imageless = {}
    Group <- SameGroup
    Proxies = {}
    Gateways = {}
    RegenOnRestart = {}
    Reconciling = FALSE
    Threshold = 1
    Found = {"match"}
    DesiredSets <- DropAndAddB
    Calls = {"Regenerate"}
    MaxCalls = 2
    MaxFaults = 0
SPECIFICATION FairSpec
PROPERTY AppliesLatest
