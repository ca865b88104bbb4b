CONSTANTS
    a = a
    b = b
    Apps = {a, b}
    Versions = {1}
    DependsOn <- BNeedsA
    InitContainers <- TwoInit
    Probed = {a}
    Watched = {}
    Imageless = {b}
    Group <- SameGroup
    Proxies = {}
    Gateways = {}
    RegenOnRestart = {}
    Reconciling = TRUE
    Threshold = 1
    Found = {"match", "absent", "detached"}
    DesiredSets = {}
    Calls = {}
    MaxCalls = 0
    MaxFaults = 2
SPECIFICATION FairSpec
INVARIANT StartupIsSequential
PROPERTY HealsItself
