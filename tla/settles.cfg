CONSTANTS
    a = a
    b = b
    Apps = {a}
    Versions = {1}
    DependsOn <- NoDeps
    InitContainers <- NoInit
    Probed = {}
    Watched = {a}
    Imageless = {}
    Group <- SameGroup
    Proxies = {}
    Gateways = {}
    RegenOnRestart = {}
    Reconciling = FALSE
    Threshold = 1
    Found = {"match"}
    DesiredSets = {}
    Calls = {"StopApp", "StartApp", "RestartApp"}
    MaxCalls = 2
    MaxFaults = 1
SPECIFICATION FairSpec
INVARIANT DetachedStaysDown
PROPERTY SettlesAsAsked
