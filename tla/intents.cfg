CONSTANTS
    a = a
    b = b
    Apps = {a}
    Versions = {1, 2}
    DependsOn <- NoDeps
    InitContainers <- NoInit
    Probed = {}
    Watched = {a}
    Imageless = {}
    Group <- SameGroup
    Proxies = {}
    Gateways = {}
    RegenOnRestart = {a}
    Reconciling = TRUE
    Threshold = 1
    Found = {"match", "detached"}
    DesiredSets <- OnlyA
    Calls = {"StopApp", "StartApp", "RestartApp", "RetryPullFailedApps", "Regenerate"}
    MaxCalls = 2
    MaxFaults = 1
SPECIFICATION Spec
INVARIANT TypeOK
INVARIANT DetachedParked
