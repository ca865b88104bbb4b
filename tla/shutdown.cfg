CONSTANTS
    a = a
    b = b
    Apps = {a, b}
    Versions = {1}
    DependsOn <- NoDeps
    InitContainers <- NoInit
    Probed = {}
    Watched = {}
    Imageless = {}
    Group <- AThenB
    Proxies = {}
    Gateways = {}
    RegenOnRestart = {}
    Reconciling = FALSE
    Threshold = 1
    Found = {"match", "stale"}
    DesiredSets = {}
    Calls = {"Stop"}
    MaxCalls = 2
    MaxFaults = 0
SPECIFICATION FairSpec
INVARIANT OneStopChain
INVARIANT NothingRunsAfterStop
PROPERTY StopsInOrder
PROPERTY StopsCompletely
CHECK_DEADLOCK FALSE
