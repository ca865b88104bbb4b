CONSTANTS
    n1 = n1
    n2 = n2
    w1 = w1
    Custom = {w1}
    NsIds = {n1, n2}
    Keys <- MCKeys
    Requests = {r1, r2}
    None = None
    MaxVer = 2
    MaxRows = 2
    MaxChanges = 1
    MaxCrashes = 1
    Races = {"stale_create"}
    MaxRelease = 0
    MaxUploads = 0
    StagingFaults = {}
    AdminFaults = {}
    Threshold = 2
    MaxGen = 1
    DiagFaults = {}
SPECIFICATION DaemonSpec
INVARIANT DockerScoped
CHECK_DEADLOCK FALSE
SYMMETRY Symmetry
