CONSTANTS
    n1 = n1
    n2 = n2
    w1 = w1
    Custom = {w1}
    NsIds = {n1, n2}
    Keys <- MCKeys
    Requests = {r1, r2}
    None = None
    MaxVer = 2
    MaxRows = 2
    MaxChanges = 1
    MaxCrashes = 1
    Races = {}
    MaxRelease = 2
    MaxUploads = 6
    StagingFaults = {}
    AdminFaults = {}
    Threshold = 2
    MaxGen = 2
    DiagFaults = {}
SPECIFICATION DaemonSpec
INVARIANT DockerScoped
INVARIANT RestartFindsActive
 
INVARIANT RotationLands
PROPERTY StagingIsSafe
PROPERTY DiagnosticsAreSafe
CHECK_DEADLOCK FALSE
SYMMETRY Symmetry
