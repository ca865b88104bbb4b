CONSTANTS
    UserIds = {u1, u2}
    SysIds = {jwt}
    Vals = {11, 12}
    Pwds = {"citeck", "own"}
    MaxSalts = 3
    MaxSysVal = 4
    MaxSecretCrashes = 1
    Faults = {}
    Urls = {old, new}
    Callers = {c1, c2}
    MaxCommits = 2
    GitFaults = {}
    Volumes = {v1, v2}
    Chunks = 2
    MaxTries = 3
    MaxStalled = 2
    MaxOps = 2
    Wss = {w1}
    Nss <- MCNss
    MaxStarts = 3
    MigrationFaults = {}
    Hosts = {h1, h2}
    CertFaults = {}
    CleanWss = {w1, w2}
    Ids = {"n"}
    CleanFaults = {}
    None = None
    MaxCrashes = 1
SPECIFICATION Spec
CHECK_DEADLOCK FALSE
SYMMETRY Symmetry
 
INVARIANT MigrationIsSafe
PROPERTY SystemSecretsStable
 
PROPERTY SnapshotsAreSafe
 
 
