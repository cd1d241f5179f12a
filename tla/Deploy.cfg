\* Two deployments of any kind, an upload beside them, and two failures: of the server,
\* the optimiser, a server node or a registry.
SPECIFICATION FairSpec
CONSTANTS
    d1 = d1
    q1 = q1
    q2 = q2
    u1 = u1
    w1 = w1
    k1 = k1
    k2 = k2
    Deps = {d1}
    MaxInstances = 3
    NumSNodes = 2
    NumRNodes = 1
    ShardIds = {k1, k2}
    Need = 1
    Capacity <- MCCapacity
    Deployers = {q1}
    Uploaders = {u1}
    Editors = {}
    Kinds = {"deploy", "simple", "randomize"}
    EditColumns = {}
    DefaultDeps = {}
    NumRegs = 1
    HttpsRegs = {1}
    Registry <- MCOneRegistry
    Method <- MixedMethod
    Draws <- MCOneDraw
    MaxDeploys = 2
    MaxFaults = 2
INVARIANTS
    TypeOK
    PushedIsThere
    HandedOutIsThere
    CutIsExcused
    UndisturbedUploadStays
PROPERTIES
    EndsLoopsOrWaits
\* No more than MaxDeploys deployments are begun, and one that failed has the lock.
CHECK_DEADLOCK FALSE
