\* Two requests to deploy at once, one of which may slip through the gap, an upload and
\* an edited page beside them, and one failure.
SPECIFICATION Spec
CONSTANTS
    d1 = d1
    q1 = q1
    q2 = q2
    u1 = u1
    w1 = w1
    k1 = k1
    k2 = k2
    Deps = {d1}
    MaxInstances = 4
    NumSNodes = 1
    NumRNodes = 2
    ShardIds = {k1, k2}
    Need = 1
    Capacity <- MCCapacity
    Deployers = {q1, q2}
    Uploaders = {u1}
    Editors = {w1}
    Kinds = {"simple", "randomize"}
    EditColumns = {"deps"}
    DefaultDeps = {}
    NumRegs = 1
    HttpsRegs = {1}
    Registry <- MCRegistry
    Method <- OneHost
    Draws <- MCOneDraw
    MaxDeploys = 2
    MaxFaults = 1
INVARIANTS
    LockHeld
    HandedOutIsThere
    UndisturbedUploadStays
CONSTRAINT Unraced
\* No more than MaxDeploys deployments are begun.
CHECK_DEADLOCK FALSE
