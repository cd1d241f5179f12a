\* The optimiser is used twice, nothing fails, and hosts and registries answer.
SPECIFICATION AnsweringPeersSpec
CONSTANTS
    d1 = d1
    q1 = q1
    q2 = q2
    u1 = u1
    w1 = w1
    k1 = k1
    k2 = k2
    Deps = {d1}
    MaxInstances = 4
    NumSNodes = 2
    NumRNodes = 2
    ShardIds = {k1}
    Need = 1
    Capacity <- MCCapacity
    Deployers = {q1}
    Uploaders = {}
    Editors = {}
    Kinds = {"deploy"}
    EditColumns = {}
    DefaultDeps = {d1}
    NumRegs = 1
    HttpsRegs = {1}
    Registry <- MCRegistry
    Method <- MixedMethod
    Draws <- MCOneDraw
    MaxDeploys = 2
    MaxFaults = 0
PROPERTIES
    DeployEnds
CHECK_DEADLOCK FALSE
