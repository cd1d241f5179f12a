\* Three shards, two required, hosts that may do anything.
SPECIFICATION FairSpec
CONSTANTS
    Threshold = 2
    Total = 3
    MetaSize = 256
    MetaSkip = 128
    MetaText = 60
    PadTo = 128
    DigestLen = 16
    ShareLen = 113
    SeedLen = 32
    NumHashes = 100
    EncLen <- MCEncLen
    NumShards = 3
    MaxRetries = 2
    Created = {"running", "failed"}
    Serves <- AnyServes
    ServesArtifact = {"new", "old", "noise", "nothing"}
    Size <- MCSize
    Key <- MCKey
    Poly <- MCPoly
    Point <- MCPoint
INVARIANTS
    TypeOK
    NoThreadBehindSplit
    SecretFitsFile
    RecoveredInFull
PROPERTIES
    WholeShardsSuffice
    EndsUnlessStalled
\* The download ends.
CHECK_DEADLOCK FALSE
