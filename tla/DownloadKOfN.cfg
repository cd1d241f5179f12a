\* Two of three shards can be had, which is the number required.
SPECIFICATION FairSpec
CONSTANTS
    Threshold = 2
    Total = 3
    MetaSize = 256
    MetaSkip = 128
    MetaText = 60
    PadTo = 128
    DigestLen = 16
    ShareLen = 113
    SeedLen = 32
    NumHashes = 100
    EncLen <- MCEncLen
    NumShards = 3
    MaxRetries = 2
    Created = {"running"}
    Serves <- LastHostDown
    ServesArtifact = {"new", "old", "noise", "nothing"}
    Size <- MCSize
    Key <- MCKey
    Poly <- MCPoly
    Point <- MCPoint
PROPERTIES
    KOfNSuffice
\* The download ends.
CHECK_DEADLOCK FALSE
