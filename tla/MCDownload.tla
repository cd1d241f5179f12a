----------------------------- MODULE MCDownload -----------------------------
(***************************************************************************)
(* Instances of Download.  The new deployment is long enough for its mask   *)
(* not to depend on its length, the old one is not.                         *)
(***************************************************************************)
EXTENDS Download

MCEncLen == [v \in Versions |-> IF v = "new" THEN 8001 ELSE 151]

Shard(v, n) == [of |-> v, length |-> n]
New == Shard("new", WholeLen("new"))
Old == Shard("old", WholeLen("old"))

\* A byte of the hashes is missing; the last byte of the block; the last byte that
\* the mask's first hash depends on; a part of the share; a part of the seed.
NewCuts ==
    {Shard("new", n) : n \in {WholeLen("new") - 1, WholeLen("new") - ListLen - 1,
                              SeedLen * (NumHashes + 1) - 1, SeedLen + ShareLen - 1,
                              SeedLen - 1}}
\* A byte less, and a byte more, than the mask of the short file allows for.
OldCuts ==
    {Shard("old", n) : n \in {WholeLen("old") - 1, SeedLen * (WholeLen("old") \div SeedLen) - 1}}

\* Hosts that serve either deployment, whole or cut, or nothing.
AnyServes ==
    [s \in Shards |-> CASE s = 1 -> {New, Old, Nothing} \cup NewCuts
                      []   s = NumShards -> {New, Old, Nothing} \cup NewCuts \cup OldCuts
                      []   OTHER -> {New, Old, Nothing, Shard("new", WholeLen("new") - 1)}]
\* The hosts serve the current deployment, but the last one is out of reach.
LastHostDown == [s \in Shards |-> IF s = NumShards THEN {Nothing} ELSE {New}]

\* The secrets and coefficients of the two deployments; the URLs are not in the
\* order of the shares.
MCKey == [v \in Versions |-> IF v = "new" THEN Byte(83) ELSE Byte(202)]
MCPoly == [v \in Versions |-> [i \in 1 .. Threshold - 1 |-> Byte(251 - i)]]
MCPoint == [s \in Shards |-> Total + 1 - s]

\* The new artifact is the shorter one.
MCSize == [v \in Versions |-> IF v = "new" THEN 1 ELSE 2]
=============================================================================
