----------------------------- MODULE Placement -----------------------------
(***************************************************************************)
(* The rules of optim.py: what a model of the solver says about which race  *)
(* node is told of which pieces, and which server node holds them.  The     *)
(* pieces of an instance of a dependency are its shards and its blob, the   *)
(* encrypted file.  A placement is a record:                                *)
(*   told   [RNodes -> set of shards]: rnode_has_dep_shard                  *)
(*   at     [those shards -> SNodes]:  snode_has_dep_shard                  *)
(*   blobs  [SNodes -> set of instances]: snode_has_dep_blob                *)
(* rule_no_duplicate_shards_no_extra_shards makes the server node of a      *)
(* shard a function; rule_blob_matches_inst makes a race node's blobs those *)
(* of the instances of its shards.  deptypes are those of one dependency.   *)
(***************************************************************************)
EXTENDS Naturals, FiniteSets

CONSTANTS
    Deps,          \* dependencies
    MaxInstances,  \* bound: instances of a dependency
    NumSNodes,     \* server nodes
    NumRNodes,     \* race nodes
    ShardIds,      \* the shards of an instance: m of them
    Need,          \* n: how many of them are enough
    Capacity       \* what a server node holds; a piece counts 1

SNodes == 1 .. NumSNodes
RNodes == 1 .. NumRNodes
Blob == "blob"
Pieces == ShardIds \cup {Blob}
Instances == Deps \X (1 .. MaxInstances)
Names == Instances \X Pieces           \* one file name, with a UUID, each

ASSUME PlacementAssumption ==
    /\ MaxInstances \in Nat /\ NumSNodes \in Nat \ {0} /\ NumRNodes \in Nat \ {0}
    /\ Blob \notin ShardIds
    /\ IsFiniteSet(ShardIds) /\ Need \in 1 .. Cardinality(ShardIds)
    /\ Capacity \in [SNodes -> Nat]

InstancesOf(pieces) == {n[1] : n \in pieces}

ShardsOf(told, r, i) == {n \in told[r] : n[1] = i}

\* rule_sum_shards_between_n_and_m.
EnoughOrNone(told, I) ==
    \A r \in RNodes, i \in I :
        told[r] \cap ({i} \X ShardIds) = {} \/ Cardinality(ShardsOf(told, r, i)) >= Need

\* rule_only_one_instance_per_rnode.
OneInstancePerDependency(told) ==
    \A r \in RNodes : \A i, j \in InstancesOf(told[r]) : i[1] = j[1] => i = j

\* rule_one_instance_per_rnode, and of the rule on duplicates the half about race
\* nodes, which it implies.
OneRnodePerInstance(told) ==
    \A r, q \in RNodes : r # q => InstancesOf(told[r]) \cap InstancesOf(told[q]) = {}

\* rule_rnode_has_dependencies.
EveryDependency(told, known) ==
    \A r \in RNodes, d \in known : \E i \in InstancesOf(told[r]) : i[1] = d

\* rule_rnode_has_blob_if_has_shards, rule_one_snode_must_have_blob_if_rnode_has_blob.
BlobsHeld(told, blobs) ==
    \A r \in RNodes : InstancesOf(told[r]) \subseteq UNION {blobs[s] : s \in SNodes}

\* rule_snode_capacity.
WithinCapacity(at, blobs) ==
    \A s \in SNodes :
        Cardinality({n \in DOMAIN at : at[n] = s}) + Cardinality(blobs[s]) <= Capacity[s]

Told(known, I) ==
    {told \in [RNodes -> SUBSET (I \X ShardIds)] :
        /\ EnoughOrNone(told, I)
        /\ OneInstancePerDependency(told)
        /\ OneRnodePerInstance(told)
        /\ EveryDependency(told, known)}

Held(told, I) ==
    {held \in [at : [UNION {told[r] : r \in RNodes} -> SNodes], blobs : [SNodes -> SUBSET I]] :
        /\ BlobsHeld(told, held.blobs)
        /\ WithinCapacity(held.at, held.blobs)}

\* The models of create_opt_model, for the known dependencies and their instances.
Placements(known, I) ==
    UNION {{[told |-> told, at |-> held.at, blobs |-> held.blobs] : held \in Held(told, I)}
              : told \in Told(known, I)}

ToldPieces(p, r) == p.told[r] \cup (InstancesOf(p.told[r]) \X {Blob})

HeldPieces(p, s) == {n \in DOMAIN p.at : p.at[n] = s} \cup (p.blobs[s] \X {Blob})
=============================================================================
