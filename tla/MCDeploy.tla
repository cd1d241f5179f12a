------------------------------ MODULE MCDeploy ------------------------------
(***************************************************************************)
(* Instances of Deploy.                                                     *)
(***************************************************************************)
EXTENDS Deploy

CONSTANTS d1, q1, q2, u1, w1, k1, k2

MCCapacity == [s \in SNodes |-> 4]

\* Both race nodes name the registry, the second one by a UUID that is not listed.
MCRegistry == <<1, 0>>
\* The only race node names a registry that is not listed.
MCOneRegistry == <<0>>

\* As in configs/snodes.json, an IPFS node and a shard host; or a host alone.
MixedMethod == <<"ipfs", "https">>
OneHost == <<"https">>

\* The orders of random_order: one that puts the shard host, or the only node, first.
MCOneDraw == {[x \in RNodes \X Names |-> NumSNodes]}

\* Nothing is claimed of what follows once two requests have come through the gap:
\* such states are checked and not gone on from.
Unraced == ~raced
=============================================================================
