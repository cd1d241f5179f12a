------------------------------ MODULE Sharding ------------------------------
(***************************************************************************)
(* What shard_file makes of a file, by the lengths of its parts, and what   *)
(* unshard_fd finds in a shard that came in whole or cut short.  A shard is *)
(*                                                                         *)
(*   seed | share | index | block of metadata | block of data | hashes     *)
(*                                                                         *)
(* and everything behind the seed is masked with a stream of hashes that    *)
(* depends on the seed and on how many chunks follow it.  The arithmetic of *)
(* erasure coding and hashing is what it takes for it to succeed.           *)
(***************************************************************************)
EXTENDS Integers

CONSTANTS
    Threshold,   \* RS_SHARDS_REQUIRED
    Total,       \* RS_SHARDS_TOTAL
    MetaSize,    \* RS_META_SIZE
    MetaSkip,    \* the length of a block of metadata that validate_shards goes by
    MetaText,    \* how much of the metadata is not zero
    PadTo,       \* the encrypted file is padded to a multiple of it
    DigestLen,   \* MD5_DIGEST_LENGTH
    ShareLen,    \* sss_SHARE_LEN
    SeedLen,     \* SHA256_DIGEST_LENGTH: the seed, and a chunk
    NumHashes,   \* NUM_HASHES
    EncLen       \* EncLen[v]: length of the encrypted file of a deployment

Versions == {"old", "new"}       \* deployments of the artifact

ASSUME ShardingAssumption ==
    /\ Threshold \in Nat \ {0} /\ Total \in Nat \ {0}
    /\ {MetaSize, MetaSkip, MetaText, DigestLen, ShareLen, NumHashes} \subseteq Nat
    /\ PadTo \in Nat \ {0} /\ SeedLen \in Nat \ {0}
    /\ \E p \in 0 .. PadTo : PadTo = Threshold * p
    /\ EncLen \in [Versions -> Nat]

(***************************************************************************)
(* shard_file.                                                             *)
(***************************************************************************)

Padded(n) == IF n % PadTo = 0 THEN n ELSE n + (PadTo - (n % PadTo))

\* Faulty variant: the length before the padding, which the code computes first.
BlockOfUnpadded(n) == n \div Threshold

BlockSize(n) == Padded(n) \div Threshold

MetaBlock == MetaSize \div Threshold

\* The hashes of all blocks are at the end of every shard.
ListLen == DigestLen * Total

RsLen(n) == 2 + MetaBlock + BlockSize(n) + ListLen

WholeLen(v) == SeedLen + ShareLen + RsLen(EncLen[v])

\* The seed is hashed once for every chunk that is missing to NumHashes: two
\* files of one seed have one mask only if this is the same.
Rounds(length) ==
    LET chunks == (length - SeedLen) \div SeedLen
    IN IF chunks < NumHashes THEN NumHashes - chunks ELSE 0

(***************************************************************************)
(* unshard_fd.  A file is a beginning of a shard of a deployment, of some   *)
(* length, noise, or nothing, that is no file.                              *)
(***************************************************************************)

File == [of : Versions \cup {"noise", "nothing"}, length : Nat]

Nothing == [of |-> "nothing", length |-> 0]

Whole(f, v) == f.of = v /\ f.length = WholeLen(v)

\* What is left when the seed and the share are taken away.
Rest(f) == f.length - SeedLen - ShareLen

\* The mask of a file that is cut is that of the whole one.
Legible(f) == f.of \in Versions /\ Rounds(f.length) = Rounds(WholeLen(f.of))

ShareOf(f) == IF Legible(f) /\ Rest(f) >= 0 THEN f.of ELSE "noise"

HasHeader(f) == Legible(f) /\ Rest(f) >= 2 + MetaText

HasBody(f) == Legible(f) /\ Rest(f) >= 2 + MetaBlock + BlockSize(EncLen[f.of])

\* A block of metadata is the text itself if the text fits into the first one, and
\* it is skipped if it is as long as validate_shards takes it to be.
MetaIsPlain == MetaText <= MetaBlock /\ MetaSkip = MetaBlock

\* The block behind a header that says how long it is hashes to what is in the list
\* of its deployment.
Good(f, list) ==
    /\ f.of = list /\ MetaIsPlain
    /\ HasHeader(f) /\ HasBody(f) /\ Rest(f) >= ListLen

\* The blocks of a deployment hold its encrypted file.
BlocksHold(v) == Threshold * BlockSize(EncLen[v]) >= EncLen[v]
=============================================================================
