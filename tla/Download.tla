------------------------------ MODULE Download ------------------------------
(***************************************************************************)
(* Slothy::download_artifact after the registry's record has come in: the   *)
(* shards of the metadata are downloaded by one thread each, with retries,  *)
(* joined in order and put together by unshard_fd; the key in the metadata  *)
(* then opens the encrypted artifact, which is written to its destination.  *)
(*                                                                         *)
(* What comes of a URL is up to its host: the shard of the deployment that  *)
(* the record names, that of another deployment of the artifact, a part of  *)
(* a file (the shard host does not write files in one go), or nothing.      *)
(* Nothing in a record lets the plugin tell them apart beforehand; what it  *)
(* finds out from their contents is in Sharding.  Ciphers are authenticated.*)
(***************************************************************************)
EXTENDS Sharding, Shamir, FiniteSets

CONSTANTS
    NumShards,       \* urls.size()
    MaxRetries,      \* of download_with_retry_hardcoded
    Created,         \* what pthread_create may do: "running", "failed"
    Serves,          \* Serves[s]: what may come of a request for shard s
    ServesArtifact,  \* what may come of the request for the encrypted artifact
    Size,            \* Size[v]: length of the artifact
    Key,             \* Key[v]: the secret that the shares of a deployment share
    Poly,            \* Poly[v]: the random coefficients of its polynomial
    Point            \* Point[s]: the number of the share in shard s

Shards == 1 .. NumShards

\* The URLs are those of different shards; sss_create_shares counts in a byte.
ASSUME ConstantsAssumption ==
    /\ NumShards \in 1 .. Total /\ MaxRetries \in Nat \ {0}
    /\ Created \subseteq {"running", "failed"}
    /\ Serves \in [Shards -> SUBSET File]
    /\ ServesArtifact \subseteq Versions \cup {"noise", "nothing"}
    /\ Size \in [Versions -> Nat]

ASSUME SecretsAssumption ==
    /\ Total <= 255
    /\ Key \in [Versions -> Bytes]
    /\ Poly \in [Versions -> [1 .. Threshold - 1 -> Bytes]]
    /\ Point \in [Shards -> 1 .. Total]
    /\ \A s, t \in Shards : Point[s] = Point[t] => s = t

VARIABLES
    pc,       \* the stage download_artifact has reached
    next,     \* the loop variable of the stage
    thread,   \* [Shards -> state of the thread that downloads the shard]
    tries,    \* [Shards -> failed attempts]
    got,      \* [Shards -> what the thread returned; Nothing is NULL]
    shares,   \* sss_shares: [Shards -> the deployment of the share, "none" or "noise"]
    list,     \* the list of hashes that won the vote, by deployment
    good,     \* the shards that passed validate_shards
    encoded,  \* what rs_unshard_fd put together, "none" if it returned -1
    secret,   \* key and nonce that the shares gave, by deployment
    meta,     \* the metadata, by deployment
    dest,     \* the file at the destination: a version, "absent", "part" of one (maybe
              \* nothing), or "mixed" from two
    crashed   \* exit, a failed assert, an uncaught exception, a bad access

vars == <<pc, next, thread, tries, got, shares, list, good, encoded, secret, meta, dest,
          crashed>>

files == <<got, shares, list, good>>
results == <<encoded, secret, meta, dest>>

Init ==
    /\ pc = "record"
    /\ next = 1
    /\ thread = [s \in Shards |-> "none"]
    /\ tries = [s \in Shards |-> 0]
    /\ got = [s \in Shards |-> Nothing]
    /\ shares = [s \in Shards |-> "none"]
    /\ list = "none" /\ good = {}
    /\ encoded = "none"
    /\ secret = "none"
    /\ meta = "none"
    /\ dest \in {"absent", "old"}
    /\ crashed = FALSE

At(stage) == ~crashed /\ pc = stage

\* One round of a loop over the shards in the stage, which leads to the next stage.
Round(stage, following) ==
    /\ At(stage)
    /\ IF next < NumShards
       THEN next' = next + 1 /\ pc' = stage
       ELSE next' = 1 /\ pc' = following

Crash ==
    /\ crashed' = TRUE
    /\ UNCHANGED <<pc, next, thread, tries, files, results>>

\* With json_sharded false there is no metadata, and meta["key"].get_to throws.
ReadRecord ==
    /\ At("record")
    /\ \/ /\ pc' = "spawn"
          /\ UNCHANGED <<next, thread, tries, files, results, crashed>>
       \/ Crash

(***************************************************************************)
(* download_and_unshard, and download_with_retry in each thread.           *)
(***************************************************************************)

\* A thread that could not be created is joined like the others: its handle was
\* never written.
Spawn ==
    /\ Round("spawn", "join")
    /\ \E t \in Created : thread' = [thread EXCEPT ![next] = t]
    /\ UNCHANGED <<tries, files, results, crashed>>

\* Faulty variants: a thread that has used up its attempts begins again;
\* num_tries <= max_retries.
AttemptBeginsAgain(s) ==
    /\ ~crashed
    /\ thread[s] = "running"
    /\ \E o \in Serves[s] :
          /\ got' = [got EXCEPT ![s] = o]
          /\ tries' = IF o = Nothing THEN [tries EXCEPT ![s] = (@ + 1) % MaxRetries] ELSE tries
          /\ thread' = [thread EXCEPT ![s] = IF o # Nothing THEN "exited" ELSE "running"]
    /\ UNCHANGED <<pc, next, shares, list, good, results, crashed>>

AttemptOnceMore(s) ==
    /\ ~crashed
    /\ thread[s] = "running"
    /\ \E o \in Serves[s] :
          /\ got' = [got EXCEPT ![s] = o]
          /\ tries' = IF o = Nothing THEN [tries EXCEPT ![s] = @ + 1] ELSE tries
          /\ thread' = [thread EXCEPT ![s] =
                          IF o # Nothing \/ tries'[s] > MaxRetries THEN "exited"
                          ELSE "running"]
    /\ UNCHANGED <<pc, next, shares, list, good, results, crashed>>

\* A request that fails, or is not answered with 200, is repeated after a pause.
Attempt(s) ==
    /\ ~crashed
    /\ thread[s] = "running"
    /\ \E o \in Serves[s] :
          /\ got' = [got EXCEPT ![s] = o]
          /\ tries' = IF o = Nothing THEN [tries EXCEPT ![s] = @ + 1] ELSE tries
          /\ thread' = [thread EXCEPT ![s] =
                          IF o # Nothing \/ tries'[s] = MaxRetries THEN "exited"
                          ELSE "running"]
    /\ UNCHANGED <<pc, next, shares, list, good, results, crashed>>

\* Only connecting has a time limit: a host that has accepted the connection may
\* hold the request, and with it the thread, for ever.
Stall(s) ==
    /\ ~crashed
    /\ thread[s] = "running"
    /\ thread' = [thread EXCEPT ![s] = "stalled"]
    /\ UNCHANGED <<pc, next, tries, files, results, crashed>>

\* Faulty variant: the threads are detached.
JoinDetached ==
    /\ Round("join", "split")
    /\ UNCHANGED <<thread, tries, files, results, crashed>>

\* pthread_join's error codes are taken for success.  For a thread that was never
\* created that leaves the file before in shards[i], or the join is fatal by itself.
Join ==
    \/ /\ Round("join", "split")
       /\ thread[next] \notin {"running", "stalled"}
       /\ got' = IF thread[next] = "failed" /\ next > 1
                 THEN [got EXCEPT ![next] = got[next - 1]] ELSE got
       /\ UNCHANGED <<thread, tries, shares, list, good, results, crashed>>
    \/ At("join") /\ thread[next] = "failed" /\ Crash

(***************************************************************************)
(* unshard_fd.                                                             *)
(***************************************************************************)

\* The shards whose file is that of s as well.
Twins(s) ==
    {t \in Shards :
        \A u \in Shards : (s < u /\ u <= t) \/ (t < u /\ u <= s) => thread[u] = "failed"}

\* What unrandomize_header finds in the file; the twin of another shard has lost its
\* seed and its share to that one.
Found(s) == IF thread[s] = "failed" THEN Rest(got[s]) ELSE got[s].length

\* Faulty variant: i < num_shards - 1.
SplitAllButLast ==
    /\ Round("split", "vote")
    /\ thread[next] # "failed" /\ Found(next) >= SeedLen + ShareLen
    /\ shares' = [shares EXCEPT ![next] = IF next < NumShards THEN ShareOf(got[next]) ELSE "noise"]
    /\ UNCHANGED <<thread, tries, got, list, good, results, crashed>>

Split ==
    /\ Round("split", "vote")
    /\ thread[next] # "failed" /\ Found(next) >= SeedLen + ShareLen
    /\ shares' = [shares EXCEPT ![next] = ShareOf(got[next])]
    /\ UNCHANGED <<thread, tries, got, list, good, results, crashed>>

\* A file without a share in it, or without one left: its length goes below zero,
\* and there is no telling what is written.
SplitSpoils ==
    /\ Round("split", "vote")
    /\ thread[next] = "failed" \/ Found(next) < SeedLen + ShareLen
    /\ Found(next) >= SeedLen
    /\ shares' = [shares EXCEPT ![next] = "noise"]
    /\ \E n \in IF Found(next) < SeedLen + ShareLen
               THEN {SeedLen + ShareLen, WholeLen("new")} ELSE {Found(next)} :
          got' = [s \in Shards |-> IF s \in Twins(next) THEN [of |-> "noise", length |-> n]
                                  ELSE got[s]]
    /\ UNCHANGED <<thread, tries, list, good, results, crashed>>

\* unrandomize_header reads through the pointer, NULL or not.
SplitCrashes == At("split") /\ Found(next) < SeedLen + ShareLen /\ Crash

\* validate_shards takes the vote on the list of hashes by comparing pointers to
\* its one buffer, so the end of the last file that has the length wins.
Vote ==
    /\ Round("vote", "check")
    /\ list' = IF Rest(got[next]) < ListLen THEN list
               ELSE IF \E v \in Versions : Whole(got[next], v) THEN got[next].of
               ELSE "noise"
    /\ UNCHANGED <<thread, tries, got, shares, good, results, crashed>>

Check ==
    /\ Round("check", "meta")
    /\ good' = IF Good(got[next], list) THEN good \cup {next} ELSE good
    /\ UNCHANGED <<thread, tries, got, shares, list, results, crashed>>

\* The index and the lengths in a header that is noise are used as they are; a
\* file with a twin is freed twice.
CheckCrashes ==
    /\ At("check")
    /\ thread[next] = "failed" \/ (Rest(got[next]) >= ListLen /\ ~HasHeader(got[next]))
    /\ Crash

\* rs_unshard_fd returns -1 if the shards are too few, and nobody looks at that.
DecodeMeta ==
    /\ At("meta")
    /\ pc' = IF Cardinality(good) < Threshold THEN "combine" ELSE "body"
    /\ UNCHANGED <<next, thread, tries, files, results, crashed>>

\* All blocks are written and the file is cut to its length.
DecodeBody ==
    /\ At("body")
    /\ pc' = "combine"
    /\ encoded' = IF BlocksHold(list) THEN list ELSE "damaged"
    /\ UNCHANGED <<next, thread, tries, files, secret, meta, dest, crashed>>

\* The deployments whose shares, in all the shards, give the secret back.
Restored ==
    {v \in Versions :
        CombineKeyshares([s \in Shards |-> CreateKeyshare(Key[v], Poly[v], Point[s])]) = Key[v]}

\* Faulty variant: neither the comparison of the shares nor the opening is looked at.
CombineUnchecked ==
    /\ At("combine")
    /\ IF shares[1] \in Versions
       THEN /\ secret' = shares[1]
            /\ pc' = "decrypt"
            /\ UNCHANGED <<next, thread, tries, files, encoded, meta, dest, crashed>>
       ELSE Crash

\* sss_combine_shares is given every share.  It fails if one is not of the secret
\* of the others or if what they come to does not open it, as when they are too few,
\* and the assert stops the process.
Combine ==
    /\ At("combine")
    /\ IF \E v \in Restored : \A s \in Shards : shares[s] = v
       THEN /\ secret' = shares[1]
            /\ pc' = "decrypt"
            /\ UNCHANGED <<next, thread, tries, files, encoded, meta, dest, crashed>>
       ELSE Crash

\* crypto_secretbox_decrypt_file exits the process if the key does not fit.
Decrypt ==
    /\ At("decrypt")
    /\ IF encoded = secret
       THEN /\ meta' = secret
            /\ pc' = "artifact"
            /\ UNCHANGED <<next, thread, tries, files, encoded, secret, dest, crashed>>
       ELSE Crash

(***************************************************************************)
(* The rest of download_artifact.                                          *)
(***************************************************************************)

\* so_sharded is not implemented.
GiveUp ==
    /\ At("artifact")
    /\ pc' = "failed"
    /\ UNCHANGED <<next, thread, tries, files, results, crashed>>

\* The artifact is downloaded in one attempt, and its key opens it or the process
\* exits; a download that failed is a NULL that unrandomize_header reads through.
FetchArtifact ==
    /\ At("artifact")
    /\ \E o \in ServesArtifact :
          IF o = meta
          THEN /\ pc' = "write"
               /\ UNCHANGED <<next, thread, tries, files, results, crashed>>
          ELSE Crash

FetchStalls ==
    /\ At("artifact")
    /\ pc' = "stalled"
    /\ UNCHANGED <<next, thread, tries, files, results, crashed>>

\* open is called without O_TRUNC: what is longer stays longer.
Overwritten == IF dest \in Versions /\ Size[dest] > Size[meta] THEN "mixed" ELSE meta

\* The one write stops short, or fails when the file has been created.
OverwrittenInPart == IF dest = "absent" THEN "part" ELSE "mixed"

\* An error is logged, and the result is true all the same.
WriteArtifact ==
    /\ At("write")
    /\ pc' = "done"
    /\ dest' \in {dest, Overwritten, OverwrittenInPart}
    /\ UNCHANGED <<next, thread, tries, files, encoded, secret, meta, crashed>>

MainStep ==
    \/ ReadRecord
    \/ Spawn
    \/ Join
    \/ Split
    \/ SplitSpoils
    \/ SplitCrashes
    \/ Vote
    \/ Check
    \/ CheckCrashes
    \/ DecodeMeta
    \/ DecodeBody
    \/ Combine
    \/ Decrypt
    \/ GiveUp
    \/ FetchArtifact
    \/ WriteArtifact

Next ==
    \/ MainStep
    \/ FetchStalls
    \/ \E s \in Shards : Attempt(s) \/ Stall(s)

Spec == Init /\ [][Next]_vars

\* The threads run; a request that does not stall ends, with an answer or without.
FairSpec ==
    /\ Spec
    /\ WF_vars(MainStep)
    /\ \A s \in Shards : WF_vars(Attempt(s))

(***************************************************************************)
(* Properties.                                                             *)
(***************************************************************************)

Stages == {"record", "spawn", "join", "split", "vote", "check", "meta", "body", "combine",
           "decrypt", "artifact", "write", "done", "failed", "stalled"}

\* A loop stays within the arrays, and a thread within its retries.
TypeOK ==
    /\ pc \in Stages
    /\ next \in Shards
    /\ thread \in [Shards -> {"none", "running", "stalled", "failed", "exited"}]
    /\ tries \in [Shards -> 0 .. MaxRetries]
    /\ got \in [Shards -> File]
    /\ shares \in [Shards -> Versions \cup {"noise", "none"}]
    /\ list \in Versions \cup {"noise", "none"}
    /\ good \subseteq Shards
    /\ encoded \in Versions \cup {"damaged", "none"}
    /\ secret \in Versions \cup {"none"}
    /\ meta \in Versions \cup {"none"}
    /\ dest \in Versions \cup {"absent", "part", "mixed"}
    /\ crashed \in BOOLEAN

\* No thread still writes to a file, or may do so, once the shards are taken apart.
NoThreadBehindSplit ==
    pc \notin {"record", "spawn", "join"} =>
        \A s \in Shards : thread[s] \notin {"running", "stalled"}

\* The result of rs_unshard_fd may be dropped: when the shares gave a secret, the
\* encrypted metadata is that of the secret's deployment, or there is none.
SecretFitsFile == pc = "decrypt" => encoded \in {secret, "none"}

\* What is put together from shards that passed is the file that was sharded, to
\* its last byte.
RecoveredInFull == encoded # "damaged"

\* If every listed shard came in with its share and its block, of one deployment,
\* and the last one with the hashes too, the metadata is put together.
WholeShardsSuffice ==
    \A v \in Versions :
        /\ pc = "split"
        /\ NumShards >= Threshold /\ MetaIsPlain
        /\ \A s \in Shards : thread[s] # "failed" /\ Good(got[s], v)
        /\ Whole(got[NumShards], v)
        ~> meta = v

\* The download waits for a request that its host will never end.
Stalled == (pc = "join" /\ thread[next] = "stalled") \/ pc = "stalled"

\* Whatever else the hosts do, and however often requests fail and are repeated, the
\* download comes to an end, unless it comes to wait for a host that has stalled.
EndsUnlessStalled == <>(pc \in {"done", "failed"} \/ crashed \/ Stalled)

\* "the decryptor must obtain k of these n shards to decrypt the artifacts": when
\* k whole shards of one deployment have been obtained the metadata is decrypted.
KOfNSuffice ==
    (pc = "split" /\ Cardinality({s \in Shards : Whole(got[s], "new")}) >= Threshold)
        ~> meta = "new"
=============================================================================
