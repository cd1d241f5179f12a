--------------------------- MODULE DownloadProofs ---------------------------
(***************************************************************************)
(* Proofs about Download for any number of shards, any threshold, any       *)
(* lengths and any hosts.                                                   *)
(***************************************************************************)
EXTENDS Download, ShamirProofs, FiniteSetTheorems, TLAPS

\* The threads of the shards that are joined have ended.
JoinedHaveEnded ==
    /\ NoThreadBehindSplit
    /\ pc = "join" => \A s \in Shards : s < next => thread[s] \notin {"running", "stalled"}

\* A thread that runs has attempts left; those to be created have not run.
RetriesLeft ==
    /\ \A s \in Shards : thread[s] # "exited" => tries[s] < MaxRetries
    /\ pc = "record" => next = 1
    /\ pc \in {"record", "spawn"} => \A s \in Shards : s >= next => thread[s] = "none"

\* A file that is still that of a deployment has given a share of the same one, or
\* none that is of any use.
SharesAreOfFiles ==
    /\ pc = "split" =>
          \A s \in Shards : s < next /\ got[s].of \in Versions => shares[s] \in {got[s].of, "noise"}
    /\ pc \in {"vote", "check", "meta", "body", "combine"} =>
          \A s \in Shards : got[s].of \in Versions => shares[s] \in {got[s].of, "noise"}

\* What passed is of the deployment that the vote gave.
GoodAreOfList ==
    /\ pc \in {"check", "meta", "body", "combine"} =>
          \A s \in good : got[s].of = list /\ list \in Versions
    /\ pc \in {"record", "spawn", "join", "split", "vote"} => good = {}

\* What rs_unshard_fd has left for the ciphers.
EncodedIsVoted ==
    /\ pc \in {"record", "spawn", "join", "split", "vote", "check", "meta", "body"} =>
          encoded = "none" /\ secret = "none"
    /\ pc = "body" => Cardinality(good) >= Threshold
    /\ pc = "combine" => encoded = "none" \/ (encoded = list /\ good # {})

\* There is an artifact to be written.
OpenedIsVersion == pc = "write" => meta \in Versions

IInv ==
    /\ TypeOK
    /\ JoinedHaveEnded
    /\ RetriesLeft
    /\ SharesAreOfFiles
    /\ GoodAreOfList
    /\ EncodedIsVoted
    /\ SecretFitsFile
    /\ RecoveredInFull
    /\ OpenedIsVersion

-----------------------------------------------------------------------------

\* The blocks that the padded file is cut into leave nothing of it out.
LEMMA BlocksOfPadded ==
    ASSUME NEW n \in Nat
    PROVE  BlockSize(n) \in Nat /\ Threshold * BlockSize(n) >= n
<1>1. PICK p \in 0 .. PadTo : PadTo = Threshold * p
  BY ShardingAssumption
<1>2. Threshold \in Nat \ {0} /\ PadTo \in Nat \ {0} /\ p \in Nat
  BY ShardingAssumption
<1>3. PICK q \in Nat : Padded(n) = PadTo * q
  <2>1. PICK d \in Nat, r \in 0 .. PadTo - 1 : r = n % PadTo /\ n = PadTo * d + r
    <3>1. n = PadTo * (n \div PadTo) + (n % PadTo)
      BY <1>2
    <3>2. n \div PadTo \in Nat /\ n % PadTo \in 0 .. PadTo - 1
      BY <1>2
    <3>3. QED
      BY <3>1, <3>2
  <2>2. CASE r = 0
    <3>1. PadTo * d \in Nat
      BY <1>2
    <3>2. n = PadTo * d
      BY <2>1, <2>2, <3>1
    <3>3. Padded(n) = n
      BY <2>1, <2>2 DEF Padded
    <3>4. QED
      BY <3>2, <3>3
  <2>3. CASE r # 0
    <3>1. Padded(n) = n + (PadTo - r)
      BY <2>1, <2>3 DEF Padded
    <3>2. PadTo * d \in Nat /\ PadTo * (d + 1) = PadTo * d + PadTo
      BY <1>2
    <3>3. Padded(n) = PadTo * (d + 1)
      BY <1>2, <2>1, <3>1, <3>2
    <3>4. QED
      BY <3>3
  <2>4. QED
    BY <2>2, <2>3
<1>4. Padded(n) >= n /\ Padded(n) \in Nat
  BY <1>2 DEF Padded
<1>5. Padded(n) = Threshold * (p * q)
  BY <1>1, <1>2, <1>3
<1>6. PICK k \in Nat : k = p * q
  BY <1>2
<1>7. (Threshold * k) \div Threshold = k
  BY <1>2
<1>8. BlockSize(n) = k
  BY <1>5, <1>6, <1>7 DEF BlockSize
<1>9. QED
  BY <1>4, <1>5, <1>6, <1>8

LEMMA WholeLenType == ASSUME NEW v \in Versions PROVE WholeLen(v) \in Nat
<1>1. EncLen[v] \in Nat
  BY ShardingAssumption
<1>2. BlockSize(EncLen[v]) \in Nat
  BY <1>1, BlocksOfPadded
<1>3. MetaBlock \in Nat
  BY ShardingAssumption DEF MetaBlock
<1>4. ListLen \in Nat
  BY ShardingAssumption DEF ListLen
<1>5. QED
  BY <1>2, <1>3, <1>4, ShardingAssumption DEF WholeLen, RsLen

\* A shard passes only if it is the beginning of one.
LEMMA GoodIsOfVersion ==
    ASSUME NEW f, NEW v, Good(f, v) PROVE f.of = v /\ v \in Versions
  BY DEF Good, HasHeader, Legible

LEMMA NumShardsNat == NumShards \in Nat /\ NumShards >= 1
  BY ConstantsAssumption, ShardingAssumption

LEMMA InitIInv == Init => IInv
<1>1. SUFFICES ASSUME Init PROVE IInv
  OBVIOUS
<1>2. 1 \in Shards /\ 0 \in 0 .. MaxRetries
  BY ConstantsAssumption DEF Shards
<1>3. thread \in [Shards -> {"none", "running", "stalled", "failed", "exited"}]
  BY <1>1 DEF Init
<1>4. tries \in [Shards -> 0 .. MaxRetries]
  BY <1>1, <1>2 DEF Init
<1>5. got \in [Shards -> File]
  BY <1>1 DEF Init, Nothing, File
<1>6. shares \in [Shards -> Versions \cup {"noise", "none"}]
  BY <1>1 DEF Init
<1>7. TypeOK
  BY <1>1, <1>2, <1>3, <1>4, <1>5, <1>6 DEF Init, TypeOK, Stages, Versions
<1>8. JoinedHaveEnded /\ RetriesLeft
  BY <1>1, ConstantsAssumption DEF Init, JoinedHaveEnded, RetriesLeft, NoThreadBehindSplit
<1>9. SharesAreOfFiles /\ GoodAreOfList /\ EncodedIsVoted /\ SecretFitsFile /\ RecoveredInFull
      /\ OpenedIsVersion
  BY <1>1 DEF Init, SharesAreOfFiles, GoodAreOfList, EncodedIsVoted, SecretFitsFile,
              RecoveredInFull, OpenedIsVersion
<1>10. QED
  BY <1>7, <1>8, <1>9 DEF IInv

\* A loop over the shards stays in them.
LEMMA RoundNext ==
    ASSUME NEW stage, NEW following, next \in Shards, Round(stage, following)
    PROVE  /\ next' \in Shards
           /\ pc = stage
           /\ \/ next < NumShards /\ next' = next + 1 /\ pc' = stage
              \/ next = NumShards /\ next' = 1 /\ pc' = following
  BY ConstantsAssumption, ShardingAssumption DEF Round, At, Shards

LEMMA CrashIInv == IInv /\ Crash => IInv'
  BY DEF IInv, Crash, files, results, TypeOK, JoinedHaveEnded, RetriesLeft, NoThreadBehindSplit,
         SharesAreOfFiles, GoodAreOfList, EncodedIsVoted, SecretFitsFile, RecoveredInFull,
         OpenedIsVersion

\* An attempt is made by a thread that has not been joined, so before any file is
\* taken apart.
LEMMA AttemptIInv == ASSUME IInv, NEW s \in Shards, Attempt(s) PROVE IInv'
<1>1. pc \in {"record", "spawn", "join"} /\ thread[s] = "running"
  BY DEF Attempt, IInv, TypeOK, Stages, JoinedHaveEnded, NoThreadBehindSplit
<1>2. PICK o \in Serves[s] :
        /\ got' = [got EXCEPT ![s] = o]
        /\ tries' = IF o = Nothing THEN [tries EXCEPT ![s] = @ + 1] ELSE tries
        /\ thread' = [thread EXCEPT ![s] =
                        IF o # Nothing \/ tries'[s] = MaxRetries THEN "exited" ELSE "running"]
  BY DEF Attempt
<1>3. UNCHANGED <<pc, next, shares, list, good, encoded, secret, meta, dest, crashed>>
  BY DEF Attempt, results
<1>4. o \in File
  BY ConstantsAssumption DEF Shards
<1>5. got' \in [Shards -> File]
  BY <1>2, <1>4 DEF IInv, TypeOK
<1>6. tries[s] < MaxRetries /\ tries[s] \in 0 .. MaxRetries
  BY <1>1 DEF IInv, TypeOK, RetriesLeft
<1>7. tries' \in [Shards -> 0 .. MaxRetries]
  BY <1>2, <1>6, ConstantsAssumption DEF IInv, TypeOK
<1>8. PICK t \in {"running", "exited"} :
        /\ thread' = [thread EXCEPT ![s] = t]
        /\ t = "running" => tries'[s] # MaxRetries
  BY <1>2
<1>9. TypeOK'
  BY <1>3, <1>5, <1>7, <1>8 DEF IInv, TypeOK
<1>10. JoinedHaveEnded'
  BY <1>1, <1>3, <1>8 DEF IInv, TypeOK, JoinedHaveEnded, NoThreadBehindSplit
<1>11. RetriesLeft'
  <2>1. \A r \in Shards : r # s => thread'[r] = thread[r] /\ tries'[r] = tries[r]
    BY <1>2, <1>8 DEF IInv, TypeOK
  <2>2. thread'[s] # "exited" => tries'[s] < MaxRetries
    BY <1>7, <1>8, ConstantsAssumption DEF IInv, TypeOK
  <2>3. pc \in {"record", "spawn"} => ~(s >= next)
    BY <1>1 DEF IInv, RetriesLeft
  <2>4. QED
    BY <1>3, <2>1, <2>2, <2>3 DEF IInv, RetriesLeft
<1>12. SharesAreOfFiles' /\ GoodAreOfList' /\ EncodedIsVoted' /\ SecretFitsFile'
       /\ RecoveredInFull' /\ OpenedIsVersion'
  BY <1>1, <1>3 DEF IInv, SharesAreOfFiles, GoodAreOfList, EncodedIsVoted, SecretFitsFile,
                    RecoveredInFull, OpenedIsVersion
<1>13. QED
  BY <1>9, <1>10, <1>11, <1>12 DEF IInv

\* A thread that stalls keeps the attempts it has.
LEMMA StallIInv == ASSUME IInv, NEW s \in Shards, Stall(s) PROVE IInv'
<1>1. pc \in {"record", "spawn", "join"} /\ thread[s] = "running"
  BY DEF Stall, IInv, TypeOK, Stages, JoinedHaveEnded, NoThreadBehindSplit
<1>2. /\ thread' = [thread EXCEPT ![s] = "stalled"]
      /\ UNCHANGED <<pc, next, tries, got, shares, list, good, encoded, secret, meta, dest, crashed>>
  BY DEF Stall, files, results
<1>3. TypeOK'
  BY <1>2 DEF IInv, TypeOK
<1>4. \A r \in Shards : thread'[r] = thread[r] \/ (r = s /\ thread'[r] = "stalled")
  BY <1>2 DEF IInv, TypeOK
<1>5. JoinedHaveEnded' /\ RetriesLeft'
  BY <1>1, <1>2, <1>4 DEF IInv, JoinedHaveEnded, NoThreadBehindSplit, RetriesLeft
<1>6. SharesAreOfFiles' /\ GoodAreOfList' /\ EncodedIsVoted' /\ SecretFitsFile'
      /\ RecoveredInFull' /\ OpenedIsVersion'
  BY <1>2 DEF IInv, SharesAreOfFiles, GoodAreOfList, EncodedIsVoted, SecretFitsFile,
              RecoveredInFull, OpenedIsVersion
<1>7. QED
  BY <1>3, <1>5, <1>6 DEF IInv

\* The stages up to the last join.
LEMMA FetchStagesIInv == ASSUME IInv, ReadRecord \/ Spawn \/ Join PROVE IInv'
<1> USE DEF IInv, TypeOK
<1>1. CASE Crash
  BY <1>1, CrashIInv
<1>2. CASE ReadRecord /\ ~Crash
  BY <1>2 DEF ReadRecord, At, files, results, Stages, JoinedHaveEnded, NoThreadBehindSplit,
              RetriesLeft, SharesAreOfFiles, GoodAreOfList, EncodedIsVoted, SecretFitsFile,
              RecoveredInFull, OpenedIsVersion
<1>3. CASE Spawn /\ ~Crash
  <2>1. PICK t \in {"running", "failed"} : thread' = [thread EXCEPT ![next] = t]
    BY <1>3, ConstantsAssumption DEF Spawn
  <2>2. UNCHANGED <<tries, got, shares, list, good, encoded, secret, meta, dest, crashed>>
    BY <1>3 DEF Spawn, files, results
  <2>3. /\ next' \in Shards /\ pc = "spawn"
        /\ \/ next < NumShards /\ next' = next + 1 /\ pc' = "spawn"
           \/ next = NumShards /\ next' = 1 /\ pc' = "join"
    BY <1>3, RoundNext DEF Spawn
  <2>4. TypeOK'
    BY <2>1, <2>2, <2>3 DEF Stages
  <2>5. JoinedHaveEnded'
    BY <2>3 DEF JoinedHaveEnded, NoThreadBehindSplit, Shards
  <2>6. RetriesLeft'
    <3>1. NumShards \in Nat /\ next \in 1 .. NumShards
      BY NumShardsNat DEF Shards
    <3>2. \A s \in Shards : s # next => thread'[s] = thread[s]
      BY <2>1
    <3>3. thread[next] = "none"
      BY <2>3, <3>1 DEF RetriesLeft
    <3>4. \A s \in Shards : thread'[s] # "exited" => tries'[s] < MaxRetries
      BY <2>2, <3>2, <3>3 DEF RetriesLeft
    <3>5. pc' = "spawn" => \A s \in Shards : s >= next' => thread'[s] = "none"
      <4>1. ASSUME pc' = "spawn", NEW s \in Shards, s >= next' PROVE s >= next /\ s # next
        BY <2>3, <3>1, <4>1 DEF Shards
      <4>2. QED
        BY <2>3, <3>2, <4>1 DEF RetriesLeft
    <3>6. QED
      BY <2>3, <3>4, <3>5 DEF RetriesLeft
  <2>7. SharesAreOfFiles' /\ GoodAreOfList' /\ EncodedIsVoted' /\ SecretFitsFile'
        /\ RecoveredInFull' /\ OpenedIsVersion'
    BY <2>2, <2>3 DEF SharesAreOfFiles, GoodAreOfList, EncodedIsVoted, SecretFitsFile,
                      RecoveredInFull, OpenedIsVersion
  <2>8. QED
    BY <2>4, <2>5, <2>6, <2>7
<1>4. CASE Join /\ ~Crash
  <2>1. /\ next' \in Shards /\ pc = "join"
        /\ \/ next < NumShards /\ next' = next + 1 /\ pc' = "join"
           \/ next = NumShards /\ next' = 1 /\ pc' = "split"
    BY <1>4, RoundNext DEF Join
  <2>2. /\ thread[next] \notin {"running", "stalled"}
        /\ got' = IF thread[next] = "failed" /\ next > 1
                  THEN [got EXCEPT ![next] = got[next - 1]] ELSE got
        /\ UNCHANGED <<thread, tries, shares, list, good, encoded, secret, meta, dest, crashed>>
    BY <1>4 DEF Join, results
  <2>3. next > 1 => next - 1 \in Shards
    <3>1. NumShards \in Nat /\ next \in 1 .. NumShards
      BY NumShardsNat DEF Shards
    <3>2. QED
      BY <3>1 DEF Shards
  <2>4. got' \in [Shards -> File]
    BY <2>2, <2>3
  <2>5. TypeOK'
    BY <2>1, <2>2, <2>4 DEF Stages
  <2>6. JoinedHaveEnded'
    BY <2>1, <2>2 DEF JoinedHaveEnded, NoThreadBehindSplit, Shards
  <2>7. RetriesLeft'
    BY <2>1, <2>2 DEF RetriesLeft
  <2>8. SharesAreOfFiles'
    BY <2>1, <2>2 DEF SharesAreOfFiles, Shards
  <2>9. GoodAreOfList' /\ EncodedIsVoted' /\ SecretFitsFile' /\ RecoveredInFull'
        /\ OpenedIsVersion'
    BY <2>1, <2>2 DEF GoodAreOfList, EncodedIsVoted, SecretFitsFile, RecoveredInFull,
                      OpenedIsVersion
  <2>10. QED
    BY <2>5, <2>6, <2>7, <2>8, <2>9
<1>5. QED
  BY <1>1, <1>2, <1>3, <1>4

\* Taking the shards apart leaves what is not taken yet, and of what is taken only
\* the share or noise.
LEMMA SplitStagesIInv == ASSUME IInv, Split \/ SplitSpoils \/ SplitCrashes PROVE IInv'
<1> USE DEF IInv, TypeOK
<1>1. CASE Crash
  BY <1>1, CrashIInv
<1>2. CASE (Split \/ SplitSpoils) /\ ~Crash
  <2>1. /\ next' \in Shards /\ pc = "split"
        /\ \/ next < NumShards /\ next' = next + 1 /\ pc' = "split"
           \/ next = NumShards /\ next' = 1 /\ pc' = "vote"
    BY <1>2, RoundNext DEF Split, SplitSpoils
  <2>2. UNCHANGED <<thread, tries, list, good, encoded, secret, meta, dest, crashed>>
    BY <1>2 DEF Split, SplitSpoils, results
  <2>3. PICK x \in Versions \cup {"noise"} :
          /\ shares' = [shares EXCEPT ![next] = x]
          /\ got'[next].of \in Versions => x \in {got'[next].of, "noise"}
    <3>1. CASE Split
      <4>1. ShareOf(got[next]) \in {got[next].of, "noise"}
            /\ ShareOf(got[next]) \in Versions \cup {"noise"}
        BY DEF ShareOf, Legible
      <4>2. QED
        BY <3>1, <4>1 DEF Split
    <3>2. CASE SplitSpoils
      BY <3>2 DEF SplitSpoils
    <3>3. QED
      BY <1>2, <3>1, <3>2
  <2>4. got' \in [Shards -> File]
        /\ \A s \in Shards : got'[s].of \in Versions => got'[s] = got[s]
    <3>1. CASE Split
      BY <3>1 DEF Split
    <3>2. CASE SplitSpoils
      <4>1. PICK n \in IF Found(next) < SeedLen + ShareLen
                      THEN {SeedLen + ShareLen, WholeLen("new")} ELSE {Found(next)} :
                got' = [s \in Shards |-> IF s \in Twins(next) THEN [of |-> "noise", length |-> n]
                                        ELSE got[s]]
        BY <3>2 DEF SplitSpoils
      <4>2. Found(next) >= SeedLen /\ Found(next) \in Int
        BY <3>2, ShardingAssumption DEF SplitSpoils, Found, Rest, File
      <4>3. WholeLen("new") \in Nat
        BY WholeLenType DEF Versions
      <4>4. n \in Nat
        BY <4>1, <4>2, <4>3, ShardingAssumption
      <4>5. [of |-> "noise", length |-> n] \in File
        BY <4>4 DEF File
      <4>6. QED
        BY <4>1, <4>5 DEF Versions
    <3>3. QED
      BY <1>2, <3>1, <3>2
  <2>5. TypeOK'
    BY <2>1, <2>2, <2>3, <2>4 DEF Stages
  <2>6. JoinedHaveEnded' /\ RetriesLeft'
    BY <2>1, <2>2 DEF JoinedHaveEnded, NoThreadBehindSplit, RetriesLeft
  <2>7. SharesAreOfFiles'
    <3>1. \A s \in Shards : s <= next /\ got'[s].of \in Versions =>
                                shares'[s] \in {got'[s].of, "noise"}
      BY <2>1, <2>3, <2>4 DEF SharesAreOfFiles, Shards
    <3>2. QED
      BY <2>1, <3>1 DEF Shards, SharesAreOfFiles
  <2>8. GoodAreOfList' /\ EncodedIsVoted' /\ SecretFitsFile' /\ RecoveredInFull'
        /\ OpenedIsVersion'
    BY <2>1, <2>2 DEF GoodAreOfList, EncodedIsVoted, SecretFitsFile, RecoveredInFull,
                      OpenedIsVersion
  <2>9. QED
    BY <2>5, <2>6, <2>7, <2>8
<1>3. QED
  BY <1>1, <1>2 DEF SplitCrashes

\* validate_shards.
LEMMA ValidateStagesIInv == ASSUME IInv, Vote \/ Check \/ CheckCrashes PROVE IInv'
<1> USE DEF IInv, TypeOK
<1>1. CASE Crash
  BY <1>1, CrashIInv
<1>2. CASE Vote /\ ~Crash
  <2>1. /\ next' \in Shards /\ pc = "vote"
        /\ \/ next < NumShards /\ next' = next + 1 /\ pc' = "vote"
           \/ next = NumShards /\ next' = 1 /\ pc' = "check"
    BY <1>2, RoundNext DEF Vote
  <2>2. UNCHANGED <<thread, tries, got, shares, good, encoded, secret, meta, dest, crashed>>
    BY <1>2 DEF Vote, results
  <2>3. list' \in Versions \cup {"noise", "none"}
    BY <1>2 DEF Vote, Whole
  <2>4. good = {}
    BY <2>1 DEF GoodAreOfList, EncodedIsVoted
  <2>5. TypeOK'
    BY <2>1, <2>2, <2>3 DEF Stages
  <2>6. JoinedHaveEnded' /\ RetriesLeft' /\ SharesAreOfFiles'
    BY <2>1, <2>2 DEF JoinedHaveEnded, NoThreadBehindSplit, RetriesLeft, SharesAreOfFiles
  <2>7. GoodAreOfList' /\ EncodedIsVoted' /\ SecretFitsFile' /\ RecoveredInFull'
        /\ OpenedIsVersion'
    BY <2>1, <2>2, <2>4 DEF GoodAreOfList, EncodedIsVoted, SecretFitsFile, RecoveredInFull,
                            OpenedIsVersion
  <2>8. QED
    BY <2>5, <2>6, <2>7
<1>3. CASE Check /\ ~Crash
  <2>1. /\ next' \in Shards /\ pc = "check"
        /\ \/ next < NumShards /\ next' = next + 1 /\ pc' = "check"
           \/ next = NumShards /\ next' = 1 /\ pc' = "meta"
    BY <1>3, RoundNext DEF Check
  <2>2. /\ UNCHANGED <<thread, tries, got, shares, list, encoded, secret, meta, dest, crashed>>
        /\ good' = IF Good(got[next], list) THEN good \cup {next} ELSE good
    BY <1>3 DEF Check, results
  <2>3. TypeOK'
    BY <2>1, <2>2 DEF Stages
  <2>4. JoinedHaveEnded' /\ RetriesLeft' /\ SharesAreOfFiles'
    BY <2>1, <2>2 DEF JoinedHaveEnded, NoThreadBehindSplit, RetriesLeft, SharesAreOfFiles
  <2>5. Good(got[next], list) => got[next].of = list /\ list \in Versions
    BY GoodIsOfVersion
  <2>6. GoodAreOfList' /\ EncodedIsVoted' /\ SecretFitsFile' /\ RecoveredInFull'
        /\ OpenedIsVersion'
    BY <2>1, <2>2, <2>5 DEF GoodAreOfList, EncodedIsVoted, SecretFitsFile, RecoveredInFull,
                            OpenedIsVersion
  <2>7. QED
    BY <2>3, <2>4, <2>6
<1>4. QED
  BY <1>1, <1>2, <1>3 DEF CheckCrashes

\* From the shards that passed to the key and the metadata.
LEMMA DecodeStagesIInv ==
    ASSUME IInv, DecodeMeta \/ DecodeBody \/ Combine \/ Decrypt PROVE IInv'
<1> USE DEF IInv, TypeOK
<1>1. CASE Crash
  BY <1>1, CrashIInv
<1>2. Cardinality(good) \in Nat /\ (good = {} => Cardinality(good) = 0)
  <2>1. IsFiniteSet(Shards)
    BY ConstantsAssumption, ShardingAssumption, FS_Interval DEF Shards
  <2>2. IsFiniteSet(good)
    BY <2>1, FS_Subset
  <2>3. QED
    BY <2>2, FS_CardinalityType, FS_EmptySet
<1>3. CASE DecodeMeta /\ ~Crash
  <2>1. /\ pc = "meta"
        /\ pc' = IF Cardinality(good) < Threshold THEN "combine" ELSE "body"
        /\ UNCHANGED <<next, thread, tries, got, shares, list, good, encoded, secret, meta, dest,
                       crashed>>
    BY <1>3 DEF DecodeMeta, At, files, results
  <2>2. pc' = "body" => Cardinality(good) >= Threshold
    BY <1>2, <2>1, ShardingAssumption
  <2>3. QED
    BY <2>1, <2>2
       DEF Stages, JoinedHaveEnded, NoThreadBehindSplit, RetriesLeft, SharesAreOfFiles,
           GoodAreOfList, EncodedIsVoted, SecretFitsFile, RecoveredInFull, OpenedIsVersion
<1>4. CASE DecodeBody /\ ~Crash
  <2>1. /\ pc = "body" /\ pc' = "combine"
        /\ encoded' = IF BlocksHold(list) THEN list ELSE "damaged"
        /\ UNCHANGED <<next, thread, tries, got, shares, list, good, secret, meta, dest, crashed>>
    BY <1>4 DEF DecodeBody, At, files
  <2>2. good # {}
    BY <1>2, <2>1, ShardingAssumption DEF EncodedIsVoted
  <2>3. list \in Versions
    BY <2>1, <2>2 DEF GoodAreOfList
  <2>4. BlocksHold(list)
    BY <2>3, BlocksOfPadded, ShardingAssumption DEF BlocksHold
  <2>5. encoded' = list
    BY <2>1, <2>4
  <2>6. TypeOK'
    BY <2>1, <2>3, <2>5 DEF Stages
  <2>7. JoinedHaveEnded' /\ RetriesLeft' /\ SharesAreOfFiles' /\ GoodAreOfList'
    BY <2>1 DEF JoinedHaveEnded, NoThreadBehindSplit, RetriesLeft, SharesAreOfFiles,
                GoodAreOfList
  <2>8. EncodedIsVoted' /\ SecretFitsFile' /\ RecoveredInFull' /\ OpenedIsVersion'
    BY <2>1, <2>2, <2>3, <2>5
       DEF EncodedIsVoted, SecretFitsFile, RecoveredInFull, OpenedIsVersion, Versions
  <2>9. QED
    BY <2>6, <2>7, <2>8
<1>5. CASE Combine /\ ~Crash
  <2>1. /\ pc = "combine" /\ pc' = "decrypt"
        /\ secret' = shares[1]
        /\ UNCHANGED <<next, thread, tries, got, shares, list, good, encoded, meta, dest, crashed>>
    BY <1>5 DEF Combine, At, files
  <2>2. PICK v \in Versions : \A s \in Shards : shares[s] = v
    BY <1>5 DEF Combine, Restored
  <2>3. secret' = v
    <3>1. 1 \in Shards
      BY ConstantsAssumption, ShardingAssumption DEF Shards
    <3>2. QED
      BY <2>1, <2>2, <3>1
  <2>4. encoded \in {v, "none"}
    <3>1. SUFFICES ASSUME encoded # "none" PROVE list = v
      BY <2>1, <3>1 DEF EncodedIsVoted
    <3>2. PICK s \in good : TRUE
      BY <2>1, <3>1 DEF EncodedIsVoted
    <3>3. got[s].of = list /\ list \in Versions /\ s \in Shards
      BY <2>1, <3>2 DEF GoodAreOfList
    <3>4. shares[s] \in {list, "noise"}
      BY <2>1, <3>3 DEF SharesAreOfFiles
    <3>5. QED
      BY <2>2, <3>3, <3>4 DEF Versions
  <2>5. TypeOK'
    BY <2>1, <2>3 DEF Stages
  <2>6. JoinedHaveEnded' /\ RetriesLeft' /\ SharesAreOfFiles'
    BY <2>1 DEF JoinedHaveEnded, NoThreadBehindSplit, RetriesLeft, SharesAreOfFiles
  <2>7. GoodAreOfList' /\ EncodedIsVoted' /\ SecretFitsFile' /\ RecoveredInFull'
        /\ OpenedIsVersion'
    BY <2>1, <2>3, <2>4
       DEF GoodAreOfList, EncodedIsVoted, SecretFitsFile, RecoveredInFull, OpenedIsVersion, Versions
  <2>8. QED
    BY <2>5, <2>6, <2>7
<1>6. CASE Decrypt /\ ~Crash
  <2>1. /\ pc = "decrypt" /\ pc' = "artifact" /\ meta' = secret
        /\ encoded = secret
        /\ UNCHANGED <<next, thread, tries, got, shares, list, good, encoded, secret, dest, crashed>>
    BY <1>6 DEF Decrypt, At, files
  <2>2. QED
    BY <2>1 DEF Stages, JoinedHaveEnded, NoThreadBehindSplit, RetriesLeft, SharesAreOfFiles,
                GoodAreOfList, EncodedIsVoted, SecretFitsFile, RecoveredInFull, OpenedIsVersion
<1>7. QED
  BY <1>1, <1>3, <1>4, <1>5, <1>6

\* The artifact itself.
LEMMA ArtifactStagesIInv ==
    ASSUME IInv, GiveUp \/ FetchArtifact \/ FetchStalls \/ WriteArtifact PROVE IInv'
<1>1. CASE Crash
  BY <1>1, CrashIInv
<1>2. CASE ~Crash
  <2>1. /\ pc \in {"artifact", "write"} /\ pc' \in {"failed", "write", "done", "stalled"}
        /\ UNCHANGED <<next, thread, tries, got, shares, list, good, encoded, secret, meta, crashed>>
    BY <1>2 DEF GiveUp, FetchArtifact, FetchStalls, WriteArtifact, At, files, results
  <2>2. dest' \in Versions \cup {"absent", "part", "mixed"}
    BY <1>2 DEF GiveUp, FetchArtifact, FetchStalls, WriteArtifact, At, results, Overwritten, OverwrittenInPart, IInv, TypeOK,
                OpenedIsVersion
  <2>3. pc' = "write" => meta \in Versions
    <3>1. SUFFICES ASSUME pc' = "write" PROVE meta \in Versions
      OBVIOUS
    <3>2. \E o \in ServesArtifact : o = meta
      BY <1>2, <3>1 DEF GiveUp, FetchArtifact, FetchStalls, WriteArtifact
    <3>3. meta \in Versions \cup {"noise", "nothing"}
      BY <3>2, ConstantsAssumption
    <3>4. QED
      BY <3>3 DEF IInv, TypeOK
  <2>4. TypeOK'
    BY <2>1, <2>2 DEF IInv, TypeOK, Stages
  <2>5. JoinedHaveEnded' /\ RetriesLeft' /\ SharesAreOfFiles'
    BY <2>1 DEF IInv, JoinedHaveEnded, NoThreadBehindSplit, RetriesLeft, SharesAreOfFiles
  <2>6. GoodAreOfList' /\ EncodedIsVoted' /\ SecretFitsFile' /\ RecoveredInFull'
        /\ OpenedIsVersion'
    BY <2>1, <2>3 DEF IInv, GoodAreOfList, EncodedIsVoted, SecretFitsFile, RecoveredInFull,
                      OpenedIsVersion
  <2>7. QED
    BY <2>4, <2>5, <2>6 DEF IInv
<1>3. QED
  BY <1>1, <1>2

LEMMA NextIInv == IInv /\ [Next]_vars => IInv'
<1>1. IInv /\ UNCHANGED vars => IInv'
  BY DEF vars, IInv, TypeOK, JoinedHaveEnded, RetriesLeft, NoThreadBehindSplit,
         SharesAreOfFiles, GoodAreOfList, EncodedIsVoted, SecretFitsFile, RecoveredInFull,
         OpenedIsVersion
<1>2. QED
  BY <1>1, AttemptIInv, StallIInv, FetchStagesIInv, SplitStagesIInv, ValidateStagesIInv, DecodeStagesIInv,
     ArtifactStagesIInv
     DEF Next, MainStep

-----------------------------------------------------------------------------

\* The loops stay within the shards and the threads within their retries.
THEOREM TypeCorrect == Spec => []TypeOK
<1>1. IInv => TypeOK
  BY DEF IInv
<1>2. QED
  BY <1>1, InitIInv, NextIInv, PTL DEF Spec

\* unshard_fd reads no file that a thread still writes.
THEOREM ThreadsAreBehind == Spec => []NoThreadBehindSplit
<1>1. IInv => NoThreadBehindSplit
  BY DEF IInv, JoinedHaveEnded
<1>2. QED
  BY <1>1, InitIInv, NextIInv, PTL DEF Spec

\* Shares that combine are of the deployment that the vote chose, if the vote and
\* the threshold were passed at all: the dropped result of rs_unshard_fd never
\* gives the ciphers a file of another deployment.
THEOREM CombinedSharesFit == Spec => []SecretFitsFile
<1>1. IInv => SecretFitsFile
  BY DEF IInv
<1>2. QED
  BY <1>1, InitIInv, NextIInv, PTL DEF Spec

\* The padding makes the blocks hold the whole file, for every length of it.
THEOREM FileIsRecovered == Spec => []RecoveredInFull
<1>1. IInv => RecoveredInFull
  BY DEF IInv
<1>2. QED
  BY <1>1, InitIInv, NextIInv, PTL DEF Spec

\* With two shards of which two are required, sss_combine_shares opens the shares of
\* every deployment, whatever its key, its random coefficient and the points.
THEOREM TwoShardsCombine ==
    ASSUME Threshold = 2, NumShards = 2
    PROVE  Restored = Versions
<1> SUFFICES ASSUME NEW v \in Versions
             PROVE  CombineKeyshares(
                      [s \in Shards |-> CreateKeyshare(Key[v], Poly[v], Point[s])]) = Key[v]
  BY DEF Restored
<1>1. Key[v] \in Bytes /\ Poly[v] \in [1 .. 1 -> Bytes]
  BY SecretsAssumption
<1>2. PICK a \in Bytes : Poly[v] = <<a>>
  <2>1. Poly[v][1] \in Bytes /\ Poly[v] = <<Poly[v][1]>>
    BY <1>1
  <2>2. QED
    BY <2>1
<1>3. Shards = 1 .. 2
  BY DEF Shards
<1>4. PICK m \in Points, n \in Points : Point[1] = m /\ Point[2] = n /\ m # n
  <2>1. \A n \in 1 .. Total : n \in Points
    BY SecretsAssumption, ShardingAssumption DEF Points
  <2>2. Point[1] \in 1 .. Total /\ Point[2] \in 1 .. Total /\ Point[1] # Point[2]
    BY <1>3, SecretsAssumption
  <2>3. QED
    BY <2>1, <2>2
<1>5. [s \in Shards |-> CreateKeyshare(Key[v], Poly[v], Point[s])]
        = TwoShares(Key[v], a, m, n)
  BY <1>2, <1>3, <1>4 DEF TwoShares
<1>6. CombineKeyshares(TwoShares(Key[v], a, m, n)) = Key[v]
  BY <1>1, <1>4, TwoSharesRestore
<1>7. QED
  BY <1>5, <1>6
=============================================================================
