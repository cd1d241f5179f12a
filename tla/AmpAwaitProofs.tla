--------------------------- MODULE AmpAwaitProofs ---------------------------
(***************************************************************************)
(* Proofs about the request/reply core, for any number of calls, receiver  *)
(* threads and names and any answers of the registry.                      *)
(***************************************************************************)
EXTENDS AmpAwait, SequenceTheorems, TLAPS

Distinct(s) == \A j, k \in 1 .. Len(s) : s[j] = s[k] => j = k

(***************************************************************************)
(* The two operations on the queue.                                        *)
(***************************************************************************)
\* push_back adds one entry behind the others (receiveAmpMessage).
LEMMA AppendFacts ==
    ASSUME NEW S, NEW s \in Seq(S), NEW e \in S
    PROVE  /\ Append(s, e) \in Seq(S)
           /\ ToSet(Append(s, e)) = ToSet(s) \cup {e}
           /\ Distinct(s) /\ e \notin ToSet(s) => Distinct(Append(s, e))
<1> DEFINE t == Append(s, e)
<1>1. t \in Seq(S) /\ Len(t) = Len(s) + 1
  OBVIOUS
<1>2. \A j \in 1 .. Len(t) : t[j] = IF j <= Len(s) THEN s[j] ELSE e
  OBVIOUS
<1>3. DOMAIN s = 1 .. Len(s) /\ DOMAIN t = 1 .. Len(t)
  BY <1>1
<1>4. Len(s) \in Nat
  OBVIOUS
<1> HIDE DEF t
<1>5. ToSet(t) = ToSet(s) \cup {e}
  <2>1. ASSUME NEW x \in ToSet(t) PROVE x \in ToSet(s) \cup {e}
    BY <2>1, <1>1, <1>2, <1>3, <1>4 DEF ToSet
  <2>2. ASSUME NEW x \in ToSet(s) PROVE x \in ToSet(t)
    <3>1. PICK j \in 1 .. Len(s) : x = s[j]
      BY <1>3 DEF ToSet
    <3>2. j \in 1 .. Len(t) /\ t[j] = x
      BY <3>1, <1>1, <1>2, <1>4
    <3>3. QED BY <3>2, <1>3 DEF ToSet
  <2>3. e \in ToSet(t)
    <3>1. Len(t) \in 1 .. Len(t) /\ t[Len(t)] = e
      BY <1>1, <1>2, <1>4
    <3>2. QED BY <3>1, <1>3 DEF ToSet
  <2>4. QED BY <2>1, <2>2, <2>3
<1>6. Distinct(s) /\ e \notin ToSet(s) => Distinct(t)
  BY <1>1, <1>2, <1>3, <1>4 DEF Distinct, ToSet
<1>7. QED BY <1>1, <1>5, <1>6 DEF t

\* erase takes one entry out and keeps the order of the others.
LEMMA RemoveAtFacts ==
    ASSUME NEW S, NEW s \in Seq(S), NEW k \in 1 .. Len(s)
    PROVE  /\ RemoveAt(s, k) \in Seq(S)
           /\ ToSet(RemoveAt(s, k)) \subseteq ToSet(s)
           /\ Distinct(s) => /\ Distinct(RemoveAt(s, k))
                             /\ ToSet(RemoveAt(s, k)) = ToSet(s) \ {s[k]}
<1> DEFINE t == RemoveAt(s, k)
           from(j) == IF j < k THEN j ELSE j + 1
<1>0. Len(s) \in Nat /\ DOMAIN s = 1 .. Len(s)
  OBVIOUS
<1> DEFINE a == SubSeq(s, 1, k - 1)
           b == SubSeq(s, k + 1, Len(s))
<1>a. /\ a \in Seq(S) /\ Len(a) = k - 1
      /\ \A j \in 1 .. k - 1 : a[j] = s[j]
  <2>1. \A j \in 1 .. k - 1 : s[j] \in S
    BY <1>0
  <2>2. QED BY <1>0, <2>1, SubSeqProperties
<1>b. /\ b \in Seq(S) /\ Len(b) = Len(s) - k
      /\ \A j \in 1 .. Len(s) - k : b[j] = s[k + j]
  <2>1. \A j \in k + 1 .. Len(s) : s[j] \in S
    BY <1>0
  <2>2. /\ b \in Seq(S)
        /\ Len(b) = IF k + 1 <= Len(s) THEN Len(s) - (k + 1) + 1 ELSE 0
        /\ \A j \in 1 .. Len(s) - (k + 1) + 1 : b[j] = s[k + 1 + j - 1]
    BY <1>0, <2>1, SubSeqProperties
  <2>3. Len(b) = Len(s) - k
    <3>1. \A n, m, l \in Int :
             m <= n /\ l = (IF m + 1 <= n THEN n - (m + 1) + 1 ELSE 0) => l = n - m
      OBVIOUS
    <3>2. Len(s) \in Int /\ k \in Int /\ k <= Len(s) /\ Len(b) \in Int
      BY <1>0, <2>2
    <3>3. Len(b) = IF k + 1 <= Len(s) THEN Len(s) - (k + 1) + 1 ELSE 0
      BY <2>2
    <3>4. QED BY <3>1, <3>2, <3>3
  <2>4. ASSUME NEW j \in 1 .. Len(s) - k PROVE b[j] = s[k + j]
    <3>1. j \in 1 .. Len(s) - (k + 1) + 1 /\ k + 1 + j - 1 = k + j
      BY <1>0
    <3>2. QED BY <2>2, <3>1
  <2>5. QED BY <2>2, <2>3, <2>4
<1>c. t = a \o b
  BY DEF RemoveAt
<1> HIDE DEF a, b, t
<1>1. t \in Seq(S) /\ Len(t) = Len(s) - 1
  <2>1. a \o b \in Seq(S) /\ Len(a \o b) = Len(a) + Len(b)
    BY <1>a, <1>b, ConcatProperties
  <2>2. Len(a) + Len(b) = Len(s) - 1
    BY <1>0, <1>a, <1>b
  <2>3. QED BY <2>1, <2>2, <1>c
<1>2. \A j \in 1 .. Len(t) : t[j] = s[from(j)] /\ from(j) \in 1 .. Len(s)
  <2>1. \A j \in 1 .. Len(s) - 1 : t[j] = IF j <= k - 1 THEN a[j] ELSE b[j - (k - 1)]
    <3>1. \A j \in 1 .. Len(a) + Len(b) :
             (a \o b)[j] = IF j <= Len(a) THEN a[j] ELSE b[j - Len(a)]
      BY <1>a, <1>b, ConcatProperties
    <3>2. Len(a) = k - 1 /\ Len(a) + Len(b) = Len(s) - 1
      BY <1>0, <1>a, <1>b
    <3>3. QED BY <3>1, <3>2, <1>c
  <2>2. ASSUME NEW j \in 1 .. Len(s) - 1
        PROVE  t[j] = s[from(j)] /\ from(j) \in 1 .. Len(s)
    <3>1. CASE j < k
      BY <3>1, <2>1, <1>0, <1>a
    <3>2. CASE j >= k
      <4>1. t[j] = b[j - (k - 1)] /\ j - (k - 1) \in 1 .. Len(s) - k
        BY <3>2, <2>1, <1>0
      <4>2. b[j - (k - 1)] = s[k + (j - (k - 1))] /\ k + (j - (k - 1)) = j + 1
        BY <4>1, <1>b, <1>0
      <4>3. QED BY <4>1, <4>2, <3>2, <1>0
    <3>3. QED BY <3>1, <3>2, <1>0
  <2>3. QED BY <2>2, <1>1
<1>3. DOMAIN t = 1 .. Len(t)
  BY <1>1
<1>4. ToSet(t) \subseteq ToSet(s)
  BY <1>0, <1>2, <1>3 DEF ToSet
<1>5. ASSUME Distinct(s) PROVE Distinct(t)
  <2>1. \A j, l \in 1 .. Len(t) : from(j) = from(l) => j = l
    BY <1>0, <1>1
  <2>2. QED BY <2>1, <1>2, <1>5 DEF Distinct
<1>6. ASSUME Distinct(s) PROVE ToSet(t) = ToSet(s) \ {s[k]}
  <2>1. s[k] \notin ToSet(t)
    <3>1. \A j \in 1 .. Len(t) : from(j) # k
      BY <1>0, <1>1
    <3>2. QED BY <3>1, <1>2, <1>3, <1>6 DEF Distinct, ToSet
  <2>2. ASSUME NEW x \in ToSet(s), x # s[k] PROVE x \in ToSet(t)
    <3>1. PICK j \in 1 .. Len(s) : x = s[j]
      BY <1>0 DEF ToSet
    <3>2. j # k
      BY <2>2, <3>1
    <3>3. CASE j < k
      <4>1. j \in 1 .. Len(t) /\ t[j] = x
        BY <3>1, <3>3, <1>0, <1>1, <1>2
      <4>2. QED BY <4>1, <1>3 DEF ToSet
    <3>4. CASE j > k
      <4>1. j - 1 \in 1 .. Len(t) /\ t[j - 1] = x
        BY <3>1, <3>4, <1>0, <1>1, <1>2
      <4>2. QED BY <4>1, <1>3 DEF ToSet
    <3>5. QED BY <3>2, <3>3, <3>4, <1>0
  <2>3. QED BY <2>1, <2>2, <1>4
<1>7. QED BY <1>1, <1>4, <1>5, <1>6 DEF t

\* The undefined erase(begin() - 1), when it survives, takes the first entry.
LEMMA TailFacts ==
    ASSUME NEW S, NEW s \in Seq(S), Len(s) > 0
    PROVE  /\ Tail(s) \in Seq(S)
           /\ ToSet(Tail(s)) \subseteq ToSet(s)
           /\ Distinct(s) => Distinct(Tail(s))
<1>1. Tail(s) \in Seq(S) /\ Len(Tail(s)) = Len(s) - 1 /\ Len(s) \in Nat
  OBVIOUS
<1>2. \A j \in 1 .. Len(Tail(s)) : Tail(s)[j] = s[j + 1] /\ j + 1 \in 1 .. Len(s)
  BY <1>1
<1>3. DOMAIN s = 1 .. Len(s) /\ DOMAIN Tail(s) = 1 .. Len(Tail(s))
  BY <1>1
<1>4. QED BY <1>1, <1>2, <1>3 DEF ToSet, Distinct

(***************************************************************************)
(* Types.                                                                  *)
(***************************************************************************)
\* An entry the scan looks at is an entry of the queue.
LEMMA EntryFacts ==
    ASSUME TypeOK, NEW c \in Calls, InScan(c)
    PROVE  /\ i[c] \in Nat
           /\ i[c] + 1 \in 1 .. Len(queue)
           /\ Entry(c) = queue[i[c] + 1]
           /\ Entry(c) \in Calls
           /\ Entry(c) \in ToSet(queue)
<1>1. i[c] \in Nat /\ Len(queue) \in Nat /\ DOMAIN queue = 1 .. Len(queue)
  BY DEF TypeOK
<1>2. i[c] + 1 \in 1 .. Len(queue)
  BY <1>1 DEF InScan
<1>3. Entry(c) \in ToSet(queue)
  BY <1>1, <1>2 DEF Entry, ToSet
<1>4. QED BY <1>1, <1>2, <1>3 DEF TypeOK, Entry

LEMMA TypeStep == TypeOK /\ [Next]_vars => TypeOK'
<1> SUFFICES ASSUME TypeOK, [Next]_vars PROVE TypeOK'
  OBVIOUS
<1> USE DEF At, Goto
<1>1. ASSUME NEW c \in Calls, Answer(c) PROVE TypeOK'
  <2>1. PICK k \in AnswerKinds[Asked[c]] : kind' = [kind EXCEPT ![c] = k]
    BY <1>1 DEF Answer
  <2>2. k \in Kinds
    BY <1>1, ConstantsAssumption DEF Answer
  <2>3. QED BY <1>1, <2>1, <2>2 DEF TypeOK, Answer
<1>2. ASSUME NEW c \in Calls, Ask(c) PROVE TypeOK'
  BY <1>2 DEF TypeOK, Ask
<1>3. ASSUME NEW c \in Calls, SpuriousWakeup(c) PROVE TypeOK'
  BY <1>3 DEF TypeOK, SpuriousWakeup
<1>4. ASSUME NEW c \in Calls, LockAwait(c) PROVE TypeOK'
  BY <1>4 DEF TypeOK, LockAwait
<1>4a. ASSUME NEW c \in Calls, Wait(c) PROVE TypeOK'
  BY <1>4a DEF TypeOK, Wait
<1>4b. ASSUME NEW c \in Calls, Reacquire(c) PROVE TypeOK'
  BY <1>4b DEF TypeOK, Reacquire
<1>4c. ASSUME NEW c \in Calls, LockQueue(c) PROVE TypeOK'
  BY <1>4c DEF TypeOK, LockQueue
<1>4d. ASSUME NEW c \in Calls, Return(c) PROVE TypeOK'
  BY <1>4d DEF TypeOK, Return
<1>5. ASSUME NEW c \in Calls, SkipEntry(c) PROVE TypeOK'
  BY <1>5, EntryFacts DEF TypeOK, SkipEntry
<1>6. ASSUME NEW c \in Calls, EraseBroken(c) PROVE TypeOK'
  <2>1. /\ i[c] \in Nat
        /\ i[c] + 1 \in 1 .. Len(queue)
    BY <1>6, EntryFacts DEF EraseBroken
  <2>2. queue' \in Seq(Calls)
    <3>1. Tail(queue) \in Seq(Calls)
      BY <2>1, TailFacts DEF TypeOK
    <3>2. i[c] # 0 => RemoveAt(queue, i[c]) \in Seq(Calls)
      BY <2>1, RemoveAtFacts DEF TypeOK
    <3>3. QED BY <1>6, <3>1, <3>2 DEF EraseBroken, TypeOK
  <2>3. QED BY <1>6, <2>2 DEF TypeOK, EraseBroken
<1>7. ASSUME NEW c \in Calls, TakeEntry(c) PROVE TypeOK'
  <2>1. i[c] \in Nat /\ i[c] + 1 \in 1 .. Len(queue) /\ Entry(c) \in Calls
    BY <1>7, EntryFacts DEF TakeEntry
  <2>2. queue' \in Seq(Calls)
    BY <1>7, <2>1, RemoveAtFacts DEF TakeEntry, TypeOK
  <2>3. QED BY <1>7, <2>1, <2>2 DEF TypeOK, TakeEntry
<1>8. ASSUME NEW c \in Calls, EndScan(c) PROVE TypeOK'
  BY <1>8 DEF TypeOK, EndScan
<1>9. ASSUME NEW r \in Receivers, NEW d \in Calls, Push(r, d) PROVE TypeOK'
  BY <1>9, AppendFacts DEF TypeOK, Push
<1>10. ASSUME NEW r \in Receivers, NotifyAll(r) PROVE TypeOK'
  BY <1>10 DEF TypeOK, NotifyAll
<1>11. CASE UNCHANGED vars
  BY <1>11 DEF TypeOK, vars
<1>12. QED
  BY <1>1, <1>2, <1>3, <1>4, <1>4a, <1>4b, <1>4c, <1>4d, <1>5, <1>6,
     <1>7, <1>8, <1>9, <1>10, <1>11
  DEF Next, Proceed, Scan
\* The state of the plugin is well typed: the scan index never leaves Nat.
THEOREM TypeCorrect == Spec => []TypeOK
<1>1. Init => TypeOK
  <2>1. <<>> \in Seq(Calls)
    OBVIOUS
  <2>2. Init => /\ pc \in [Calls -> {"ask", "lock", "wait", "waiting", "woken",
                                     "lockQueue", "scan", "return", "done"}]
                /\ kind \in [Calls -> Kinds \cup {"none"}]
                /\ rpc \in [Receivers -> {"idle", "notify"}]
                /\ i \in [Calls -> Nat]
                /\ response \in [Calls -> Calls \cup {None}]
    BY DEF Init
  <2>3. QED BY <2>1, <2>2 DEF Init, TypeOK
<1>2. QED BY <1>1, TypeStep, PTL DEF Spec

(***************************************************************************)
(* Locks.                                                                  *)
(***************************************************************************)
LEMMA LockStep == TypeOK /\ LockDiscipline /\ [Next]_vars => LockDiscipline'
<1> SUFFICES ASSUME TypeOK, LockDiscipline, [Next]_vars PROVE LockDiscipline'
  OBVIOUS
<1> USE ConstantsAssumption DEF LockDiscipline, TypeOK, At, Goto
<1>1. ASSUME NEW c \in Calls, Answer(c) \/ SkipEntry(c) \/ EraseBroken(c) \/ TakeEntry(c)
      PROVE LockDiscipline'
  <2>1. UNCHANGED <<pc, qlock, await>>
    BY <1>1 DEF Answer, SkipEntry, EraseBroken, TakeEntry
  <2>2. QED BY <2>1
<1>2. ASSUME NEW c \in Calls, Ask(c) PROVE LockDiscipline'
  BY <1>2 DEF Ask
<1>3. ASSUME NEW c \in Calls, SpuriousWakeup(c) PROVE LockDiscipline'
  BY <1>3 DEF SpuriousWakeup
<1>4. ASSUME NEW c \in Calls, LockAwait(c) PROVE LockDiscipline'
  BY <1>4 DEF LockAwait
<1>5. ASSUME NEW c \in Calls, Wait(c) PROVE LockDiscipline'
  BY <1>5 DEF Wait
<1>6. ASSUME NEW c \in Calls, Reacquire(c) PROVE LockDiscipline'
  BY <1>6 DEF Reacquire
<1>7. ASSUME NEW c \in Calls, LockQueue(c) PROVE LockDiscipline'
  BY <1>7 DEF LockQueue
<1>8. ASSUME NEW c \in Calls, Return(c) PROVE LockDiscipline'
  BY <1>8 DEF Return
<1>9. ASSUME NEW c \in Calls, EndScan(c) PROVE LockDiscipline'
  BY <1>9 DEF EndScan
<1>10. ASSUME NEW r \in Receivers, NEW d \in Calls, Push(r, d) PROVE LockDiscipline'
  BY <1>10 DEF Push
<1>11. ASSUME NEW r \in Receivers, NotifyAll(r) PROVE LockDiscipline'
  BY <1>11 DEF NotifyAll
<1>12. CASE UNCHANGED vars
  BY <1>12 DEF vars
<1>13. QED
  BY <1>1, <1>2, <1>3, <1>4, <1>5, <1>6, <1>7, <1>8, <1>9, <1>10, <1>11, <1>12
  DEF Next, Proceed, Scan

\* Every lock is released on every path, and the queue is scanned by one call at
\* a time: the two mutexes of get_artifact_registry_info, for any number of calls.
THEOREM LocksAreHeldWhereTheCodeSays == Spec => []LockDiscipline
<1>1. Init => LockDiscipline
  BY ConstantsAssumption DEF Init, LockDiscipline
<1>2. QED BY <1>1, TypeCorrect, LockStep, PTL DEF Spec

(***************************************************************************)
(* Replies.                                                                *)
(***************************************************************************)
\* What the operations on the queue do to the set of queued replies.
LEMMA EraseStep ==
    ASSUME TypeOK, NEW c \in Calls, EraseBroken(c)
    PROVE  /\ ToSet(queue') \subseteq ToSet(queue)
           /\ Distinct(queue) => Distinct(queue')
<1>1. i[c] \in Nat /\ i[c] + 1 \in 1 .. Len(queue) /\ queue \in Seq(Calls)
  BY EntryFacts DEF EraseBroken, TypeOK
<1>2. CASE queue' = Tail(queue)
  BY <1>1, <1>2, TailFacts
<1>3. CASE i[c] # 0 /\ queue' = RemoveAt(queue, i[c])
  <2>1. i[c] \in 1 .. Len(queue)
    BY <1>1, <1>3
  <2>2. QED BY <1>1, <1>3, <2>1, RemoveAtFacts
<1>4. CASE queue' = queue
  BY <1>4
<1>5. QED BY <1>2, <1>3, <1>4 DEF EraseBroken

LEMMA TakeStep ==
    ASSUME TypeOK, Distinct(queue), NEW c \in Calls, TakeEntry(c)
    PROVE  /\ Entry(c) \in Calls
           /\ Entry(c) \in ToSet(queue)
           /\ ToSet(queue') = ToSet(queue) \ {Entry(c)}
           /\ Distinct(queue')
<1>1. /\ i[c] + 1 \in 1 .. Len(queue) /\ queue \in Seq(Calls)
      /\ Entry(c) = queue[i[c] + 1] /\ Entry(c) \in Calls /\ Entry(c) \in ToSet(queue)
  BY EntryFacts DEF TakeEntry, TypeOK
<1>2. QED BY <1>1, RemoveAtFacts DEF TakeEntry

LEMMA PushStep ==
    ASSUME TypeOK, Distinct(queue), NEW r \in Receivers, NEW d \in Calls, Push(r, d),
           d \notin ToSet(queue)
    PROVE  ToSet(queue') = ToSet(queue) \cup {d} /\ Distinct(queue')
BY AppendFacts DEF Push, TypeOK

LEMMA PlaceStep == TypeOK /\ ReplyInOnePlace /\ [Next]_vars => ReplyInOnePlace'
<1> SUFFICES ASSUME TypeOK, ReplyInOnePlace, [Next]_vars PROVE ReplyInOnePlace'
  OBVIOUS
<1>0. Distinct(queue)
  BY DEF ReplyInOnePlace, Distinct
<1> USE ConstantsAssumption DEF ReplyInOnePlace, TypeOK, At, Goto
<1>1. ASSUME NEW c \in Calls, Answer(c) PROVE ReplyInOnePlace'
  BY <1>1 DEF Answer
<1>2. ASSUME NEW c \in Calls, Ask(c) PROVE ReplyInOnePlace'
  BY <1>2 DEF Ask
<1>3. ASSUME NEW c \in Calls, NEW l,
             l \in {"wait", "waiting", "woken", "lockQueue", "scan", "return", "done"},
             At(c, "lock") \/ At(c, "wait") \/ At(c, "waiting") \/ At(c, "woken")
               \/ At(c, "lockQueue") \/ At(c, "scan") \/ At(c, "return"),
             Goto(c, l),
             UNCHANGED <<requests, replies, queue, response>>
      PROVE ReplyInOnePlace'
  BY <1>3
<1>4. ASSUME NEW c \in Calls,
             SpuriousWakeup(c) \/ LockAwait(c) \/ Wait(c) \/ Reacquire(c)
               \/ LockQueue(c) \/ Return(c) \/ EndScan(c)
      PROVE ReplyInOnePlace'
  BY <1>4, <1>3
  DEF SpuriousWakeup, LockAwait, Wait, Reacquire, LockQueue, Return, EndScan
<1>5. ASSUME NEW c \in Calls, SkipEntry(c) PROVE ReplyInOnePlace'
  BY <1>5 DEF SkipEntry
<1>6. ASSUME NEW c \in Calls, EraseBroken(c) PROVE ReplyInOnePlace'
  <2>1. ToSet(queue') \subseteq ToSet(queue) /\ Distinct(queue')
    BY <1>0, <1>6, EraseStep
  <2>2. UNCHANGED <<pc, requests, replies, response>>
    BY <1>6 DEF EraseBroken
  <2>3. QED BY <2>1, <2>2 DEF Distinct
<1>7. ASSUME NEW c \in Calls, TakeEntry(c) PROVE ReplyInOnePlace'
  <2>1. /\ Entry(c) \in Calls /\ Entry(c) \in ToSet(queue)
        /\ ToSet(queue') = ToSet(queue) \ {Entry(c)} /\ Distinct(queue')
    BY <1>0, <1>7, TakeStep
  <2>2. /\ UNCHANGED <<pc, requests, replies>>
        /\ response' = [response EXCEPT ![c] = Entry(c)]
    BY <1>7 DEF TakeEntry
  <2>3. QED BY <2>1, <2>2 DEF Distinct
<1>8. ASSUME NEW r \in Receivers, NEW d \in Calls, Push(r, d) PROVE ReplyInOnePlace'
  <2>1. d \in replies /\ d \notin ToSet(queue)
    BY <1>8 DEF Push
  <2>2. ToSet(queue') = ToSet(queue) \cup {d} /\ Distinct(queue')
    BY <1>0, <1>8, <2>1, PushStep
  <2>3. UNCHANGED <<pc, requests, response>> /\ replies' = replies \ {d}
    BY <1>8 DEF Push
  <2>4. QED BY <2>1, <2>2, <2>3 DEF Distinct
<1>9. ASSUME NEW r \in Receivers, NotifyAll(r) PROVE ReplyInOnePlace'
  <2>1. UNCHANGED <<requests, replies, queue, response>>
    BY <1>9 DEF NotifyAll
  <2>2. \A c \in Calls : pc'[c] = "ask" => pc[c] = "ask"
    BY <1>9 DEF NotifyAll
  <2>3. QED BY <2>1, <2>2
<1>10. CASE UNCHANGED vars
  BY <1>10 DEF vars
<1>11. QED
  BY <1>1, <1>2, <1>4, <1>5, <1>6, <1>7, <1>8, <1>9, <1>10 DEF Next, Proceed, Scan

\* No reply is lost, duplicated or handed to two calls by the queue: it is under
\* way, at one index of return_queue, or taken by one call.
THEOREM RepliesAreInOnePlace == Spec => []ReplyInOnePlace
<1>1. Init => ReplyInOnePlace
  BY DEF Init, ReplyInOnePlace, ToSet
<1>2. QED BY <1>1, TypeCorrect, PlaceStep, PTL DEF Spec

LEMMA OwnStep == TypeOK /\ ReplyInOnePlace /\ OwnReply /\ [Next]_vars => OwnReply'
<1> SUFFICES ASSUME TypeOK, ReplyInOnePlace, OwnReply, [Next]_vars PROVE OwnReply'
  OBVIOUS
<1> USE ConstantsAssumption DEF OwnReply, TypeOK, At, Goto
<1>1. ASSUME NEW c \in Calls, Answer(c) PROVE OwnReply'
  <2>1. \A d \in Calls : response[d] # c
    BY <1>1 DEF Answer, ReplyInOnePlace
  <2>2. \A d \in Calls : d # c => kind'[d] = kind[d]
    BY <1>1 DEF Answer
  <2>3. UNCHANGED <<pc, response>>
    BY <1>1 DEF Answer
  <2>4. QED BY <2>1, <2>2, <2>3
<1>2. ASSUME NEW c \in Calls, Ask(c) PROVE OwnReply'
  BY <1>2 DEF Ask
<1>3. ASSUME NEW c \in Calls, SpuriousWakeup(c) PROVE OwnReply'
  BY <1>3 DEF SpuriousWakeup
<1>4. ASSUME NEW c \in Calls, LockAwait(c) PROVE OwnReply'
  BY <1>4 DEF LockAwait
<1>5. ASSUME NEW c \in Calls, Wait(c) PROVE OwnReply'
  BY <1>5 DEF Wait
<1>6. ASSUME NEW c \in Calls, Reacquire(c) PROVE OwnReply'
  BY <1>6 DEF Reacquire
<1>7. ASSUME NEW c \in Calls, LockQueue(c) PROVE OwnReply'
  BY <1>7 DEF LockQueue
<1>8. ASSUME NEW c \in Calls, Return(c) PROVE OwnReply'
  BY <1>8 DEF Return
<1>9. ASSUME NEW c \in Calls, EndScan(c) PROVE OwnReply'
  BY <1>9 DEF EndScan
<1>10. ASSUME NEW c \in Calls, SkipEntry(c) \/ EraseBroken(c) PROVE OwnReply'
  BY <1>10 DEF SkipEntry, EraseBroken
<1>11. ASSUME NEW c \in Calls, TakeEntry(c) PROVE OwnReply'
  <2>1. Entry(c) \in Calls
    BY <1>11, EntryFacts DEF TakeEntry
  <2>2. /\ kind[Entry(c)] = "complete" /\ Asked[Entry(c)] = Artifact[c]
        /\ response' = [response EXCEPT ![c] = Entry(c)] /\ UNCHANGED <<pc, kind>>
    BY <1>11 DEF TakeEntry
  <2>3. QED BY <2>1, <2>2
<1>12. ASSUME NEW r \in Receivers, NEW d \in Calls, Push(r, d) PROVE OwnReply'
  BY <1>12 DEF Push
<1>13. ASSUME NEW r \in Receivers, NotifyAll(r) PROVE OwnReply'
  BY <1>13 DEF NotifyAll
<1>14. CASE UNCHANGED vars
  BY <1>14 DEF vars
<1>15. QED
  BY <1>1, <1>2, <1>3, <1>4, <1>5, <1>6, <1>7, <1>8, <1>9, <1>10, <1>11, <1>12, <1>13, <1>14
  DEF Next, Proceed, Scan

\* download_artifact is never given the record of another artifact, nor one that
\* lacks a field, whatever the registry answers to whichever call.
THEOREM RepliesAreOwn == Spec => []OwnReply
<1>1. Init => OwnReply
  BY DEF Init, OwnReply
<1>2. QED BY <1>1, TypeCorrect, RepliesAreInOnePlace, OwnStep, PTL DEF Spec

(***************************************************************************)
(* Refinement.                                                             *)
(***************************************************************************)
\* The registry holds no record that lacks one of the five fields.
NoBrokenAnswer == \A n \in Names : "partial" \notin AnswerKinds[n]

\* Then no broken entry is ever queued.
NoBrokenReply == \A c \in Calls : kind[c] # "partial"

LEMMA NoBrokenStep == NoBrokenAnswer /\ TypeOK /\ NoBrokenReply /\ [Next]_vars => NoBrokenReply'
<1> SUFFICES ASSUME NoBrokenAnswer, TypeOK, NoBrokenReply, [Next]_vars
             PROVE  NoBrokenReply'
  OBVIOUS
<1>1. ASSUME NEW c \in Calls, Answer(c) PROVE NoBrokenReply'
  <2>1. PICK k \in AnswerKinds[Asked[c]] : kind' = [kind EXCEPT ![c] = k]
    BY <1>1 DEF Answer
  <2>2. k # "partial"
    BY <1>1, ConstantsAssumption DEF NoBrokenAnswer, Answer
  <2>3. QED BY <2>1, <2>2 DEF NoBrokenReply, TypeOK
<1>2. CASE UNCHANGED kind
  BY <1>2 DEF NoBrokenReply
<1>3. QED
  BY <1>1, <1>2
  DEF Next, Proceed, Scan, Ask, SpuriousWakeup, LockAwait, Wait, Reacquire, LockQueue,
      Return, EndScan, SkipEntry, EraseBroken, TakeEntry, Push, NotifyAll, vars

LEMMA MailboxInit == Init => Box!Init
BY DEF Init, Box!Init, ToSet

LEMMA MailboxStep ==
    ASSUME TypeOK, OwnReply, ReplyInOnePlace, NoBrokenReply, [Next]_vars
    PROVE  [Box!Next]_(Box!vars)
<1> USE DEF At, Goto
<1>0. Distinct(queue)
  BY DEF ReplyInOnePlace, Distinct
<1>1. ASSUME NEW c \in Calls, Answer(c) PROVE UNCHANGED Box!vars
  BY <1>1 DEF Answer, Box!vars
<1>2. ASSUME NEW c \in Calls, Ask(c) PROVE Box!Ask(c)
  BY <1>2 DEF Ask, Box!Ask, TypeOK
<1>3. ASSUME NEW c \in Calls, SpuriousWakeup(c) PROVE UNCHANGED Box!vars
  BY <1>3 DEF SpuriousWakeup, Box!vars, TypeOK
<1>4. ASSUME NEW c \in Calls, LockAwait(c) PROVE UNCHANGED Box!vars
  BY <1>4 DEF LockAwait, Box!vars, TypeOK
<1>5. ASSUME NEW c \in Calls, Wait(c) PROVE UNCHANGED Box!vars
  BY <1>5 DEF Wait, Box!vars, TypeOK
<1>6. ASSUME NEW c \in Calls, Reacquire(c) PROVE UNCHANGED Box!vars
  BY <1>6 DEF Reacquire, Box!vars, TypeOK
<1>7. ASSUME NEW c \in Calls, LockQueue(c) PROVE UNCHANGED Box!vars
  BY <1>7 DEF LockQueue, Box!vars, TypeOK
<1>8. ASSUME NEW c \in Calls, EndScan(c) PROVE UNCHANGED Box!vars
  BY <1>8 DEF EndScan, Box!vars, TypeOK
<1>9. ASSUME NEW c \in Calls, Return(c) PROVE Box!Return(c)
  BY <1>9 DEF Return, Box!Return, TypeOK, OwnReply
<1>10. ASSUME NEW c \in Calls, SkipEntry(c) PROVE UNCHANGED Box!vars
  BY <1>10 DEF SkipEntry, Box!vars
<1>11. ASSUME NEW c \in Calls, EraseBroken(c) PROVE FALSE
  BY <1>11, EntryFacts DEF EraseBroken, NoBrokenReply
<1>12. ASSUME NEW c \in Calls, TakeEntry(c) PROVE Box!Take(c, Entry(c)) /\ Entry(c) \in Calls
  <2>1. /\ Entry(c) \in Calls /\ Entry(c) \in ToSet(queue)
        /\ ToSet(queue') = ToSet(queue) \ {Entry(c)}
    BY <1>0, <1>12, TakeStep
  <2>2. /\ Asked[Entry(c)] = Artifact[c]
        /\ response' = [response EXCEPT ![c] = Entry(c)]
        /\ UNCHANGED <<pc, requests, replies>>
        /\ pc[c] = "scan"
    BY <1>12 DEF TakeEntry, InScan
  <2>3. QED BY <2>1, <2>2 DEF Box!Take
<1>13. ASSUME NEW r \in Receivers, NEW d \in Calls, Push(r, d) PROVE Box!Deliver(d)
  <2>1. d \in replies /\ d \notin ToSet(queue) /\ d \notin requests
    BY <1>13 DEF Push, ReplyInOnePlace
  <2>2. ToSet(queue') = ToSet(queue) \cup {d}
    BY <1>0, <1>13, <2>1, PushStep
  <2>3. UNCHANGED <<pc, requests, response>> /\ replies' = replies \ {d}
    BY <1>13 DEF Push
  <2>4. QED BY <2>1, <2>2, <2>3 DEF Box!Deliver
<1>14. ASSUME NEW r \in Receivers, NotifyAll(r) PROVE UNCHANGED Box!vars
  BY <1>14 DEF NotifyAll, Box!vars, TypeOK
<1>15. CASE UNCHANGED vars
  BY <1>15 DEF vars, Box!vars
<1>16. QED
  BY <1>1, <1>2, <1>3, <1>4, <1>5, <1>6, <1>7, <1>8, <1>9, <1>10, <1>11, <1>12, <1>13,
     <1>14, <1>15
  DEF Next, Proceed, Scan, Box!Next

\* With whole records only, the two mutexes, the condition variable, the scan that
\* erases while it runs and the response it may overwrite amount to Mailbox: every
\* reply is delivered once and leaves the queue in the hands of a call for it.
THEOREM CoreImplementsMailbox == NoBrokenAnswer => (Spec => ImplementsMailbox)
<1> SUFFICES ASSUME NoBrokenAnswer PROVE Spec => ImplementsMailbox
  OBVIOUS
<1>1. Init => NoBrokenReply
  BY DEF Init, NoBrokenReply
<1>2. NoBrokenAnswer /\ TypeOK /\ NoBrokenReply /\ [Next]_vars => NoBrokenReply'
  BY NoBrokenStep
<1>3. TypeOK /\ OwnReply /\ ReplyInOnePlace /\ NoBrokenReply /\ [Next]_vars
        => [Box!Next]_(Box!vars)
  BY MailboxStep
<1>4. QED
  BY <1>1, <1>2, <1>3, MailboxInit, TypeCorrect, RepliesAreInOnePlace, RepliesAreOwn, PTL
  DEF Spec, ImplementsMailbox, Box!Spec
=============================================================================
