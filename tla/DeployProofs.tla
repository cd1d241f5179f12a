---------------------------- MODULE DeployProofs ----------------------------
(***************************************************************************)
(* Proofs about Deploy for any number of requests, dependencies, nodes and  *)
(* registries, any outcome of the optimiser, and any bound on deployments   *)
(* and failures.                                                            *)
(***************************************************************************)
EXTENDS Deploy, TLAPS

ColumnName == {"regs", "deps", "rnodes", "snodes"}

\* Of the requests only q changes, and it stays well formed.
Changes(q) == req' = [req EXCEPT ![q] = req'[q]] /\ req'[q] \in Request

\* All variables but req and those that have a type invariant of their own.
Others == <<lock, db, tmp, out, thread, made, held, hosts, history>>

-----------------------------------------------------------------------------
(***************************************************************************)
(* The columns and what is made of them.                                    *)
(***************************************************************************)

LEMMA ColumnNames == \A n \in 1 .. 4 : Column[n] \in ColumnName
  BY DEF Column, ColumnName

\* A page that is no column leaves the columns as they are.
LEMMA CopiedType ==
    ASSUME NEW to \in Columns, NEW from \in Columns, NEW c
    PROVE  Copied(to, from, c) \in Columns
<1>1. CASE c = "regs"
  BY <1>1 DEF Copied, Columns
<1>2. CASE c = "deps"
  BY <1>2 DEF Copied, Columns
<1>3. CASE c = "rnodes"
  BY <1>3 DEF Copied, Columns
<1>4. CASE c = "snodes"
  BY <1>4 DEF Copied, Columns
<1>5. CASE c \notin ColumnName
  BY <1>5 DEF Copied, Columns, ColumnName
<1>6. QED
  BY <1>1, <1>2, <1>3, <1>4, <1>5 DEF ColumnName

LEMMA EmptyType == EmptyColumns \in Columns
  BY DEF EmptyColumns, Columns

LEMMA IdleType == Idle \in Request
  BY EmptyType, PlacementAssumption DEF Idle, Request, Stages, RNodes

LEMMA PiecesType ==
    /\ Regs # {} /\ SNodes # {}
    /\ Names = Instances \X Pieces
    /\ Blob \in Pieces /\ ShardIds \subseteq Pieces
    /\ \A n \in Names : n[1] \in Instances
    /\ \A i \in Instances : i[1] \in Deps
<1>1. 1 \in Regs /\ 1 \in SNodes
  BY PlacementAssumption, DeployAssumption DEF Regs, SNodes
<1>2. \A n \in Names : n[1] \in Instances
  BY DEF Names
<1>3. \A i \in Instances : i[1] \in Deps
  BY DEF Instances
<1>4. QED
  BY <1>1, <1>2, <1>3 DEF Names, Pieces

LEMMA FlaggedType ==
    ASSUME NEW shards \in SUBSET SShard, NEW pieces
    PROVE  Flagged(shards, pieces) \in SUBSET SShard
  BY DEF Flagged, SShard

LEMMA NewHeldType ==
    ASSUME NEW shards \in SUBSET SShard, NEW pieces \in SUBSET Names
    PROVE  NewHeld(shards, pieces) \in SUBSET SShard
<1>1. SUFFICES ASSUME NEW e \in NewHeld(shards, pieces), e \notin shards PROVE e \in SShard
  OBVIOUS
<1>2. PICK n \in pieces : e = [piece |-> n, pushed |-> FALSE]
  BY <1>1 DEF NewHeld
<1>3. QED
  BY <1>2 DEF SShard

\* Every piece a race node is told of has a holder, so its location is one.
LEMMA NewToldType ==
    ASSUME NEW shards \in SUBSET RShard, NEW told \in SUBSET Names, NEW r \in RNodes,
           NEW draw \in Draws, NEW holders,
           \A n \in told : \E s \in SNodes : s \in holders[n]
    PROVE  NewTold(shards, told, r, draw, holders) \in SUBSET RShard
<1>1. \A n \in told : draw[<<r, n>>] \in SNodes
  BY DeployAssumption
<1>2. \A n \in told : (CHOOSE s \in SNodes : s \in holders[n]) \in SNodes
  OBVIOUS
<1>3. SUFFICES ASSUME NEW e \in NewTold(shards, told, r, draw, holders), e \notin shards
              PROVE  e \in RShard
  OBVIOUS
<1>4. PICK n \in told :
        e = [piece |-> n, registered |-> FALSE, cid |-> FALSE,
             at |-> IF draw[<<r, n>>] \in holders[n] THEN draw[<<r, n>>]
                    ELSE CHOOSE s \in SNodes : s \in holders[n]]
  BY <1>3 DEF NewTold
<1>5. e.at \in SNodes
  BY <1>1, <1>2, <1>4
<1>6. QED
  BY <1>4, <1>5 DEF RShard

LEMMA WithCidsType ==
    ASSUME NEW m \in Columns PROVE WithCids(m) \in [RNodes -> SUBSET RShard]
<1>1. SUFFICES ASSUME NEW r \in RNodes PROVE WithCids(m)[r] \in SUBSET RShard
  BY DEF WithCids
<1>2. \A e \in m.rnodes[r] : e \in RShard
  BY DEF Columns
<1>3. SUFFICES ASSUME NEW x \in WithCids(m)[r] PROVE x \in RShard
  OBVIOUS
<1>4. PICK e \in m.rnodes[r] :
        x = [e EXCEPT !.cid =
                @ \/ (Method[e.at] = "ipfs" /\ \E s \in SNodes : Matches(e, s, m) # {})]
  BY DEF WithCids
<1>5. PICK b \in BOOLEAN : x = [e EXCEPT !.cid = b]
  BY <1>2, <1>4 DEF RShard
<1>6. QED
  BY <1>2, <1>5 DEF RShard

LEMMA InstancesAtType ==
    ASSUME NEW m \in Columns, NEW r \in RNodes PROVE InstancesAt(m, r) \in SUBSET Instances
<1>1. \A e \in m.rnodes[r] : e.piece \in Names
  BY DEF Columns, RShard
<1>2. QED
  BY <1>1, PiecesType DEF InstancesAt, InstancesOf

LEMMA FreshType ==
    ASSUME NEW known, NEW k PROVE Fresh(known, k) \in SUBSET Instances
  BY DEF Fresh

LEMMA CountType ==
    ASSUME made \in [Deps -> 0 .. MaxInstances], NEW known, NEW k \in Nat, Count(known, k)
    PROVE  made' \in [Deps -> 0 .. MaxInstances]
  BY PlacementAssumption DEF Count

\* What the solver gives: pieces, of which every one that is told is held.
LEMMA PlacementsType ==
    ASSUME NEW known, NEW I \in SUBSET Instances, NEW p \in Placements(known, I)
    PROVE  /\ \A r \in RNodes : ToldPieces(p, r) \in SUBSET Names
           /\ \A s \in SNodes : HeldPieces(p, s) \in SUBSET Names
           /\ \A r \in RNodes : \A n \in ToldPieces(p, r) :
                 \E s \in SNodes : n \in HeldPieces(p, s)
<1>1. PICK told \in Told(known, I) :
        p \in {[told |-> told, at |-> h.at, blobs |-> h.blobs] : h \in Held(told, I)}
  BY DEF Placements
<1>2. PICK h \in Held(told, I) : p = [told |-> told, at |-> h.at, blobs |-> h.blobs]
  BY <1>1
<1>3. told \in [RNodes -> SUBSET (I \X ShardIds)]
  BY DEF Told
<1>4. /\ h.at \in [UNION {told[r] : r \in RNodes} -> SNodes]
      /\ h.blobs \in [SNodes -> SUBSET I]
      /\ BlobsHeld(told, h.blobs)
  BY DEF Held
<1>5. p.told = told /\ p.at = h.at /\ p.blobs = h.blobs
  BY <1>2
<1>6. ASSUME NEW r \in RNodes, NEW n \in ToldPieces(p, r)
      PROVE  n \in Names /\ \E s \in SNodes : n \in HeldPieces(p, s)
  <2>1. CASE n \in told[r]
    <3>1. n \in I \X ShardIds
      BY <1>3, <2>1
    <3>2. n \in Names
      BY <3>1 DEF Names, Pieces
    <3>3. n \in DOMAIN h.at /\ h.at[n] \in SNodes
      BY <1>4, <2>1
    <3>4. n \in HeldPieces(p, h.at[n])
      BY <1>5, <3>3 DEF HeldPieces
    <3>5. QED
      BY <3>2, <3>3, <3>4
  <2>2. CASE n \notin told[r]
    <3>1. PICK i \in InstancesOf(told[r]) : n = <<i, Blob>>
      BY <1>5, <1>6, <2>2 DEF ToldPieces
    <3>2. PICK s \in SNodes : i \in h.blobs[s]
      BY <1>4, <3>1 DEF BlobsHeld
    <3>3. n \in HeldPieces(p, s)
      BY <1>5, <3>1, <3>2 DEF HeldPieces
    <3>4. i \in I
      BY <1>4, <3>2
    <3>5. QED
      BY <3>1, <3>3, <3>4 DEF Names, Pieces
  <2>3. QED
    BY <2>1, <2>2
<1>7. ASSUME NEW s \in SNodes PROVE HeldPieces(p, s) \in SUBSET Names
  <2>1. \A n \in DOMAIN h.at : n \in Names
    BY <1>3, <1>4 DEF Names, Pieces
  <2>2. h.blobs[s] \X {Blob} \subseteq Names
    BY <1>4 DEF Names, Pieces
  <2>3. QED
    BY <1>5, <2>1, <2>2 DEF HeldPieces
<1>8. QED
  BY <1>6, <1>7

-----------------------------------------------------------------------------
(***************************************************************************)
(* Type correctness: how the operations change a request, and then one      *)
(* lemma for each group of actions.                                         *)
(***************************************************************************)

LEMMA GotoChanges ==
    ASSUME NEW q \in Requests, req \in [Requests -> Request], NEW stage \in Stages, Goto(q, stage)
    PROVE  Changes(q) /\ req'[q] = [req[q] EXCEPT !.pc = stage]
  BY DEF Goto, Changes, Request

LEMMA NextColumnChanges ==
    ASSUME NEW q \in Requests, req \in [Requests -> Request], NEW following \in Stages,
           NEW mine \in Columns, NextColumn(q, following, mine)
    PROVE  /\ Changes(q) /\ req'[q].mine = mine
           /\ req'[q].pc = IF req[q].col < 4 THEN req[q].pc ELSE following
           /\ req'[q].col = IF req[q].col < 4 THEN req[q].col + 1 ELSE 1
           /\ req'[q].kind = req[q].kind
  BY DEF NextColumn, Changes, Request

LEMMA ResetChanges ==
    ASSUME NEW q \in Requests, req \in [Requests -> Request], NEW stage \in {"idle", "dead"},
           req' = [req EXCEPT ![q] = [Idle EXCEPT !.pc = stage]]
    PROVE  Changes(q)
  BY IdleType DEF Changes, Request, Stages

LEMMA ChangesType ==
    ASSUME NEW q \in Requests, req \in [Requests -> Request], Changes(q)
    PROVE  req' \in [Requests -> Request]
  BY DEF Changes

LEMMA RequestType ==
    ASSUME TypeOK, NEW q \in Requests
    PROVE  /\ req \in [Requests -> Request] /\ req[q] \in Request
           /\ req[q].mine \in Columns /\ req[q].col \in 1 .. 4 /\ req[q].node \in RNodes
           /\ req[q].left \subseteq Instances /\ Here(q) \in ColumnName
  BY ColumnNames DEF TypeOK, Request, Here

LEMMA UploadType ==
    ASSUME TypeOK, NEW q \in Uploaders, ReadForUpload(q) \/ \E d \in Deps : WriteUpload(q, d)
    PROVE  TypeOK'
<1>1. q \in Requests
  BY DEF Requests
<1>2. CASE ReadForUpload(q)
  <2>1. Copied(EmptyColumns, db, "deps") \in Columns
    BY CopiedType, EmptyType DEF TypeOK
  <2>2. req' \in [Requests -> Request]
    BY <1>1, <1>2, <2>1, RequestType DEF ReadForUpload, Request, Stages
  <2>3. QED
    BY <1>2, <2>2 DEF ReadForUpload, TypeOK, hosts, history, SH!HostTypeOK
<1>3. ASSUME NEW d \in Deps, WriteUpload(q, d) PROVE TypeOK'
  <2>1. req' \in [Requests -> Request]
    BY <1>1, <1>3, IdleType DEF WriteUpload, TypeOK
  <2>2. db' \in Columns
    BY <1>1, <1>3, RequestType DEF WriteUpload, TypeOK, Columns
  <2>3. /\ stale' \in BOOLEAN
        /\ uploaded' \subseteq Deps /\ beside' \subseteq uploaded'
    BY <1>3 DEF WriteUpload, TypeOK
  <2>4. QED
    BY <1>3, <2>1, <2>2, <2>3 DEF WriteUpload, TypeOK, hosts, SH!HostTypeOK
<1>4. QED
  BY <1>2, <1>3

LEMMA PageType ==
    ASSUME TypeOK, NEW q \in Editors, PostPage(q) \/ \E c \in EditColumns : ShowPage(q, c)
    PROVE  TypeOK'
<1>1. q \in Requests
  BY DEF Requests
<1>2. CASE PostPage(q)
  <2>1. db' \in Columns
    BY <1>1, <1>2, CopiedType, RequestType DEF PostPage, TypeOK
  <2>2. req' \in [Requests -> Request]
    BY <1>1, <1>2, IdleType DEF PostPage, TypeOK
  <2>3. stale' \in BOOLEAN
    BY <1>2 DEF PostPage, TypeOK
  <2>4. QED
    BY <1>2, <2>1, <2>2, <2>3 DEF PostPage, TypeOK, hosts, SH!HostTypeOK
<1>3. ASSUME NEW c \in EditColumns, ShowPage(q, c) PROVE TypeOK'
  <2>1. Copied(EmptyColumns, db, c) \in Columns
    BY CopiedType, EmptyType DEF TypeOK
  <2>2. [req[q] EXCEPT !.pc = "edit", !.kind = c, !.mine = Copied(EmptyColumns, db, c)] \in Request
    BY <1>1, <2>1, RequestType DEF Request, Stages
  <2>3. req' \in [Requests -> Request]
    BY <1>1, <1>3, <2>2, RequestType DEF ShowPage
  <2>4. QED
    BY <1>3, <2>3 DEF ShowPage, TypeOK, hosts, history, SH!HostTypeOK
<1>4. QED
  BY <1>2, <1>3

LEMMA TestLockType ==
    ASSUME TypeOK, NEW q \in Deployers, NEW k \in Kinds, TestLock(q, k)
    PROVE  TypeOK'
<1>1. q \in Requests
  BY DEF Requests
<1>2. req' \in [Requests -> Request]
  BY <1>1, RequestType DEF TestLock, Request, Stages
<1>3. deploys' \in 0 .. MaxDeploys
  BY DeployAssumption DEF TestLock, TypeOK
<1>4. raced' \in BOOLEAN
  BY DEF TestLock, TypeOK
<1>5. QED
  BY <1>2, <1>3, <1>4 DEF TestLock, TypeOK, hosts, SH!HostTypeOK

LEMMA LockType ==
    ASSUME TypeOK, NEW q \in Deployers, SetLock(q) \/ Unlock(q)
    PROVE  TypeOK'
<1>1. q \in Requests
  BY DEF Requests
<1>2. CASE SetLock(q)
  <2>1. req' \in [Requests -> Request]
    BY <1>1, <1>2, RequestType, GotoChanges, ChangesType DEF SetLock, Stages
  <2>2. QED
    BY <1>2, <2>1 DEF SetLock, TypeOK, hosts, history, SH!HostTypeOK
<1>3. CASE Unlock(q)
  <2>1. req' \in [Requests -> Request]
    BY <1>1, <1>3, IdleType DEF Unlock, TypeOK
  <2>2. QED
    BY <1>3, <2>1 DEF Unlock, TypeOK, hosts, history, SH!HostTypeOK
<1>4. QED
  BY <1>2, <1>3

LEMMA ColumnType ==
    ASSUME TypeOK, NEW q \in Deployers,
           ReadColumn(q) \/ LoadFile(q) \/ EmitFile(q) \/ TakeColumn(q)
    PROVE  TypeOK'
<1> DEFINE c == Here(q)
<1>1. q \in Requests
  BY DEF Requests
<1>2. /\ Copied(req[q].mine, db, c) \in Columns /\ Copied(req[q].mine, tmp, c) \in Columns
      /\ Copied(tmp, db, c) \in Columns /\ Copied(out, req[q].mine, c) \in Columns
      /\ Copied(db, req[q].mine, c) \in Columns /\ Copied(db, out, c) \in Columns
  BY <1>1, CopiedType, RequestType DEF TypeOK
<1>3. CASE ReadColumn(q)
  <2>1. req' \in [Requests -> Request]
    BY <1>1, <1>2, <1>3, RequestType, NextColumnChanges, ChangesType DEF ReadColumn, Stages
  <2>2. tmp' \in Columns
    BY <1>2, <1>3 DEF ReadColumn, TypeOK
  <2>3. QED
    BY <1>3, <2>1, <2>2 DEF ReadColumn, TypeOK, hosts, history, SH!HostTypeOK
<1>4. CASE LoadFile(q)
  <2>1. req' \in [Requests -> Request]
    BY <1>1, <1>2, <1>4, RequestType, NextColumnChanges, ChangesType DEF LoadFile, Stages
  <2>2. QED
    BY <1>4, <2>1 DEF LoadFile, TypeOK, hosts, history, SH!HostTypeOK
<1>5. CASE EmitFile(q)
  <2>1. req' \in [Requests -> Request]
    BY <1>1, <1>5, RequestType, NextColumnChanges, ChangesType DEF EmitFile, Stages
  <2>2. QED
    BY <1>2, <1>5, <2>1 DEF EmitFile, TypeOK, hosts, history, SH!HostTypeOK
<1>6. CASE TakeColumn(q)
  <2>1. req' \in [Requests -> Request]
    <3>1. CASE req[q].col < 4
      BY <1>1, <1>6, <3>1, RequestType, NextColumnChanges, ChangesType DEF TakeColumn, Stages
    <3>2. CASE ~(req[q].col < 4)
      BY <1>1, <1>6, <3>2, RequestType, EmptyType, NextColumnChanges, ChangesType
        DEF TakeColumn, Stages
    <3>3. QED
      BY <3>1, <3>2
  <2>2. db' \in Columns
    BY <1>2, <1>6 DEF TakeColumn
  <2>3. QED
    BY <1>6, <2>1, <2>2 DEF TakeColumn, TypeOK, hosts, history, SH!HostTypeOK
<1>7. QED
  BY <1>3, <1>4, <1>5, <1>6

LEMMA SolveSimpleType ==
    ASSUME TypeOK, NEW q \in Deployers, SolveSimple(q)
    PROVE  TypeOK'
<1>1. q \in Requests
  BY DEF Requests
<1>2. ASSUME NEW k \in Nat, NEW following \in {"emit", "take"}, Spread(q, k, following)
      PROVE  req' \in [Requests -> Request] /\ made' \in [Deps -> 0 .. MaxInstances]
  <2> DEFINE mine == req[q].mine
             new == Fresh(mine.deps.known, k)
             pieces == (mine.deps.instances \cup new) \X Pieces
             anywhere == [n \in Names |-> SNodes]
  <2>1. mine \in Columns
    BY <1>1, RequestType
  <2>2. new \in SUBSET Instances /\ mine.deps.instances \cup new \in SUBSET Instances
    BY <2>1, FreshType DEF Columns
  <2>3. pieces \in SUBSET Names
    BY <2>2 DEF Names
  <2>4. \A n \in pieces : \E s \in SNodes : s \in anywhere[n]
    BY <2>3, PiecesType
  <2>5. PICK draw \in Draws :
          req' = [req EXCEPT
              ![q].pc = following,
              ![q].mine.deps.instances = @ \cup new,
              ![q].mine.rnodes = [r \in RNodes |-> NewTold(@[r], pieces, r, draw, anywhere)],
              ![q].mine.snodes = [s \in SNodes |-> NewHeld(@[s], pieces)]]
    BY <1>2 DEF Spread
  <2>6. \A r \in RNodes : NewTold(mine.rnodes[r], pieces, r, draw, anywhere) \in SUBSET RShard
    BY <2>1, <2>3, <2>4, NewToldType DEF Columns
  <2>7. \A s \in SNodes : NewHeld(mine.snodes[s], pieces) \in SUBSET SShard
    BY <2>1, <2>3, NewHeldType DEF Columns
  <2> DEFINE rn == [r \in RNodes |-> NewTold(mine.rnodes[r], pieces, r, draw, anywhere)]
             sn == [s \in SNodes |-> NewHeld(mine.snodes[s], pieces)]
             next == [mine EXCEPT !.deps.instances = @ \cup new, !.rnodes = rn, !.snodes = sn]
  <2>8. rn \in [RNodes -> SUBSET RShard] /\ sn \in [SNodes -> SUBSET SShard]
    BY <2>6, <2>7
  <2>9. req' = [req EXCEPT ![q] = [req[q] EXCEPT !.pc = following, !.mine = next]]
    <3>1. req[q] \in Request /\ req \in [Requests -> Request]
      BY <1>1, RequestType
    <3> DEFINE more == mine.deps.instances \cup new
    <3>2. req' = [req EXCEPT ![q].pc = following, ![q].mine.deps.instances = more,
                             ![q].mine.rnodes = rn, ![q].mine.snodes = sn]
      BY <1>1, <2>1, <2>5, <3>1 DEF Request, Columns
    <3>3. next = [mine EXCEPT !.deps.instances = more, !.rnodes = rn, !.snodes = sn]
      OBVIOUS
    <3> HIDE DEF rn, sn, more, next
    <3>4. req'[q] = [req[q] EXCEPT !.pc = following, !.mine = next]
      BY <1>1, <2>1, <3>1, <3>2, <3>3 DEF Request, Columns
    <3>5. QED
      BY <1>1, <3>1, <3>2, <3>4
  <2> HIDE DEF rn, sn
  <2>10. next \in Columns
    BY <2>1, <2>2, <2>8 DEF Columns
  <2> HIDE DEF next
  <2>11. [req[q] EXCEPT !.pc = following, !.mine = next] \in Request
    BY <1>1, <2>10, RequestType DEF Request, Stages
  <2>12. req' \in [Requests -> Request]
    BY <2>9, <2>11, RequestType, <1>1
  <2>13. Count(mine.deps.known, k)
    BY <1>2 DEF Spread
  <2>14. QED
    BY <2>12, <2>13, CountType DEF TypeOK
<1>3. req' \in [Requests -> Request] /\ made' \in [Deps -> 0 .. MaxInstances]
  BY <1>2, PlacementAssumption DEF SolveSimple
<1>4. QED
  BY <1>3 DEF SolveSimple, TypeOK, hosts, history, SH!HostTypeOK

LEMMA SolveType ==
    ASSUME TypeOK, NEW q \in Deployers, Solve(q)
    PROVE  TypeOK'
<1> DEFINE mine == req[q].mine
<1>1. q \in Requests
  BY DEF Requests
<1>2. mine \in Columns
  BY <1>1, RequestType
<1>3. PICK p \in Placements(mine.deps.known, mine.deps.instances), draw \in Draws :
        LET holders == [n \in Names |-> {s \in SNodes : n \in HeldPieces(p, s)}]
        IN req' = [req EXCEPT
              ![q].pc = "emit",
              ![q].mine.rnodes =
                  [r \in RNodes |-> NewTold(@[r], ToldPieces(p, r), r, draw, holders)],
              ![q].mine.snodes = [s \in SNodes |-> NewHeld(@[s], HeldPieces(p, s))]]
  BY DEF Solve
<1> DEFINE holders == [n \in Names |-> {s \in SNodes : n \in HeldPieces(p, s)}]
           rn == [r \in RNodes |-> NewTold(mine.rnodes[r], ToldPieces(p, r), r, draw, holders)]
           sn == [s \in SNodes |-> NewHeld(mine.snodes[s], HeldPieces(p, s))]
           next == [mine EXCEPT !.rnodes = rn, !.snodes = sn]
<1>4. mine.deps.instances \in SUBSET Instances
  BY <1>2 DEF Columns
<1>5. ASSUME NEW r \in RNodes
      PROVE  NewTold(mine.rnodes[r], ToldPieces(p, r), r, draw, holders) \in SUBSET RShard
  <2>1. ToldPieces(p, r) \in SUBSET Names
    BY <1>4, PlacementsType
  <2>2. \A n \in ToldPieces(p, r) : \E s \in SNodes : s \in holders[n]
    BY <1>4, <2>1, PlacementsType
  <2>3. QED
    BY <1>2, <2>1, <2>2, NewToldType DEF Columns
<1>6. \A s \in SNodes : NewHeld(mine.snodes[s], HeldPieces(p, s)) \in SUBSET SShard
  BY <1>2, <1>4, PlacementsType, NewHeldType DEF Columns
<1>7. rn \in [RNodes -> SUBSET RShard] /\ sn \in [SNodes -> SUBSET SShard]
  BY <1>5, <1>6
<1>8. req' = [req EXCEPT ![q] = [req[q] EXCEPT !.pc = "emit", !.mine = next]]
  <2>1. req[q] \in Request
    BY <1>1, RequestType
  <2>2. QED
    BY <1>1, <1>2, <1>3, <2>1, RequestType DEF Request, Columns
<1> HIDE DEF rn, sn
<1>9. next \in Columns
  BY <1>2, <1>7 DEF Columns
<1> HIDE DEF next
<1>10. [req[q] EXCEPT !.pc = "emit", !.mine = next] \in Request
  BY <1>1, <1>9, RequestType DEF Request, Stages
<1>11. req' \in [Requests -> Request]
  BY <1>1, <1>8, <1>10, RequestType
<1>12. UNCHANGED <<lock, db, tmp, out, thread, made, held, hosts, history>>
  BY DEF Solve
<1>13. QED
  BY <1>11, <1>12 DEF TypeOK, hosts, history, SH!HostTypeOK

LEMMA CreateMoreType ==
    ASSUME TypeOK, NEW q \in Deployers, CreateMore(q)
    PROVE  TypeOK'
<1> DEFINE mine == req[q].mine
           new == Fresh(mine.deps.known, NumRNodes)
           next == [mine EXCEPT !.deps.instances = @ \cup new]
<1>1. q \in Requests
  BY DEF Requests
<1>2. mine \in Columns /\ new \in SUBSET Instances
  BY <1>1, RequestType, FreshType
<1>3. next \in Columns
  BY <1>2 DEF Columns
<1>4. req[q] \in Request /\ req \in [Requests -> Request]
  BY <1>1, RequestType
<1>5. req' = [req EXCEPT ![q] = [req[q] EXCEPT !.mine = next, !.round = 1 - @]]
  BY <1>1, <1>2, <1>4 DEF CreateMore, Request, Columns
<1> HIDE DEF next, new
<1>6. [req[q] EXCEPT !.mine = next, !.round = 1 - @] \in Request
  <2>1. 1 - req[q].round \in {0, 1}
    BY <1>4 DEF Request
  <2>2. QED
    BY <1>3, <1>4, <2>1 DEF Request
<1>7. req' \in [Requests -> Request]
  BY <1>1, <1>4, <1>5, <1>6
<1>8. made' \in [Deps -> 0 .. MaxInstances]
  BY CountType, PlacementAssumption DEF CreateMore, TypeOK
<1>9. QED
  BY <1>7, <1>8 DEF CreateMore, TypeOK, hosts, history, SH!HostTypeOK

\* What a task of push_to_snodes does to the request it belongs to.
LEMMA FlagChanges ==
    ASSUME TypeOK, NEW q \in Deployers, NEW s \in SNodes, NEW pieces,
           req' = [req EXCEPT ![q].mine.snodes[s] = Flagged(@, pieces)]
    PROVE  req' \in [Requests -> Request]
<1> DEFINE mine == req[q].mine
           flagged == Flagged(mine.snodes[s], pieces)
           next == [mine EXCEPT !.snodes[s] = flagged]
<1>1. q \in Requests /\ req[q] \in Request /\ req \in [Requests -> Request] /\ mine \in Columns
  BY RequestType DEF Requests
<1>2. flagged \in SUBSET SShard
  BY <1>1, FlaggedType DEF Columns
<1>3. req' = [req EXCEPT ![q].mine.snodes[s] = flagged]
  BY <1>1 DEF Request, Columns
<1> HIDE DEF flagged
<1>4. next \in Columns
  BY <1>1, <1>2 DEF Columns
<1>5. req' = [req EXCEPT ![q] = [req[q] EXCEPT !.mine = next]]
  BY <1>1, <1>3 DEF Request, Columns
<1> HIDE DEF next
<1>6. [req[q] EXCEPT !.mine = next] \in Request
  BY <1>1, <1>4 DEF Request
<1>7. QED
  BY <1>1, <1>5, <1>6

LEMMA ThreadsType ==
    ASSUME TypeOK, NEW q \in Deployers, StartThreads(q) \/ CollectResults(q) \/ PushRaises(q)
    PROVE  TypeOK'
<1>1. q \in Requests /\ req[q] \in Request /\ req \in [Requests -> Request]
  BY RequestType DEF Requests
<1>2. CASE StartThreads(q)
  <2>1. Copied(EmptyColumns, db, "snodes") \in Columns
    BY CopiedType, EmptyType DEF TypeOK
  <2>2. req' \in [Requests -> Request]
    BY <1>1, <1>2, <2>1 DEF StartThreads, Request, Stages
  <2>3. thread' \in [Tasks -> {None, "running", "posting", "failed", "done"}]
    BY <1>2 DEF StartThreads, TypeOK, Tasks
  <2>4. QED
    BY <1>2, <2>2, <2>3 DEF StartThreads, TypeOK, hosts, history, SH!HostTypeOK
<1>3. CASE CollectResults(q)
  <2>1. req' \in [Requests -> Request]
    BY <1>1, <1>3, EmptyType DEF CollectResults, Request, Stages
  <2>2. thread' \in [Tasks -> {None, "running", "posting", "failed", "done"}]
    BY <1>3 DEF CollectResults, TypeOK, Tasks
  <2>3. db' \in Columns
    BY <1>1, <1>3, CopiedType, RequestType DEF CollectResults, TypeOK
  <2>4. QED
    BY <1>3, <2>1, <2>2, <2>3 DEF CollectResults, TypeOK, hosts, history, SH!HostTypeOK
<1>4. CASE PushRaises(q)
  <2>1. req' \in [Requests -> Request]
    BY <1>1, <1>4, GotoChanges, ChangesType DEF PushRaises, Stages
  <2>2. QED
    BY <1>4, <2>1 DEF PushRaises, TypeOK, hosts, history, SH!HostTypeOK
<1>5. QED
  BY <1>2, <1>3, <1>4

LEMMA ConnectionsType ==
    /\ MaxFaults \in Nat
    /\ \A c \in Connections :
          c[1] \in Deployers /\ c[2] \in SNodes /\ c[3] \in 0 .. MaxFaults
    /\ \A q \in Deployers, s \in SNodes :
          /\ <<q, s>> \in Tasks
          /\ Live(q, s) \in Connections /\ Live(q, s)[2] = s /\ Live(q, s)[3] = 0
          /\ \A f \in 1 .. MaxFaults : <<q, s, f>> \in Connections /\ <<q, s, f>>[2] = s
  BY DeployAssumption DEF Connections, Tasks, Live

\* A failure hands requests that hosts work on over to connections without a client.
LEMMA AdriftType ==
    ASSUME SH!HostTypeOK, NEW tasks, SetAdrift(tasks), UNCHANGED <<file, severed>>
    PROVE  /\ SH!HostTypeOK'
           /\ \A d \in Connections :
                 \/ post'[d] = SH!NoPost
                 \/ \E c \in Connections : c[2] = d[2] /\ post'[d] = post[c]
<1>1. ASSUME NEW d \in Connections
      PROVE  \/ post'[d] = SH!NoPost
             \/ \E c \in Connections : c[2] = d[2] /\ post'[d] = post[c]
  <2>1. post'[d] \in {SH!NoPost, post[Live(d[1], d[2])], post[d]}
    BY DEF SetAdrift
  <2>2. Live(d[1], d[2]) \in Connections /\ Live(d[1], d[2])[2] = d[2]
    BY ConnectionsType
  <2>3. QED
    BY <2>1, <2>2
<1>2. \A d \in Connections : post'[d] \in SH!Post \cup {SH!NoPost}
  BY <1>1 DEF SH!HostTypeOK
<1>3. post' = [d \in Connections |-> post'[d]]
  BY DEF SetAdrift
<1>4. post' \in [Connections -> SH!Post \cup {SH!NoPost}]
  BY <1>2, <1>3
<1>5. QED
  BY <1>1, <1>4 DEF SH!HostTypeOK

LEMMA HostType ==
    ASSUME SH!HostTypeOK, NEW c \in Connections,
           \/ SH!Check(c) \/ SH!Open(c) \/ SH!Write(c) \/ SH!Conflict(c) \/ SH!Sever(c)
    PROVE  SH!HostTypeOK'
<1>1. post[c] \in SH!Post
  BY DEF SH!HostTypeOK, SH!Check, SH!Open, SH!Write, SH!Conflict, SH!Sever, SH!Serving
<1>2. post[c].host \in SNodes /\ post[c].name \in Names
  BY <1>1 DEF SH!Post
<1>3. CASE SH!Check(c)
  BY <1>1, <1>3 DEF SH!Check, SH!HostTypeOK, SH!Post
<1>4. CASE SH!Open(c)
  BY <1>1, <1>2, <1>4 DEF SH!Open, SH!HostTypeOK, SH!Post
<1>5. CASE SH!Write(c)
  BY <1>2, <1>5 DEF SH!Write, SH!HostTypeOK, SH!Close
<1>6. CASE SH!Conflict(c)
  BY <1>6 DEF SH!Conflict, SH!HostTypeOK, SH!Close
<1>7. CASE SH!Sever(c)
  BY <1>2, <1>7 DEF SH!Sever, SH!HostTypeOK, SH!Close
<1>8. QED
  BY <1>3, <1>4, <1>5, <1>6, <1>7

\* A thread of a host makes a step of its own, for a task or for nobody.
HostActs(c) == SH!Check(c) \/ SH!Open(c) \/ SH!Write(c) \/ SH!Conflict(c) \/ SH!Sever(c)

LEMMA HostStepActs ==
    ASSUME NEW q \in Deployers, NEW s \in SNodes, HostStep(q, s) \/ Orphaned(q, s)
    PROVE  \E c \in Connections : c[2] = s /\ HostActs(c)
  BY ConnectionsType DEF HostStep, Orphaned, HostActs

LEMMA NextPieceType ==
    ASSUME TypeOK, NEW q \in Deployers, NEW s \in SNodes,
           Unpushed(req[q].mine.snodes[s]) # {}
    PROVE  NextPiece(q, s) \in Names
<1>1. req[q].mine \in Columns
  BY RequestType DEF Requests
<1>2. \A e \in Unpushed(req[q].mine.snodes[s]) : e.piece \in Names
  BY <1>1 DEF Unpushed, Columns, SShard
<1>3. QED
  BY <1>2 DEF NextPiece

LEMMA PushingType ==
    ASSUME TypeOK, NEW q \in Deployers, NEW s \in SNodes, Pushing(q, s)
    PROVE  TypeOK'
<1>1. <<q, s>> \in Tasks /\ Live(q, s) \in Connections
  BY ConnectionsType
<1>2. CASE PostShard(q, s)
  <2>1. NextPiece(q, s) \in Names
    BY <1>2, NextPieceType DEF PostShard
  <2>2. SH!HostTypeOK'
    BY <1>1, <1>2, <2>1 DEF PostShard, SH!Receive, SH!HostTypeOK, SH!Post, TypeOK
  <2>3. QED
    BY <1>1, <1>2, <2>2 DEF PostShard, TypeOK, history
<1>3. CASE ShardAnswered(q, s)
  <2>1. SH!HostTypeOK'
    BY <1>1, <1>3, HostType DEF ShardAnswered, TypeOK
  <2>2. req' \in [Requests -> Request]
    BY <1>3, FlagChanges DEF ShardAnswered, Posted
  <2>3. QED
    BY <1>1, <1>3, <2>1, <2>2 DEF ShardAnswered, Posted, TypeOK, history
<1>4. CASE HostStep(q, s)
  <2>1. SH!HostTypeOK'
    BY <1>4, HostStepActs, HostType DEF HostActs, TypeOK
  <2>2. QED
    BY <1>4, <2>1 DEF HostStep, TypeOK, history
<1>5. CASE PushIpfs(q, s)
  <2>1. req' \in [Requests -> Request]
    BY <1>5, FlagChanges DEF PushIpfs
  <2>2. SH!HostTypeOK'
    BY <1>5 DEF PushIpfs, SH!HostTypeOK, TypeOK
  <2>3. QED
    BY <1>1, <1>5, <2>1, <2>2 DEF PushIpfs, TypeOK, history
<1>6. CASE ThreadEnds(q, s)
  BY <1>1, <1>6 DEF ThreadEnds, TypeOK, hosts, history, SH!HostTypeOK
<1>7. QED
  BY <1>2, <1>3, <1>4, <1>5, <1>6 DEF Pushing, TaskStep

LEMMA MergeType ==
    ASSUME TypeOK, NEW q \in Deployers, Merge(q) \/ WriteMerged(q)
    PROVE  TypeOK'
<1> DEFINE mine == req[q].mine
           read == Copied(mine, db, "snodes")
<1>1. q \in Requests /\ req[q] \in Request /\ req \in [Requests -> Request]
  BY RequestType DEF Requests
<1>2. mine \in Columns /\ read \in Columns /\ db \in Columns
      /\ Copied(EmptyColumns, db, "rnodes") \in Columns
  BY <1>1, RequestType, CopiedType, EmptyType DEF TypeOK
<1>3. CASE Merge(q)
  <2>1. ASSUME req' = [req EXCEPT ![q].pc = "mergeSnodes",
                                  ![q].mine = Copied(EmptyColumns, db, "rnodes")]
        PROVE  req' \in [Requests -> Request]
    BY <1>1, <1>2, <2>1 DEF Request, Stages
  <2>2. ASSUME req' = [req EXCEPT ![q] = [Idle EXCEPT !.pc = "dead"]]
        PROVE  req' \in [Requests -> Request]
    BY <1>1, <2>2, ResetChanges, ChangesType
  <2>3. [read EXCEPT !.rnodes = WithCids(read)] \in Columns
    BY <1>2, WithCidsType DEF Columns
  <2>4. ASSUME req' = [req EXCEPT ![q].pc = "mergeWrite",
                                  ![q].mine = [read EXCEPT !.rnodes = WithCids(read)]]
        PROVE  req' \in [Requests -> Request]
    BY <1>1, <2>3, <2>4 DEF Request, Stages
  <2>5. req' \in [Requests -> Request]
    BY <1>3, <2>1, <2>2, <2>4 DEF Merge, ReadForMerge
  <2>6. QED
    BY <1>3, <2>5 DEF Merge, TypeOK, hosts, history, SH!HostTypeOK
<1>4. CASE WriteMerged(q)
  <2>1. db' \in Columns
    BY <1>2, <1>4, CopiedType DEF WriteMerged
  <2>2. ASSUME Goto(q, "mergeWriteSnodes") PROVE req' \in [Requests -> Request]
    BY <1>1, <2>2, GotoChanges, ChangesType DEF Stages
  <2>3. ASSUME req' = [req EXCEPT ![q].pc = "register", ![q].mine = EmptyColumns]
        PROVE  req' \in [Requests -> Request]
    BY <1>1, <2>3, EmptyType DEF Request, Stages
  <2>4. req' \in [Requests -> Request]
    BY <1>4, <2>2, <2>3 DEF WriteMerged
  <2>5. QED
    BY <1>4, <2>1, <2>4 DEF WriteMerged, TypeOK, hosts, history, SH!HostTypeOK
<1>5. QED
  BY <1>3, <1>4

LEMMA StowedType ==
    ASSUME TypeOK, NEW q \in Deployers, NEW i \in Instances
    PROVE  /\ Target(req[q].node) \in Regs
           /\ Stowed(Target(req[q].node), i, Due(q, i))
                 \in [Regs -> [Deps -> SUBSET (SNodes \X Names)]]
<1> DEFINE g == Target(req[q].node)
<1>1. req[q].node \in RNodes /\ req[q].mine \in Columns
  BY RequestType DEF Requests
<1>2. g \in Regs
  BY DeployAssumption DEF Target, Regs
<1>3. \A e \in Due(q, i) : e.at \in SNodes /\ e.piece \in Names
  BY <1>1 DEF Due, Columns, RShard
<1>4. {<<e.at, e.piece>> : e \in Due(q, i)} \in SUBSET (SNodes \X Names)
  BY <1>3
<1>5. i[1] \in Deps
  BY PiecesType
<1>6. held \in [Regs -> [Deps -> SUBSET (SNodes \X Names)]]
  BY DEF TypeOK
<1>7. QED
  BY <1>2, <1>4, <1>5, <1>6 DEF Stowed

LEMMA PostEntryType ==
    ASSUME TypeOK, NEW q \in Deployers, NEW i \in Instances, PostEntry(q, i)
    PROVE  TypeOK'
<1> DEFINE mine == req[q].mine
           g == Target(req[q].node)
           due == Due(q, i)
           shards == (mine.rnodes[req[q].node] \ due) \cup
                        {[e EXCEPT !.registered = TRUE] : e \in due}
           next == [mine EXCEPT !.regs[g] = @ \cup {i}, !.rnodes[req[q].node] = shards]
<1>1. q \in Requests /\ req[q] \in Request /\ req \in [Requests -> Request]
      /\ mine \in Columns /\ req[q].node \in RNodes /\ g \in Regs
  BY RequestType, StowedType DEF Requests
<1>2. \A e \in due : e \in RShard
  BY <1>1 DEF Due, Columns
<1>3. shards \in SUBSET RShard
  <2>1. \A e \in due : [e EXCEPT !.registered = TRUE] \in RShard
    BY <1>2 DEF RShard
  <2>2. mine.rnodes[req[q].node] \in SUBSET RShard
    BY <1>1 DEF Columns
  <2>3. QED
    BY <2>1, <2>2
<1>4. req' = [req EXCEPT ![q].left = @ \ {i}, ![q].mine.regs[g] = @ \cup {i},
                         ![q].mine.rnodes[req[q].node] = shards]
  <2>1. req' = [req EXCEPT
          ![q].left = @ \ {i},
          ![q].mine.regs[g] = @ \cup {i},
          ![q].mine.rnodes[req[q].node] =
              (@ \ due) \cup {[e EXCEPT !.registered = TRUE] : e \in due}]
    BY DEF PostEntry
  <2>2. QED
    BY <1>1, <2>1 DEF Request, Columns
<1> HIDE DEF shards
<1>5. next \in Columns
  BY <1>1, <1>3 DEF Columns
<1>6. req' = [req EXCEPT ![q] = [req[q] EXCEPT !.left = @ \ {i}, !.mine = next]]
  BY <1>1, <1>4 DEF Request, Columns
<1> HIDE DEF next
<1>7. [req[q] EXCEPT !.left = @ \ {i}, !.mine = next] \in Request
  BY <1>1, <1>5 DEF Request
<1>8. req' \in [Requests -> Request]
  BY <1>1, <1>6, <1>7
<1>9. held' \in [Regs -> [Deps -> SUBSET (SNodes \X Names)]]
  BY StowedType DEF PostEntry
<1>10. UNCHANGED <<lock, db, tmp, out, thread, made, hosts, history>>
  BY DEF PostEntry
<1>11. QED
  BY <1>8, <1>9, <1>10 DEF TypeOK, hosts, history, SH!HostTypeOK

LEMMA RegisteringType ==
    ASSUME TypeOK, NEW q \in Deployers,
           \/ ReadForRegister(q) \/ NextNode(q) \/ WriteRegistered(q)
           \/ \E i \in Instances : SkipKnown(q, i) \/ NoCidToRegister(q, i)
    PROVE  TypeOK'
<1> DEFINE mine == req[q].mine
<1>1. q \in Requests /\ req[q] \in Request /\ req \in [Requests -> Request]
      /\ mine \in Columns /\ req[q].node \in RNodes /\ db \in Columns
  BY RequestType DEF Requests, TypeOK
<1>2. CASE ReadForRegister(q)
  <2>1. /\ Copied(EmptyColumns, db, "rnodes") \in Columns
        /\ Copied(mine, db, "regs") \in Columns
        /\ 1 \in RNodes /\ InstancesAt(mine, 1) \in SUBSET Instances
    BY <1>1, CopiedType, EmptyType, InstancesAtType, PlacementAssumption DEF RNodes
  <2>2. ASSUME req' = [req EXCEPT ![q].pc = "registerRegs",
                                  ![q].mine = Copied(EmptyColumns, db, "rnodes")]
        PROVE  req' \in [Requests -> Request]
    BY <1>1, <2>1, <2>2 DEF Request, Stages
  <2>3. ASSUME req' = [req EXCEPT ![q].pc = "registering", ![q].mine = Copied(@, db, "regs"),
                                  ![q].node = 1, ![q].left = InstancesAt(mine, 1)]
        PROVE  req' \in [Requests -> Request]
    BY <1>1, <2>1, <2>3 DEF Request, Stages
  <2>4. req' \in [Requests -> Request]
    BY <1>2, <2>2, <2>3 DEF ReadForRegister
  <2>5. QED
    BY <1>2, <2>4 DEF ReadForRegister, TypeOK, hosts, history, SH!HostTypeOK
<1>3. CASE NextNode(q)
  <2>1. CASE req[q].node < NumRNodes
    <3>1. req[q].node + 1 \in RNodes
      BY <1>1, <2>1, PlacementAssumption DEF RNodes
    <3>2. InstancesAt(mine, req[q].node + 1) \in SUBSET Instances
      BY <1>1, <3>1, InstancesAtType
    <3>3. req' \in [Requests -> Request]
      BY <1>1, <1>3, <2>1, <3>1, <3>2 DEF NextNode, Request
    <3>4. QED
      BY <1>3, <3>3 DEF NextNode, TypeOK, hosts, history, SH!HostTypeOK
  <2>2. CASE ~(req[q].node < NumRNodes)
    <3>1. req' \in [Requests -> Request]
      BY <1>1, <1>3, <2>2, GotoChanges, ChangesType DEF NextNode, Stages
    <3>2. QED
      BY <1>3, <3>1 DEF NextNode, TypeOK, hosts, history, SH!HostTypeOK
  <2>3. QED
    BY <2>1, <2>2
<1>4. CASE WriteRegistered(q)
  <2>1. db' \in Columns
    BY <1>1, <1>4, CopiedType DEF WriteRegistered
  <2>2. \A stage \in {"registeredRegs", "unlock"} :
           Goto(q, stage) => req' \in [Requests -> Request]
    BY <1>1, GotoChanges, ChangesType DEF Stages
  <2>3. req' \in [Requests -> Request]
    BY <1>4, <2>2 DEF WriteRegistered
  <2>4. QED
    BY <1>4, <2>1, <2>3 DEF WriteRegistered, TypeOK, hosts, history, SH!HostTypeOK
<1>5. ASSUME NEW i \in Instances, SkipKnown(q, i) \/ NoCidToRegister(q, i) PROVE TypeOK'
  <2>1. SkipKnown(q, i) => req' \in [Requests -> Request]
    BY <1>1 DEF SkipKnown, Request
  <2>2. NoCidToRegister(q, i) => req' \in [Requests -> Request]
    BY <1>1, ResetChanges, ChangesType DEF NoCidToRegister
  <2>3. QED
    BY <1>5, <2>1, <2>2 DEF SkipKnown, NoCidToRegister, TypeOK, hosts, history, SH!HostTypeOK
<1>6. QED
  BY <1>2, <1>3, <1>4, <1>5

LEMMA FaultType ==
    ASSUME faults \in 0 .. MaxFaults, Fault PROVE faults' \in 0 .. MaxFaults
  BY DeployAssumption DEF Fault

LEMMA FailingType ==
    ASSUME TypeOK, NEW q \in Deployers, Failing(q)
    PROVE  TypeOK'
<1>1. q \in Requests /\ req[q] \in Request /\ req \in [Requests -> Request]
  BY RequestType DEF Requests
<1>2. ASSUME NEW s \in SNodes, ShardFails(q, s) PROVE TypeOK'
  <2>1. <<q, s>> \in Tasks /\ Live(q, s) \in Connections
    BY ConnectionsType
  <2>2. faults' \in 0 .. MaxFaults
    BY <1>2, FaultType DEF ShardFails, TypeOK
  <2>3. SH!HostTypeOK'
    <3>1. CASE SetAdrift({<<q, s>>})
      BY <1>2, <3>1, AdriftType DEF ShardFails, TypeOK
    <3>2. CASE post' = [post EXCEPT ![Live(q, s)] = SH!NoPost]
      BY <1>2, <2>1, <3>2 DEF ShardFails, TypeOK, SH!HostTypeOK
    <3>3. QED
      BY <1>2, <3>1, <3>2 DEF ShardFails
  <2>4. QED
    BY <1>2, <2>1, <2>2, <2>3 DEF ShardFails, TypeOK
<1>3. ASSUME NEW s \in SNodes, IpfsFails(q, s) PROVE TypeOK'
  <2>1. <<q, s>> \in Tasks
    BY ConnectionsType
  <2>2. faults' \in 0 .. MaxFaults
    BY <1>3, FaultType DEF IpfsFails, TypeOK
  <2>3. QED
    BY <1>3, <2>1, <2>2 DEF IpfsFails, TypeOK, hosts, SH!HostTypeOK
<1>4. ASSUME NEW s \in SNodes, Orphaned(q, s) PROVE TypeOK'
  <2>1. SH!HostTypeOK'
    BY <1>4, HostStepActs, HostType DEF HostActs, TypeOK
  <2>2. QED
    BY <1>4, <2>1 DEF Orphaned, TypeOK, history
<1>5. ASSUME NEW i \in Instances, EntryFails(q, i) PROVE TypeOK'
  <2>1. faults' \in 0 .. MaxFaults
    BY <1>5, FaultType DEF EntryFails, TypeOK
  <2>2. held' \in [Regs -> [Deps -> SUBSET (SNodes \X Names)]]
    BY <1>5, StowedType DEF EntryFails, TypeOK
  <2>3. req' \in [Requests -> Request]
    BY <1>1, <1>5, ResetChanges, ChangesType DEF EntryFails
  <2>4. QED
    BY <1>5, <2>1, <2>2, <2>3 DEF EntryFails, TypeOK, hosts, SH!HostTypeOK
<1>6. CASE OptimizeRaises(q)
  <2>1. faults' \in 0 .. MaxFaults
    BY <1>6, FaultType DEF OptimizeRaises, TypeOK
  <2>2. req' \in [Requests -> Request]
    BY <1>1, <1>6, ResetChanges, ChangesType DEF OptimizeRaises
  <2>3. QED
    BY <1>6, <2>1, <2>2 DEF OptimizeRaises, TypeOK, hosts, SH!HostTypeOK
<1>7. QED
  BY <1>2, <1>3, <1>4, <1>5, <1>6 DEF Failing

LEMMA RestartType == TypeOK /\ Restart => TypeOK'
<1> SUFFICES ASSUME TypeOK, Restart PROVE TypeOK'
  OBVIOUS
<1>1. faults' \in 0 .. MaxFaults
  BY FaultType DEF Restart, TypeOK
<1>2. req' \in [Requests -> Request]
  BY IdleType DEF Restart
<1>3. thread' \in [Tasks -> {None, "running", "posting", "failed", "done"}]
  BY DEF Restart
<1>4. QED
  <2>1. SH!HostTypeOK'
    BY AdriftType DEF Restart, TypeOK
  <2>2. QED
    BY <1>1, <1>2, <1>3, <2>1 DEF Restart, TypeOK

LEMMA InitType == Init => TypeOK
<1> SUFFICES ASSUME Init PROVE TypeOK
  OBVIOUS
<1>1. db \in Columns /\ tmp \in Columns /\ out \in Columns
  BY EmptyType, DeployAssumption DEF Init, Columns
<1>2. req \in [Requests -> Request]
  BY IdleType DEF Init
<1>3. /\ made \in [Deps -> 0 .. MaxInstances]
      /\ deploys \in 0 .. MaxDeploys /\ faults \in 0 .. MaxFaults
  BY PlacementAssumption, DeployAssumption DEF Init
<1>4. SH!HostTypeOK
  BY DEF Init, SH!HostInit, SH!HostTypeOK, SH!NoPost
<1>5. QED
  BY <1>1, <1>2, <1>3, <1>4 DEF Init, TypeOK

LEMMA TypeStep == TypeOK /\ [Next]_vars => TypeOK'
<1> SUFFICES ASSUME TypeOK, [Next]_vars PROVE TypeOK'
  OBVIOUS
<1>1. ASSUME NEW q \in Deployers, Deploying(q) PROVE TypeOK'
  <2>1. SetLock(q) \/ Unlock(q) => TypeOK'
    BY LockType
  <2>2. ReadColumn(q) \/ LoadFile(q) \/ EmitFile(q) \/ TakeColumn(q) => TypeOK'
    BY ColumnType
  <2>3. SolveSimple(q) \/ Solve(q) \/ CreateMore(q) => TypeOK'
    BY SolveSimpleType, SolveType, CreateMoreType
  <2>4. StartThreads(q) \/ CollectResults(q) \/ PushRaises(q) => TypeOK'
    BY ThreadsType
  <2>5. Merge(q) \/ WriteMerged(q) => TypeOK'
    BY MergeType
  <2>6. ReadForRegister(q) \/ NextNode(q) \/ WriteRegistered(q) => TypeOK'
    BY RegisteringType
  <2>7. \A i \in Instances : SkipKnown(q, i) \/ NoCidToRegister(q, i) => TypeOK'
    BY RegisteringType
  <2>8. \A i \in Instances : PostEntry(q, i) => TypeOK'
    BY PostEntryType
  <2>9. QED
    BY <1>1, <2>1, <2>2, <2>3, <2>4, <2>5, <2>6, <2>7, <2>8 DEF Deploying
<1>2. CASE UNCHANGED vars
  BY <1>2 DEF vars, TypeOK, SH!HostTypeOK
<1>3. QED
  BY <1>1, <1>2, UploadType, PageType, TestLockType, FailingType, PushingType, RestartType DEF Next

\* Whatever requests do at once, the four columns, the files and the copies in the
\* requests stay well formed: each entry is about a piece of an instance of a
\* dependency and names a server node there is.
THEOREM TypeCorrect == Spec => []TypeOK
<1>1. QED
  BY InitType, TypeStep, PTL DEF Spec

-----------------------------------------------------------------------------
(***************************************************************************)
(* The lock.                                                                *)
(***************************************************************************)

\* LockHeld, and that a request about to set the lock is alone and finds it free:
\* what the test has seen is still so unless another request has come through.
LockInv ==
    ~raced => \A p \in Deployers :
                 /\ Inside(p) \/ At(p, "dead") => lock
                 /\ Inside(p) => \A q \in Deployers \ {p} : ~Inside(q) /\ ~At(q, "dead")
                 /\ At(p, "lock") => ~lock /\ \A q \in Deployers \ {p} : ~At(q, "lock")

Outside == {"idle", "upload", "edit"}

\* A request that is inside stays there or breaks off; no other one moves.
StaysInside(q) ==
    /\ Inside(q) /\ req'[q].pc \notin Outside \cup {"lock"}
    /\ \A p \in Requests \ {q} : req'[p].pc = req[p].pc
    /\ UNCHANGED <<lock, raced>>

\* No request moves in or out.
StaysOutside ==
    /\ \A p \in Requests : \/ req'[p].pc = req[p].pc
                           \/ req[p].pc \in Outside /\ req'[p].pc \in Outside
    /\ UNCHANGED <<lock, raced>>

LEMMA NextColumnStays ==
    ASSUME TypeOK, NEW q \in Requests, NEW following, NEW mine, NextColumn(q, following, mine)
    PROVE  /\ req'[q].pc \in {req[q].pc, following}
           /\ \A p \in Requests \ {q} : req'[p] = req[p]
  BY DEF NextColumn, TypeOK, Request

LEMMA GotoStays ==
    ASSUME TypeOK, NEW q \in Requests, NEW stage, Goto(q, stage)
    PROVE  /\ req'[q].pc = stage /\ \A p \in Requests \ {q} : req'[p] = req[p]
  BY DEF Goto, TypeOK, Request

LEMMA ColumnsStay ==
    ASSUME TypeOK, NEW q \in Deployers,
           ReadColumn(q) \/ LoadFile(q) \/ EmitFile(q) \/ TakeColumn(q)
    PROVE  StaysInside(q)
<1>1. q \in Requests
  BY DEF Requests
<1>2. CASE ReadColumn(q)
  BY <1>1, <1>2, NextColumnStays DEF ReadColumn, StaysInside, Outside, Inside, At, history
<1>3. CASE LoadFile(q)
  BY <1>1, <1>3, NextColumnStays DEF LoadFile, StaysInside, Outside, Inside, At, history
<1>4. CASE EmitFile(q)
  BY <1>1, <1>4, NextColumnStays DEF EmitFile, StaysInside, Outside, Inside, At, history
<1>5. CASE TakeColumn(q)
  BY <1>1, <1>5, NextColumnStays DEF TakeColumn, StaysInside, Outside, Inside, At, history
<1>6. QED
  BY <1>2, <1>3, <1>4, <1>5

LEMMA SolvingStays ==
    ASSUME TypeOK, NEW q \in Deployers, SolveSimple(q) \/ Solve(q) \/ CreateMore(q)
    PROVE  StaysInside(q)
<1>1. q \in Requests /\ req[q] \in Request /\ req \in [Requests -> Request]
  BY RequestType DEF Requests
<1>2. CASE SolveSimple(q)
  <2>1. ASSUME NEW k, NEW following \in {"emit", "take"}, Spread(q, k, following)
        PROVE  /\ req'[q].pc = following /\ \A p \in Requests \ {q} : req'[p] = req[p]
    <3> DEFINE mine == req[q].mine
               new == Fresh(mine.deps.known, k)
               pieces == (mine.deps.instances \cup new) \X Pieces
               anywhere == [n \in Names |-> SNodes]
    <3>1. PICK draw \in Draws :
            req' = [req EXCEPT
                ![q].pc = following,
                ![q].mine.deps.instances = @ \cup new,
                ![q].mine.rnodes = [r \in RNodes |-> NewTold(@[r], pieces, r, draw, anywhere)],
                ![q].mine.snodes = [s \in SNodes |-> NewHeld(@[s], pieces)]]
      BY <2>1 DEF Spread
    <3>2. QED
      BY <1>1, <3>1 DEF Request
  <2>2. QED
    BY <1>2, <2>1 DEF SolveSimple, StaysInside, Outside, Inside, At, history
<1>3. CASE Solve(q)
  <2>1. req'[q].pc = "emit" /\ \A p \in Requests \ {q} : req'[p] = req[p]
    <3> DEFINE mine == req[q].mine
    <3>1. PICK p \in Placements(mine.deps.known, mine.deps.instances), draw \in Draws :
            LET holders == [n \in Names |-> {s \in SNodes : n \in HeldPieces(p, s)}]
            IN req' = [req EXCEPT
                  ![q].pc = "emit",
                  ![q].mine.rnodes =
                      [r \in RNodes |-> NewTold(@[r], ToldPieces(p, r), r, draw, holders)],
                  ![q].mine.snodes = [s \in SNodes |-> NewHeld(@[s], HeldPieces(p, s))]]
      BY <1>3 DEF Solve
    <3>2. QED
      BY <1>1, <3>1 DEF Request
  <2>2. QED
    BY <1>3, <2>1 DEF Solve, StaysInside, Outside, Inside, At, history
<1>4. CASE CreateMore(q)
  <2>1. req'[q].pc = req[q].pc /\ \A p \in Requests \ {q} : req'[p] = req[p]
    BY <1>1, <1>4 DEF CreateMore, Request
  <2>2. QED
    BY <1>4, <2>1 DEF CreateMore, StaysInside, Outside, Inside, At, history
<1>5. QED
  BY <1>2, <1>3, <1>4

LEMMA ThreadsStay ==
    ASSUME TypeOK, NEW q \in Deployers, StartThreads(q) \/ CollectResults(q) \/ PushRaises(q)
    PROVE  StaysInside(q)
<1>1. q \in Requests /\ req[q] \in Request /\ req \in [Requests -> Request]
  BY RequestType DEF Requests
<1>2. CASE StartThreads(q)
  BY <1>1, <1>2 DEF StartThreads, StaysInside, Outside, Inside, At, history, Request
<1>3. CASE CollectResults(q)
  BY <1>1, <1>3 DEF CollectResults, StaysInside, Outside, Inside, At, history, Request
<1>4. CASE PushRaises(q)
  BY <1>1, <1>4, GotoStays DEF PushRaises, StaysInside, Outside, Inside, At, history
<1>5. QED
  BY <1>2, <1>3, <1>4

LEMMA MergeStays ==
    ASSUME TypeOK, NEW q \in Deployers, Merge(q) \/ WriteMerged(q)
    PROVE  StaysInside(q)
<1>1. q \in Requests /\ req[q] \in Request /\ req \in [Requests -> Request]
  BY RequestType DEF Requests
<1>2. CASE Merge(q)
  <2>1. Inside(q) /\ UNCHANGED <<lock, raced>>
    BY <1>2 DEF Merge, ReadForMerge, Inside, At, history
  <2>2. /\ req'[q].pc \in {"mergeSnodes", "dead", "mergeWrite"}
        /\ \A p \in Requests \ {q} : req'[p] = req[p]
    BY <1>1, <1>2, IdleType DEF Merge, ReadForMerge, Request
  <2>3. QED
    BY <2>1, <2>2 DEF StaysInside, Outside
<1>3. CASE WriteMerged(q)
  <2>1. Inside(q) /\ UNCHANGED <<lock, raced>>
    BY <1>3 DEF WriteMerged, Inside, At, history
  <2>2. /\ req'[q].pc \in {"mergeWriteSnodes", "register"}
        /\ \A p \in Requests \ {q} : req'[p] = req[p]
    BY <1>1, <1>3 DEF WriteMerged, Goto, Request
  <2>3. QED
    BY <2>1, <2>2 DEF StaysInside, Outside
<1>4. QED
  BY <1>2, <1>3

LEMMA RegisteringStays ==
    ASSUME TypeOK, NEW q \in Deployers,
           \/ ReadForRegister(q) \/ NextNode(q) \/ WriteRegistered(q)
           \/ \E i \in Instances : SkipKnown(q, i) \/ NoCidToRegister(q, i) \/ PostEntry(q, i)
    PROVE  StaysInside(q)
<1>1. q \in Requests /\ req[q] \in Request /\ req \in [Requests -> Request]
  BY RequestType DEF Requests
<1>2. Inside(q) /\ UNCHANGED <<lock, raced>>
  BY DEF ReadForRegister, NextNode, WriteRegistered, SkipKnown, NoCidToRegister, PostEntry,
         Inside, At, history
<1>3. CASE ReadForRegister(q)
  <2>1. /\ req'[q].pc \in {"registerRegs", "registering"}
        /\ \A p \in Requests \ {q} : req'[p] = req[p]
    BY <1>1, <1>3 DEF ReadForRegister, Request
  <2>2. QED
    BY <1>2, <2>1 DEF StaysInside, Outside
<1>4. CASE NextNode(q)
  <2>1. /\ req'[q].pc \in {"registering", "registered"}
        /\ \A p \in Requests \ {q} : req'[p] = req[p]
    BY <1>1, <1>4 DEF NextNode, Goto, At, Request
  <2>2. QED
    BY <1>2, <2>1 DEF StaysInside, Outside
<1>5. CASE WriteRegistered(q)
  <2>1. /\ req'[q].pc \in {"registeredRegs", "unlock"}
        /\ \A p \in Requests \ {q} : req'[p] = req[p]
    BY <1>1, <1>5 DEF WriteRegistered, Goto, Request
  <2>2. QED
    BY <1>2, <2>1 DEF StaysInside, Outside
<1>6. ASSUME NEW i \in Instances, SkipKnown(q, i) \/ NoCidToRegister(q, i) \/ PostEntry(q, i)
      PROVE  StaysInside(q)
  <2>1. /\ req'[q].pc \in {"registering", "dead"}
        /\ \A p \in Requests \ {q} : req'[p] = req[p]
    <3>1. CASE SkipKnown(q, i)
      BY <1>1, <3>1 DEF SkipKnown, At, Request
    <3>2. CASE NoCidToRegister(q, i)
      BY <1>1, <3>2, IdleType DEF NoCidToRegister, Request
    <3>3. CASE PostEntry(q, i)
      BY <1>1, <3>3 DEF PostEntry, At, Request
    <3>4. QED
      BY <1>6, <3>1, <3>2, <3>3
  <2>2. QED
    BY <1>2, <2>1 DEF StaysInside, Outside
<1>7. QED
  BY <1>3, <1>4, <1>5, <1>6

LEMMA OutsideStays ==
    /\ TypeOK => \A q \in Uploaders :
          ReadForUpload(q) \/ (\E d \in Deps : WriteUpload(q, d)) => StaysOutside
    /\ TypeOK => \A q \in Editors :
          PostPage(q) \/ (\E c \in EditColumns : ShowPage(q, c)) => StaysOutside
<1> SUFFICES ASSUME TypeOK
             PROVE  /\ \A q \in Uploaders :
                          /\ ReadForUpload(q) => StaysOutside
                          /\ \A d \in Deps : WriteUpload(q, d) => StaysOutside
                    /\ \A q \in Editors :
                          /\ PostPage(q) => StaysOutside
                          /\ \A c \in EditColumns : ShowPage(q, c) => StaysOutside
  OBVIOUS
<1>1. req \in [Requests -> Request] /\ Idle.pc = "idle"
  BY DEF TypeOK, Idle
<1>2. ASSUME NEW q \in Uploaders PROVE ReadForUpload(q) => StaysOutside
  BY <1>1 DEF ReadForUpload, StaysOutside, Outside, Requests, Request, At, history
<1>3. ASSUME NEW q \in Uploaders, NEW d \in Deps PROVE WriteUpload(q, d) => StaysOutside
  BY <1>1 DEF WriteUpload, StaysOutside, Outside, Requests, Request, At
<1>4. ASSUME NEW q \in Editors PROVE PostPage(q) => StaysOutside
  BY <1>1 DEF PostPage, StaysOutside, Outside, Requests, Request, At
<1>5. ASSUME NEW q \in Editors, NEW c \in EditColumns PROVE ShowPage(q, c) => StaysOutside
  BY <1>1 DEF ShowPage, StaysOutside, Outside, Requests, Request, At, history
<1>6. QED
  BY <1>2, <1>3, <1>4, <1>5

LEMMA PushingStays ==
    ASSUME TypeOK, NEW q \in Deployers, NEW s \in SNodes,
           Pushing(q, s) \/ ShardFails(q, s) \/ IpfsFails(q, s) \/ Orphaned(q, s)
    PROVE  StaysOutside
<1>1. req \in [Requests -> Request]
  BY DEF TypeOK
<1>2. UNCHANGED <<lock, raced>>
  BY DEF Pushing, TaskStep, PostShard, ShardAnswered, HostStep, PushIpfs, ThreadEnds, ShardFails,
         IpfsFails, Orphaned, Posted, history
<1>3. CASE ShardAnswered(q, s) \/ PushIpfs(q, s)
  <2>1. \A p \in Requests : req'[p].pc = req[p].pc
    BY <1>1, <1>3 DEF ShardAnswered, PushIpfs, Posted, Request
  <2>2. QED
    BY <1>2, <2>1 DEF StaysOutside
<1>4. CASE UNCHANGED req
  BY <1>2, <1>4 DEF StaysOutside
<1>5. QED
  BY <1>3, <1>4 DEF Pushing, TaskStep, PostShard, HostStep, ThreadEnds, ShardFails, IpfsFails,
       Orphaned

LEMMA FailingStays ==
    ASSUME TypeOK, NEW q \in Deployers,
           OptimizeRaises(q) \/ \E i \in Instances : EntryFails(q, i)
    PROVE  StaysInside(q)
<1>1. q \in Requests /\ req \in [Requests -> Request]
  BY DEF TypeOK, Requests
<1>2. req'[q].pc = "dead" /\ \A p \in Requests \ {q} : req'[p] = req[p]
  BY <1>1 DEF OptimizeRaises, EntryFails, Idle
<1>3. Inside(q) /\ UNCHANGED <<lock, raced>>
  BY DEF OptimizeRaises, EntryFails, Inside, At
<1>4. QED
  BY <1>2, <1>3 DEF StaysInside, Outside

\* A request is inside, broken off or at the gap as before.
SamePlace(p) ==
    /\ Inside(p)' <=> Inside(p)
    /\ At(p, "dead")' <=> At(p, "dead")
    /\ At(p, "lock")' <=> At(p, "lock")

LEMMA LockStays ==
    ASSUME LockInv, StaysOutside \/ \E q \in Deployers : StaysInside(q)
    PROVE  LockInv'
<1>1. Deployers \subseteq Requests
  BY DEF Requests
<1>2. CASE StaysOutside
  <2>1. \A p \in Deployers : SamePlace(p)
    BY <1>1, <1>2 DEF StaysOutside, Outside, SamePlace, Inside, At
  <2>2. UNCHANGED <<lock, raced>>
    BY <1>2 DEF StaysOutside
  <2>3. QED
    BY <2>1, <2>2 DEF LockInv, SamePlace
<1>3. ASSUME NEW q \in Deployers, StaysInside(q) PROVE LockInv'
  <2>1. \A p \in Deployers \ {q} : SamePlace(p)
    BY <1>1, <1>3 DEF StaysInside, SamePlace, Inside, At
  <2>2. Inside(q) /\ ~At(q, "lock")' /\ ~At(q, "lock")
    BY <1>3 DEF StaysInside, Inside, At
  <2>3. UNCHANGED <<lock, raced>>
    BY <1>3 DEF StaysInside
  <2>4. QED
    BY <2>1, <2>2, <2>3 DEF LockInv, SamePlace
<1>4. QED
  BY <1>2, <1>3

LEMMA LockStep == TypeOK /\ LockInv /\ [Next]_vars => LockInv'
<1> SUFFICES ASSUME TypeOK, LockInv, [Next]_vars PROVE LockInv'
  OBVIOUS
<1>1. req \in [Requests -> Request] /\ Deployers \subseteq Requests
  BY DEF TypeOK, Requests
<1>2. ASSUME NEW q \in Deployers, NEW k \in Kinds, TestLock(q, k) PROVE LockInv'
  <2>1. /\ ~lock /\ ~lock' /\ req'[q].pc = "lock" /\ At(q, "idle")
        /\ \A p \in Requests \ {q} : req'[p] = req[p]
        /\ raced' = (raced \/ \E p \in Deployers : At(p, "lock"))
    BY <1>1, <1>2 DEF TestLock, Request
  <2>2. QED
    BY <1>1, <2>1 DEF LockInv, Inside, At
<1>3. ASSUME NEW q \in Deployers, SetLock(q) PROVE LockInv'
  <2>1. /\ lock' /\ raced' = raced /\ req'[q].pc = "read" /\ At(q, "lock")
        /\ \A p \in Requests \ {q} : req'[p] = req[p]
    BY <1>1, <1>3, GotoStays DEF SetLock, history
  <2>2. QED
    BY <1>1, <2>1 DEF LockInv, Inside, At
<1>4. ASSUME NEW q \in Deployers, Unlock(q) PROVE LockInv'
  <2>1. /\ ~lock' /\ raced' = raced /\ req'[q].pc = "idle" /\ Inside(q)
        /\ \A p \in Requests \ {q} : req'[p] = req[p]
    BY <1>1, <1>4 DEF Unlock, history, Idle, Inside, At
  <2>2. QED
    BY <1>1, <2>1 DEF LockInv, Inside, At
<1>5. CASE Restart
  <2>1. ~lock' /\ \A p \in Requests : req'[p].pc = "idle"
    BY <1>5 DEF Restart, Idle
  <2>2. QED
    BY <1>1, <2>1 DEF LockInv, Inside, At
<1>6. ASSUME NEW q \in Deployers, Deploying(q) PROVE LockInv'
  <2>1. SetLock(q) \/ Unlock(q) \/ StaysInside(q)
    BY <1>6, ColumnsStay, SolvingStays, ThreadsStay, MergeStays, RegisteringStays DEF Deploying
  <2>2. QED
    BY <1>3, <1>4, <2>1, LockStays
<1>7. ASSUME NEW q \in Deployers, Failing(q) PROVE LockInv'
  BY <1>7, PushingStays, FailingStays, LockStays DEF Failing
<1>8. ASSUME NEW q \in Deployers, NEW s \in SNodes, Pushing(q, s) PROVE LockInv'
  BY <1>8, PushingStays, LockStays
<1>9. CASE UNCHANGED vars
  BY <1>9 DEF vars, LockInv, Inside, At
<1>10. QED
  BY <1>2, <1>5, <1>6, <1>7, <1>8, <1>9, OutsideStays, LockStays DEF Next

LEMMA LockInit == Init => LockInv
  BY DEF Init, LockInv, Inside, At, Idle, Requests

\* However many requests are made and whatever fails: as long as no second request
\* passes the test of deploy_lock before the first one has set it, no two
\* deployments run at once, and a deployment that broke off keeps the lock.
THEOREM LockIsHeld == Spec => []LockHeld
<1>1. LockInv => LockHeld
  BY DEF LockInv, LockHeld
<1>2. QED
  BY <1>1, LockInit, InitType, TypeStep, LockStep, PTL DEF Spec

-----------------------------------------------------------------------------
(***************************************************************************)
(* The shard hosts.                                                         *)
(***************************************************************************)

\* A file written in part that is excused stays so unless the file, its writer or
\* the record of what broke off changes.
LEMMA HostExcused ==
    ASSUME SH!HostTypeOK, SH!CutIsExcused, NEW c \in Connections,
           \/ SH!Check(c) \/ SH!Open(c) \/ SH!Write(c) \/ SH!Conflict(c) \/ SH!Sever(c)
    PROVE  SH!CutIsExcused'
<1>1. post[c] \in SH!Post
  BY DEF SH!HostTypeOK, SH!Check, SH!Open, SH!Write, SH!Conflict, SH!Sever, SH!Serving
<1>2. post[c].host \in SNodes /\ post[c].name \in Names /\ post[c] # SH!NoPost
  BY <1>1 DEF SH!Post, SH!NoPost
<1>3. SUFFICES ASSUME NEW h \in SNodes, NEW n \in Names, file'[h][n] = "cut"
               PROVE  \/ <<h, n>> \in severed'
                      \/ \E d \in Connections :
                            /\ post'[d] # SH!NoPost /\ post'[d].pc = "write"
                            /\ post'[d].host = h /\ post'[d].name = n
  BY DEF SH!CutIsExcused, SH!Excused, SH!Serving
<1>4. file[h][n] = "cut" =>
         \/ <<h, n>> \in severed
         \/ \E d \in Connections : /\ post[d] # SH!NoPost /\ post[d].pc = "write"
                                 /\ post[d].host = h /\ post[d].name = n
  BY DEF SH!CutIsExcused, SH!Excused, SH!Serving
<1>5. CASE SH!Check(c) \/ SH!Conflict(c)
  <2>1. /\ UNCHANGED <<file, severed>> /\ post[c].pc = "check"
        /\ \A d \in Connections \ {c} : post'[d] = post[d]
    BY <1>5 DEF SH!Check, SH!Conflict, SH!Close, SH!Serving, SH!HostTypeOK
  <2>2. QED
    BY <1>3, <1>4, <2>1
<1>6. CASE SH!Open(c)
  <2>1. /\ UNCHANGED severed /\ post[c].pc = "open"
        /\ post'[c] # SH!NoPost /\ post'[c].pc = "write"
        /\ post'[c].host = post[c].host /\ post'[c].name = post[c].name
        /\ \A d \in Connections \ {c} : post'[d] = post[d]
    BY <1>1, <1>2, <1>6 DEF SH!Open, SH!Serving, SH!HostTypeOK, SH!Post, SH!NoPost
  <2>2. file' = [file EXCEPT ![post[c].host][post[c].name] = "cut"]
    BY <1>6 DEF SH!Open
  <2>3. CASE post[c].host = h /\ post[c].name = n
    BY <2>1, <2>3
  <2>4. CASE ~(post[c].host = h /\ post[c].name = n)
    BY <1>2, <1>3, <1>4, <2>1, <2>2, <2>4 DEF SH!HostTypeOK
  <2>5. QED
    BY <2>3, <2>4
<1>7. CASE SH!Write(c)
  <2>1. /\ UNCHANGED severed /\ \A d \in Connections \ {c} : post'[d] = post[d]
        /\ file' = [file EXCEPT ![post[c].host][post[c].name] = "whole"]
    BY <1>7 DEF SH!Write, SH!Close, SH!HostTypeOK
  <2>2. file[h][n] = "cut" /\ ~(post[c].host = h /\ post[c].name = n)
    BY <1>2, <1>3, <2>1 DEF SH!HostTypeOK
  <2>3. QED
    BY <1>4, <2>1, <2>2
<1>8. CASE SH!Sever(c)
  <2>1. /\ UNCHANGED file /\ \A d \in Connections \ {c} : post'[d] = post[d]
        /\ severed' = severed \cup {<<post[c].host, post[c].name>>}
    BY <1>8 DEF SH!Sever, SH!Close, SH!HostTypeOK
  <2>2. QED
    BY <1>3, <1>4, <2>1
<1>9. QED
  BY <1>5, <1>6, <1>7, <1>8

\* Connections that lose their client in failures to come are not in use.
Unused == \A c \in Connections : c[3] > faults => post[c] = SH!NoPost

\* What hosts work on when clients are gone, they work on all the same.
LEMMA AdriftGoesOn ==
    ASSUME TypeOK, Unused, NEW tasks, Fault, SetAdrift(tasks)
    PROVE  /\ \A c \in Connections : post[c] # SH!NoPost =>
                 \E d \in Connections : post'[d] = post[c]
           /\ Unused'
<1>1. faults \in Nat /\ faults + 1 \in 1 .. MaxFaults /\ faults' = faults + 1
  BY DeployAssumption DEF Fault, TypeOK
<1>2. ASSUME NEW c \in Connections, post[c] # SH!NoPost
      PROVE  \E d \in Connections : post'[d] = post[c]
  <2>1. c[1] \in Deployers /\ c[2] \in SNodes /\ c[3] \in 0 .. MaxFaults /\ c = <<c[1], c[2], c[3]>>
    BY DEF Connections
  <2>2. c[3] # faults + 1
    BY <1>1, <1>2, <2>1 DEF Unused
  <2>3. CASE c[3] = 0 /\ <<c[1], c[2]>> \in tasks
    <3> DEFINE d == <<c[1], c[2], faults + 1>>
    <3>1. d \in Connections /\ d[1] = c[1] /\ d[2] = c[2] /\ d[3] = faults + 1 /\ d[3] # 0
      <4>1. <<c[1], c[2], faults + 1>> \in Connections
        BY <1>1, <2>1, ConnectionsType
      <4>2. d[1] = c[1] /\ d[2] = c[2] /\ d[3] = faults + 1
        OBVIOUS
      <4>3. faults + 1 # 0
        BY <1>1
      <4>4. QED
        BY <4>1, <4>2, <4>3
    <3>2. Live(c[1], c[2]) = c
      BY <2>1, <2>3 DEF Live
    <3> HIDE DEF d
    <3>3. post'[d] = post[c]
      BY <2>3, <3>1, <3>2 DEF SetAdrift
    <3>4. QED
      BY <3>1, <3>3
  <2>4. CASE ~(c[3] = 0 /\ <<c[1], c[2]>> \in tasks)
    BY <2>2, <2>4 DEF SetAdrift
  <2>5. QED
    BY <2>3, <2>4
<1>3. ASSUME NEW c \in Connections, c[3] > faults + 1 PROVE post'[c] = SH!NoPost
  <2>1. c[3] \in Nat /\ c[3] # 0 /\ c[3] # faults + 1 /\ c[3] > faults
    BY <1>1, <1>3, ConnectionsType
  <2>2. post'[c] = post[c]
    BY <2>1 DEF SetAdrift
  <2>3. QED
    BY <2>1, <2>2 DEF Unused
<1>4. QED
  BY <1>1, <1>2, <1>3 DEF Unused

\* Where nothing changes but the requests that hosts work on, of which those that
\* are being written go on.
LEMMA StillExcused ==
    ASSUME SH!CutIsExcused, UNCHANGED <<file, severed>>,
           \A c \in Connections : post[c] # SH!NoPost /\ post[c].pc = "write" =>
              \E d \in Connections : post'[d] = post[c]
    PROVE  SH!CutIsExcused'
  BY DEF SH!CutIsExcused, SH!Excused, SH!Serving, SH!NoPost

LEMMA ExcusedStep == TypeOK /\ Unused /\ CutIsExcused /\ [Next]_vars => CutIsExcused' /\ Unused'
<1> SUFFICES ASSUME TypeOK, Unused, SH!CutIsExcused, [Next]_vars
             PROVE  SH!CutIsExcused' /\ Unused'
  BY DEF CutIsExcused
<1> DEFINE Kept == SH!CutIsExcused' /\ Unused'
<1>1. SH!HostTypeOK /\ faults \in Nat
  BY DeployAssumption DEF TypeOK
<1>2. ASSUME UNCHANGED hosts, faults' = faults \/ Fault PROVE Kept
  <2>1. SH!CutIsExcused'
    BY <1>2 DEF hosts, SH!CutIsExcused, SH!Excused, SH!Serving
  <2>2. \A c \in Connections : c[3] > faults' => c[3] > faults
    BY <1>1, <1>2, ConnectionsType DEF Fault
  <2>3. QED
    BY <1>2, <2>1, <2>2 DEF hosts, Unused
<1>3. ASSUME NEW c \in Connections, HostActs(c), faults' = faults PROVE Kept
  <2>1. post[c] # SH!NoPost /\ \A d \in Connections \ {c} : post'[d] = post[d]
    BY <1>1, <1>3 DEF HostActs, SH!Check, SH!Open, SH!Write, SH!Conflict, SH!Sever, SH!Serving,
         SH!Close, SH!HostTypeOK
  <2>2. QED
    BY <1>1, <1>3, <2>1, HostExcused DEF HostActs, Unused
<1>4. ASSUME NEW q \in Deployers, NEW s \in SNodes, Pushing(q, s) \/ Orphaned(q, s)
      PROVE  Kept
  <2>1. Live(q, s) \in Connections /\ ~(Live(q, s)[3] > faults)
    <3>1. Live(q, s) \in Connections /\ Live(q, s)[3] = 0
      BY ConnectionsType
    <3>2. ~(0 > faults)
      BY <1>1
    <3>3. QED
      BY <3>1, <3>2
  <2>2. faults' = faults
    BY <1>4 DEF Pushing, TaskStep, PostShard, ShardAnswered, HostStep, PushIpfs, ThreadEnds, Orphaned,
         history
  <2>3. CASE PostShard(q, s)
    <3>1. /\ UNCHANGED <<file, severed>> /\ post[Live(q, s)] = SH!NoPost
          /\ \A d \in Connections \ {Live(q, s)} : post'[d] = post[d]
      BY <1>1, <2>1, <2>3 DEF PostShard, SH!Receive, SH!HostTypeOK
    <3>2. SH!CutIsExcused'
      BY <3>1, StillExcused
    <3>3. Unused'
      BY <2>1, <2>2, <3>1 DEF Unused
    <3>4. QED
      BY <3>2, <3>3
  <2>4. CASE PushIpfs(q, s)
    <3>1. /\ UNCHANGED <<post, severed>>
          /\ \A h \in SNodes, n \in Names : file'[h][n] \in {file[h][n], "whole"}
      BY <1>1, <2>4 DEF PushIpfs, SH!HostTypeOK
    <3>2. SH!CutIsExcused'
      BY <3>1 DEF SH!CutIsExcused, SH!Excused, SH!Serving
    <3>3. QED
      BY <2>2, <3>1, <3>2 DEF Unused
  <2>5. CASE ShardAnswered(q, s) \/ HostStep(q, s) \/ Orphaned(q, s)
    <3>1. \E c \in Connections : HostActs(c)
      BY <2>1, <2>5, HostStepActs DEF ShardAnswered, HostActs
    <3>2. QED
      BY <1>3, <2>2, <3>1
  <2>6. CASE ThreadEnds(q, s)
    BY <1>2, <2>2, <2>6 DEF ThreadEnds
  <2>7. QED
    BY <1>4, <2>3, <2>4, <2>5, <2>6 DEF Pushing, TaskStep
<1>5. ASSUME NEW tasks, Fault, SetAdrift(tasks), UNCHANGED <<file, severed>> PROVE Kept
  BY <1>5, AdriftGoesOn, StillExcused
<1>6. ASSUME NEW q \in Deployers, NEW s \in SNodes, ShardFails(q, s) PROVE Kept
  <2>1. CASE SetAdrift({<<q, s>>})
    BY <1>5, <1>6, <2>1 DEF ShardFails
  <2>2. CASE /\ post[Live(q, s)].pc = "check"
             /\ post' = [post EXCEPT ![Live(q, s)] = SH!NoPost]
    <3>1. Live(q, s) \in Connections
      BY ConnectionsType
    <3>2. /\ \A d \in Connections \ {Live(q, s)} : post'[d] = post[d]
          /\ post'[Live(q, s)] = SH!NoPost
      BY <1>1, <2>2, <3>1 DEF SH!HostTypeOK
    <3>3. SH!CutIsExcused'
      BY <1>6, <2>2, <3>2, StillExcused DEF ShardFails
    <3>4. \A c \in Connections : c[3] > faults' => c[3] > faults
      BY <1>1, <1>6, ConnectionsType DEF ShardFails, Fault
    <3>5. QED
      BY <3>2, <3>3, <3>4 DEF Unused
  <2>3. QED
    BY <1>6, <2>1, <2>2 DEF ShardFails
<1>7. ASSUME NEW q \in Deployers, Deploying(q) PROVE UNCHANGED <<hosts, faults>>
  BY <1>7 DEF Deploying, SetLock, ReadColumn, LoadFile, SolveSimple, Solve, CreateMore, EmitFile,
       TakeColumn, StartThreads, CollectResults, PushRaises, Merge, WriteMerged, ReadForRegister,
       SkipKnown, NoCidToRegister, PostEntry, NextNode, WriteRegistered, Unlock, history
<1>8. ASSUME NEW q \in Deployers, Failing(q) PROVE Kept
  BY <1>2, <1>4, <1>6, <1>8 DEF Failing, IpfsFails, EntryFails, OptimizeRaises
<1>9. CASE UNCHANGED vars
  BY <1>2, <1>9 DEF vars, hosts
<1>10. CASE Restart
  BY <1>5, <1>10 DEF Restart
<1>11. ASSUME NEW q, NEW d, NEW c, NEW k,
             \/ ReadForUpload(q) \/ WriteUpload(q, d) \/ PostPage(q) \/ ShowPage(q, c)
             \/ TestLock(q, k)
      PROVE  UNCHANGED <<hosts, faults>>
  BY <1>11 DEF ReadForUpload, WriteUpload, PostPage, ShowPage, TestLock, hosts, history
<1>12. CASE Next
  <2>1. CASE \E q \in Deployers : Deploying(q) \/ Failing(q)
    BY <1>2, <1>7, <1>8, <2>1
  <2>2. CASE \E q \in Deployers, s \in SNodes : Pushing(q, s)
    BY <1>4, <2>2
  <2>3. CASE Restart
    BY <1>10, <2>3
  <2>4. CASE \/ \E q \in Uploaders : ReadForUpload(q) \/ \E d \in Deps : WriteUpload(q, d)
             \/ \E q \in Editors : PostPage(q) \/ \E c \in EditColumns : ShowPage(q, c)
             \/ \E q \in Deployers, k \in Kinds : TestLock(q, k)
    BY <1>2, <1>11, <2>4
  <2>5. QED
    BY <1>12, <2>1, <2>2, <2>3, <2>4 DEF Next
<1>13. QED
  BY <1>9, <1>12

LEMMA ExcusedInit == Init => CutIsExcused /\ Unused
<1>1. Init => CutIsExcused
  BY DEF Init, SH!HostInit, CutIsExcused, SH!CutIsExcused
<1>2. Init => Unused
  BY DEF Init, SH!HostInit, Unused
<1>3. QED
  BY <1>1, <1>2

\* Whichever threads of a host work on the same name at once, and whatever breaks
\* off: a file that is there in part is being written, or its writing was cut.
THEOREM CutFilesAreExcused == Spec => []CutIsExcused
  BY ExcusedInit, InitType, TypeStep, ExcusedStep, PTL DEF Spec

-----------------------------------------------------------------------------
(***************************************************************************)
(* Pushed shards are at their hosts.                                        *)
(***************************************************************************)

\* PushedIsThere for the shards of the server nodes in any copy of the columns.
Pushed(snodes) ==
    \A s \in SNodes : \A e \in snodes[s] : e.pushed => file[s][e.piece] # "absent"

\* It holds for every copy there is: a stale one can be written back at any time.
\* A task's request is at the node the task is for.
PushInv ==
    /\ Pushed(db.snodes) /\ Pushed(tmp.snodes) /\ Pushed(out.snodes)
    /\ \A q \in Requests : Pushed(req[q].mine.snodes)
    /\ \A c \in Connections : post[c] # SH!NoPost => post[c].host = c[2]

\* The copies there are.
Copies ==
    {EmptyColumns.snodes, db.snodes, tmp.snodes, out.snodes}
        \cup {req[q].mine.snodes : q \in Requests}

\* A step that only passes copies on.
PassesOn ==
    /\ db'.snodes \in Copies /\ tmp'.snodes \in Copies /\ out'.snodes \in Copies
    /\ \A q \in Requests : req'[q].mine.snodes \in Copies
    /\ UNCHANGED hosts

LEMMA PassedOn == PushInv /\ PassesOn => PushInv'
<1> SUFFICES ASSUME PushInv, PassesOn PROVE PushInv'
  OBVIOUS
<1>1. Pushed(EmptyColumns.snodes)
  BY DEF Pushed, EmptyColumns
<1>2. \A x \in Copies : Pushed(x)
  BY <1>1 DEF Copies, PushInv
<1>3. file' = file /\ post' = post
  BY DEF PassesOn, hosts
<1>4. \A x : Pushed(x) => \A s \in SNodes : \A e \in x[s] : e.pushed => file'[s][e.piece] # "absent"
  BY <1>3 DEF Pushed
<1>5. QED
  BY <1>2, <1>3, <1>4 DEF PushInv, PassesOn, Pushed

LEMMA CopiedCopies ==
    ASSUME NEW to \in Columns, NEW from \in Columns, NEW c
    PROVE  Copied(to, from, c).snodes \in {to.snodes, from.snodes}
  BY DEF Copied, Columns

LEMMA CopiesThere ==
    ASSUME TypeOK, NEW q \in Requests
    PROVE  /\ {EmptyColumns.snodes, db.snodes, tmp.snodes, out.snodes} \subseteq Copies
           /\ req[q].mine.snodes \in Copies
           /\ \A p \in Requests : req[p].mine.snodes \in Copies
           /\ Idle.mine = EmptyColumns
           /\ \A c : /\ Copied(EmptyColumns, db, c).snodes \in Copies
                    /\ Copied(req[q].mine, db, c).snodes \in Copies
                    /\ Copied(db, req[q].mine, c).snodes \in Copies
                    /\ Copied(tmp, db, c).snodes \in Copies
                    /\ Copied(req[q].mine, tmp, c).snodes \in Copies
                    /\ Copied(out, req[q].mine, c).snodes \in Copies
                    /\ Copied(db, out, c).snodes \in Copies
<1>1. db \in Columns /\ tmp \in Columns /\ out \in Columns /\ req[q].mine \in Columns
      /\ EmptyColumns \in Columns
  BY RequestType, EmptyType DEF TypeOK
<1>2. QED
  BY <1>1, CopiedCopies DEF Copies, Idle

LEMMA UploadPassesOn ==
    /\ TypeOK => \A q \in Uploaders :
          ReadForUpload(q) \/ (\E d \in Deps : WriteUpload(q, d)) => PassesOn
    /\ TypeOK => \A q \in Editors :
          PostPage(q) \/ (\E c \in EditColumns : ShowPage(q, c)) => PassesOn
<1> SUFFICES ASSUME TypeOK
             PROVE  /\ \A q \in Uploaders :
                          /\ ReadForUpload(q) => PassesOn
                          /\ \A d \in Deps : WriteUpload(q, d) => PassesOn
                    /\ \A q \in Editors :
                          /\ PostPage(q) => PassesOn
                          /\ \A c \in EditColumns : ShowPage(q, c) => PassesOn
  OBVIOUS
<1>1. req \in [Requests -> Request] /\ db \in Columns
  BY DEF TypeOK
<1>2. ASSUME NEW q \in Uploaders PROVE ReadForUpload(q) => PassesOn
  BY <1>1, CopiesThere DEF ReadForUpload, PassesOn, Requests, Request
<1>3. ASSUME NEW q \in Uploaders, NEW d \in Deps PROVE WriteUpload(q, d) => PassesOn
  BY <1>1, CopiesThere DEF WriteUpload, PassesOn, Requests, Request, Columns
<1>4. ASSUME NEW q \in Editors PROVE PostPage(q) => PassesOn
  BY <1>1, CopiesThere DEF PostPage, PassesOn, Requests, Request
<1>5. ASSUME NEW q \in Editors, NEW c \in EditColumns PROVE ShowPage(q, c) => PassesOn
  BY <1>1, CopiesThere DEF ShowPage, PassesOn, Requests, Request
<1>6. QED
  BY <1>2, <1>3, <1>4, <1>5

LEMMA ColumnsPassOn ==
    ASSUME TypeOK, NEW q \in Deployers,
           ReadColumn(q) \/ LoadFile(q) \/ EmitFile(q) \/ TakeColumn(q)
    PROVE  PassesOn
<1>1. q \in Requests /\ req \in [Requests -> Request]
  BY DEF Requests, TypeOK
<1>2. ASSUME NEW following, NEW mine, NextColumn(q, following, mine), mine.snodes \in Copies
      PROVE  \A p \in Requests : req'[p].mine.snodes \in Copies
  BY <1>1, <1>2, CopiesThere DEF NextColumn, Request
<1>3. CASE ReadColumn(q)
  <2>1. \A p \in Requests : req'[p].mine.snodes \in Copies
    BY <1>1, <1>2, <1>3, CopiesThere DEF ReadColumn
  <2>2. QED
    BY <1>1, <1>3, <2>1, CopiesThere DEF ReadColumn, PassesOn
<1>4. CASE LoadFile(q)
  <2>1. \A p \in Requests : req'[p].mine.snodes \in Copies
    BY <1>1, <1>2, <1>4, CopiesThere DEF LoadFile
  <2>2. QED
    BY <1>1, <1>4, <2>1, CopiesThere DEF LoadFile, PassesOn
<1>5. CASE EmitFile(q)
  <2>1. \A p \in Requests : req'[p].mine.snodes \in Copies
    BY <1>1, <1>2, <1>5, CopiesThere DEF EmitFile
  <2>2. QED
    BY <1>1, <1>5, <2>1, CopiesThere DEF EmitFile, PassesOn
<1>6. CASE TakeColumn(q)
  <2>1. \A p \in Requests : req'[p].mine.snodes \in Copies
    BY <1>1, <1>2, <1>6, CopiesThere DEF TakeColumn
  <2>2. QED
    BY <1>1, <1>6, <2>1, CopiesThere DEF TakeColumn, PassesOn
<1>7. QED
  BY <1>3, <1>4, <1>5, <1>6

LEMMA LocksPassOn ==
    ASSUME TypeOK, NEW q \in Deployers, NEW k,
           \/ TestLock(q, k) \/ SetLock(q) \/ Unlock(q)
           \/ PushRaises(q) \/ NextNode(q) \/ OptimizeRaises(q)
           \/ \E i \in Instances : SkipKnown(q, i) \/ NoCidToRegister(q, i) \/ EntryFails(q, i)
    PROVE  PassesOn
<1>1. q \in Requests /\ req \in [Requests -> Request]
  BY DEF Requests, TypeOK
<1>2. CASE TestLock(q, k) \/ SetLock(q) \/ PushRaises(q) \/ NextNode(q)
           \/ \E i \in Instances : SkipKnown(q, i)
  <2>1. \A p \in Requests : req'[p].mine = req[p].mine
    BY <1>1, <1>2 DEF TestLock, SetLock, PushRaises, NextNode, SkipKnown, Goto, Request
  <2>2. UNCHANGED <<db, tmp, out, hosts>>
    BY <1>2 DEF TestLock, SetLock, PushRaises, NextNode, SkipKnown
  <2>3. QED
    BY <1>1, <2>1, <2>2, CopiesThere DEF PassesOn
<1>3. CASE Unlock(q) \/ OptimizeRaises(q)
           \/ \E i \in Instances : NoCidToRegister(q, i) \/ EntryFails(q, i)
  <2>1. \A p \in Requests : req'[p].mine \in {req[p].mine, EmptyColumns}
    BY <1>1, <1>3 DEF Unlock, OptimizeRaises, NoCidToRegister, EntryFails, Idle
  <2>2. UNCHANGED <<db, tmp, out, hosts>>
    BY <1>3 DEF Unlock, OptimizeRaises, NoCidToRegister, EntryFails
  <2>3. QED
    BY <1>1, <2>1, <2>2, CopiesThere DEF PassesOn
<1>4. QED
  BY <1>2, <1>3

LEMMA WritesPassOn ==
    ASSUME TypeOK, NEW q \in Deployers,
           \/ StartThreads(q) \/ CollectResults(q) \/ Merge(q) \/ WriteMerged(q)
           \/ ReadForRegister(q) \/ WriteRegistered(q)
           \/ CreateMore(q) \/ \E i \in Instances : PostEntry(q, i)
    PROVE  PassesOn
<1>1. q \in Requests /\ req \in [Requests -> Request] /\ req[q] \in Request
      /\ req[q].mine \in Columns /\ db \in Columns
  BY RequestType DEF Requests, TypeOK
<1>2. Copied(req[q].mine, db, "snodes") \in Columns
  BY <1>1, CopiedType
<1>3. CASE StartThreads(q)
  BY <1>1, <1>3, CopiesThere DEF StartThreads, PassesOn, Request
<1>4. CASE CollectResults(q)
  BY <1>1, <1>4, CopiesThere DEF CollectResults, PassesOn, Request
<1>5. CASE Merge(q)
  <2>1. \A p \in Requests : req'[p].mine.snodes \in
          {req[p].mine.snodes, EmptyColumns.snodes, Copied(EmptyColumns, db, "rnodes").snodes,
           Copied(req[q].mine, db, "snodes").snodes}
    <3> DEFINE read == Copied(req[q].mine, db, "snodes")
    <3>1. [read EXCEPT !.rnodes = WithCids(read)].snodes = read.snodes
      BY <1>2 DEF Columns
    <3>2. Idle.mine = EmptyColumns
      BY DEF Idle
    <3> HIDE DEF read
    <3>3. CASE req' = [req EXCEPT ![q].pc = "mergeSnodes",
                                  ![q].mine = Copied(EmptyColumns, db, "rnodes")]
      BY <1>1, <3>3 DEF Request
    <3>4. CASE req' = [req EXCEPT ![q] = [Idle EXCEPT !.pc = "dead"]]
      BY <1>1, <3>2, <3>4 DEF Request, Idle
    <3>5. CASE req' = [req EXCEPT ![q].pc = "mergeWrite",
                                  ![q].mine = [read EXCEPT !.rnodes = WithCids(read)]]
      BY <1>1, <3>1, <3>5 DEF Request, read
    <3>6. QED
      BY <1>5, <3>3, <3>4, <3>5 DEF Merge, ReadForMerge, read
  <2>2. QED
    BY <1>1, <1>5, <2>1, CopiesThere DEF Merge, PassesOn
<1>6. CASE WriteMerged(q)
  <2>1. \A p \in Requests : req'[p].mine \in {req[p].mine, EmptyColumns}
    BY <1>1, <1>6 DEF WriteMerged, Goto, Request
  <2>2. QED
    BY <1>1, <1>6, <2>1, CopiesThere DEF WriteMerged, PassesOn
<1>7. CASE ReadForRegister(q)
  <2>1. \A p \in Requests : req'[p].mine \in
          {req[p].mine, Copied(EmptyColumns, db, "rnodes"), Copied(req[q].mine, db, "regs")}
    BY <1>1, <1>7 DEF ReadForRegister, Request
  <2>2. QED
    BY <1>1, <1>7, <2>1, CopiesThere DEF ReadForRegister, PassesOn
<1>8. CASE WriteRegistered(q)
  <2>1. \A p \in Requests : req'[p].mine = req[p].mine
    BY <1>1, <1>8 DEF WriteRegistered, Goto, Request
  <2>2. QED
    BY <1>1, <1>8, <2>1, CopiesThere DEF WriteRegistered, PassesOn
<1>9. CASE CreateMore(q)
  <2>1. \A p \in Requests : req'[p].mine.snodes = req[p].mine.snodes
    BY <1>1, <1>9 DEF CreateMore, Request, Columns
  <2>2. QED
    BY <1>1, <1>9, <2>1, CopiesThere DEF CreateMore, PassesOn
<1>10. ASSUME NEW i \in Instances, PostEntry(q, i) PROVE PassesOn
  <2>1. \A p \in Requests : req'[p].mine.snodes = req[p].mine.snodes
    BY <1>1, <1>10 DEF PostEntry, Request, Columns
  <2>2. QED
    BY <1>1, <1>10, <2>1, CopiesThere DEF PostEntry, PassesOn
<1>11. QED
  BY <1>3, <1>4, <1>5, <1>6, <1>7, <1>8, <1>9, <1>10

\* optim.py and create_instance add shards that are not pushed.
LEMMA SolvingKeepsPushed ==
    ASSUME TypeOK, PushInv, NEW q \in Deployers, SolveSimple(q) \/ Solve(q)
    PROVE  PushInv'
<1>1. q \in Requests /\ req \in [Requests -> Request] /\ req[q] \in Request
      /\ req[q].mine \in Columns
  BY RequestType DEF Requests
<1>2. ASSUME NEW more,
             req'[q].mine.snodes = [s \in SNodes |-> NewHeld(req[q].mine.snodes[s], more[s])],
             \A p \in Requests \ {q} : req'[p] = req[p],
             UNCHANGED <<db, tmp, out, hosts>>
      PROVE  PushInv'
  <2>1. Pushed(req[q].mine.snodes)
    BY <1>1 DEF PushInv
  <2>2. \A s \in SNodes : \A e \in req'[q].mine.snodes[s] :
           e \in req[q].mine.snodes[s] \/ ~e.pushed
    BY <1>2 DEF NewHeld
  <2>3. \A s \in SNodes : \A e \in req'[q].mine.snodes[s] :
           e.pushed => file[s][e.piece] # "absent"
    BY <2>1, <2>2 DEF Pushed
  <2>4. file' = file /\ post' = post
    BY <1>2 DEF hosts
  <2>5. QED
    BY <1>1, <1>2, <2>3, <2>4 DEF PushInv, Pushed
<1>3. ASSUME NEW k, NEW following, Spread(q, k, following), UNCHANGED <<db, tmp, out, hosts>>
      PROVE  PushInv'
  <2> DEFINE mine == req[q].mine
             new == Fresh(mine.deps.known, k)
             pieces == (mine.deps.instances \cup new) \X Pieces
             anywhere == [n \in Names |-> SNodes]
  <2>1. PICK draw \in Draws :
          req' = [req EXCEPT
              ![q].pc = following,
              ![q].mine.deps.instances = @ \cup new,
              ![q].mine.rnodes = [r \in RNodes |-> NewTold(@[r], pieces, r, draw, anywhere)],
              ![q].mine.snodes = [s \in SNodes |-> NewHeld(@[s], pieces)]]
    BY <1>3 DEF Spread
  <2> DEFINE more == [s \in SNodes |-> pieces]
  <2> HIDE DEF pieces, new
  <2>2. \A p \in Requests \ {q} : req'[p] = req[p]
    BY <1>1, <2>1 DEF Request
  <2>3. req'[q].mine.snodes = [s \in SNodes |-> NewHeld(mine.snodes[s], pieces)]
    BY <1>1, <2>1 DEF Request, Columns
  <2>4. req'[q].mine.snodes = [s \in SNodes |-> NewHeld(mine.snodes[s], more[s])]
    BY <2>3
  <2> HIDE DEF more
  <2>5. QED
    BY <1>2, <1>3, <2>2, <2>4
<1>4. CASE Solve(q)
  <2> DEFINE mine == req[q].mine
  <2>1. PICK p \in Placements(mine.deps.known, mine.deps.instances), draw \in Draws :
          LET holders == [n \in Names |-> {s \in SNodes : n \in HeldPieces(p, s)}]
          IN req' = [req EXCEPT
                ![q].pc = "emit",
                ![q].mine.rnodes =
                    [r \in RNodes |-> NewTold(@[r], ToldPieces(p, r), r, draw, holders)],
                ![q].mine.snodes = [s \in SNodes |-> NewHeld(@[s], HeldPieces(p, s))]]
    BY <1>4 DEF Solve
  <2> DEFINE more == [s \in SNodes |-> HeldPieces(p, s)]
  <2>2. \A r \in Requests \ {q} : req'[r] = req[r]
    BY <1>1, <2>1 DEF Request
  <2>3. req'[q].mine.snodes = [s \in SNodes |-> NewHeld(mine.snodes[s], HeldPieces(p, s))]
    BY <1>1, <2>1 DEF Request, Columns
  <2>4. req'[q].mine.snodes = [s \in SNodes |-> NewHeld(mine.snodes[s], more[s])]
    BY <2>3
  <2>5. UNCHANGED <<db, tmp, out, hosts>>
    BY <1>4 DEF Solve
  <2> HIDE DEF more
  <2>6. QED
    BY <1>2, <2>2, <2>4, <2>5
<1>5. CASE SolveSimple(q)
  BY <1>3, <1>5 DEF SolveSimple
<1>6. QED
  BY <1>4, <1>5

\* A file that is there stays there.
LEMMA FilesStay ==
    ASSUME SH!HostTypeOK, NEW c \in Connections,
           \/ SH!Check(c) \/ SH!Open(c) \/ SH!Write(c) \/ SH!Conflict(c) \/ SH!Sever(c)
    PROVE  /\ \A s \in SNodes, n \in Names : file[s][n] # "absent" => file'[s][n] # "absent"
           /\ \A d \in Connections : post'[d] # SH!NoPost =>
                 post[d] # SH!NoPost /\ post'[d].host = post[d].host
           /\ SH!Write(c) \/ SH!Conflict(c) => file'[post[c].host][post[c].name] # "absent"
<1>1. post[c] \in SH!Post /\ post[c] # SH!NoPost
  BY DEF SH!HostTypeOK, SH!Check, SH!Open, SH!Write, SH!Conflict, SH!Sever, SH!Serving
<1>2. post[c].host \in SNodes /\ post[c].name \in Names
  BY <1>1 DEF SH!Post
<1>3. CASE SH!Check(c)
  BY <1>1, <1>2, <1>3 DEF SH!Check, SH!HostTypeOK, SH!Post, SH!Serving, SH!Write, SH!Conflict
<1>4. CASE SH!Open(c)
  BY <1>1, <1>2, <1>4 DEF SH!Open, SH!HostTypeOK, SH!Post, SH!Serving, SH!Write, SH!Conflict
<1>5. CASE SH!Write(c)
  BY <1>1, <1>2, <1>5 DEF SH!Write, SH!HostTypeOK, SH!Close
<1>6. CASE SH!Conflict(c)
  BY <1>1, <1>2, <1>6 DEF SH!Conflict, SH!HostTypeOK, SH!Close, SH!FileOf
<1>7. CASE SH!Sever(c)
  BY <1>1, <1>2, <1>7 DEF SH!Sever, SH!HostTypeOK, SH!Close, SH!Serving, SH!Write, SH!Conflict,
     SH!FileOf
<1>8. QED
  BY <1>3, <1>4, <1>5, <1>6, <1>7

FilesGrow ==
    \A s \in SNodes, n \in Names : file[s][n] # "absent" => file'[s][n] # "absent"

LEMMA PushedGrows ==
    ASSUME NEW m \in Columns, Pushed(m.snodes), FilesGrow
    PROVE  \A s \in SNodes : \A e \in m.snodes[s] : e.pushed => file'[s][e.piece] # "absent"
  BY DEF Pushed, FilesGrow, Columns, SShard

\* A step of a task or a host: some pieces are flagged, and their files are there.
Flags(q, s, pieces) ==
    /\ UNCHANGED <<db, tmp, out>>
    /\ \/ UNCHANGED req
       \/ req' = [req EXCEPT ![q].mine.snodes[s] = Flagged(@, pieces)]
    /\ FilesGrow /\ \A n \in pieces : file'[s][n] # "absent"
    /\ \A c \in Connections : post'[c] # SH!NoPost => post'[c].host = c[2]

LEMMA FlaggingKeepsPushed ==
    ASSUME TypeOK, PushInv, NEW q \in Deployers, NEW s \in SNodes, NEW pieces,
           Flags(q, s, pieces)
    PROVE  PushInv'
<1>1. q \in Requests /\ req \in [Requests -> Request] /\ req[q] \in Request
      /\ req[q].mine \in Columns /\ db \in Columns /\ tmp \in Columns /\ out \in Columns
      /\ \A p \in Requests : req[p].mine \in Columns
  BY RequestType DEF Requests, TypeOK
<1> USE DEF Flags
<1>2. /\ Pushed(db.snodes)' /\ Pushed(tmp.snodes)' /\ Pushed(out.snodes)'
  BY <1>1, PushedGrows DEF PushInv, Pushed
<1>3. \A p \in Requests : \A t \in SNodes : \A e \in req[p].mine.snodes[t] :
         e.pushed => file'[t][e.piece] # "absent"
  BY <1>1, PushedGrows DEF PushInv
<1>4. ASSUME NEW p \in Requests PROVE Pushed(req[p].mine.snodes)'
  <2>1. SUFFICES ASSUME NEW t \in SNodes, NEW e \in req'[p].mine.snodes[t], e.pushed
                 PROVE  file'[t][e.piece] # "absent"
    BY DEF Pushed
  <2>2. CASE UNCHANGED req \/ p # q \/ t # s
    <3>1. e \in req[p].mine.snodes[t]
      BY <1>1, <2>1, <2>2 DEF Request, Columns
    <3>2. QED
      BY <1>3, <2>1, <3>1
  <2>3. CASE req' = [req EXCEPT ![q].mine.snodes[s] = Flagged(@, pieces)] /\ p = q /\ t = s
    <3>1. e \in Flagged(req[q].mine.snodes[s], pieces)
      BY <1>1, <2>1, <2>3 DEF Request, Columns
    <3>2. PICK x \in req[q].mine.snodes[s] :
            e = IF x.piece \in pieces THEN [x EXCEPT !.pushed = TRUE] ELSE x
      BY <3>1 DEF Flagged
    <3>3. x \in SShard
      BY <1>1 DEF Columns
    <3>4. CASE x.piece \in pieces
      BY <2>3, <3>2, <3>3, <3>4 DEF SShard
    <3>5. CASE x.piece \notin pieces
      BY <1>1, <1>3, <2>1, <2>3, <3>2, <3>5
    <3>6. QED
      BY <3>4, <3>5
  <2>4. QED
    BY <2>2, <2>3
<1>5. QED
  BY <1>2, <1>4 DEF PushInv

LEMMA PushingKeepsPushed ==
    ASSUME TypeOK, PushInv, NEW q \in Deployers, NEW s \in SNodes,
           Pushing(q, s) \/ ShardFails(q, s) \/ IpfsFails(q, s) \/ Orphaned(q, s)
    PROVE  PushInv'
<1> DEFINE c == Live(q, s)
<1>1. c \in Connections /\ c[2] = s
  BY ConnectionsType
<1>2. SH!HostTypeOK /\ \A d \in Connections : post[d] # SH!NoPost => post[d].host = d[2]
  BY DEF TypeOK, PushInv
<1>3. ASSUME UNCHANGED <<db, tmp, out, req, file>>,
             \A d \in Connections : post'[d] # SH!NoPost => post'[d].host = d[2]
      PROVE  PushInv'
  BY <1>3 DEF PushInv, Pushed
<1>4. CASE PostShard(q, s)
  <2>1. \A d \in Connections : post'[d] # SH!NoPost => post'[d].host = d[2]
    BY <1>1, <1>2, <1>4 DEF PostShard, SH!Receive, SH!HostTypeOK
  <2>2. QED
    BY <1>3, <1>4, <2>1 DEF PostShard, SH!Receive
<1>5. CASE ShardFails(q, s)
  <2>1. \A d \in Connections : post'[d] # SH!NoPost => post'[d].host = d[2]
    <3>1. CASE SetAdrift({<<q, s>>})
      BY <1>2, <1>5, <3>1, AdriftType DEF ShardFails
    <3>2. CASE post' = [post EXCEPT ![c] = SH!NoPost]
      BY <1>1, <1>2, <3>2 DEF SH!HostTypeOK
    <3>3. QED
      BY <1>5, <3>1, <3>2 DEF ShardFails
  <2>2. QED
    BY <1>3, <1>5, <2>1 DEF ShardFails
<1>6. CASE ThreadEnds(q, s) \/ IpfsFails(q, s)
  BY <1>2, <1>3, <1>6 DEF ThreadEnds, IpfsFails, hosts
<1>7. CASE HostStep(q, s) \/ Orphaned(q, s)
  <2>1. /\ FilesGrow
        /\ \A d \in Connections : post'[d] # SH!NoPost => post'[d].host = d[2]
    <3>1. PICK d \in Connections : HostActs(d)
      BY <1>7, HostStepActs
    <3>2. QED
      BY <1>2, <3>1, FilesStay DEF HostActs, FilesGrow
  <2>2. UNCHANGED <<db, tmp, out, req>>
    BY <1>7 DEF HostStep, Orphaned
  <2>3. \A n \in {} : file'[s][n] # "absent"
    OBVIOUS
  <2>4. Flags(q, s, {})
    BY <2>1, <2>2, <2>3 DEF Flags
  <2>5. QED
    BY <2>4, FlaggingKeepsPushed
<1>8. CASE ShardAnswered(q, s)
  <2>1. post[c] # SH!NoPost
    BY <1>8 DEF ShardAnswered, SH!Write, SH!Conflict, SH!Serving
  <2>2. post[c].host = s
    BY <1>1, <1>2, <2>1
  <2>3. /\ FilesGrow /\ file'[s][post[c].name] # "absent"
        /\ \A d \in Connections : post'[d] # SH!NoPost => post'[d].host = d[2]
    BY <1>1, <1>2, <1>8, <2>2, FilesStay DEF ShardAnswered, FilesGrow
  <2>4. UNCHANGED <<db, tmp, out>>
    BY <1>8 DEF ShardAnswered
  <2>5. req' = [req EXCEPT ![q].mine.snodes[s] = Flagged(@, {post[c].name})]
    BY <1>8 DEF ShardAnswered, Posted
  <2>6. \A n \in {post[c].name} : file'[s][n] # "absent"
    BY <2>3
  <2>7. Flags(q, s, {post[c].name})
    BY <2>3, <2>4, <2>5, <2>6 DEF Flags
  <2>8. QED
    BY <2>7, FlaggingKeepsPushed
<1>9. CASE PushIpfs(q, s)
  <2> DEFINE pieces == {e.piece : e \in Unpushed(req[q].mine.snodes[s])}
  <2>1. pieces \subseteq Names
    <3>1. req[q].mine \in Columns
      BY RequestType DEF Requests
    <3>2. QED
      BY <3>1 DEF Unpushed, Columns, SShard
  <2>2. /\ file' = [file EXCEPT ![s] = [n \in Names |-> IF n \in pieces THEN "whole" ELSE @[n]]]
        /\ req' = [req EXCEPT ![q].mine.snodes[s] = Flagged(@, pieces)]
        /\ UNCHANGED <<db, tmp, out, post>>
    BY <1>9 DEF PushIpfs
  <2> HIDE DEF pieces
  <2>3. FilesGrow /\ \A n \in pieces : file'[s][n] # "absent"
    BY <1>2, <2>1, <2>2 DEF FilesGrow, SH!HostTypeOK
  <2>4. \A d \in Connections : post'[d] # SH!NoPost => post'[d].host = d[2]
    BY <1>2, <2>2
  <2>5. Flags(q, s, pieces)
    BY <2>2, <2>3, <2>4 DEF Flags
  <2>6. QED
    BY <2>5, FlaggingKeepsPushed
<1>10. QED
  BY <1>4, <1>5, <1>6, <1>7, <1>8, <1>9 DEF Pushing, TaskStep

LEMMA PushedStep == TypeOK /\ PushInv /\ [Next]_vars => PushInv'
<1> SUFFICES ASSUME TypeOK, PushInv, [Next]_vars PROVE PushInv'
  OBVIOUS
<1>1. ASSUME NEW q \in Deployers, Deploying(q) PROVE PushInv'
  <2>1. PassesOn \/ SolveSimple(q) \/ Solve(q)
    <3>1. CASE \/ ReadColumn(q) \/ LoadFile(q) \/ EmitFile(q) \/ TakeColumn(q)
      BY <3>1, ColumnsPassOn
    <3>2. CASE \/ SetLock(q) \/ Unlock(q) \/ PushRaises(q) \/ NextNode(q)
               \/ \E i \in Instances : SkipKnown(q, i) \/ NoCidToRegister(q, i)
      BY <3>2, LocksPassOn
    <3>3. CASE \/ StartThreads(q) \/ CollectResults(q) \/ Merge(q) \/ WriteMerged(q)
               \/ ReadForRegister(q) \/ WriteRegistered(q)
               \/ CreateMore(q) \/ \E i \in Instances : PostEntry(q, i)
      BY <3>3, WritesPassOn
    <3>4. QED
      BY <1>1, <3>1, <3>2, <3>3 DEF Deploying
  <2>2. QED
    BY <2>1, PassedOn, SolvingKeepsPushed
<1>2. ASSUME NEW q \in Deployers, Failing(q) PROVE PushInv'
  <2>1. CASE OptimizeRaises(q) \/ \E i \in Instances : EntryFails(q, i)
    BY <2>1, LocksPassOn, PassedOn
  <2>2. CASE \E s \in SNodes : ShardFails(q, s) \/ IpfsFails(q, s) \/ Orphaned(q, s)
    BY <2>2, PushingKeepsPushed
  <2>3. QED
    BY <1>2, <2>1, <2>2 DEF Failing
<1>3. ASSUME NEW q \in Deployers, NEW k \in Kinds, TestLock(q, k) PROVE PushInv'
  BY <1>3, LocksPassOn, PassedOn
<1>4. CASE Restart
  <2>1. Pushed(EmptyColumns.snodes) /\ Idle.mine = EmptyColumns
    BY DEF Pushed, EmptyColumns, Idle
  <2>2. UNCHANGED <<db, tmp, out, file>> /\ \A p \in Requests : req'[p] = Idle
    BY <1>4 DEF Restart
  <2>3. \A d \in Connections : post'[d] # SH!NoPost => post'[d].host = d[2]
    BY <1>4, AdriftType DEF Restart, TypeOK, PushInv
  <2>4. QED
    BY <2>1, <2>2, <2>3 DEF PushInv, Pushed
<1>5. CASE UNCHANGED vars
  BY <1>5 DEF vars, PushInv, Pushed
<1>6. CASE Next
  <2>1. CASE \E q \in Deployers, s \in SNodes : Pushing(q, s)
    BY <2>1, PushingKeepsPushed
  <2>2. CASE \/ \E q \in Uploaders : ReadForUpload(q) \/ \E d \in Deps : WriteUpload(q, d)
             \/ \E q \in Editors : PostPage(q) \/ \E c \in EditColumns : ShowPage(q, c)
    BY <2>2, UploadPassesOn, PassedOn
  <2>3. QED
    BY <1>1, <1>2, <1>3, <1>4, <1>6, <2>1, <2>2 DEF Next
<1>7. QED
  BY <1>5, <1>6

LEMMA PushInit == Init => PushInv
<1> SUFFICES ASSUME Init PROVE PushInv
  OBVIOUS
<1>1. /\ db.snodes = EmptyColumns.snodes /\ tmp = EmptyColumns /\ out = EmptyColumns
      /\ \A q \in Requests : req[q].mine = EmptyColumns
      /\ \A c \in Connections : post[c] = SH!NoPost
  BY DEF Init, SH!HostInit, Idle, EmptyColumns
<1>2. Pushed(EmptyColumns.snodes)
  BY DEF Pushed, EmptyColumns
<1>3. QED
  BY <1>1, <1>2 DEF PushInv

\* Whatever requests overwrite each other's columns, and whatever fails on the way:
\* a shard is on record as pushed only if its file is at the host.
THEOREM PushedShardsAreThere == Spec => []PushedIsThere
<1>1. PushInv => PushedIsThere
  BY DEF PushInv, Pushed, PushedIsThere
<1>2. QED
  BY <1>1, PushInit, InitType, TypeStep, PushedStep, PTL DEF Spec

-----------------------------------------------------------------------------
(***************************************************************************)
(* Uploads.                                                                 *)
(***************************************************************************)

\* Uploads answered while no other request held a copy.
Kept == uploaded \ beside

\* Where a request that will write the dependencies back has them.
CopyOf(q) ==
    IF req[q].kind = "randomize" THEN req[q].mine
    ELSE IF At(q, "read") \/ (At(q, "load") /\ req[q].col <= 2) THEN tmp
    ELSE IF At(q, "take") \/ (At(q, "emit") /\ req[q].col > 2) THEN out
    ELSE req[q].mine

KeptIn(q) == HoldsDeps(q) => Kept \subseteq CopyOf(q).deps.known

\* A loop over the columns begins with the first; randomize uses no files.
Well(q) ==
    /\ At(q, "idle") \/ At(q, "lock") \/ At(q, "solve") => req[q].col = 1
    /\ At(q, "load") \/ At(q, "emit") => req[q].kind # "randomize"
    /\ Inside(q) => q \in Deployers

\* The upload is in the column and in every copy that will replace it.
UploadInv ==
    /\ \A q \in Requests : Well(q)
    /\ ~raced => /\ Kept \subseteq db.deps.known
                 /\ \A q \in Requests : KeptIn(q)

\* A step of one request; the files are those of the request that is inside.
Moves(q) ==
    /\ \A p \in Requests \ {q} : req'[p] = req[p]
    /\ UNCHANGED <<uploaded, beside>> /\ (raced => raced')
    /\ (q \in Deployers /\ Inside(q)) \/ UNCHANGED <<tmp, out>>
    /\ Well(q)'
    /\ ~raced => Kept \subseteq db'.deps.known /\ KeptIn(q)'

LEMMA MovesKeeps ==
    ASSUME TypeOK, LockInv, UploadInv, NEW q \in Requests, Moves(q)
    PROVE  UploadInv'
<1>1. Kept' = Kept
  BY DEF Moves, Kept
<1>2. ASSUME NEW p \in Requests \ {q} PROVE Well(p)' /\ (~raced => KeptIn(p)')
  <2>1. req'[p] = req[p] /\ Well(p)
    BY DEF Moves, UploadInv
  <2>2. Well(p)'
    BY <2>1 DEF Well, At, Inside
  <2>3. ASSUME ~raced, HoldsDeps(p)' PROVE Kept' \subseteq CopyOf(p)'.deps.known
    <3>1. HoldsDeps(p) /\ Kept \subseteq CopyOf(p).deps.known
      BY <2>1, <2>3 DEF HoldsDeps, At, UploadInv, KeptIn
    <3>2. CASE UNCHANGED <<tmp, out>>
      BY <1>1, <2>1, <3>1, <3>2 DEF CopyOf, At
    <3>3. CASE q \in Deployers /\ Inside(q)
      <4>1. ~Inside(p)
        BY <2>1, <2>3, <3>3 DEF LockInv, Well
      <4>2. CopyOf(p) = req[p].mine /\ CopyOf(p)' = req[p].mine
        BY <2>1, <4>1 DEF CopyOf, At, Inside
      <4>3. QED
        BY <1>1, <3>1, <4>2
    <3>4. QED
      BY <3>2, <3>3 DEF Moves
  <2>4. QED
    BY <2>2, <2>3 DEF KeptIn
<1>3. Well(q)' /\ (~raced => Kept' \subseteq db'.deps.known /\ KeptIn(q)') /\ (~raced' => ~raced)
  BY <1>1 DEF Moves
<1>4. QED
  BY <1>2, <1>3 DEF UploadInv

LEMMA CopiedDeps ==
    ASSUME NEW to \in Columns, NEW from \in Columns, NEW c
    PROVE  Copied(to, from, c).deps = IF c = "deps" THEN from.deps ELSE to.deps
  BY DEF Copied, Columns

LEMMA UploadMoves ==
    ASSUME TypeOK, UploadInv, NEW q \in Uploaders, ReadForUpload(q)
    PROVE  Moves(q)
<1>1. q \in Requests /\ req \in [Requests -> Request] /\ db \in Columns /\ EmptyColumns \in Columns
  BY EmptyType DEF Requests, TypeOK
<1>2. req'[q].pc = "upload" /\ req'[q].mine.deps = db.deps
      /\ \A p \in Requests \ {q} : req'[p] = req[p]
  BY <1>1, CopiedDeps DEF ReadForUpload, Request
<1>3. UNCHANGED <<db, tmp, out, history>>
  BY DEF ReadForUpload
<1>4. CopyOf(q)' = req'[q].mine
  BY <1>2 DEF CopyOf, At
<1>5. QED
  BY <1>1, <1>2, <1>3, <1>4 DEF Moves, UploadInv, Well, KeptIn, Kept, At, Inside, history

LEMMA WriteUploadKeeps ==
    ASSUME TypeOK, UploadInv, NEW q \in Uploaders, NEW d \in Deps, WriteUpload(q, d)
    PROVE  UploadInv'
<1>1. q \in Requests /\ req \in [Requests -> Request] /\ db \in Columns /\ req[q].mine \in Columns
  BY RequestType DEF Requests, TypeOK
<1>2. /\ At(q, "upload") /\ req'[q] = Idle /\ UNCHANGED <<tmp, out, raced>>
      /\ \A p \in Requests \ {q} : req'[p] = req[p]
      /\ db'.deps.known = req[q].mine.deps.known \cup {d}
      /\ uploaded' = uploaded \cup {d} /\ d \notin uploaded
      /\ beside' = IF \E p \in Requests \ {q} : HoldsDeps(p) THEN beside \cup {d} ELSE beside
  BY <1>1 DEF WriteUpload, Columns
<1>3. HoldsDeps(q) /\ CopyOf(q) = req[q].mine
  BY <1>2 DEF HoldsDeps, CopyOf, At
<1>4. Idle.pc = "idle" /\ Idle.col = 1
  BY DEF Idle
<1>5. \A p \in Requests : Well(p)'
  BY <1>2, <1>4 DEF Well, UploadInv, At, Inside
<1>6. ASSUME ~raced PROVE Kept' \subseteq db'.deps.known /\ \A p \in Requests : KeptIn(p)'
  <2>1. Kept' \subseteq Kept \cup {d}
    BY <1>2 DEF Kept
  <2>2. Kept' \subseteq db'.deps.known
    BY <1>1, <1>2, <1>3, <1>6, <2>1 DEF UploadInv, KeptIn
  <2>3. ~HoldsDeps(q)'
    BY <1>2, <1>4 DEF HoldsDeps, At
  <2>4. ASSUME NEW p \in Requests \ {q}, HoldsDeps(p)' PROVE Kept' \subseteq CopyOf(p)'.deps.known
    <3>1. HoldsDeps(p)
      BY <1>2, <2>4 DEF HoldsDeps, At
    <3>2. Kept' = Kept
      BY <1>2, <3>1 DEF Kept, TypeOK
    <3>3. CopyOf(p)' = CopyOf(p)
      BY <1>2 DEF CopyOf, At
    <3>4. QED
      BY <1>6, <3>1, <3>2, <3>3 DEF UploadInv, KeptIn
  <2>5. QED
    BY <2>2, <2>3, <2>4 DEF KeptIn
<1>7. QED
  BY <1>2, <1>5, <1>6 DEF UploadInv

LEMMA PageMoves ==
    ASSUME TypeOK, UploadInv, NEW q \in Editors,
           PostPage(q) \/ \E c \in EditColumns : ShowPage(q, c)
    PROVE  Moves(q)
<1>1. q \in Requests /\ req \in [Requests -> Request] /\ db \in Columns /\ req[q].mine \in Columns
      /\ EmptyColumns \in Columns /\ req[q] \in Request
  BY RequestType, EmptyType DEF Requests, TypeOK
<1>2. CASE PostPage(q)
  <2>1. /\ At(q, "edit") /\ req'[q] = Idle /\ UNCHANGED <<tmp, out, raced, uploaded, beside>>
        /\ \A p \in Requests \ {q} : req'[p] = req[p]
        /\ db'.deps = IF req[q].kind = "deps" THEN req[q].mine.deps ELSE db.deps
    BY <1>1, <1>2, CopiedDeps DEF PostPage
  <2>2. Idle.pc = "idle" /\ Idle.col = 1
    BY DEF Idle
  <2>3. CopyOf(q) = req[q].mine
    BY <2>1 DEF CopyOf, At
  <2>4. req[q].kind = "deps" => HoldsDeps(q)
    BY <2>1 DEF HoldsDeps, At
  <2>5. ~raced => Kept \subseteq db'.deps.known
    BY <1>1, <2>1, <2>3, <2>4 DEF UploadInv, KeptIn
  <2>6. ~HoldsDeps(q)'
    BY <2>1, <2>2 DEF HoldsDeps, At
  <2>7. QED
    BY <2>1, <2>2, <2>5, <2>6 DEF Moves, Well, KeptIn, At, Inside
<1>3. ASSUME NEW c \in EditColumns, ShowPage(q, c) PROVE Moves(q)
  <2>1. /\ req'[q] = [req[q] EXCEPT !.pc = "edit", !.kind = c, !.mine = Copied(EmptyColumns, db, c)]
        /\ \A p \in Requests \ {q} : req'[p] = req[p]
        /\ UNCHANGED <<db, tmp, out, history>>
    BY <1>1, <1>3 DEF ShowPage, Request
  <2>2. req'[q].pc = "edit" /\ req'[q].kind = c /\ req'[q].mine = Copied(EmptyColumns, db, c)
    BY <1>1, <2>1 DEF Request
  <2>3. CopyOf(q)' = req'[q].mine
    BY <2>2 DEF CopyOf, At
  <2>4. HoldsDeps(q)' => req'[q].mine.deps = db.deps
    BY <1>1, <2>2, CopiedDeps DEF HoldsDeps, At
  <2>5. QED
    BY <2>1, <2>2, <2>3, <2>4 DEF Moves, UploadInv, Well, KeptIn, Kept, At, Inside, history
<1>4. QED
  BY <1>2, <1>3

\* A request to deploy whose columns, or whose copy of the dependencies, stay.
LEMMA QuietMoves ==
    ASSUME TypeOK, UploadInv, NEW q \in Deployers,
           \A p \in Requests \ {q} : req'[p] = req[p],
           UNCHANGED <<tmp, out, uploaded, beside>>, raced => raced', db'.deps = db.deps,
           ~HoldsDeps(q)', Well(q)'
    PROVE  Moves(q)
<1>1. ~raced => Kept \subseteq db'.deps.known
  BY DEF UploadInv
<1>2. QED
  BY <1>1 DEF Moves, KeptIn

LEMMA LockMoves ==
    ASSUME TypeOK, UploadInv, NEW q \in Deployers, NEW k,
           TestLock(q, k) \/ SetLock(q) \/ Unlock(q)
    PROVE  Moves(q)
<1>1. q \in Requests /\ req \in [Requests -> Request] /\ Well(q) /\ req[q] \in Request
  BY RequestType DEF Requests, TypeOK, UploadInv
<1>2. CASE TestLock(q, k)
  <2>1. req'[q].pc = "lock" /\ req'[q].col = 1 /\ \A p \in Requests \ {q} : req'[p] = req[p]
    BY <1>1, <1>2 DEF TestLock, Request, Well
  <2>2. ~HoldsDeps(q)' /\ Well(q)'
    BY <2>1 DEF HoldsDeps, Well, At, Inside
  <2>3. UNCHANGED <<db, tmp, out, uploaded, beside>> /\ (raced => raced')
    BY <1>2 DEF TestLock
  <2>4. QED
    BY <2>1, <2>2, <2>3, QuietMoves
<1>3. CASE SetLock(q)
  <2>1. req'[q].pc = "read" /\ req'[q].col = 1 /\ \A p \in Requests \ {q} : req'[p] = req[p]
    BY <1>1, <1>3 DEF SetLock, Goto, Request, Well
  <2>2. ~HoldsDeps(q)' /\ Well(q)'
    BY <2>1 DEF HoldsDeps, Well, At, Inside
  <2>3. UNCHANGED <<db, tmp, out, history>>
    BY <1>3 DEF SetLock
  <2>4. QED
    BY <2>1, <2>2, <2>3, QuietMoves DEF history
<1>4. CASE Unlock(q)
  <2>1. req'[q].pc = "idle" /\ req'[q].col = 1 /\ \A p \in Requests \ {q} : req'[p] = req[p]
    BY <1>1, <1>4 DEF Unlock, Idle
  <2>2. ~HoldsDeps(q)' /\ Well(q)'
    BY <2>1 DEF HoldsDeps, Well, At, Inside
  <2>3. UNCHANGED <<db, tmp, out, history>>
    BY <1>4 DEF Unlock
  <2>4. QED
    BY <2>1, <2>2, <2>3, QuietMoves DEF history
<1>5. QED
  BY <1>2, <1>3, <1>4

LEMMA NextColumnIs ==
    ASSUME TypeOK, NEW q \in Requests, NEW following, NEW mine, NextColumn(q, following, mine)
    PROVE  /\ \A p \in Requests \ {q} : req'[p] = req[p]
           /\ req'[q].mine = mine /\ req'[q].kind = req[q].kind
           /\ req[q].col \in {1, 2, 3} =>
                 req'[q].pc = req[q].pc /\ req'[q].col = req[q].col + 1
           /\ req[q].col = 4 => req'[q].pc = following /\ req'[q].col = 1
           /\ req[q].col \in {1, 2, 3, 4} /\ (Here(q) = "deps" <=> req[q].col = 2)
<1>1. req \in [Requests -> Request] /\ req[q].col \in 1 .. 4
  BY RequestType
<1>2. req[q].col \in {1, 2, 3, 4}
  BY <1>1
<1>3. Here(q) = "deps" <=> req[q].col = 2
  BY <1>2 DEF Here, Column
<1>4. QED
  BY <1>1, <1>2, <1>3 DEF NextColumn, Request

LEMMA ReadMoves ==
    ASSUME TypeOK, UploadInv, NEW q \in Deployers, ReadColumn(q)
    PROVE  Moves(q)
<1>1. /\ q \in Requests /\ db \in Columns /\ tmp \in Columns /\ req[q].mine \in Columns
      /\ At(q, "read") /\ Well(q)
      /\ KeptIn(q) \/ raced
  BY RequestType DEF Requests, TypeOK, UploadInv, ReadColumn
<1>2. UNCHANGED <<db, out, history>> /\ Inside(q) /\ (~raced => Kept \subseteq db.deps.known)
  BY <1>1 DEF ReadColumn, Inside, At, UploadInv
<1>3. CASE req[q].kind = "randomize"
  <2>1. NextColumn(q, "solve", Copied(req[q].mine, db, Here(q))) /\ tmp' = tmp
    BY <1>3 DEF ReadColumn
  <2>2. Well(q)'
    BY <1>1, <2>1, NextColumnIs DEF Well, At, Inside
  <2>3. CopyOf(q)' = req'[q].mine /\ (req[q].col > 2 => CopyOf(q) = req[q].mine)
    BY <1>1, <1>3, <2>1, NextColumnIs DEF CopyOf, At
  <2>4. req'[q].mine.deps = IF req[q].col = 2 THEN db.deps ELSE req[q].mine.deps
    BY <1>1, <2>1, NextColumnIs, CopiedDeps
  <2>5. HoldsDeps(q)' => req[q].col = 2 \/ (req[q].col > 2 /\ HoldsDeps(q))
    BY <1>1, <2>1, NextColumnIs DEF HoldsDeps, At
  <2>6. ~raced => KeptIn(q)'
    BY <1>1, <1>2, <2>3, <2>4, <2>5 DEF KeptIn, Kept, history
  <2>7. QED
    BY <1>1, <1>2, <2>1, <2>2, <2>6, NextColumnIs DEF Moves, history
<1>4. CASE req[q].kind # "randomize"
  <2>1. NextColumn(q, "load", req[q].mine) /\ tmp' = Copied(tmp, db, Here(q))
    BY <1>4 DEF ReadColumn
  <2>2. Well(q)'
    BY <1>1, <1>4, <2>1, NextColumnIs DEF Well, At, Inside
  <2>3. CopyOf(q)' = tmp' /\ CopyOf(q) = tmp
    BY <1>1, <1>4, <2>1, NextColumnIs DEF CopyOf, At
  <2>4. tmp'.deps = IF req[q].col = 2 THEN db.deps ELSE tmp.deps
    BY <1>1, <2>1, NextColumnIs, CopiedDeps
  <2>5. HoldsDeps(q)' => req[q].col = 2 \/ HoldsDeps(q)
    BY <1>1, <2>1, NextColumnIs DEF HoldsDeps, At
  <2>6. ~raced => KeptIn(q)'
    BY <1>1, <1>2, <2>3, <2>4, <2>5 DEF KeptIn, Kept, history
  <2>7. QED
    BY <1>1, <1>2, <2>1, <2>2, <2>6, NextColumnIs DEF Moves, history
<1>5. QED
  BY <1>3, <1>4

LEMMA LoadMoves ==
    ASSUME TypeOK, UploadInv, NEW q \in Deployers, LoadFile(q)
    PROVE  Moves(q)
<1>1. /\ q \in Requests /\ tmp \in Columns /\ req[q].mine \in Columns
      /\ At(q, "load") /\ Well(q) /\ req[q].kind # "randomize"
      /\ KeptIn(q) \/ raced
  BY RequestType DEF Requests, TypeOK, UploadInv, LoadFile, Well
<1>2. /\ UNCHANGED <<db, tmp, out, history>> /\ (~raced => Kept \subseteq db.deps.known)
      /\ NextColumn(q, "solve", Copied(req[q].mine, tmp, Here(q)))
  BY DEF LoadFile, UploadInv
<1>3. Well(q)' /\ HoldsDeps(q)
  BY <1>1, <1>2, NextColumnIs DEF Well, HoldsDeps, At, Inside
<1>4. /\ CopyOf(q) = (IF req[q].col <= 2 THEN tmp ELSE req[q].mine)
      /\ CopyOf(q)' = (IF req[q].col = 1 THEN tmp ELSE req'[q].mine)
  BY <1>1, <1>2, NextColumnIs DEF CopyOf, At
<1>5. req'[q].mine.deps = IF req[q].col = 2 THEN tmp.deps ELSE req[q].mine.deps
  BY <1>1, <1>2, NextColumnIs, CopiedDeps
<1>6. ~raced => KeptIn(q)'
  BY <1>1, <1>2, <1>3, <1>4, <1>5, NextColumnIs DEF KeptIn, Kept, history
<1>7. QED
  BY <1>1, <1>2, <1>3, <1>6, NextColumnIs DEF Moves, history

LEMMA EmitMoves ==
    ASSUME TypeOK, UploadInv, NEW q \in Deployers, EmitFile(q)
    PROVE  Moves(q)
<1>1. /\ q \in Requests /\ out \in Columns /\ req[q].mine \in Columns
      /\ At(q, "emit") /\ Well(q) /\ req[q].kind # "randomize" /\ Inside(q)
      /\ KeptIn(q) \/ raced
  BY RequestType DEF Requests, TypeOK, UploadInv, EmitFile, Well, Inside, At
<1>2. /\ UNCHANGED <<db, tmp, history>> /\ (~raced => Kept \subseteq db.deps.known)
      /\ out' = Copied(out, req[q].mine, Here(q)) /\ NextColumn(q, "take", req[q].mine)
  BY DEF EmitFile, UploadInv
<1>3. Well(q)' /\ HoldsDeps(q)
  BY <1>1, <1>2, NextColumnIs DEF Well, HoldsDeps, At, Inside
<1>4. /\ CopyOf(q) = (IF req[q].col <= 2 THEN req[q].mine ELSE out)
      /\ CopyOf(q)' = (IF req[q].col = 1 THEN req[q].mine ELSE out')
  BY <1>1, <1>2, NextColumnIs DEF CopyOf, At
<1>5. out'.deps = IF req[q].col = 2 THEN req[q].mine.deps ELSE out.deps
  BY <1>1, <1>2, NextColumnIs, CopiedDeps
<1>6. ~raced => KeptIn(q)'
  BY <1>1, <1>2, <1>3, <1>4, <1>5, NextColumnIs DEF KeptIn, Kept, history
<1>7. QED
  BY <1>1, <1>2, <1>3, <1>6, NextColumnIs DEF Moves, history

LEMMA TakeMoves ==
    ASSUME TypeOK, UploadInv, NEW q \in Deployers, TakeColumn(q)
    PROVE  Moves(q)
<1> DEFINE copy == IF req[q].kind = "randomize" THEN req[q].mine ELSE out
           left == IF req[q].col < 4 THEN req[q].mine ELSE EmptyColumns
<1>1. /\ q \in Requests /\ out \in Columns /\ req[q].mine \in Columns /\ db \in Columns
      /\ At(q, "take") /\ Well(q)
      /\ KeptIn(q) \/ raced
  BY RequestType DEF Requests, TypeOK, UploadInv, TakeColumn
<1>2. /\ UNCHANGED <<tmp, out, history>> /\ (~raced => Kept \subseteq db.deps.known)
      /\ db' = Copied(db, copy, Here(q)) /\ NextColumn(q, "push", left)
  BY DEF TakeColumn, UploadInv
<1>3. copy \in Columns /\ CopyOf(q) = copy
  BY <1>1 DEF CopyOf, At
<1>4. Well(q)'
  BY <1>1, <1>2, NextColumnIs DEF Well, At, Inside
<1>5. db'.deps = IF req[q].col = 2 THEN copy.deps ELSE db.deps
  BY <1>1, <1>2, <1>3, NextColumnIs, CopiedDeps
<1>6. req[q].col <= 2 => HoldsDeps(q)
  BY <1>1 DEF HoldsDeps
<1>7. HoldsDeps(q)' => req[q].col = 1 /\ HoldsDeps(q)
  BY <1>1, <1>2, NextColumnIs DEF HoldsDeps, At
<1>8. req[q].col = 1 => CopyOf(q)' = copy
  BY <1>1, <1>2, NextColumnIs DEF CopyOf, At
<1> HIDE DEF copy, left
<1>9. ~raced => Kept \subseteq db'.deps.known
  BY <1>1, <1>2, <1>3, <1>5, <1>6 DEF KeptIn
<1>10. ~raced => KeptIn(q)'
  BY <1>1, <1>2, <1>3, <1>7, <1>8 DEF KeptIn, Kept, history
<1>11. QED
  BY <1>1, <1>2, <1>4, <1>9, <1>10, NextColumnIs DEF Moves, history

\* Instances, placements and rounds change nothing about which dependencies are known.
LEMMA SolvingMoves ==
    ASSUME TypeOK, UploadInv, NEW q \in Deployers, SolveSimple(q) \/ Solve(q) \/ CreateMore(q)
    PROVE  Moves(q)
<1>1. /\ q \in Requests /\ req \in [Requests -> Request] /\ req[q] \in Request
      /\ req[q].mine \in Columns /\ At(q, "solve") /\ Well(q) /\ req[q].col = 1
      /\ KeptIn(q) \/ raced
  BY RequestType DEF Requests, UploadInv, SolveSimple, Solve, CreateMore, Well
<1>2. UNCHANGED <<db, tmp, out, history>> /\ (~raced => Kept \subseteq db.deps.known)
  BY DEF SolveSimple, Solve, CreateMore, UploadInv
<1>3. HoldsDeps(q) /\ CopyOf(q) = req[q].mine
  BY <1>1 DEF HoldsDeps, CopyOf, At
<1>4. ASSUME \A p \in Requests \ {q} : req'[p] = req[p],
             req'[q].kind = req[q].kind, req'[q].col = 1,
             req'[q].mine.deps.known = req[q].mine.deps.known,
             \/ req'[q].pc = "solve"
             \/ req'[q].pc = "emit" /\ req[q].kind # "randomize"
             \/ req'[q].pc = "take" /\ req[q].kind = "randomize"
      PROVE  Moves(q)
  <2>1. Well(q)'
    BY <1>4 DEF Well, At, Inside
  <2>2. CopyOf(q)' = req'[q].mine
    BY <1>4 DEF CopyOf, At
  <2>3. ~raced => KeptIn(q)'
    BY <1>1, <1>2, <1>3, <1>4, <2>2 DEF KeptIn, Kept, history
  <2>4. QED
    BY <1>1, <1>2, <1>4, <2>1, <2>3 DEF Moves, history
<1>5. ASSUME NEW k, NEW following, Spread(q, k, following)
      PROVE  /\ \A p \in Requests \ {q} : req'[p] = req[p]
             /\ req'[q].pc = following /\ req'[q].kind = req[q].kind /\ req'[q].col = 1
             /\ req'[q].mine.deps.known = req[q].mine.deps.known
  <2> DEFINE mine == req[q].mine
             new == Fresh(mine.deps.known, k)
             pieces == (mine.deps.instances \cup new) \X Pieces
             anywhere == [n \in Names |-> SNodes]
  <2>1. PICK draw \in Draws :
          req' = [req EXCEPT
              ![q].pc = following,
              ![q].mine.deps.instances = @ \cup new,
              ![q].mine.rnodes = [r \in RNodes |-> NewTold(@[r], pieces, r, draw, anywhere)],
              ![q].mine.snodes = [s \in SNodes |-> NewHeld(@[s], pieces)]]
    BY <1>5 DEF Spread
  <2> HIDE DEF pieces, new
  <2>2. QED
    BY <1>1, <2>1 DEF Request, Columns
<1>6. CASE SolveSimple(q)
  <2>1. CASE req[q].kind = "simple" /\ Spread(q, NumRNodes, "emit")
    BY <1>4, <1>5, <2>1
  <2>2. CASE req[q].kind = "randomize" /\ Spread(q, 1, "take")
    BY <1>4, <1>5, <2>2
  <2>3. QED
    BY <1>6, <2>1, <2>2 DEF SolveSimple
<1>7. CASE Solve(q)
  <2> DEFINE mine == req[q].mine
  <2>1. PICK p \in Placements(mine.deps.known, mine.deps.instances), draw \in Draws :
          LET holders == [n \in Names |-> {s \in SNodes : n \in HeldPieces(p, s)}]
          IN req' = [req EXCEPT
                ![q].pc = "emit",
                ![q].mine.rnodes =
                    [r \in RNodes |-> NewTold(@[r], ToldPieces(p, r), r, draw, holders)],
                ![q].mine.snodes = [s \in SNodes |-> NewHeld(@[s], HeldPieces(p, s))]]
    BY <1>7 DEF Solve
  <2>2. req'[q].pc = "emit" /\ req'[q].kind = req[q].kind /\ req'[q].col = 1
        /\ req'[q].mine.deps.known = mine.deps.known
        /\ \A x \in Requests \ {q} : req'[x] = req[x]
    BY <1>1, <2>1 DEF Request, Columns
  <2>3. req[q].kind = "deploy"
    BY <1>7 DEF Solve
  <2>4. QED
    BY <1>4, <2>2, <2>3
<1>8. CASE CreateMore(q)
  <2>1. req'[q].pc = "solve" /\ req'[q].kind = req[q].kind /\ req'[q].col = 1
        /\ req'[q].mine.deps.known = req[q].mine.deps.known
        /\ \A p \in Requests \ {q} : req'[p] = req[p]
    BY <1>1, <1>8 DEF CreateMore, Request, Columns, At
  <2>2. QED
    BY <1>4, <2>1
<1>9. QED
  BY <1>6, <1>7, <1>8

\* What follows the taking, and what ends a request: the dependencies stay.
LEMMA RestMoves ==
    ASSUME TypeOK, UploadInv, NEW q \in Deployers,
           \/ StartThreads(q) \/ CollectResults(q) \/ PushRaises(q) \/ Merge(q) \/ WriteMerged(q)
           \/ ReadForRegister(q) \/ NextNode(q) \/ WriteRegistered(q) \/ OptimizeRaises(q)
           \/ \E i \in Instances : \/ SkipKnown(q, i) \/ NoCidToRegister(q, i)
                                \/ PostEntry(q, i) \/ EntryFails(q, i)
    PROVE  Moves(q)
<1>1. /\ q \in Requests /\ req \in [Requests -> Request] /\ req[q] \in Request
      /\ req[q].mine \in Columns /\ db \in Columns
  BY RequestType DEF Requests, TypeOK
<1>2. StaysInside(q)
  BY ThreadsStay, MergeStays, RegisteringStays, FailingStays
<1>3. \A p \in Requests \ {q} : req'[p] = req[p]
  BY <1>1 DEF StartThreads, CollectResults, PushRaises, Merge, ReadForMerge, WriteMerged,
     ReadForRegister, NextNode, WriteRegistered, OptimizeRaises, SkipKnown, NoCidToRegister,
     PostEntry, EntryFails, Goto
<1>4. UNCHANGED <<tmp, out, uploaded, beside, raced>>
  BY DEF StartThreads, CollectResults, PushRaises, Merge, WriteMerged, ReadForRegister, NextNode,
     WriteRegistered, OptimizeRaises, SkipKnown, NoCidToRegister, PostEntry, EntryFails, history
<1>5. db'.deps = db.deps
  <2>1. \A c \in {"regs", "rnodes", "snodes"} : Copied(db, req[q].mine, c).deps = db.deps
    BY <1>1, CopiedDeps
  <2>2. db' = db \/ \E c \in {"regs", "rnodes", "snodes"} : db' = Copied(db, req[q].mine, c)
    BY DEF StartThreads, CollectResults, PushRaises, Merge, WriteMerged, ReadForRegister, NextNode,
       WriteRegistered, OptimizeRaises, SkipKnown, NoCidToRegister, PostEntry, EntryFails
  <2>3. QED
    BY <2>1, <2>2
<1>6. req'[q].pc \in {"pushing", "merge", "register", "dead", "mergeSnodes", "mergeWrite",
                    "mergeWriteSnodes", "registerRegs", "registering", "registered",
                    "registeredRegs", "unlock"}
  <2>1. CASE StartThreads(q) \/ CollectResults(q) \/ PushRaises(q)
    BY <1>1, <2>1 DEF StartThreads, CollectResults, PushRaises, Goto, Request
  <2>2. CASE Merge(q) \/ WriteMerged(q)
    <3>1. CASE Merge(q)
      BY <1>1, <3>1, IdleType DEF Merge, ReadForMerge, Request
    <3>2. CASE WriteMerged(q)
      BY <1>1, <3>2 DEF WriteMerged, Goto, Request
    <3>3. QED
      BY <2>2, <3>1, <3>2
  <2>3. CASE ReadForRegister(q) \/ NextNode(q) \/ WriteRegistered(q)
    <3>1. CASE ReadForRegister(q)
      BY <1>1, <3>1 DEF ReadForRegister, Request
    <3>2. CASE NextNode(q)
      BY <1>1, <3>2 DEF NextNode, Goto, Request, At
    <3>3. CASE WriteRegistered(q)
      BY <1>1, <3>3 DEF WriteRegistered, Goto, Request
    <3>4. QED
      BY <2>3, <3>1, <3>2, <3>3
  <2>4. CASE OptimizeRaises(q) \/ \E i \in Instances : NoCidToRegister(q, i) \/ EntryFails(q, i)
    BY <1>1, <2>4 DEF OptimizeRaises, NoCidToRegister, EntryFails, Idle
  <2>5. CASE \E i \in Instances : SkipKnown(q, i) \/ PostEntry(q, i)
    <3>1. PICK i \in Instances : SkipKnown(q, i) \/ PostEntry(q, i)
      BY <2>5
    <3>2. CASE SkipKnown(q, i)
      BY <1>1, <3>2 DEF SkipKnown, At, Request
    <3>3. CASE PostEntry(q, i)
      BY <1>1, <3>3 DEF PostEntry, At, Request
    <3>4. QED
      BY <3>1, <3>2, <3>3
  <2>6. QED
    BY <2>1, <2>2, <2>3, <2>4, <2>5
<1>7. ~HoldsDeps(q)' /\ Well(q)'
  BY <1>6 DEF HoldsDeps, Well, At
<1>8. QED
  BY <1>3, <1>4, <1>5, <1>7, QuietMoves

\* A task flags pushed shards in the request it belongs to.
LEMMA PushingKeepsUploads ==
    ASSUME TypeOK, UploadInv, NEW q \in Deployers, NEW s \in SNodes,
           Pushing(q, s) \/ ShardFails(q, s) \/ IpfsFails(q, s) \/ Orphaned(q, s)
    PROVE  UploadInv'
<1>1. /\ q \in Requests /\ req \in [Requests -> Request] /\ req[q].mine \in Columns
  BY RequestType DEF Requests
<1>2. UNCHANGED <<db, tmp, out, uploaded, beside, raced>>
  BY DEF Pushing, TaskStep, PostShard, ShardAnswered, HostStep, PushIpfs, ThreadEnds, ShardFails,
         IpfsFails, Orphaned, Posted, history
<1>3. \A p \in Requests :
         /\ req'[p].pc = req[p].pc /\ req'[p].col = req[p].col
         /\ req'[p].kind = req[p].kind /\ req'[p].mine.deps = req[p].mine.deps
  <2>1. CASE UNCHANGED req
    BY <2>1
  <2>2. CASE ShardAnswered(q, s) \/ PushIpfs(q, s)
    <3>1. PICK x : req' = [req EXCEPT ![q].mine.snodes[s] = x]
      BY <2>2 DEF ShardAnswered, Posted, PushIpfs
    <3>2. QED
      BY <1>1, <3>1 DEF Request, Columns
  <2>3. QED
    BY <2>1, <2>2 DEF Pushing, TaskStep, PostShard, HostStep, ThreadEnds, ShardFails, IpfsFails,
       Orphaned
<1>4. \A p \in Requests :
         /\ Well(p)' <=> Well(p)
         /\ HoldsDeps(p)' <=> HoldsDeps(p)
         /\ CopyOf(p)'.deps = CopyOf(p).deps
  BY <1>2, <1>3 DEF Well, HoldsDeps, CopyOf, At, Inside
<1>5. QED
  BY <1>2, <1>4 DEF UploadInv, KeptIn, Kept

LEMMA UploadStep == TypeOK /\ LockInv /\ UploadInv /\ [Next]_vars => UploadInv'
<1> SUFFICES ASSUME TypeOK, LockInv, UploadInv, [Next]_vars PROVE UploadInv'
  OBVIOUS
<1>1. ASSUME NEW q \in Deployers, Deploying(q) PROVE UploadInv'
  <2>1. q \in Requests
    BY DEF Requests
  <2>2. Moves(q)
    <3>1. CASE SetLock(q) \/ Unlock(q)
      BY <3>1, LockMoves
    <3>2. CASE ReadColumn(q) \/ LoadFile(q) \/ EmitFile(q) \/ TakeColumn(q)
      BY <3>2, ReadMoves, LoadMoves, EmitMoves, TakeMoves
    <3>3. CASE SolveSimple(q) \/ Solve(q) \/ CreateMore(q)
      BY <3>3, SolvingMoves
    <3>4. CASE \/ StartThreads(q) \/ CollectResults(q) \/ PushRaises(q)
               \/ Merge(q) \/ WriteMerged(q) \/ ReadForRegister(q) \/ NextNode(q) \/ WriteRegistered(q)
               \/ \E i \in Instances : SkipKnown(q, i) \/ NoCidToRegister(q, i) \/ PostEntry(q, i)
      BY <3>4, RestMoves
    <3>5. QED
      BY <1>1, <3>1, <3>2, <3>3, <3>4 DEF Deploying
  <2>3. QED
    BY <2>1, <2>2, MovesKeeps
<1>2. ASSUME NEW q \in Deployers, Failing(q) PROVE UploadInv'
  <2>1. CASE OptimizeRaises(q) \/ \E i \in Instances : EntryFails(q, i)
    BY <2>1, RestMoves, MovesKeeps DEF Requests
  <2>2. CASE \E s \in SNodes : ShardFails(q, s) \/ IpfsFails(q, s) \/ Orphaned(q, s)
    BY <2>2, PushingKeepsUploads
  <2>3. QED
    BY <1>2, <2>1, <2>2 DEF Failing
<1>3. ASSUME NEW q \in Deployers, NEW k \in Kinds, TestLock(q, k) PROVE UploadInv'
  BY <1>3, LockMoves, MovesKeeps DEF Requests
<1>4. ASSUME NEW q \in Uploaders, ReadForUpload(q) \/ \E d \in Deps : WriteUpload(q, d)
      PROVE  UploadInv'
  BY <1>4, UploadMoves, WriteUploadKeeps, MovesKeeps DEF Requests
<1>5. ASSUME NEW q \in Editors, PostPage(q) \/ \E c \in EditColumns : ShowPage(q, c)
      PROVE  UploadInv'
  BY <1>5, PageMoves, MovesKeeps DEF Requests
<1>6. CASE Restart
  <2>1. \A p \in Requests : req'[p].pc = "idle" /\ req'[p].col = 1
    BY <1>6 DEF Restart, Idle
  <2>2. UNCHANGED <<db, uploaded, beside, raced>>
    BY <1>6 DEF Restart
  <2>3. \A p \in Requests : Well(p)' /\ ~HoldsDeps(p)'
    BY <2>1 DEF Well, HoldsDeps, At, Inside
  <2>4. QED
    BY <2>2, <2>3 DEF UploadInv, KeptIn, Kept
<1>7. CASE UNCHANGED vars
  BY <1>7 DEF vars, UploadInv, KeptIn, Kept, Well, HoldsDeps, CopyOf, At, Inside
<1>8. ASSUME NEW q \in Deployers, NEW s \in SNodes, Pushing(q, s) PROVE UploadInv'
  BY <1>8, PushingKeepsUploads
<1>9. QED
  BY <1>1, <1>2, <1>3, <1>4, <1>5, <1>6, <1>7, <1>8 DEF Next

LEMMA UploadInit == Init => UploadInv
  BY DEF Init, UploadInv, Well, KeptIn, Kept, HoldsDeps, At, Inside, Idle

\* Deployments, configuration pages and uploads write the dependencies back in any
\* order: an upload that no request was ready to overwrite when it was answered is
\* never lost, unless two deployments came through the gap at the lock.
THEOREM UploadsStay == Spec => []UndisturbedUploadStays
<1>1. UploadInv => UndisturbedUploadStays
  BY DEF UploadInv, UndisturbedUploadStays, Kept
<1>2. QED
  BY <1>1, LockInit, UploadInit, InitType, TypeStep, LockStep, UploadStep, PTL DEF Spec
=============================================================================
