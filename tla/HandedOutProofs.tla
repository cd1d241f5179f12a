--------------------------- MODULE HandedOutProofs ---------------------------
(***************************************************************************)
(* What a registry hands out is where it says: a proof that the entries of  *)
(* the race nodes stay complete, on record and, from the optimiser to the   *)
(* registries, in step with the dependencies, the shards of the server      *)
(* nodes and their files.                                                   *)
(***************************************************************************)
EXTENDS DeployProofs, FiniteSetTheorems

PiecesOf(entries) == {e.piece : e \in entries}

ShardsAmong(pieces, i) == {n \in pieces : n[1] = i /\ n[2] # Blob}

\* Of every instance there is a piece of: its blob, and enough of its shards.
Enough(pieces) ==
    \A n \in pieces : /\ <<n[1], Blob>> \in pieces
                      /\ Cardinality(ShardsAmong(pieces, n[1])) >= Need

Full(rnodes) == \A r \in RNodes : Enough(PiecesOf(rnodes[r]))

\* An entry counts as registered only if its registry hands out the dependency;
\* h is what the registries hold.
OnRecord(h, rnodes) ==
    \A r \in RNodes : \A e \in rnodes[r] :
        e.registered => h[Target(r)][e.piece[1][1]] # {}

RowCopies ==
    {EmptyColumns.rnodes, db.rnodes, tmp.rnodes, out.rnodes}
        \cup {req[q].mine.rnodes : q \in Requests}

\* It holds for every copy of the race nodes, whoever writes it back and when.
RowsInv == \A x \in RowCopies : Full(x) /\ OnRecord(held, x)

HeldGrows ==
    \A g \in Regs, d \in Deps : held[g][d] # {} => held'[g][d] = held[g][d]

-----------------------------------------------------------------------------
(***************************************************************************)
(* Complete sets of pieces.                                                 *)
(***************************************************************************)

LEMMA FewShards ==
    ASSUME NEW pieces \in SUBSET Names, NEW i \in Instances
    PROVE  /\ ShardsAmong(pieces, i) \subseteq {i} \X ShardIds
           /\ IsFiniteSet(ShardsAmong(pieces, i))
           /\ Cardinality(ShardsAmong(pieces, i)) \in Nat
<1>1. ShardsAmong(pieces, i) \subseteq {i} \X ShardIds
  BY DEF ShardsAmong, Names, Pieces
<1>2. IsFiniteSet({i} \X ShardIds)
  BY FS_Singleton, FS_Product, PlacementAssumption
<1>3. QED
  BY <1>1, <1>2, FS_Subset, FS_CardinalityType

LEMMA NeedType == Cardinality(ShardIds) \in Nat /\ Need \in 1 .. Cardinality(ShardIds)
  BY FS_CardinalityType, PlacementAssumption

LEMMA MoreIsEnough ==
    ASSUME NEW less \in SUBSET Names, NEW more \in SUBSET Names, less \subseteq more,
           NEW i \in Instances, Cardinality(ShardsAmong(less, i)) >= Need
    PROVE  Cardinality(ShardsAmong(more, i)) >= Need
<1>1. ShardsAmong(less, i) \subseteq ShardsAmong(more, i)
  BY DEF ShardsAmong
<1>2. Cardinality(ShardsAmong(less, i)) <= Cardinality(ShardsAmong(more, i))
  BY <1>1, FewShards, FS_Subset
<1>3. Cardinality(ShardsAmong(less, i)) \in Nat /\ Cardinality(ShardsAmong(more, i)) \in Nat
  BY FewShards
<1>4. QED
  BY <1>2, <1>3, NeedType

LEMMA EnoughOfBoth ==
    ASSUME NEW P \in SUBSET Names, NEW Q \in SUBSET Names, Enough(P), Enough(Q)
    PROVE  Enough(P \cup Q)
<1>1. SUFFICES ASSUME NEW n \in P \cup Q
               PROVE  /\ <<n[1], Blob>> \in P \cup Q
                      /\ Cardinality(ShardsAmong(P \cup Q, n[1])) >= Need
  BY DEF Enough
<1>2. n[1] \in Instances
  BY PiecesType
<1>3. CASE n \in P
  BY <1>2, <1>3, MoreIsEnough DEF Enough
<1>4. CASE n \in Q
  BY <1>2, <1>4, MoreIsEnough DEF Enough
<1>5. QED
  BY <1>3, <1>4

\* rule_sum_shards_between_n_and_m, and the blob that goes with the shards.
LEMMA ToldIsEnough ==
    ASSUME NEW known, NEW I \in SUBSET Instances, NEW p \in Placements(known, I), NEW r \in RNodes
    PROVE  Enough(ToldPieces(p, r)) /\ ToldPieces(p, r) \subseteq I \X Pieces
<1>1. PICK told \in Told(known, I) :
        p \in {[told |-> told, at |-> h.at, blobs |-> h.blobs] : h \in Held(told, I)}
  BY DEF Placements
<1>2. p.told = told
  BY <1>1
<1>3. told \in [RNodes -> SUBSET (I \X ShardIds)] /\ EnoughOrNone(told, I)
  BY DEF Told
<1>4. Blob \notin ShardIds
  BY PlacementAssumption
<1>5. ToldPieces(p, r) = told[r] \cup (InstancesOf(told[r]) \X {Blob})
  BY <1>2 DEF ToldPieces
<1>6. InstancesOf(told[r]) \subseteq I
  BY <1>3 DEF InstancesOf
<1>7. ASSUME NEW n \in ToldPieces(p, r)
      PROVE  /\ <<n[1], Blob>> \in ToldPieces(p, r)
             /\ Cardinality(ShardsAmong(ToldPieces(p, r), n[1])) >= Need
  <2>1. n[1] \in InstancesOf(told[r])
    BY <1>5 DEF InstancesOf
  <2>2. PICK m \in told[r] : m[1] = n[1]
    BY <2>1 DEF InstancesOf
  <2>3. m \in {n[1]} \X ShardIds
    BY <1>3, <2>2
  <2>4. Cardinality(ShardsOf(told, r, n[1])) >= Need
    BY <1>3, <1>6, <2>1, <2>2, <2>3 DEF EnoughOrNone
  <2>5. ShardsAmong(ToldPieces(p, r), n[1]) = ShardsOf(told, r, n[1])
    BY <1>3, <1>4, <1>5 DEF ShardsAmong, ShardsOf
  <2>6. QED
    BY <1>5, <2>1, <2>4, <2>5
<1>8. ToldPieces(p, r) \subseteq I \X Pieces
  BY <1>3, <1>5, <1>6 DEF Pieces
<1>9. QED
  BY <1>7, <1>8 DEF Enough

LEMMA AllIsEnough ==
    ASSUME NEW I \in SUBSET Instances
    PROVE  Enough(I \X Pieces)
<1>1. SUFFICES ASSUME NEW n \in I \X Pieces
               PROVE  /\ <<n[1], Blob>> \in I \X Pieces
                      /\ Cardinality(ShardsAmong(I \X Pieces, n[1])) >= Need
  BY DEF Enough
<1>2. n[1] \in I /\ Blob \in Pieces /\ Blob \notin ShardIds
  BY PiecesType, PlacementAssumption
<1>3. ShardsAmong(I \X Pieces, n[1]) = {n[1]} \X ShardIds
  BY <1>2 DEF ShardsAmong, Pieces
<1>4. Cardinality({n[1]} \X ShardIds) = Cardinality(ShardIds)
  <2>1. IsFiniteSet({n[1]}) /\ Cardinality({n[1]}) = 1 /\ IsFiniteSet(ShardIds)
    BY FS_Singleton, PlacementAssumption
  <2>2. Cardinality({n[1]} \X ShardIds) = Cardinality({n[1]}) * Cardinality(ShardIds)
    BY <2>1, FS_Product
  <2>3. QED
    BY <2>1, <2>2, NeedType
<1>5. Cardinality(ShardsAmong(I \X Pieces, n[1])) = Cardinality(ShardIds)
  BY <1>3, <1>4, Zenon
<1>6. Cardinality(ShardsAmong(I \X Pieces, n[1])) >= Need
  BY <1>5, NeedType
<1>7. QED
  BY <1>2, <1>6

LEMMA NewToldPieces ==
    ASSUME NEW shards, NEW told, NEW r, NEW draw, NEW holders
    PROVE  /\ PiecesOf(NewTold(shards, told, r, draw, holders)) = PiecesOf(shards) \cup told
           /\ \A e \in NewTold(shards, told, r, draw, holders) :
                 \/ e \in shards
                 \/ /\ e.piece \in told /\ ~e.registered
                    /\ holders[e.piece] \cap SNodes # {} => e.at \in holders[e.piece]
<1>1. ASSUME NEW e \in NewTold(shards, told, r, draw, holders), e \notin shards
      PROVE  /\ e.piece \in told /\ ~e.registered
             /\ holders[e.piece] \cap SNodes # {} => e.at \in holders[e.piece]
  <2>1. PICK n \in told :
          e = [piece |-> n, registered |-> FALSE, cid |-> FALSE,
               at |-> IF draw[<<r, n>>] \in holders[n] THEN draw[<<r, n>>]
                      ELSE CHOOSE s \in SNodes : s \in holders[n]]
    BY <1>1 DEF NewTold
  <2>2. holders[n] \cap SNodes # {} => (CHOOSE s \in SNodes : s \in holders[n]) \in holders[n]
    OBVIOUS
  <2>3. QED
    BY <2>1, <2>2
<1>2. ASSUME NEW n \in told, \A e \in shards : e.piece # n
      PROVE  \E e \in NewTold(shards, told, r, draw, holders) : e.piece = n
  <2> DEFINE x == [piece |-> n, registered |-> FALSE, cid |-> FALSE,
                   at |-> IF draw[<<r, n>>] \in holders[n] THEN draw[<<r, n>>]
                          ELSE CHOOSE s \in SNodes : s \in holders[n]]
  <2>1. x \in NewTold(shards, told, r, draw, holders)
    BY <1>2 DEF NewTold
  <2>2. QED
    BY <2>1
<1>3. shards \subseteq NewTold(shards, told, r, draw, holders)
  BY DEF NewTold
<1>4. QED
  BY <1>1, <1>2, <1>3 DEF PiecesOf

-----------------------------------------------------------------------------
(***************************************************************************)
(* Every copy of the race nodes is complete and on record.                  *)
(***************************************************************************)

LEMMA TargetType == \A r \in RNodes : Target(r) \in Regs
  BY DeployAssumption DEF Target, Regs

LEMMA RowsType ==
    ASSUME NEW m \in Columns, NEW r \in RNodes
    PROVE  /\ \A e \in m.rnodes[r] : /\ e \in RShard /\ e.piece \in Names /\ e.at \in SNodes
                                   /\ e.piece[1] \in Instances /\ e.piece[1][1] \in Deps
           /\ PiecesOf(m.rnodes[r]) \in SUBSET Names
<1>1. m.rnodes[r] \in SUBSET RShard
  BY DEF Columns
<1>2. \A e \in m.rnodes[r] : e.piece \in Names /\ e.at \in SNodes
  BY <1>1 DEF RShard
<1>3. QED
  BY <1>1, <1>2, PiecesType DEF PiecesOf

LEMMA OnRecordStays ==
    ASSUME NEW m \in Columns, OnRecord(held, m.rnodes), HeldGrows
    PROVE  OnRecord(held', m.rnodes)
<1>1. SUFFICES ASSUME NEW r \in RNodes, NEW e \in m.rnodes[r], e.registered
               PROVE  held'[Target(r)][e.piece[1][1]] # {}
  BY DEF OnRecord
<1>2. Target(r) \in Regs /\ e.piece[1][1] \in Deps
  BY TargetType, RowsType
<1>3. QED
  BY <1>1, <1>2 DEF OnRecord, HeldGrows

\* A step of one request; its copy of the race nodes may be a new one.
RowsMove(q) ==
    /\ \A p \in Requests \ {q} : req'[p] = req[p]
    /\ {db'.rnodes, tmp'.rnodes, out'.rnodes} \subseteq RowCopies
    /\ \/ req'[q].mine.rnodes \in RowCopies
       \/ Full(req'[q].mine.rnodes) /\ OnRecord(held', req'[q].mine.rnodes)
    /\ HeldGrows

LEMMA RowsKept ==
    ASSUME TypeOK, RowsInv, NEW q \in Requests, RowsMove(q)
    PROVE  RowsInv'
<1>1. \A m \in Columns : m.rnodes \in RowCopies => Full(m.rnodes) /\ OnRecord(held', m.rnodes)
  BY OnRecordStays DEF RowsInv, RowsMove
<1>2. \A x \in RowCopies : \E m \in Columns : x = m.rnodes
  BY EmptyType, RequestType DEF RowCopies, TypeOK
<1>3. \A x \in RowCopies : Full(x) /\ OnRecord(held', x)
  BY <1>1, <1>2
<1>4. ASSUME NEW x \in RowCopies' PROVE x \in RowCopies \/ (Full(x) /\ OnRecord(held', x))
  <2>1. CASE x \in {EmptyColumns.rnodes, db'.rnodes, tmp'.rnodes, out'.rnodes}
    BY <2>1 DEF RowsMove, RowCopies
  <2>2. ASSUME NEW p \in Requests, x = req'[p].mine.rnodes
        PROVE  x \in RowCopies \/ (Full(x) /\ OnRecord(held', x))
    <3>1. p # q => x = req[p].mine.rnodes
      BY <2>2 DEF RowsMove
    <3>2. QED
      BY <2>2, <3>1 DEF RowsMove, RowCopies
  <2>3. QED
    BY <2>1, <2>2 DEF RowCopies
<1>5. \A x \in RowCopies' : Full(x) /\ OnRecord(held', x)
  BY <1>3, <1>4
<1>6. QED
  BY <1>5 DEF RowsInv

LEMMA CopiedIs ==
    ASSUME NEW to \in Columns, NEW from \in Columns, NEW c
    PROVE  /\ Copied(to, from, c).deps = IF c = "deps" THEN from.deps ELSE to.deps
           /\ Copied(to, from, c).rnodes = IF c = "rnodes" THEN from.rnodes ELSE to.rnodes
           /\ Copied(to, from, c).snodes = IF c = "snodes" THEN from.snodes ELSE to.snodes
  BY DEF Copied, Columns

LEMMA RowCopiesThere ==
    ASSUME TypeOK, NEW q \in Requests
    PROVE  /\ {EmptyColumns.rnodes, db.rnodes, tmp.rnodes, out.rnodes, req[q].mine.rnodes}
                 \subseteq RowCopies
           /\ Idle.mine = EmptyColumns
           /\ \A c : /\ Copied(EmptyColumns, db, c).rnodes \in RowCopies
                    /\ Copied(req[q].mine, db, c).rnodes \in RowCopies
                    /\ Copied(db, req[q].mine, c).rnodes \in RowCopies
                    /\ Copied(tmp, db, c).rnodes \in RowCopies
                    /\ Copied(req[q].mine, tmp, c).rnodes \in RowCopies
                    /\ Copied(out, req[q].mine, c).rnodes \in RowCopies
                    /\ Copied(db, out, c).rnodes \in RowCopies
<1>1. db \in Columns /\ tmp \in Columns /\ out \in Columns /\ req[q].mine \in Columns
      /\ EmptyColumns \in Columns
  BY RequestType, EmptyType DEF TypeOK
<1>2. QED
  BY <1>1, CopiedIs DEF RowCopies, Idle

LEMMA HeldStays == UNCHANGED held => HeldGrows
  BY DEF HeldGrows

LEMMA UploadRowsMove ==
    ASSUME TypeOK, UploadInv, NEW q \in Uploaders,
           ReadForUpload(q) \/ \E d \in Deps : WriteUpload(q, d)
    PROVE  RowsMove(q)
<1>1. q \in Requests /\ req \in [Requests -> Request] /\ db \in Columns
  BY DEF Requests, TypeOK
<1>2. CASE ReadForUpload(q)
  <2>1. /\ req'[q].mine = Copied(EmptyColumns, db, "deps")
        /\ \A p \in Requests \ {q} : req'[p] = req[p]
        /\ UNCHANGED <<db, tmp, out, held>>
    BY <1>1, <1>2 DEF ReadForUpload, Request
  <2>2. QED
    BY <1>1, <2>1, RowCopiesThere, HeldStays DEF RowsMove
<1>3. ASSUME NEW d \in Deps, WriteUpload(q, d) PROVE RowsMove(q)
  <2>1. /\ req'[q] = Idle /\ \A p \in Requests \ {q} : req'[p] = req[p]
        /\ db'.rnodes = db.rnodes /\ UNCHANGED <<tmp, out, held>>
    BY <1>1, <1>3 DEF WriteUpload, Columns
  <2>2. QED
    BY <1>1, <2>1, RowCopiesThere, HeldStays DEF RowsMove
<1>4. QED
  BY <1>2, <1>3

LEMMA PageRowsMove ==
    ASSUME TypeOK, NEW q \in Editors, PostPage(q) \/ \E c \in EditColumns : ShowPage(q, c)
    PROVE  RowsMove(q)
<1>1. q \in Requests /\ req \in [Requests -> Request]
  BY DEF Requests, TypeOK
<1>2. CASE PostPage(q)
  <2>1. /\ req'[q] = Idle /\ \A p \in Requests \ {q} : req'[p] = req[p]
        /\ db' = Copied(db, req[q].mine, req[q].kind) /\ UNCHANGED <<tmp, out, held>>
    BY <1>1, <1>2 DEF PostPage
  <2>2. QED
    BY <1>1, <2>1, RowCopiesThere, HeldStays DEF RowsMove
<1>3. ASSUME NEW c \in EditColumns, ShowPage(q, c) PROVE RowsMove(q)
  <2>1. /\ req'[q] = [req[q] EXCEPT !.pc = "edit", !.kind = c,
                                   !.mine = Copied(EmptyColumns, db, c)]
        /\ \A p \in Requests \ {q} : req'[p] = req[p]
    BY <1>1, <1>3 DEF ShowPage
  <2>2. req'[q].mine = Copied(EmptyColumns, db, c)
    BY <1>1, <2>1 DEF Request
  <2>3. UNCHANGED <<db, tmp, out, held>>
    BY <1>3 DEF ShowPage
  <2>4. QED
    BY <1>1, <2>1, <2>2, <2>3, RowCopiesThere, HeldStays DEF RowsMove
<1>4. QED
  BY <1>2, <1>3

LEMMA LockRowsMove ==
    ASSUME TypeOK, NEW q \in Deployers, NEW k,
           \/ TestLock(q, k) \/ SetLock(q) \/ Unlock(q) \/ PushRaises(q) \/ NextNode(q)
           \/ OptimizeRaises(q) \/ \E i \in Instances : SkipKnown(q, i) \/ NoCidToRegister(q, i)
    PROVE  RowsMove(q)
<1>1. q \in Requests /\ req \in [Requests -> Request]
  BY DEF Requests, TypeOK
<1>2. UNCHANGED <<db, tmp, out, held>>
  BY DEF TestLock, SetLock, Unlock, PushRaises, NextNode, OptimizeRaises, SkipKnown,
     NoCidToRegister
<1>3. CASE TestLock(q, k) \/ SetLock(q) \/ PushRaises(q) \/ NextNode(q)
           \/ \E i \in Instances : SkipKnown(q, i)
  <2>1. req'[q].mine = req[q].mine /\ \A p \in Requests \ {q} : req'[p] = req[p]
    BY <1>1, <1>3 DEF TestLock, SetLock, PushRaises, NextNode, SkipKnown, Goto, Request
  <2>2. QED
    BY <1>1, <1>2, <2>1, RowCopiesThere, HeldStays DEF RowsMove
<1>4. CASE Unlock(q) \/ OptimizeRaises(q) \/ \E i \in Instances : NoCidToRegister(q, i)
  <2>1. req'[q].mine = EmptyColumns /\ \A p \in Requests \ {q} : req'[p] = req[p]
    BY <1>1, <1>4 DEF Unlock, OptimizeRaises, NoCidToRegister, Idle
  <2>2. QED
    BY <1>1, <1>2, <2>1, RowCopiesThere, HeldStays DEF RowsMove
<1>5. QED
  BY <1>3, <1>4

LEMMA ColumnRowsMove ==
    ASSUME TypeOK, NEW q \in Deployers,
           ReadColumn(q) \/ LoadFile(q) \/ EmitFile(q) \/ TakeColumn(q)
    PROVE  RowsMove(q)
<1> DEFINE c == Here(q)
<1>1. q \in Requests
  BY DEF Requests
<1>2. UNCHANGED held
  BY DEF ReadColumn, LoadFile, EmitFile, TakeColumn
<1>3. PICK following, mine : NextColumn(q, following, mine) /\ mine.rnodes \in RowCopies
  BY <1>1, RowCopiesThere DEF ReadColumn, LoadFile, EmitFile, TakeColumn
<1>4. req'[q].mine.rnodes \in RowCopies /\ \A p \in Requests \ {q} : req'[p] = req[p]
  BY <1>1, <1>3, NextColumnIs
<1>5. {db'.rnodes, tmp'.rnodes, out'.rnodes} \subseteq RowCopies
  BY <1>1, RowCopiesThere DEF ReadColumn, LoadFile, EmitFile, TakeColumn
<1>6. QED
  BY <1>2, <1>4, <1>5, HeldStays DEF RowsMove

\* Merging and registering change flags of entries and nothing else.
LEMMA SamePiecesFull ==
    ASSUME NEW x, NEW y, Full(x), \A r \in RNodes : PiecesOf(y[r]) = PiecesOf(x[r])
    PROVE  Full(y)
  BY DEF Full

LEMMA WithCidsPieces ==
    ASSUME NEW m \in Columns, NEW r \in RNodes
    PROVE  /\ \A x \in WithCids(m)[r] : \E e \in m.rnodes[r] :
                 /\ x.piece = e.piece /\ x.at = e.at /\ x.registered = e.registered
           /\ \A e \in m.rnodes[r] : \E x \in WithCids(m)[r] : x.piece = e.piece
           /\ PiecesOf(WithCids(m)[r]) = PiecesOf(m.rnodes[r])
<1>1. \A e \in m.rnodes[r] : e \in RShard
  BY RowsType
<1>2. ASSUME NEW e \in m.rnodes[r], NEW b
      PROVE  /\ [e EXCEPT !.cid = b].piece = e.piece /\ [e EXCEPT !.cid = b].at = e.at
             /\ [e EXCEPT !.cid = b].registered = e.registered
  BY <1>1 DEF RShard
<1>3. ASSUME NEW x \in WithCids(m)[r]
      PROVE  \E e \in m.rnodes[r] :
                x.piece = e.piece /\ x.at = e.at /\ x.registered = e.registered
  <2>1. PICK e \in m.rnodes[r] :
          x = [e EXCEPT !.cid =
                  @ \/ (Method[e.at] = "ipfs" /\ \E s \in SNodes : Matches(e, s, m) # {})]
    BY <1>3 DEF WithCids
  <2>2. PICK b : x = [e EXCEPT !.cid = b]
    BY <2>1
  <2>3. QED
    BY <1>2, <2>2
<1>4. ASSUME NEW e \in m.rnodes[r] PROVE \E x \in WithCids(m)[r] : x.piece = e.piece
  <2> DEFINE x == [e EXCEPT !.cid =
                     @ \/ (Method[e.at] = "ipfs" /\ \E s \in SNodes : Matches(e, s, m) # {})]
  <2>1. x \in WithCids(m)[r]
    BY DEF WithCids
  <2>2. x.piece = e.piece
    BY <1>2
  <2>3. QED
    BY <2>1, <2>2
<1>5. PiecesOf(WithCids(m)[r]) = PiecesOf(m.rnodes[r])
  BY <1>3, <1>4 DEF PiecesOf
<1>6. QED
  BY <1>3, <1>4, <1>5

LEMMA MergeRowsMove ==
    ASSUME TypeOK, RowsInv, NEW q \in Deployers, Merge(q)
    PROVE  RowsMove(q)
<1> DEFINE read == Copied(req[q].mine, db, "snodes")
<1>1. q \in Requests /\ req \in [Requests -> Request] /\ req[q] \in Request
      /\ req[q].mine \in Columns /\ db \in Columns
  BY RequestType DEF Requests, TypeOK
<1>2. /\ UNCHANGED <<db, tmp, out, held>>
      /\ \A p \in Requests \ {q} : req'[p] = req[p]
  BY <1>1 DEF Merge, ReadForMerge
<1>3. read \in Columns /\ read.rnodes \in RowCopies
  BY <1>1, CopiedType, RowCopiesThere
<1> HIDE DEF read
<1>4. /\ Full(WithCids(read)) /\ OnRecord(held, WithCids(read))
      /\ [read EXCEPT !.rnodes = WithCids(read)].rnodes = WithCids(read)
  <2>1. Full(read.rnodes) /\ OnRecord(held, read.rnodes)
    BY <1>3 DEF RowsInv
  <2>2. Full(WithCids(read))
    BY <1>3, <2>1, WithCidsPieces, SamePiecesFull
  <2>3. OnRecord(held, WithCids(read))
    <3>1. SUFFICES ASSUME NEW r \in RNodes, NEW x \in WithCids(read)[r], x.registered
                   PROVE  held[Target(r)][x.piece[1][1]] # {}
      BY DEF OnRecord
    <3>2. PICK e \in read.rnodes[r] : x.piece = e.piece /\ x.registered = e.registered
      BY <1>3, WithCidsPieces
    <3>3. QED
      BY <2>1, <3>1, <3>2 DEF OnRecord
  <2>4. QED
    BY <1>3, <2>2, <2>3 DEF Columns
<1>5. CASE req' = [req EXCEPT ![q].pc = "mergeSnodes",
                              ![q].mine = Copied(EmptyColumns, db, "rnodes")]
  <2>1. req'[q].mine = Copied(EmptyColumns, db, "rnodes")
    BY <1>1, <1>5 DEF Request
  <2>2. QED
    BY <1>1, <1>2, <2>1, RowCopiesThere, HeldStays DEF RowsMove
<1>6. CASE req' = [req EXCEPT ![q] = [Idle EXCEPT !.pc = "dead"]]
  <2>1. req'[q].mine = EmptyColumns
    BY <1>1, <1>6 DEF Idle
  <2>2. QED
    BY <1>1, <1>2, <2>1, RowCopiesThere, HeldStays DEF RowsMove
<1>7. CASE req' = [req EXCEPT ![q].pc = "mergeWrite",
                              ![q].mine = [read EXCEPT !.rnodes = WithCids(read)]]
  <2>1. req'[q].mine = [read EXCEPT !.rnodes = WithCids(read)]
    BY <1>1, <1>7 DEF Request
  <2>2. QED
    BY <1>1, <1>2, <1>4, <2>1, RowCopiesThere, HeldStays DEF RowsMove
<1>8. QED
  BY <1>5, <1>6, <1>7 DEF Merge, ReadForMerge, read

LEMMA WritingRowsMove ==
    ASSUME TypeOK, NEW q \in Deployers,
           \/ StartThreads(q) \/ CollectResults(q) \/ WriteMerged(q)
           \/ ReadForRegister(q) \/ WriteRegistered(q) \/ CreateMore(q)
    PROVE  RowsMove(q)
<1>1. q \in Requests /\ req \in [Requests -> Request] /\ req[q] \in Request
      /\ req[q].mine \in Columns
  BY RequestType DEF Requests, TypeOK
<1>2. /\ UNCHANGED <<tmp, out, held>>
      /\ \A p \in Requests \ {q} : req'[p] = req[p]
  BY <1>1 DEF StartThreads, CollectResults, WriteMerged, ReadForRegister, WriteRegistered,
     CreateMore, Goto
<1>3. db'.rnodes \in RowCopies
  BY <1>1, RowCopiesThere DEF StartThreads, CollectResults, WriteMerged, ReadForRegister,
     WriteRegistered, CreateMore
<1>4. req'[q].mine.rnodes \in RowCopies
  <2>1. CASE StartThreads(q) \/ CollectResults(q)
    <3>1. req'[q].mine \in {EmptyColumns, Copied(EmptyColumns, db, "snodes")}
      BY <1>1, <2>1 DEF StartThreads, CollectResults, Request
    <3>2. QED
      BY <1>1, <3>1, RowCopiesThere
  <2>2. CASE WriteMerged(q) \/ WriteRegistered(q)
    <3>1. req'[q].mine \in {EmptyColumns, req[q].mine}
      BY <1>1, <2>2 DEF WriteMerged, WriteRegistered, Goto, Request
    <3>2. QED
      BY <1>1, <3>1, RowCopiesThere
  <2>3. CASE ReadForRegister(q)
    <3>1. req'[q].mine \in {Copied(EmptyColumns, db, "rnodes"), Copied(req[q].mine, db, "regs")}
      BY <1>1, <2>3 DEF ReadForRegister, Request
    <3>2. QED
      BY <1>1, <3>1, RowCopiesThere
  <2>4. CASE CreateMore(q)
    <3>1. req'[q].mine.rnodes = req[q].mine.rnodes
      BY <1>1, <2>4 DEF CreateMore, Request, Columns
    <3>2. QED
      BY <1>1, <3>1, RowCopiesThere
  <2>5. QED
    BY <2>1, <2>2, <2>3, <2>4
<1>5. QED
  BY <1>1, <1>2, <1>3, <1>4, RowCopiesThere, HeldStays DEF RowsMove

LEMMA PostEntryIs ==
    ASSUME TypeOK, NEW q \in Deployers, NEW i \in Instances, PostEntry(q, i)
    PROVE  /\ \A p \in Requests \ {q} : req'[p] = req[p]
           /\ req'[q].pc = "registering" /\ req'[q].kind = req[q].kind /\ req'[q].col = req[q].col
           /\ req'[q].mine.deps = req[q].mine.deps /\ req'[q].mine.snodes = req[q].mine.snodes
           /\ \A r \in RNodes : /\ PiecesOf(req'[q].mine.rnodes[r]) = PiecesOf(req[q].mine.rnodes[r])
                              /\ \A x \in req'[q].mine.rnodes[r] : \E e \in req[q].mine.rnodes[r] :
                                    /\ x.piece = e.piece /\ x.at = e.at
                                    /\ \/ x.registered = e.registered
                                       \/ r = req[q].node /\ e \in Due(q, i)
<1> DEFINE mine == req[q].mine
           n == req[q].node
           g == Target(n)
           due == Due(q, i)
           done == {[e EXCEPT !.registered = TRUE] : e \in due}
<1>1. q \in Requests /\ req \in [Requests -> Request] /\ req[q] \in Request
      /\ mine \in Columns /\ n \in RNodes /\ g \in Regs
  BY RequestType, TargetType DEF Requests
<1>2. req' = [req EXCEPT
          ![q].left = @ \ {i},
          ![q].mine.regs[g] = @ \cup {i},
          ![q].mine.rnodes[n] = (@ \ due) \cup done]
  BY DEF PostEntry
<1>3. due \subseteq mine.rnodes[n]
  BY DEF Due
<1>4. \A e \in due : e \in RShard
  BY <1>1, <1>3, RowsType
<1>5. \A e \in due : /\ [e EXCEPT !.registered = TRUE].piece = e.piece
                   /\ [e EXCEPT !.registered = TRUE].at = e.at
  BY <1>4 DEF RShard
<1> HIDE DEF due, done
<1>6. /\ \A p \in Requests \ {q} : req'[p] = req[p]
      /\ req'[q].pc = req[q].pc /\ req'[q].kind = req[q].kind /\ req'[q].col = req[q].col
      /\ req'[q].mine.deps = mine.deps /\ req'[q].mine.snodes = mine.snodes
      /\ req'[q].mine.rnodes = [mine.rnodes EXCEPT ![n] = (@ \ due) \cup done]
  BY <1>1, <1>2 DEF Request, Columns
<1>7. req[q].pc = "registering"
  BY DEF PostEntry, At
<1>8. /\ req'[q].mine.rnodes[n] = (mine.rnodes[n] \ due) \cup done
      /\ \A r \in RNodes \ {n} : req'[q].mine.rnodes[r] = mine.rnodes[r]
  BY <1>1, <1>6 DEF Columns
<1>9. \A x \in req'[q].mine.rnodes[n] : \E e \in mine.rnodes[n] :
         x.piece = e.piece /\ x.at = e.at /\ (x.registered = e.registered \/ e \in due)
  BY <1>3, <1>5, <1>8 DEF done
<1>10. PiecesOf(req'[q].mine.rnodes[n]) = PiecesOf(mine.rnodes[n])
  <2>1. ASSUME NEW e \in mine.rnodes[n] PROVE \E x \in req'[q].mine.rnodes[n] : x.piece = e.piece
    BY <1>5, <1>8 DEF done
  <2>2. QED
    BY <1>9, <2>1 DEF PiecesOf
<1>11. QED
  BY <1>6, <1>7, <1>8, <1>9, <1>10 DEF due

\* A registry that answers has the entry.
LEMMA StowedGrows ==
    ASSUME TypeOK, NEW q \in Deployers, NEW i \in Instances
    PROVE  LET g == Target(req[q].node)
               stowed == Stowed(g, i, Due(q, i))
           IN /\ \A h \in Regs, d \in Deps :
                    /\ held[h][d] # {} \/ h # g \/ d # i[1] => stowed[h][d] = held[h][d]
                    /\ held[h][d] = {} /\ h = g /\ d = i[1] =>
                          stowed[h][d] = {<<e.at, e.piece>> : e \in Due(q, i)}
              /\ Due(q, i) # {} => stowed[g][i[1]] # {}
<1> DEFINE g == Target(req[q].node)
           due == Due(q, i)
           places == {<<e.at, e.piece>> : e \in due}
<1>1. /\ req[q].node \in RNodes /\ g \in Regs /\ i[1] \in Deps
      /\ held \in [Regs -> [Deps -> SUBSET (SNodes \X Names)]]
  BY RequestType, TargetType, PiecesType DEF Requests, TypeOK
<1>2. due = {} <=> places = {}
  <2>1. \A e \in due : <<e.at, e.piece>> \in places
    OBVIOUS
  <2>2. \A x \in places : \E e \in due : TRUE
    OBVIOUS
  <2> HIDE DEF due, places
  <2>3. QED
    BY <2>1, <2>2
<1>3. Stowed(g, i, due) =
         [held EXCEPT ![g][i[1]] = IF @ # {} \/ due = {} THEN @ ELSE places]
  BY DEF Stowed
<1> HIDE DEF g, due, places
<1>4. QED
  BY <1>1, <1>2, <1>3 DEF g, due, places

LEMMA EntryRowsMove ==
    ASSUME TypeOK, RowsInv, NEW q \in Deployers, NEW i \in Instances,
           PostEntry(q, i) \/ EntryFails(q, i)
    PROVE  RowsMove(q)
<1> DEFINE mine == req[q].mine
           g == Target(req[q].node)
<1>1. q \in Requests /\ req \in [Requests -> Request] /\ mine \in Columns /\ req[q].node \in RNodes
  BY RequestType DEF Requests, TypeOK
<1>2. UNCHANGED <<db, tmp, out>>
  BY DEF PostEntry, EntryFails
<1>3. HeldGrows
  <2>1. held' \in {held, Stowed(g, i, Due(q, i))}
    BY DEF PostEntry, EntryFails
  <2>2. QED
    BY <2>1, StowedGrows DEF HeldGrows
<1>4. CASE PostEntry(q, i)
  <2>1. Full(mine.rnodes) /\ OnRecord(held', mine.rnodes)
    BY <1>1, <1>3, RowCopiesThere, OnRecordStays DEF RowsInv
  <2>2. Full(req'[q].mine.rnodes)
    BY <1>4, <2>1, PostEntryIs, SamePiecesFull
  <2>3. ASSUME NEW r \in RNodes, NEW x \in req'[q].mine.rnodes[r], x.registered
        PROVE  held'[Target(r)][x.piece[1][1]] # {}
    <3>1. PICK e \in mine.rnodes[r] :
            /\ x.piece = e.piece
            /\ x.registered = e.registered \/ (r = req[q].node /\ e \in Due(q, i))
      BY <1>4, PostEntryIs
    <3>2. CASE x.registered = e.registered
      BY <2>1, <2>3, <3>1, <3>2 DEF OnRecord
    <3>3. CASE r = req[q].node /\ e \in Due(q, i)
      <4>1. held' = Stowed(g, i, Due(q, i)) /\ e.piece[1] = i
        BY <1>4, <3>3 DEF PostEntry, Due
      <4>2. QED
        BY <3>1, <3>3, <4>1, StowedGrows
    <3>4. QED
      BY <3>1, <3>2, <3>3
  <2>4. OnRecord(held', req'[q].mine.rnodes)
    BY <2>3 DEF OnRecord
  <2>5. QED
    BY <1>1, <1>2, <1>3, <1>4, <2>2, <2>4, PostEntryIs, RowCopiesThere DEF RowsMove
<1>5. CASE EntryFails(q, i)
  <2>1. req'[q].mine = EmptyColumns /\ \A p \in Requests \ {q} : req'[p] = req[p]
    BY <1>1, <1>5 DEF EntryFails, Idle
  <2>2. QED
    BY <1>1, <1>2, <1>3, <2>1, RowCopiesThere DEF RowsMove
<1>6. QED
  BY <1>4, <1>5

LEMMA NewHeldPieces ==
    ASSUME NEW shards, NEW pieces
    PROVE  PiecesOf(NewHeld(shards, pieces)) = PiecesOf(shards) \cup pieces
<1>1. \A e \in NewHeld(shards, pieces) : e \in shards \/ e.piece \in pieces
  BY DEF NewHeld
<1>2. ASSUME NEW n \in pieces, \A e \in shards : e.piece # n
      PROVE  \E e \in NewHeld(shards, pieces) : e.piece = n
  <2>1. [piece |-> n, pushed |-> FALSE] \in NewHeld(shards, pieces)
    BY <1>2 DEF NewHeld
  <2>2. QED
    BY <2>1
<1>3. shards \subseteq NewHeld(shards, pieces)
  BY DEF NewHeld
<1>4. QED
  BY <1>1, <1>2, <1>3 DEF PiecesOf

\* What create_instance and the updates with simple make of a request's copy.
LEMMA SpreadIs ==
    ASSUME TypeOK, NEW q \in Deployers, NEW k, NEW following, Spread(q, k, following)
    PROVE  LET mine == req[q].mine
               new == req'[q].mine
               I == new.deps.instances
           IN /\ \A p \in Requests \ {q} : req'[p] = req[p]
              /\ req'[q].pc = following /\ req'[q].kind = req[q].kind /\ req'[q].col = req[q].col
              /\ I \in SUBSET Instances /\ mine.deps.instances \subseteq I
              /\ \A r \in RNodes : /\ PiecesOf(new.rnodes[r]) = PiecesOf(mine.rnodes[r]) \cup (I \X Pieces)
                                 /\ \A e \in new.rnodes[r] : e \in mine.rnodes[r] \/ ~e.registered
              /\ \A s \in SNodes : I \X Pieces \subseteq PiecesOf(new.snodes[s])
<1> DEFINE mine == req[q].mine
           I == mine.deps.instances \cup Fresh(mine.deps.known, k)
           pieces == I \X Pieces
           anywhere == [n \in Names |-> SNodes]
<1>1. q \in Requests /\ req \in [Requests -> Request] /\ req[q] \in Request /\ mine \in Columns
  BY RequestType DEF Requests
<1>2. I \in SUBSET Instances
  BY <1>1, FreshType DEF Columns
<1>3. PICK draw \in Draws :
        req' = [req EXCEPT
            ![q].pc = following,
            ![q].mine.deps.instances = @ \cup Fresh(mine.deps.known, k),
            ![q].mine.rnodes = [r \in RNodes |-> NewTold(@[r], pieces, r, draw, anywhere)],
            ![q].mine.snodes = [s \in SNodes |-> NewHeld(@[s], pieces)]]
  BY DEF Spread
<1> HIDE DEF pieces
<1>4. /\ \A p \in Requests \ {q} : req'[p] = req[p]
      /\ req'[q].pc = following /\ req'[q].kind = req[q].kind /\ req'[q].col = req[q].col
      /\ req'[q].mine.deps.instances = I
      /\ req'[q].mine.rnodes = [r \in RNodes |-> NewTold(mine.rnodes[r], pieces, r, draw, anywhere)]
      /\ req'[q].mine.snodes = [s \in SNodes |-> NewHeld(mine.snodes[s], pieces)]
  BY <1>1, <1>3 DEF Request, Columns
<1> HIDE DEF anywhere
<1>5. \A r \in RNodes :
         /\ PiecesOf(req'[q].mine.rnodes[r]) = PiecesOf(mine.rnodes[r]) \cup pieces
         /\ \A e \in req'[q].mine.rnodes[r] : e \in mine.rnodes[r] \/ ~e.registered
  BY <1>4, NewToldPieces
<1>6. \A s \in SNodes : pieces \subseteq PiecesOf(req'[q].mine.snodes[s])
  BY <1>4, NewHeldPieces
<1>7. QED
  BY <1>2, <1>4, <1>5, <1>6 DEF pieces

\* What optimize makes of it, by a model p of the rules.
LEMMA SolveIs ==
    ASSUME TypeOK, NEW q \in Deployers, Solve(q)
    PROVE  LET mine == req[q].mine
               new == req'[q].mine
               I == mine.deps.instances
           IN /\ \A x \in Requests \ {q} : req'[x] = req[x]
              /\ req'[q].pc = "emit" /\ req'[q].kind = req[q].kind /\ req'[q].col = req[q].col
              /\ new.deps = mine.deps /\ I \in SUBSET Instances
              /\ \E p \in Placements(mine.deps.known, I) :
                    /\ \A r \in RNodes :
                          /\ PiecesOf(new.rnodes[r]) = PiecesOf(mine.rnodes[r]) \cup ToldPieces(p, r)
                          /\ \A e \in new.rnodes[r] :
                                e \in mine.rnodes[r] \/ (~e.registered /\ e.piece \in HeldPieces(p, e.at))
                    /\ \A s \in SNodes :
                          PiecesOf(new.snodes[s]) = PiecesOf(mine.snodes[s]) \cup HeldPieces(p, s)
<1> DEFINE mine == req[q].mine
           I == mine.deps.instances
<1>1. q \in Requests /\ req \in [Requests -> Request] /\ req[q] \in Request /\ mine \in Columns
  BY RequestType DEF Requests
<1>2. I \in SUBSET Instances
  BY <1>1 DEF Columns
<1>3. PICK p \in Placements(mine.deps.known, I), draw \in Draws :
        LET holders == [n \in Names |-> {s \in SNodes : n \in HeldPieces(p, s)}]
        IN req' = [req EXCEPT
              ![q].pc = "emit",
              ![q].mine.rnodes =
                  [r \in RNodes |-> NewTold(@[r], ToldPieces(p, r), r, draw, holders)],
              ![q].mine.snodes = [s \in SNodes |-> NewHeld(@[s], HeldPieces(p, s))]]
  BY DEF Solve
<1> DEFINE holders == [n \in Names |-> {s \in SNodes : n \in HeldPieces(p, s)}]
<1>4. /\ \A x \in Requests \ {q} : req'[x] = req[x]
      /\ req'[q].pc = "emit" /\ req'[q].kind = req[q].kind /\ req'[q].col = req[q].col
      /\ req'[q].mine.deps = mine.deps
      /\ req'[q].mine.rnodes =
            [r \in RNodes |-> NewTold(mine.rnodes[r], ToldPieces(p, r), r, draw, holders)]
      /\ req'[q].mine.snodes = [s \in SNodes |-> NewHeld(mine.snodes[s], HeldPieces(p, s))]
  BY <1>1, <1>3 DEF Request, Columns
<1> HIDE DEF holders
<1>5. ASSUME NEW r \in RNodes, NEW e \in req'[q].mine.rnodes[r], e \notin mine.rnodes[r]
      PROVE  ~e.registered /\ e.piece \in HeldPieces(p, e.at)
  <2>1. e \in NewTold(mine.rnodes[r], ToldPieces(p, r), r, draw, holders)
    BY <1>4, <1>5
  <2>2. /\ e.piece \in ToldPieces(p, r) /\ ~e.registered
        /\ holders[e.piece] \cap SNodes # {} => e.at \in holders[e.piece]
    BY <1>5, <2>1, NewToldPieces
  <2>3. e.piece \in Names /\ \E s \in SNodes : e.piece \in HeldPieces(p, s)
    BY <1>2, <2>2, PlacementsType
  <2>4. QED
    BY <2>2, <2>3 DEF holders
<1>6. \A r \in RNodes :
         PiecesOf(req'[q].mine.rnodes[r]) = PiecesOf(mine.rnodes[r]) \cup ToldPieces(p, r)
  BY <1>4, NewToldPieces
<1>7. \A s \in SNodes :
         PiecesOf(req'[q].mine.snodes[s]) = PiecesOf(mine.snodes[s]) \cup HeldPieces(p, s)
  BY <1>4, NewHeldPieces
<1>8. QED
  BY <1>2, <1>4, <1>5, <1>6, <1>7

LEMMA SolvingRowsMove ==
    ASSUME TypeOK, RowsInv, NEW q \in Deployers, SolveSimple(q) \/ Solve(q)
    PROVE  RowsMove(q)
<1> DEFINE mine == req[q].mine
           new == req'[q].mine
<1>1. q \in Requests /\ mine \in Columns
  BY RequestType DEF Requests
<1>2. UNCHANGED <<db, tmp, out, held>>
  BY DEF SolveSimple, Solve
<1>3. Full(mine.rnodes) /\ OnRecord(held, mine.rnodes)
  BY <1>1, RowCopiesThere DEF RowsInv
<1>4. ASSUME NEW more,
             \A r \in RNodes : more[r] \in SUBSET Names /\ Enough(more[r]),
             \A r \in RNodes : /\ PiecesOf(new.rnodes[r]) = PiecesOf(mine.rnodes[r]) \cup more[r]
                             /\ \A e \in new.rnodes[r] : e \in mine.rnodes[r] \/ ~e.registered,
             \A p \in Requests \ {q} : req'[p] = req[p]
      PROVE  RowsMove(q)
  <2>1. Full(new.rnodes)
    BY <1>1, <1>3, <1>4, RowsType, EnoughOfBoth DEF Full
  <2>2. OnRecord(held', new.rnodes)
    BY <1>2, <1>3, <1>4 DEF OnRecord
  <2>3. QED
    BY <1>1, <1>2, <1>4, <2>1, <2>2, RowCopiesThere, HeldStays DEF RowsMove
<1>5. ASSUME NEW k, NEW following, Spread(q, k, following) PROVE RowsMove(q)
  <2> DEFINE I == new.deps.instances
             more == [r \in RNodes |-> I \X Pieces]
  <2>1. /\ I \in SUBSET Instances
        /\ \A r \in RNodes : /\ PiecesOf(new.rnodes[r]) = PiecesOf(mine.rnodes[r]) \cup (I \X Pieces)
                           /\ \A e \in new.rnodes[r] : e \in mine.rnodes[r] \/ ~e.registered
        /\ \A p \in Requests \ {q} : req'[p] = req[p]
    BY <1>5, SpreadIs
  <2>2. I \X Pieces \in SUBSET Names /\ Enough(I \X Pieces)
    BY <2>1, AllIsEnough DEF Names
  <2>3. \A r \in RNodes : more[r] = I \X Pieces
    OBVIOUS
  <2> HIDE DEF more, I
  <2>4. QED
    BY <1>4, <2>1, <2>2, <2>3
<1>6. CASE Solve(q)
  <2> DEFINE I == mine.deps.instances
  <2>1. I \in SUBSET Instances /\ \A x \in Requests \ {q} : req'[x] = req[x]
    BY <1>6, SolveIs
  <2>2. PICK p \in Placements(mine.deps.known, I) :
          \A r \in RNodes :
             /\ PiecesOf(new.rnodes[r]) = PiecesOf(mine.rnodes[r]) \cup ToldPieces(p, r)
             /\ \A e \in new.rnodes[r] : e \in mine.rnodes[r] \/ ~e.registered
    BY <1>6, SolveIs
  <2> DEFINE more == [r \in RNodes |-> ToldPieces(p, r)]
  <2>3. \A r \in RNodes : ToldPieces(p, r) \in SUBSET Names /\ Enough(ToldPieces(p, r))
    BY <2>1, PlacementsType, ToldIsEnough
  <2>4. \A r \in RNodes : more[r] = ToldPieces(p, r)
    OBVIOUS
  <2> HIDE DEF more
  <2>5. QED
    BY <1>4, <2>1, <2>2, <2>3, <2>4
<1>7. QED
  BY <1>5, <1>6 DEF SolveSimple

\* Tasks and hosts flag shards of the server nodes in the request they work for.
LEMMA TaskIs ==
    ASSUME TypeOK, NEW q \in Deployers, NEW s \in SNodes,
           Pushing(q, s) \/ ShardFails(q, s) \/ IpfsFails(q, s) \/ Orphaned(q, s)
    PROVE  /\ \A p \in Requests \ {q} : req'[p] = req[p]
           /\ req'[q].pc = req[q].pc /\ req'[q].kind = req[q].kind /\ req'[q].col = req[q].col
           /\ req'[q].mine.deps = req[q].mine.deps /\ req'[q].mine.rnodes = req[q].mine.rnodes
           /\ \A t \in SNodes : PiecesOf(req'[q].mine.snodes[t]) = PiecesOf(req[q].mine.snodes[t])
           /\ UNCHANGED <<lock, db, tmp, out, held, raced, stale>>
<1>1. q \in Requests /\ req \in [Requests -> Request] /\ req[q] \in Request /\ req[q].mine \in Columns
  BY RequestType DEF Requests
<1>2. UNCHANGED <<lock, db, tmp, out, held, raced, stale>>
  BY DEF Pushing, TaskStep, PostShard, ShardAnswered, HostStep, PushIpfs, ThreadEnds, ShardFails,
         IpfsFails, Orphaned, Posted, history
<1>3. CASE UNCHANGED req
  BY <1>2, <1>3
<1>4. CASE ShardAnswered(q, s) \/ PushIpfs(q, s)
  <2>1. PICK pieces : req' = [req EXCEPT ![q].mine.snodes[s] = Flagged(@, pieces)]
    BY <1>4 DEF ShardAnswered, Posted, PushIpfs
  <2>2. /\ \A p \in Requests \ {q} : req'[p] = req[p]
        /\ req'[q].pc = req[q].pc /\ req'[q].kind = req[q].kind /\ req'[q].col = req[q].col
        /\ req'[q].mine.deps = req[q].mine.deps /\ req'[q].mine.rnodes = req[q].mine.rnodes
        /\ req'[q].mine.snodes =
              [req[q].mine.snodes EXCEPT ![s] = Flagged(req[q].mine.snodes[s], pieces)]
    BY <1>1, <2>1 DEF Request, Columns
  <2>3. PiecesOf(Flagged(req[q].mine.snodes[s], pieces)) = PiecesOf(req[q].mine.snodes[s])
    <3> DEFINE F(e) == IF e.piece \in pieces THEN [e EXCEPT !.pushed = TRUE] ELSE e
               shards == req[q].mine.snodes[s]
    <3>1. \A e \in shards : e \in SShard
      BY <1>1 DEF Columns
    <3>2. \A e \in shards : F(e).piece = e.piece
      BY <3>1 DEF SShard
    <3>3. Flagged(shards, pieces) = {F(e) : e \in shards}
      BY DEF Flagged
    <3> HIDE DEF F, shards
    <3>4. PiecesOf(Flagged(shards, pieces)) = PiecesOf(shards)
      BY <3>2, <3>3 DEF PiecesOf
    <3>5. QED
      BY <3>4 DEF shards
  <2>4. \A t \in SNodes : PiecesOf(req'[q].mine.snodes[t]) = PiecesOf(req[q].mine.snodes[t])
    <3>1. req[q].mine.snodes \in [SNodes -> SUBSET SShard]
      BY <1>1 DEF Columns
    <3>2. QED
      BY <2>2, <2>3, <3>1
  <2>5. QED
    BY <1>2, <2>2, <2>4
<1>5. QED
  BY <1>3, <1>4
    DEF Pushing, TaskStep, PostShard, HostStep, ThreadEnds, ShardFails, IpfsFails, Orphaned

LEMMA RowsStep == TypeOK /\ UploadInv /\ RowsInv /\ [Next]_vars => RowsInv'
<1> SUFFICES ASSUME TypeOK, UploadInv, RowsInv, [Next]_vars PROVE RowsInv'
  OBVIOUS
<1>1. Deployers \subseteq Requests /\ Uploaders \subseteq Requests /\ Editors \subseteq Requests
  BY DEF Requests
<1>2. ASSUME NEW q \in Deployers, Deploying(q) PROVE RowsInv'
  <2>1. RowsMove(q)
    <3>1. CASE ReadColumn(q) \/ LoadFile(q) \/ EmitFile(q) \/ TakeColumn(q)
      BY <3>1, ColumnRowsMove
    <3>2. CASE \/ SetLock(q) \/ Unlock(q) \/ PushRaises(q) \/ NextNode(q)
               \/ \E i \in Instances : SkipKnown(q, i) \/ NoCidToRegister(q, i)
      BY <3>2, LockRowsMove
    <3>3. CASE \/ StartThreads(q) \/ CollectResults(q) \/ WriteMerged(q)
               \/ ReadForRegister(q) \/ WriteRegistered(q) \/ CreateMore(q)
      BY <3>3, WritingRowsMove
    <3>4. CASE Merge(q) \/ SolveSimple(q) \/ Solve(q) \/ \E i \in Instances : PostEntry(q, i)
      BY <3>4, MergeRowsMove, SolvingRowsMove, EntryRowsMove
    <3>5. QED
      BY <1>2, <3>1, <3>2, <3>3, <3>4 DEF Deploying
  <2>2. QED
    BY <1>1, <2>1, RowsKept
<1>3. ASSUME NEW q \in Deployers, NEW s \in SNodes,
             Pushing(q, s) \/ ShardFails(q, s) \/ IpfsFails(q, s) \/ Orphaned(q, s)
      PROVE  RowsInv'
  <2>1. RowsMove(q)
    BY <1>1, <1>3, TaskIs, RowCopiesThere, HeldStays DEF RowsMove
  <2>2. QED
    BY <1>1, <2>1, RowsKept
<1>4. ASSUME NEW q \in Deployers, Failing(q) PROVE RowsInv'
  <2>1. CASE OptimizeRaises(q) \/ \E i \in Instances : EntryFails(q, i)
    BY <1>1, <2>1, LockRowsMove, EntryRowsMove, RowsKept
  <2>2. QED
    BY <1>3, <1>4, <2>1 DEF Failing
<1>5. ASSUME NEW q \in Deployers, NEW k \in Kinds, TestLock(q, k) PROVE RowsInv'
  BY <1>1, <1>5, LockRowsMove, RowsKept
<1>6. ASSUME NEW q \in Uploaders, ReadForUpload(q) \/ \E d \in Deps : WriteUpload(q, d)
      PROVE  RowsInv'
  BY <1>1, <1>6, UploadRowsMove, RowsKept
<1>7. ASSUME NEW q \in Editors, PostPage(q) \/ \E c \in EditColumns : ShowPage(q, c)
      PROVE  RowsInv'
  BY <1>1, <1>7, PageRowsMove, RowsKept
<1>8. CASE Restart
  <2>1. UNCHANGED <<db, tmp, out, held>> /\ \A p \in Requests : req'[p].mine = EmptyColumns
    BY <1>8 DEF Restart, Idle
  <2>2. RowCopies' \subseteq RowCopies
    BY <2>1 DEF RowCopies
  <2>3. QED
    BY <2>1, <2>2 DEF RowsInv
<1>9. CASE UNCHANGED vars
  BY <1>9 DEF vars, RowsInv, RowCopies
<1>10. QED
  BY <1>2, <1>3, <1>4, <1>5, <1>6, <1>7, <1>8, <1>9 DEF Next

LEMMA RowsInit == Init => RowsInv
<1> SUFFICES ASSUME Init PROVE RowsInv
  OBVIOUS
<1>1. \A x \in RowCopies : x = EmptyColumns.rnodes
  BY DEF Init, RowCopies, Idle, EmptyColumns
<1>2. \A r \in RNodes : EmptyColumns.rnodes[r] = {}
  BY DEF EmptyColumns
<1>3. QED
  BY <1>1, <1>2 DEF RowsInv, Full, OnRecord, Enough, PiecesOf

-----------------------------------------------------------------------------
(***************************************************************************)
(* The entries of the race nodes, from the columns through the optimiser to *)
(* the registries: of instances the dependencies list, at server nodes that *)
(* have a shard of that name, and in the end at hosts that have the file.   *)
(***************************************************************************)

Covers(deps, rnodes) == \A r \in RNodes : \A e \in rnodes[r] : e.piece[1] \in deps.instances

Backed(rnodes, snodes) ==
    \A r \in RNodes : \A e \in rnodes[r] : e.piece \in PiecesOf(snodes[e.at])

Stored(rnodes) == \A r \in RNodes : \A e \in rnodes[r] : file[e.at][e.piece] # "absent"

\* Where a request reads the columns to, and takes them from.
ReadTo(q) == IF req[q].kind = "randomize" THEN req[q].mine ELSE tmp
TakenFrom(q) == IF req[q].kind = "randomize" THEN req[q].mine ELSE out

Reading(q) ==
    At(q, "read") =>
        /\ req[q].col \in {3, 4} => Covers(ReadTo(q).deps, db.rnodes)
        /\ req[q].col = 4 => Covers(ReadTo(q).deps, ReadTo(q).rnodes)

Loading(q) ==
    At(q, "load") =>
        /\ Covers(tmp.deps, db.rnodes) /\ Covers(tmp.deps, tmp.rnodes)
        /\ req[q].col \in {3, 4} => req[q].mine.deps = tmp.deps
        /\ req[q].col = 4 => req[q].mine.rnodes = tmp.rnodes

Solving(q) ==
    At(q, "solve") \/ At(q, "emit") =>
        Covers(req[q].mine.deps, db.rnodes) /\ Covers(req[q].mine.deps, req[q].mine.rnodes)

Emitting(q) ==
    At(q, "emit") =>
        /\ Backed(req[q].mine.rnodes, req[q].mine.snodes)
        /\ req[q].col \in {3, 4} => out.deps = req[q].mine.deps
        /\ req[q].col = 4 => out.rnodes = req[q].mine.rnodes

Taking(q) ==
    At(q, "take") =>
        LET m == TakenFrom(q)
        IN /\ Covers(m.deps, db.rnodes) /\ Covers(m.deps, m.rnodes) /\ Backed(m.rnodes, m.snodes)
           /\ req[q].col \in {3, 4} => db.deps.instances = m.deps.instances
           /\ req[q].col = 4 => db.rnodes = m.rnodes

Spreading(q) ==
    /\ At(q, "push") => Backed(db.rnodes, db.snodes)
    /\ At(q, "pushing") =>
          /\ Backed(db.rnodes, req[q].mine.snodes)
          /\ \A s \in SNodes : thread[<<q, s>>] = "done" => Unpushed(req[q].mine.snodes[s]) = {}

Registering(q) ==
    /\ req[q].pc \in {"merge", "mergeWriteSnodes", "register"} => Stored(db.rnodes)
    /\ req[q].pc \in {"mergeSnodes", "mergeWrite", "registerRegs", "registering"} =>
          Stored(req[q].mine.rnodes)
    /\ req[q].pc \in {"mergeSnodes", "mergeWrite", "registerRegs", "registering", "registered"} =>
          Covers(db.deps, req[q].mine.rnodes)

Stage(q) ==
    /\ Reading(q) /\ Loading(q) /\ Solving(q) /\ Emitting(q) /\ Taking(q)
    /\ Spreading(q) /\ Registering(q)

TracksInv ==
    ~raced /\ ~stale =>
        /\ Covers(db.deps, db.rnodes)
        /\ \A q \in Deployers : Inside(q) => Stage(q)

\* What leaves a request's stage as it is: only flags and files come to it.
Untouched(q) ==
    /\ req'[q].pc = req[q].pc /\ req'[q].kind = req[q].kind /\ req'[q].col = req[q].col
    /\ req'[q].mine.deps = req[q].mine.deps /\ req'[q].mine.rnodes = req[q].mine.rnodes
    /\ \A s \in SNodes : PiecesOf(req'[q].mine.snodes[s]) = PiecesOf(req[q].mine.snodes[s])
    /\ db'.deps.instances = db.deps.instances
    /\ db'.rnodes = db.rnodes /\ db'.snodes = db.snodes
    /\ UNCHANGED <<tmp, out>>
    /\ FilesGrow
    /\ \A s \in SNodes : thread'[<<q, s>>] = "done" =>
          \/ Unpushed(req'[q].mine.snodes[s]) = {}
          \/ thread[<<q, s>>] = "done" /\ req'[q].mine.snodes[s] = req[q].mine.snodes[s]

LEMMA StoredGrows ==
    ASSUME NEW m \in Columns, Stored(m.rnodes), FilesGrow
    PROVE  \A r \in RNodes : \A e \in m.rnodes[r] : file'[e.at][e.piece] # "absent"
  BY RowsType DEF Stored, FilesGrow

LEMMA BackedStays ==
    ASSUME NEW m \in Columns, NEW x, NEW y, Backed(m.rnodes, x),
           \A s \in SNodes : PiecesOf(y[s]) = PiecesOf(x[s])
    PROVE  Backed(m.rnodes, y)
  BY RowsType DEF Backed

LEMMA StageStays ==
    ASSUME TypeOK, NEW q \in Deployers, Stage(q), Untouched(q)
    PROVE  Stage(q)'
<1> DEFINE mine == req[q].mine
<1>1. mine \in Columns /\ db \in Columns /\ tmp \in Columns /\ out \in Columns
  BY RequestType DEF Requests, TypeOK
<1> USE DEF Untouched
<1>2. \A x : Covers(db'.deps, x) <=> Covers(db.deps, x)
  BY DEF Covers
<1>3. Reading(q)'
  BY DEF Stage, Reading, ReadTo, Covers, At
<1>4. Loading(q)'
  BY DEF Stage, Loading, Covers, At
<1>5. Solving(q)'
  BY DEF Stage, Solving, Covers, At
<1>6. Emitting(q)'
  <2>1. Backed(mine.rnodes, mine.snodes) => Backed(mine.rnodes, req'[q].mine.snodes)
    BY <1>1, BackedStays
  <2>2. QED
    BY <2>1 DEF Stage, Emitting, At, Backed
<1>7. Taking(q)'
  <2>1. Backed(mine.rnodes, mine.snodes) => Backed(mine.rnodes, req'[q].mine.snodes)
    BY <1>1, BackedStays
  <2>2. QED
    BY <2>1 DEF Stage, Taking, TakenFrom, At, Backed, Covers
<1>8. Spreading(q)'
  <2>1. Backed(db.rnodes, mine.snodes) => Backed(db.rnodes, req'[q].mine.snodes)
    BY <1>1, BackedStays
  <2>2. At(q, "pushing") =>
           \A s \in SNodes : thread'[<<q, s>>] = "done" => Unpushed(req'[q].mine.snodes[s]) = {}
    BY DEF Stage, Spreading
  <2>3. QED
    BY <2>1, <2>2 DEF Stage, Spreading, At, Backed, Unpushed
<1>9. Registering(q)'
  <2>1. Stored(db.rnodes) => Stored(db.rnodes)'
    BY <1>1, StoredGrows DEF Stored
  <2>2. Stored(mine.rnodes) => Stored(mine.rnodes)'
    BY <1>1, StoredGrows DEF Stored
  <2>3. QED
    BY <1>2, <2>1, <2>2 DEF Stage, Registering, Covers
<1>10. QED
  BY <1>3, <1>4, <1>5, <1>6, <1>7, <1>8, <1>9 DEF Stage

\* A step of a deployment that is inside, or about to set the lock: no other one is.
TracksMove(q) ==
    /\ Inside(q) \/ At(q, "lock")
    /\ \A p \in Requests \ {q} : req'[p] = req[p]
    /\ UNCHANGED <<raced, stale>>
    /\ ~raced /\ ~stale => Covers(db.deps, db.rnodes)' /\ (Inside(q)' => Stage(q)')

LEMMA TracksKept ==
    ASSUME LockInv, NEW q \in Deployers, TracksMove(q)
    PROVE  TracksInv'
<1>1. SUFFICES ASSUME ~raced, ~stale, NEW p \in Deployers, p # q, Inside(p)'
               PROVE  FALSE
  BY DEF TracksMove, TracksInv
<1>2. Inside(p)
  BY <1>1 DEF TracksMove, Inside, Requests
<1>3. QED
  BY <1>1, <1>2 DEF TracksMove, LockInv

LEMMA ColumnIs ==
    ASSUME TypeOK, NEW q \in Requests
    PROVE  /\ req[q].col \in {1, 2, 3, 4}
           /\ Here(q) = "deps" <=> req[q].col = 2
           /\ Here(q) = "rnodes" <=> req[q].col = 3
           /\ Here(q) = "snodes" <=> req[q].col = 4
<1>1. req[q].col \in {1, 2, 3, 4}
  BY RequestType
<1>2. QED
  BY <1>1 DEF Here, Column

LEMMA ReadTracksMove ==
    ASSUME TypeOK, LockInv, UploadInv, TracksInv, NEW q \in Deployers, ReadColumn(q)
    PROVE  TracksMove(q)
<1> DEFINE c == Here(q)
           m == ReadTo(q)
<1>1. /\ q \in Requests /\ db \in Columns /\ tmp \in Columns /\ req[q].mine \in Columns
      /\ At(q, "read") /\ Inside(q) /\ m \in Columns
  BY RequestType DEF Requests, TypeOK, ReadColumn, Inside, At, ReadTo
<1>2. UNCHANGED <<db, raced, stale>>
  BY DEF ReadColumn, history
<1>3. PICK following, mine :
        /\ NextColumn(q, following, mine)
        /\ following = IF req[q].kind = "randomize" THEN "solve" ELSE "load"
  BY DEF ReadColumn
<1>4. /\ \A p \in Requests \ {q} : req'[p] = req[p]
      /\ req'[q].kind = req[q].kind
      /\ req[q].col \in {1, 2, 3} => req'[q].pc = "read" /\ req'[q].col = req[q].col + 1
      /\ req[q].col = 4 => req'[q].pc = following /\ req'[q].col = 1
      /\ req[q].col \in {1, 2, 3, 4}
  BY <1>1, <1>3, NextColumnIs DEF At
<1>5. ReadTo(q)' = Copied(m, db, c)
  BY <1>1, <1>4, NextColumnIs DEF ReadColumn, ReadTo
<1>6. /\ ReadTo(q)'.deps = IF req[q].col = 2 THEN db.deps ELSE m.deps
      /\ ReadTo(q)'.rnodes = IF req[q].col = 3 THEN db.rnodes ELSE m.rnodes
  BY <1>1, <1>5, CopiedIs, ColumnIs
<1>7. ASSUME ~raced, ~stale PROVE Stage(q)'
  <2>1. Covers(db.deps, db.rnodes) /\ Reading(q)
    BY <1>1, <1>7 DEF TracksInv, Stage
  <2>2. /\ req[q].col \in {2, 3, 4} => Covers(ReadTo(q)'.deps, db.rnodes)
        /\ req[q].col \in {3, 4} => Covers(ReadTo(q)'.deps, ReadTo(q)'.rnodes)
    BY <1>1, <1>6, <2>1 DEF Reading
  <2>3. CASE req[q].col \in {1, 2, 3}
    <3>1. Reading(q)'
      BY <1>2, <1>4, <2>2, <2>3 DEF Reading
    <3>2. QED
      BY <1>4, <2>3, <3>1 DEF Stage, Loading, Solving, Emitting, Taking, Spreading, Registering, At
  <2>4. CASE req[q].col = 4
    <3>1. CASE req[q].kind = "randomize"
      <4>1. req'[q].pc = "solve" /\ ReadTo(q)' = req'[q].mine
        BY <1>3, <1>4, <2>4, <3>1 DEF ReadTo
      <4>2. QED
        BY <1>2, <2>2, <2>4, <4>1
          DEF Stage, Reading, Loading, Solving, Emitting, Taking, Spreading, Registering, At
    <3>2. CASE req[q].kind # "randomize"
      <4>1. req'[q].pc = "load" /\ req'[q].col = 1 /\ ReadTo(q)' = tmp'
        BY <1>3, <1>4, <2>4, <3>2 DEF ReadTo
      <4>2. QED
        BY <1>2, <2>2, <2>4, <4>1
          DEF Stage, Reading, Loading, Solving, Emitting, Taking, Spreading, Registering, At
    <3>3. QED
      BY <3>1, <3>2
  <2>5. QED
    BY <1>4, <2>3, <2>4
<1>8. QED
  BY <1>1, <1>2, <1>4, <1>7 DEF TracksMove, TracksInv

LEMMA LoadTracksMove ==
    ASSUME TypeOK, LockInv, UploadInv, TracksInv, NEW q \in Deployers, LoadFile(q)
    PROVE  TracksMove(q)
<1>1. /\ q \in Requests /\ tmp \in Columns /\ req[q].mine \in Columns
      /\ At(q, "load") /\ Inside(q)
  BY RequestType DEF Requests, TypeOK, LoadFile, Inside, At
<1>2. UNCHANGED <<db, tmp, raced, stale>>
  BY DEF LoadFile, history
<1>3. NextColumn(q, "solve", Copied(req[q].mine, tmp, Here(q)))
  BY DEF LoadFile
<1>4. /\ \A p \in Requests \ {q} : req'[p] = req[p]
      /\ req[q].col \in {1, 2, 3} => req'[q].pc = "load" /\ req'[q].col = req[q].col + 1
      /\ req[q].col = 4 => req'[q].pc = "solve" /\ req'[q].col = 1
      /\ req[q].col \in {1, 2, 3, 4}
      /\ req'[q].mine = Copied(req[q].mine, tmp, Here(q))
  BY <1>1, <1>3, NextColumnIs DEF At
<1>5. /\ req'[q].mine.deps = IF req[q].col = 2 THEN tmp.deps ELSE req[q].mine.deps
      /\ req'[q].mine.rnodes = IF req[q].col = 3 THEN tmp.rnodes ELSE req[q].mine.rnodes
  BY <1>1, <1>4, CopiedIs, ColumnIs
<1>6. ASSUME ~raced, ~stale PROVE Stage(q)'
  <2>1. Loading(q)
    BY <1>1, <1>6 DEF TracksInv, Stage
  <2>2. /\ Covers(tmp.deps, db.rnodes) /\ Covers(tmp.deps, tmp.rnodes)
        /\ req[q].col \in {2, 3, 4} => req'[q].mine.deps = tmp.deps
        /\ req[q].col \in {3, 4} => req'[q].mine.rnodes = tmp.rnodes
    BY <1>1, <1>5, <2>1 DEF Loading
  <2>3. CASE req[q].col \in {1, 2, 3}
    <3>1. Loading(q)'
      BY <1>2, <1>4, <2>2, <2>3 DEF Loading
    <3>2. QED
      BY <1>4, <2>3, <3>1 DEF Stage, Reading, Solving, Emitting, Taking, Spreading, Registering, At
  <2>4. CASE req[q].col = 4
    BY <1>2, <1>4, <2>2, <2>4
      DEF Stage, Reading, Loading, Solving, Emitting, Taking, Spreading, Registering, At
  <2>5. QED
    BY <1>4, <2>3, <2>4
<1>7. QED
  BY <1>1, <1>2, <1>4, <1>6 DEF TracksMove, TracksInv

LEMMA SetLockTracksMove ==
    ASSUME TypeOK, UploadInv, TracksInv, NEW q \in Deployers, SetLock(q)
    PROVE  TracksMove(q)
<1>1. q \in Requests /\ req \in [Requests -> Request] /\ Well(q)
  BY DEF Requests, TypeOK, UploadInv
<1>2. /\ At(q, "lock") /\ req'[q].pc = "read" /\ req'[q].col = 1
      /\ \A p \in Requests \ {q} : req'[p] = req[p]
      /\ UNCHANGED <<db, raced, stale>>
  BY <1>1 DEF SetLock, Goto, Request, Well, At, history
<1>3. Stage(q)'
  BY <1>2 DEF Stage, Reading, Loading, Solving, Emitting, Taking, Spreading, Registering, At
<1>4. QED
  BY <1>2, <1>3 DEF TracksMove, TracksInv

\* The solver gives the race nodes pieces of listed instances alone, and a server
\* node for each; that it found a model says that the race nodes had none before.
LEMMA SolveTracksMove ==
    ASSUME TypeOK, UploadInv, TracksInv, NEW q \in Deployers, Solve(q)
    PROVE  TracksMove(q)
<1> DEFINE mine == req[q].mine
           new == req'[q].mine
           I == mine.deps.instances
<1>1. /\ q \in Requests /\ mine \in Columns /\ At(q, "solve") /\ Inside(q) /\ Well(q)
  BY RequestType DEF Requests, Solve, Inside, At, UploadInv
<1>2. UNCHANGED <<db, tmp, out, raced, stale>>
  BY DEF Solve, history
<1>3. /\ \A x \in Requests \ {q} : req'[x] = req[x]
      /\ req'[q].pc = "emit" /\ req'[q].col = 1
      /\ new.deps = mine.deps /\ I \in SUBSET Instances
  BY <1>1, SolveIs DEF Well
<1>4. PICK p \in Placements(mine.deps.known, I) :
        /\ \A r \in RNodes :
              /\ PiecesOf(new.rnodes[r]) = PiecesOf(mine.rnodes[r]) \cup ToldPieces(p, r)
              /\ \A e \in new.rnodes[r] : e \in mine.rnodes[r] \/ e.piece \in HeldPieces(p, e.at)
        /\ \A s \in SNodes : PiecesOf(new.snodes[s]) = PiecesOf(mine.snodes[s]) \cup HeldPieces(p, s)
  BY SolveIs
<1>5. new \in Columns
  <2>1. TypeOK'
    BY SolveType
  <2>2. QED
    BY <1>1, <2>1 DEF TypeOK, Request
<1>6. ASSUME ~raced, ~stale PROVE Stage(q)'
  <2>1. Covers(mine.deps, db.rnodes) /\ Covers(mine.deps, mine.rnodes)
    BY <1>1, <1>6 DEF TracksInv, Stage, Solving
  <2>2. \A r \in RNodes : mine.rnodes[r] = {}
    <3>1. SUFFICES ASSUME NEW r \in RNodes, NEW e \in mine.rnodes[r] PROVE FALSE
      OBVIOUS
    <3>2. e.piece[1] \in I
      BY <2>1 DEF Covers
    <3>3. e.piece[1] \in InstancesOf({x.piece : x \in mine.rnodes[r]})
      BY DEF InstancesOf
    <3>4. ~Refuted(mine)
      BY DEF Solve, Solvable
    <3>5. QED
      BY <3>2, <3>3, <3>4 DEF Refuted
  <2>3. Covers(mine.deps, new.rnodes)
    <3>1. SUFFICES ASSUME NEW r \in RNodes, NEW e \in new.rnodes[r] PROVE e.piece[1] \in I
      BY DEF Covers
    <3>2. e.piece \in ToldPieces(p, r)
      BY <1>4, <2>2 DEF PiecesOf
    <3>3. ToldPieces(p, r) \subseteq I \X Pieces
      BY <1>3, ToldIsEnough
    <3>4. QED
      BY <3>2, <3>3
  <2>4. Backed(new.rnodes, new.snodes)
    <3>1. SUFFICES ASSUME NEW r \in RNodes, NEW e \in new.rnodes[r]
                   PROVE  e.piece \in PiecesOf(new.snodes[e.at])
      BY DEF Backed
    <3>2. e.piece \in HeldPieces(p, e.at) /\ e.at \in SNodes
      BY <1>4, <1>5, <2>2, RowsType
    <3>3. QED
      BY <1>4, <3>2
  <2>5. QED
    BY <1>2, <1>3, <2>1, <2>3, <2>4
      DEF Stage, Reading, Loading, Solving, Emitting, Taking, Spreading, Registering, At
<1>7. QED
  BY <1>1, <1>2, <1>3, <1>6 DEF TracksMove, TracksInv

LEMMA SpreadTracksMove ==
    ASSUME TypeOK, UploadInv, TracksInv, NEW q \in Deployers, SolveSimple(q)
    PROVE  TracksMove(q)
<1> DEFINE mine == req[q].mine
           new == req'[q].mine
           I == new.deps.instances
<1>1. /\ q \in Requests /\ mine \in Columns /\ At(q, "solve") /\ Inside(q) /\ Well(q)
  BY RequestType DEF Requests, SolveSimple, Inside, At, UploadInv
<1>2. UNCHANGED <<db, tmp, out, raced, stale>>
  BY DEF SolveSimple, history
<1>3. PICK k, following :
        /\ Spread(q, k, following)
        /\ \/ following = "emit" /\ req[q].kind # "randomize"
           \/ following = "take" /\ req[q].kind = "randomize"
  BY DEF SolveSimple
<1>4. /\ \A x \in Requests \ {q} : req'[x] = req[x]
      /\ req'[q].pc = following /\ req'[q].col = 1 /\ req'[q].kind = req[q].kind
      /\ mine.deps.instances \subseteq I
      /\ \A r \in RNodes : PiecesOf(new.rnodes[r]) = PiecesOf(mine.rnodes[r]) \cup (I \X Pieces)
      /\ \A s \in SNodes : I \X Pieces \subseteq PiecesOf(new.snodes[s])
  BY <1>1, <1>3, SpreadIs DEF Well
<1>5. new \in Columns
  <2>1. TypeOK'
    BY SolveSimpleType
  <2>2. QED
    BY <1>1, <2>1 DEF TypeOK, Request
<1>6. ASSUME ~raced, ~stale PROVE Stage(q)'
  <2>1. Covers(mine.deps, db.rnodes) /\ Covers(mine.deps, mine.rnodes)
    BY <1>1, <1>6 DEF TracksInv, Stage, Solving
  <2>2. Covers(new.deps, db.rnodes)
    BY <1>4, <2>1 DEF Covers
  <2>3. ASSUME NEW r \in RNodes, NEW e \in new.rnodes[r]
        PROVE  e.piece[1] \in I /\ e.piece \in PiecesOf(new.snodes[e.at])
    <3>1. e.piece \in Names /\ e.at \in SNodes
      BY <1>5, RowsType
    <3>2. e.piece \in PiecesOf(mine.rnodes[r]) \/ e.piece \in I \X Pieces
      BY <1>4 DEF PiecesOf
    <3>3. e.piece[1] \in I
      BY <1>4, <2>1, <3>2 DEF Covers, PiecesOf
    <3>4. e.piece \in I \X Pieces
      BY <3>1, <3>3 DEF Names
    <3>5. QED
      BY <1>4, <3>1, <3>3, <3>4
  <2>4. Covers(new.deps, new.rnodes) /\ Backed(new.rnodes, new.snodes)
    BY <2>3 DEF Covers, Backed
  <2>5. req'[q].kind = "randomize" => TakenFrom(q)' = new
    BY DEF TakenFrom
  <2>6. QED
    BY <1>2, <1>3, <1>4, <2>2, <2>4, <2>5
      DEF Stage, Reading, Loading, Solving, Emitting, Taking, Spreading, Registering, At
<1>7. QED
  BY <1>1, <1>2, <1>4, <1>6 DEF TracksMove, TracksInv

LEMMA CreateTracksMove ==
    ASSUME TypeOK, TracksInv, NEW q \in Deployers, CreateMore(q)
    PROVE  TracksMove(q)
<1> DEFINE mine == req[q].mine
           new == req'[q].mine
<1>1. /\ q \in Requests /\ req \in [Requests -> Request] /\ mine \in Columns
      /\ At(q, "solve") /\ Inside(q)
  BY RequestType DEF Requests, CreateMore, Inside, At
<1>2. /\ UNCHANGED <<db, raced, stale>>
      /\ \A p \in Requests \ {q} : req'[p] = req[p]
      /\ req'[q].pc = "solve" /\ new.rnodes = mine.rnodes
      /\ mine.deps.instances \subseteq new.deps.instances
  BY <1>1 DEF CreateMore, history, Request, Columns, At
<1>3. ASSUME ~raced, ~stale PROVE Stage(q)'
  <2>1. Covers(mine.deps, db.rnodes) /\ Covers(mine.deps, mine.rnodes)
    BY <1>1, <1>3 DEF TracksInv, Stage, Solving
  <2>2. Covers(new.deps, db.rnodes) /\ Covers(new.deps, new.rnodes)
    BY <1>2, <2>1 DEF Covers
  <2>3. QED
    BY <1>2, <2>2
      DEF Stage, Reading, Loading, Solving, Emitting, Taking, Spreading, Registering, At
<1>4. QED
  BY <1>1, <1>2, <1>3 DEF TracksMove, TracksInv

LEMMA EmitTracksMove ==
    ASSUME TypeOK, UploadInv, TracksInv, NEW q \in Deployers, EmitFile(q)
    PROVE  TracksMove(q)
<1> DEFINE mine == req[q].mine
<1>1. /\ q \in Requests /\ out \in Columns /\ mine \in Columns
      /\ At(q, "emit") /\ Inside(q) /\ req[q].kind # "randomize"
  BY RequestType DEF Requests, TypeOK, EmitFile, Inside, At, UploadInv, Well
<1>2. UNCHANGED <<db, raced, stale>>
  BY DEF EmitFile, history
<1>3. NextColumn(q, "take", mine) /\ out' = Copied(out, mine, Here(q))
  BY DEF EmitFile
<1>4. /\ \A p \in Requests \ {q} : req'[p] = req[p]
      /\ req[q].col \in {1, 2, 3} => req'[q].pc = "emit" /\ req'[q].col = req[q].col + 1
      /\ req[q].col = 4 => req'[q].pc = "take" /\ req'[q].col = 1
      /\ req[q].col \in {1, 2, 3, 4}
      /\ req'[q].mine = mine /\ req'[q].kind # "randomize"
  BY <1>1, <1>3, NextColumnIs DEF At
<1>5. /\ out'.deps = IF req[q].col = 2 THEN mine.deps ELSE out.deps
      /\ out'.rnodes = IF req[q].col = 3 THEN mine.rnodes ELSE out.rnodes
      /\ out'.snodes = IF req[q].col = 4 THEN mine.snodes ELSE out.snodes
  BY <1>1, <1>3, CopiedIs, ColumnIs
<1>6. ASSUME ~raced, ~stale PROVE Stage(q)'
  <2>1. Solving(q) /\ Emitting(q)
    BY <1>1, <1>6 DEF TracksInv, Stage
  <2>2. /\ Covers(mine.deps, db.rnodes) /\ Covers(mine.deps, mine.rnodes)
        /\ Backed(mine.rnodes, mine.snodes)
        /\ req[q].col \in {2, 3, 4} => out'.deps = mine.deps
        /\ req[q].col \in {3, 4} => out'.rnodes = mine.rnodes
    BY <1>1, <1>5, <2>1 DEF Solving, Emitting
  <2>3. CASE req[q].col \in {1, 2, 3}
    <3>1. Solving(q)' /\ Emitting(q)'
      BY <1>2, <1>4, <2>2, <2>3 DEF Solving, Emitting
    <3>2. QED
      BY <1>4, <2>3, <3>1 DEF Stage, Reading, Loading, Taking, Spreading, Registering, At
  <2>4. CASE req[q].col = 4
    <3>1. TakenFrom(q)' = out'
      BY <1>4 DEF TakenFrom
    <3>2. QED
      BY <1>2, <1>4, <1>5, <2>2, <2>4, <3>1
        DEF Stage, Reading, Loading, Solving, Emitting, Taking, Spreading, Registering, At
  <2>5. QED
    BY <1>4, <2>3, <2>4
<1>7. QED
  BY <1>1, <1>2, <1>4, <1>6 DEF TracksMove, TracksInv

LEMMA TakeTracksMove ==
    ASSUME TypeOK, TracksInv, NEW q \in Deployers, TakeColumn(q)
    PROVE  TracksMove(q)
<1> DEFINE m == TakenFrom(q)
<1>1. /\ q \in Requests /\ db \in Columns /\ m \in Columns /\ At(q, "take") /\ Inside(q)
  BY RequestType DEF Requests, TypeOK, TakenFrom, TakeColumn, Inside, At
<1>2. UNCHANGED <<out, raced, stale>>
  BY DEF TakeColumn, history
<1>3. /\ NextColumn(q, "push", IF req[q].col < 4 THEN req[q].mine ELSE EmptyColumns)
      /\ db' = Copied(db, m, Here(q))
  BY DEF TakeColumn, TakenFrom
<1>4. /\ \A p \in Requests \ {q} : req'[p] = req[p]
      /\ req[q].col \in {1, 2, 3} => /\ req'[q].pc = "take" /\ req'[q].col = req[q].col + 1
                                    /\ req'[q].mine = req[q].mine
      /\ req[q].col = 4 => req'[q].pc = "push"
      /\ req[q].col \in {1, 2, 3, 4} /\ req'[q].kind = req[q].kind
  BY <1>1, <1>3, NextColumnIs DEF At
<1>5. /\ db'.deps = IF req[q].col = 2 THEN m.deps ELSE db.deps
      /\ db'.rnodes = IF req[q].col = 3 THEN m.rnodes ELSE db.rnodes
      /\ db'.snodes = IF req[q].col = 4 THEN m.snodes ELSE db.snodes
  BY <1>1, <1>3, CopiedIs, ColumnIs
<1>6. ASSUME ~raced, ~stale PROVE Covers(db.deps, db.rnodes)' /\ Stage(q)'
  <2>1. Covers(db.deps, db.rnodes) /\ Taking(q)
    BY <1>1, <1>6 DEF TracksInv, Stage
  <2>2. /\ Covers(m.deps, db.rnodes) /\ Covers(m.deps, m.rnodes) /\ Backed(m.rnodes, m.snodes)
        /\ req[q].col \in {3, 4} => db.deps.instances = m.deps.instances
        /\ req[q].col = 4 => db.rnodes = m.rnodes
    BY <1>1, <2>1 DEF Taking
  <2>3. /\ Covers(m.deps, db'.rnodes)
        /\ req[q].col \in {2, 3, 4} => db'.deps.instances = m.deps.instances
        /\ req[q].col \in {3, 4} => db'.rnodes = m.rnodes
    BY <1>5, <2>2
  <2>4. Covers(db'.deps, db'.rnodes)
    BY <1>4, <1>5, <2>1, <2>3 DEF Covers
  <2>5. CASE req[q].col \in {1, 2, 3}
    <3>1. TakenFrom(q)' = m
      BY <1>2, <1>4, <2>5 DEF TakenFrom
    <3>2. Taking(q)'
      BY <1>4, <2>2, <2>3, <2>5, <3>1 DEF Taking
    <3>3. QED
      BY <1>4, <2>4, <2>5, <3>2
        DEF Stage, Reading, Loading, Solving, Emitting, Spreading, Registering, At
  <2>6. CASE req[q].col = 4
    <3>1. Backed(db'.rnodes, db'.snodes)
      BY <1>5, <2>2, <2>6
    <3>2. QED
      BY <1>4, <2>4, <2>6, <3>1
        DEF Stage, Reading, Loading, Solving, Emitting, Taking, Spreading, Registering, At
  <2>7. QED
    BY <1>4, <2>5, <2>6
<1>7. QED
  BY <1>1, <1>2, <1>4, <1>6 DEF TracksMove

\* When the results are in, every shard has been pushed, and the files are there.
LEMMA ThreadsTracksMove ==
    ASSUME TypeOK, PushInv, TracksInv, NEW q \in Deployers,
           StartThreads(q) \/ CollectResults(q) \/ PushRaises(q)
    PROVE  TracksMove(q)
<1> DEFINE mine == req[q].mine
<1>1. /\ q \in Requests /\ req \in [Requests -> Request] /\ req[q] \in Request
      /\ db \in Columns /\ mine \in Columns /\ EmptyColumns \in Columns
      /\ thread \in [Tasks -> {None, "running", "posting", "failed", "done"}]
      /\ \A s \in SNodes : <<q, s>> \in Tasks
  BY RequestType, EmptyType DEF Requests, TypeOK, Tasks
<1>2. Inside(q) /\ UNCHANGED <<raced, stale, file>>
  BY DEF StartThreads, CollectResults, PushRaises, Inside, At, history, hosts
<1>3. CASE StartThreads(q)
  <2>1. /\ At(q, "push") /\ req'[q].pc = "pushing" /\ db' = db
        /\ \A p \in Requests \ {q} : req'[p] = req[p]
        /\ req'[q].mine.snodes = db.snodes
    BY <1>1, <1>3, CopiedIs DEF StartThreads, Request
  <2>2. \A s \in SNodes : thread'[<<q, s>>] = "running"
    BY <1>1, <1>3 DEF StartThreads
  <2>3. ASSUME ~raced, ~stale PROVE Stage(q)'
    <3>1. Backed(db.rnodes, db.snodes)
      BY <1>2, <2>1, <2>3 DEF TracksInv, Stage, Spreading
    <3>2. QED
      BY <2>1, <2>2, <3>1
        DEF Stage, Reading, Loading, Solving, Emitting, Taking, Spreading, Registering, At
  <2>4. QED
    BY <1>2, <2>1, <2>3 DEF TracksMove, TracksInv
<1>4. CASE CollectResults(q)
  <2>1. /\ At(q, "pushing") /\ req'[q].pc \in {"register", "merge"}
        /\ \A p \in Requests \ {q} : req'[p] = req[p]
        /\ \A s \in SNodes : thread[<<q, s>>] = "done"
        /\ db'.deps = db.deps /\ db'.rnodes = db.rnodes
    BY <1>1, <1>4, CopiedIs DEF CollectResults, Request
  <2>2. ASSUME ~raced, ~stale PROVE Stage(q)'
    <3>1. /\ Backed(db.rnodes, mine.snodes)
          /\ \A s \in SNodes : Unpushed(mine.snodes[s]) = {}
      BY <1>2, <2>1, <2>2 DEF TracksInv, Stage, Spreading
    <3>2. Pushed(mine.snodes)
      BY <1>1 DEF PushInv
    <3>3. ASSUME NEW r \in RNodes, NEW e \in db.rnodes[r] PROVE file[e.at][e.piece] # "absent"
      <4>1. e.at \in SNodes
        BY <1>1, RowsType
      <4>2. PICK x \in mine.snodes[e.at] : x.piece = e.piece
        BY <3>1 DEF Backed, PiecesOf
      <4>3. x.pushed
        BY <3>1, <4>1, <4>2 DEF Unpushed
      <4>4. QED
        BY <3>2, <4>1, <4>2, <4>3 DEF Pushed
    <3>4. Stored(db.rnodes)'
      BY <1>2, <2>1, <3>3 DEF Stored
    <3>5. QED
      BY <2>1, <3>4
        DEF Stage, Reading, Loading, Solving, Emitting, Taking, Spreading, Registering, At
  <2>3. QED
    BY <1>2, <2>1, <2>2 DEF TracksMove, TracksInv
<1>5. CASE PushRaises(q)
  <2>1. /\ req'[q].pc = "dead" /\ \A p \in Requests \ {q} : req'[p] = req[p]
        /\ db' = db
    BY <1>1, <1>5, GotoStays DEF PushRaises
  <2>2. QED
    BY <1>2, <2>1 DEF TracksMove, TracksInv, Inside
<1>6. QED
  BY <1>3, <1>4, <1>5

\* The CIDs change neither the pieces nor their places.
LEMMA MergeTracksMove ==
    ASSUME TypeOK, TracksInv, NEW q \in Deployers, Merge(q)
    PROVE  TracksMove(q)
<1> DEFINE mine == req[q].mine
           read == Copied(mine, db, "snodes")
<1>1. /\ q \in Requests /\ req \in [Requests -> Request] /\ req[q] \in Request
      /\ db \in Columns /\ mine \in Columns /\ EmptyColumns \in Columns
  BY RequestType, EmptyType DEF Requests, TypeOK
<1>2. /\ Inside(q) /\ UNCHANGED <<db, raced, stale, file>>
      /\ \A p \in Requests \ {q} : req'[p] = req[p]
  BY <1>1 DEF Merge, ReadForMerge, Inside, At, history, hosts
<1>3. ASSUME ~raced, ~stale PROVE Covers(db.deps, db.rnodes) /\ Registering(q)
  BY <1>2, <1>3 DEF TracksInv, Stage
<1>4. read \in Columns /\ read.rnodes = mine.rnodes
  BY <1>1, CopiedType, CopiedIs
<1> HIDE DEF read
<1>5. CASE At(q, "merge") /\ req' = [req EXCEPT ![q].pc = "mergeSnodes",
                                              ![q].mine = Copied(EmptyColumns, db, "rnodes")]
  <2>1. req'[q].pc = "mergeSnodes" /\ req'[q].mine = Copied(EmptyColumns, db, "rnodes")
    BY <1>1, <1>5 DEF Request
  <2>2. req'[q].mine.rnodes = db.rnodes
    BY <1>1, <2>1, CopiedIs
  <2>3. ASSUME ~raced, ~stale PROVE Stage(q)'
    <3>1. Stored(db.rnodes) /\ Covers(db.deps, db.rnodes)
      BY <1>3, <1>5, <2>3 DEF Registering, At
    <3>2. QED
      BY <1>2, <2>1, <2>2, <3>1
        DEF Stage, Reading, Loading, Solving, Emitting, Taking, Spreading, Registering, At, Stored
  <2>4. QED
    BY <1>2, <1>3, <2>3 DEF TracksMove
<1>6. CASE req' = [req EXCEPT ![q] = [Idle EXCEPT !.pc = "dead"]]
  <2>1. req'[q].pc = "dead"
    BY <1>1, <1>6 DEF Idle
  <2>2. QED
    BY <1>2, <1>3, <2>1 DEF TracksMove, Inside
<1>7. CASE At(q, "mergeSnodes") /\ req' = [req EXCEPT ![q].pc = "mergeWrite",
                                         ![q].mine = [read EXCEPT !.rnodes = WithCids(read)]]
  <2>1. req'[q].pc = "mergeWrite" /\ req'[q].mine = [read EXCEPT !.rnodes = WithCids(read)]
    BY <1>1, <1>7 DEF Request
  <2>2. req'[q].mine.rnodes = WithCids(read)
    BY <1>4, <2>1 DEF Columns
  <2>3. ASSUME ~raced, ~stale PROVE Stage(q)'
    <3>1. Stored(read.rnodes) /\ Covers(db.deps, read.rnodes)
      BY <1>3, <1>4, <1>7, <2>3 DEF Registering, At
    <3>2. Stored(WithCids(read)) /\ Covers(db.deps, WithCids(read))
      BY <1>4, <3>1, WithCidsPieces DEF Stored, Covers
    <3>3. QED
      BY <1>2, <2>1, <2>2, <3>2
        DEF Stage, Reading, Loading, Solving, Emitting, Taking, Spreading, Registering, At, Stored
  <2>4. QED
    BY <1>2, <1>3, <2>3 DEF TracksMove
<1>8. QED
  BY <1>5, <1>6, <1>7 DEF Merge, ReadForMerge, read

LEMMA WriteTracksMove ==
    ASSUME TypeOK, TracksInv, NEW q \in Deployers,
           WriteMerged(q) \/ ReadForRegister(q) \/ WriteRegistered(q)
    PROVE  TracksMove(q)
<1> DEFINE mine == req[q].mine
<1>1. /\ q \in Requests /\ req \in [Requests -> Request] /\ req[q] \in Request
      /\ db \in Columns /\ mine \in Columns /\ EmptyColumns \in Columns
  BY RequestType, EmptyType DEF Requests, TypeOK
<1>2. /\ Inside(q) /\ UNCHANGED <<raced, stale, file>>
      /\ \A p \in Requests \ {q} : req'[p] = req[p]
  BY <1>1 DEF WriteMerged, ReadForRegister, WriteRegistered, Goto, Inside, At, history, hosts
<1>3. ASSUME ~raced, ~stale PROVE Covers(db.deps, db.rnodes) /\ Registering(q)
  BY <1>2, <1>3 DEF TracksInv, Stage
<1> USE DEF At
<1>4. CASE WriteMerged(q)
  <2>1. CASE At(q, "mergeWrite")
    <3>1. db' = Copied(db, mine, "rnodes") /\ req'[q].pc = "mergeWriteSnodes"
      BY <1>1, <1>4, <2>1 DEF WriteMerged, Goto, Request
    <3>2. db'.rnodes = mine.rnodes /\ db'.deps = db.deps
      BY <1>1, <3>1, CopiedIs
    <3>3. QED
      BY <1>2, <1>3, <2>1, <3>1, <3>2
        DEF TracksMove, Stage, Reading, Loading, Solving, Emitting, Taking, Spreading, Registering,
            Stored
  <2>2. CASE At(q, "mergeWriteSnodes")
    <3>1. db' = Copied(db, mine, "snodes") /\ req'[q].pc = "register"
      BY <1>1, <1>4, <2>2 DEF WriteMerged, Goto, Request
    <3>2. db'.rnodes = db.rnodes /\ db'.deps = db.deps
      BY <1>1, <3>1, CopiedIs
    <3>3. QED
      BY <1>2, <1>3, <2>2, <3>1, <3>2
        DEF TracksMove, Stage, Reading, Loading, Solving, Emitting, Taking, Spreading, Registering,
            Stored
  <2>3. QED
    BY <1>4, <2>1, <2>2 DEF WriteMerged
<1>5. CASE ReadForRegister(q)
  <2>1. db' = db
    BY <1>5 DEF ReadForRegister
  <2>2. CASE At(q, "register")
    <3>1. req'[q].pc = "registerRegs" /\ req'[q].mine = Copied(EmptyColumns, db, "rnodes")
      BY <1>1, <1>5, <2>2 DEF ReadForRegister, Request
    <3>2. req'[q].mine.rnodes = db.rnodes
      BY <1>1, <3>1, CopiedIs
    <3>3. QED
      BY <1>2, <1>3, <2>1, <2>2, <3>1, <3>2
        DEF TracksMove, Stage, Reading, Loading, Solving, Emitting, Taking, Spreading, Registering,
            Stored
  <2>3. CASE At(q, "registerRegs")
    <3>1. req'[q].pc = "registering" /\ req'[q].mine = Copied(mine, db, "regs")
      BY <1>1, <1>5, <2>3 DEF ReadForRegister, Request
    <3>2. req'[q].mine.rnodes = mine.rnodes
      BY <1>1, <3>1, CopiedIs
    <3>3. QED
      BY <1>2, <1>3, <2>1, <2>3, <3>1, <3>2
        DEF TracksMove, Stage, Reading, Loading, Solving, Emitting, Taking, Spreading, Registering,
            Stored
  <2>4. QED
    BY <1>5, <2>2, <2>3 DEF ReadForRegister
<1>6. CASE WriteRegistered(q)
  <2>1. CASE At(q, "registered")
    <3>1. db' = Copied(db, mine, "rnodes") /\ req'[q].pc = "registeredRegs"
      BY <1>1, <1>6, <2>1 DEF WriteRegistered, Goto, Request
    <3>2. db'.rnodes = mine.rnodes /\ db'.deps = db.deps
      BY <1>1, <3>1, CopiedIs
    <3>3. QED
      BY <1>2, <1>3, <2>1, <3>1, <3>2
        DEF TracksMove, Stage, Reading, Loading, Solving, Emitting, Taking, Spreading, Registering
  <2>2. CASE At(q, "registeredRegs")
    <3>1. db' = Copied(db, mine, "regs") /\ req'[q].pc = "unlock"
      BY <1>1, <1>6, <2>2 DEF WriteRegistered, Goto, Request
    <3>2. db'.rnodes = db.rnodes /\ db'.deps = db.deps
      BY <1>1, <3>1, CopiedIs
    <3>3. QED
      BY <1>2, <1>3, <2>2, <3>1, <3>2
        DEF TracksMove, Stage, Reading, Loading, Solving, Emitting, Taking, Spreading, Registering
  <2>3. QED
    BY <1>6, <2>1, <2>2 DEF WriteRegistered
<1>7. QED
  BY <1>4, <1>5, <1>6

LEMMA EntryTracksMove ==
    ASSUME TypeOK, TracksInv, NEW q \in Deployers,
           NextNode(q) \/ \E i \in Instances : SkipKnown(q, i) \/ PostEntry(q, i)
    PROVE  TracksMove(q)
<1> DEFINE mine == req[q].mine
           new == req'[q].mine
<1>1. /\ q \in Requests /\ req \in [Requests -> Request] /\ req[q] \in Request /\ mine \in Columns
  BY RequestType DEF Requests, TypeOK
<1>2. Inside(q) /\ At(q, "registering") /\ UNCHANGED <<db, raced, stale, file>>
  BY DEF SkipKnown, PostEntry, NextNode, Inside, At, history, hosts
<1>3. /\ \A p \in Requests \ {q} : req'[p] = req[p]
      /\ req'[q].pc \in {"registering", "registered"}
      /\ \A r \in RNodes : \A x \in new.rnodes[r] : \E e \in mine.rnodes[r] :
            x.piece = e.piece /\ x.at = e.at
  <2>1. CASE \E i \in Instances : PostEntry(q, i)
    BY <2>1, PostEntryIs
  <2>2. CASE NextNode(q) \/ \E i \in Instances : SkipKnown(q, i)
    <3>1. /\ \A p \in Requests \ {q} : req'[p] = req[p]
          /\ req'[q].pc \in {"registering", "registered"} /\ new = mine
      BY <1>1, <1>2, <2>2 DEF SkipKnown, NextNode, Goto, Request, At
    <3>2. QED
      BY <3>1
  <2>3. QED
    BY <2>1, <2>2
<1>4. ASSUME ~raced, ~stale PROVE Stage(q)'
  <2>1. Stored(mine.rnodes) /\ Covers(db.deps, mine.rnodes)
    BY <1>2, <1>4 DEF TracksInv, Stage, Registering, At
  <2>2. ASSUME NEW r \in RNodes, NEW x \in new.rnodes[r]
        PROVE  file[x.at][x.piece] # "absent" /\ x.piece[1] \in db.deps.instances
    <3>1. PICK e \in mine.rnodes[r] : x.piece = e.piece /\ x.at = e.at
      BY <1>3
    <3>2. QED
      BY <2>1, <3>1 DEF Stored, Covers
  <2>3. /\ \A r \in RNodes : \A x \in new.rnodes[r] : file'[x.at][x.piece] # "absent"
        /\ Covers(db'.deps, new.rnodes)
    BY <1>2, <2>2 DEF Covers
  <2>4. QED
    BY <1>2, <1>3, <2>3
      DEF Stage, Reading, Loading, Solving, Emitting, Taking, Spreading, Registering, At, Stored
<1>5. QED
  BY <1>2, <1>3, <1>4 DEF TracksMove, TracksInv

LEMMA EndTracksMove ==
    ASSUME TypeOK, TracksInv, NEW q \in Deployers,
           \/ Unlock(q) \/ OptimizeRaises(q)
           \/ \E i \in Instances : NoCidToRegister(q, i) \/ EntryFails(q, i)
    PROVE  TracksMove(q)
<1>1. q \in Requests /\ req \in [Requests -> Request]
  BY DEF Requests, TypeOK
<1>2. Inside(q) /\ UNCHANGED <<db, raced, stale>>
  BY DEF Unlock, OptimizeRaises, NoCidToRegister, EntryFails, Inside, At, history
<1>3. req'[q].pc \in {"idle", "dead"} /\ \A p \in Requests \ {q} : req'[p] = req[p]
  BY <1>1 DEF Unlock, OptimizeRaises, NoCidToRegister, EntryFails, Idle
<1>4. QED
  BY <1>2, <1>3 DEF TracksMove, TracksInv, Inside

\* A task is done when none of its shards is left to push.
LEMMA TaskEnds ==
    ASSUME TypeOK, NEW q \in Deployers, NEW s \in SNodes,
           Pushing(q, s) \/ ShardFails(q, s) \/ IpfsFails(q, s) \/ Orphaned(q, s)
    PROVE  /\ FilesGrow
           /\ \A p \in Deployers \ {q}, t \in SNodes : thread'[<<p, t>>] = thread[<<p, t>>]
           /\ \A t \in SNodes : thread'[<<q, t>>] = "done" =>
                 \/ Unpushed(req'[q].mine.snodes[t]) = {}
                 \/ thread[<<q, t>>] = "done" /\ req'[q].mine.snodes[t] = req[q].mine.snodes[t]
<1> DEFINE c == <<q, s>>
           shards == req[q].mine.snodes[s]
<1>1. /\ q \in Requests /\ req \in [Requests -> Request] /\ req[q] \in Request
      /\ req[q].mine.snodes \in [SNodes -> SUBSET SShard]
      /\ thread \in [Tasks -> {None, "running", "posting", "failed", "done"}]
      /\ SH!HostTypeOK
  BY RequestType DEF Requests, TypeOK, Columns
<1>2. c \in Tasks /\ \A p \in Deployers, t \in SNodes :
                        <<p, t>> \in Tasks /\ (<<p, t>> = c <=> p = q /\ t = s)
  BY DEF Tasks
<1>3. FilesGrow
  <2>1. CASE HostStep(q, s) \/ ShardAnswered(q, s) \/ Orphaned(q, s)
    <3>1. Live(q, s) \in Connections /\ \A f \in 1 .. MaxFaults : <<q, s, f>> \in Connections
      BY ConnectionsType
    <3>2. QED
      BY <1>1, <2>1, <3>1, FilesStay DEF HostStep, ShardAnswered, Orphaned, FilesGrow
  <2>2. CASE PushIpfs(q, s)
    <3>1. PICK pieces :
            file' = [file EXCEPT ![s] = [n \in Names |-> IF n \in pieces THEN "whole" ELSE @[n]]]
      BY <2>2 DEF PushIpfs
    <3>2. QED
      BY <1>1, <3>1 DEF FilesGrow, SH!HostTypeOK
  <2>3. CASE PostShard(q, s) \/ ThreadEnds(q, s) \/ ShardFails(q, s) \/ IpfsFails(q, s)
    BY <2>3 DEF PostShard, ThreadEnds, ShardFails, IpfsFails, SH!Receive, hosts, FilesGrow
  <2>4. QED
    BY <2>1, <2>2, <2>3 DEF Pushing, TaskStep
<1>4. CASE HostStep(q, s) \/ Orphaned(q, s)
  BY <1>3, <1>4 DEF HostStep, Orphaned
<1>5. CASE PostShard(q, s) \/ ShardFails(q, s) \/ IpfsFails(q, s)
  BY <1>1, <1>2, <1>3, <1>5 DEF PostShard, ShardFails, IpfsFails
<1>6. CASE ThreadEnds(q, s)
  BY <1>1, <1>2, <1>3, <1>6 DEF ThreadEnds
<1>7. CASE ShardAnswered(q, s)
  <2>1. /\ thread' = [thread EXCEPT ![c] = "running"]
        /\ \E pieces : req' = [req EXCEPT ![q].mine.snodes[s] = Flagged(@, pieces)]
    BY <1>7 DEF ShardAnswered, Posted
  <2>2. \A t \in SNodes \ {s} : req'[q].mine.snodes[t] = req[q].mine.snodes[t]
    BY <1>1, <2>1 DEF Request, Columns
  <2>3. QED
    BY <1>1, <1>2, <1>3, <2>1, <2>2
<1>8. CASE PushIpfs(q, s)
  <2> DEFINE pieces == {e.piece : e \in Unpushed(shards)}
  <2>1. /\ thread' = [thread EXCEPT ![c] = "done"]
        /\ req' = [req EXCEPT ![q].mine.snodes[s] = Flagged(@, pieces)]
    BY <1>8 DEF PushIpfs
  <2>2. \A e \in shards : ~e.pushed => e.piece \in pieces
    BY DEF Unpushed
  <2> HIDE DEF pieces
  <2>3. /\ req'[q].mine.snodes[s] = Flagged(shards, pieces)
        /\ \A t \in SNodes \ {s} : req'[q].mine.snodes[t] = req[q].mine.snodes[t]
    BY <1>1, <2>1 DEF Request, Columns
  <2>4. ASSUME NEW x \in Flagged(shards, pieces) PROVE x.pushed
    <3>1. PICK e \in shards : x = IF e.piece \in pieces THEN [e EXCEPT !.pushed = TRUE] ELSE e
      BY <2>4 DEF Flagged
    <3>2. e \in SShard
      BY <1>1
    <3>3. QED
      BY <2>2, <3>1, <3>2 DEF SShard
  <2>5. Unpushed(req'[q].mine.snodes[s]) = {}
    BY <2>3, <2>4 DEF Unpushed
  <2>6. QED
    BY <1>1, <1>2, <1>3, <2>1, <2>3, <2>5
<1>9. QED
  BY <1>4, <1>5, <1>6, <1>7, <1>8 DEF Pushing, TaskStep

LEMMA TaskTracks ==
    ASSUME TypeOK, TracksInv, NEW q \in Deployers, NEW s \in SNodes,
           Pushing(q, s) \/ ShardFails(q, s) \/ IpfsFails(q, s) \/ Orphaned(q, s)
    PROVE  TracksInv'
<1>1. /\ UNCHANGED <<db, tmp, out, raced, stale>> /\ FilesGrow
      /\ \A p \in Requests \ {q} : req'[p] = req[p]
  BY TaskIs, TaskEnds
<1>2. ASSUME NEW p \in Deployers PROVE Untouched(p) /\ (Inside(p)' => Inside(p))
  <2>1. p \in Requests
    BY DEF Requests
  <2>2. CASE p = q
    BY <1>1, <2>2, TaskIs, TaskEnds DEF Untouched, Inside
  <2>3. CASE p # q
    BY <1>1, <2>1, <2>3, TaskEnds DEF Untouched, Inside
  <2>4. QED
    BY <2>2, <2>3
<1>3. QED
  BY <1>1, <1>2, StageStays DEF TracksInv

\* Steps of the pages: unless a column is put back that had changed, they change
\* the known dependencies and nothing else.
LEMMA BesideTracks ==
    ASSUME TypeOK, TracksInv, NEW q \in Requests,
           \A p \in Requests \ {q} : req'[p] = req[p],
           req'[q].pc \in {"idle", "upload", "edit", "lock"},
           UNCHANGED <<tmp, out, thread, file>>, raced \/ stale => raced' \/ stale',
           ~stale' => /\ db'.deps.instances = db.deps.instances
                      /\ db'.rnodes = db.rnodes /\ db'.snodes = db.snodes
    PROVE  TracksInv'
<1>1. SUFFICES ASSUME ~raced', ~stale'
               PROVE  Covers(db.deps, db.rnodes)' /\ \A p \in Deployers : Inside(p)' => Stage(p)'
  BY DEF TracksInv
<1>2. Covers(db.deps, db.rnodes) /\ \A p \in Deployers : Inside(p) => Stage(p)
  BY <1>1 DEF TracksInv
<1>3. Covers(db.deps, db.rnodes)'
  BY <1>1, <1>2 DEF Covers
<1>4. ASSUME NEW p \in Deployers, Inside(p)' PROVE Stage(p)'
  <2>1. p # q /\ req'[p] = req[p]
    BY <1>4 DEF Inside, Requests
  <2>2. Inside(p) /\ Untouched(p)
    BY <1>1, <1>4, <2>1 DEF Inside, Untouched, FilesGrow
  <2>3. QED
    BY <1>2, <2>2, StageStays
<1>5. QED
  BY <1>3, <1>4

LEMMA PagesTrack ==
    ASSUME TypeOK, TracksInv, NEW q \in Requests,
           \/ ReadForUpload(q) \/ \E d \in Deps : WriteUpload(q, d)
           \/ PostPage(q) \/ \E c \in EditColumns : ShowPage(q, c)
           \/ \E k \in Kinds : TestLock(q, k)
    PROVE  TracksInv'
<1>1. /\ req \in [Requests -> Request] /\ db \in Columns /\ req[q].mine \in Columns
  BY RequestType DEF TypeOK
<1>2. /\ \A p \in Requests \ {q} : req'[p] = req[p]
      /\ req'[q].pc \in {"idle", "upload", "edit", "lock"}
      /\ UNCHANGED <<tmp, out, thread, file>> /\ (raced \/ stale => raced' \/ stale')
  <2>1. CASE ReadForUpload(q) \/ \E c \in EditColumns : ShowPage(q, c)
    <3>1. req'[q].pc \in {"upload", "edit"} /\ \A p \in Requests \ {q} : req'[p] = req[p]
      <4>1. CASE ReadForUpload(q)
        BY <1>1, <4>1 DEF ReadForUpload, Request
      <4>2. ASSUME NEW c \in EditColumns, ShowPage(q, c)
            PROVE  req'[q].pc = "edit" /\ \A p \in Requests \ {q} : req'[p] = req[p]
        BY <1>1, <4>2 DEF ShowPage, Request
      <4>3. QED
        BY <2>1, <4>1, <4>2
    <3>2. UNCHANGED <<tmp, out, thread, file, raced, stale>>
      BY <2>1 DEF ReadForUpload, ShowPage, history, hosts
    <3>3. QED
      BY <3>1, <3>2
  <2>2. CASE PostPage(q) \/ \E d \in Deps : WriteUpload(q, d)
    <3>1. req' = [req EXCEPT ![q] = Idle] /\ UNCHANGED <<tmp, out, thread, file, raced>>
      BY <2>2 DEF PostPage, WriteUpload, hosts
    <3>2. stale => stale'
      BY <2>2, Zenon DEF PostPage, WriteUpload
    <3>3. QED
      BY <1>1, <3>1, <3>2 DEF Idle
  <2>3. CASE \E k \in Kinds : TestLock(q, k)
    <3>1. PICK k \in Kinds : TestLock(q, k)
      BY <2>3
    <3>2. req' = [req EXCEPT ![q].pc = "lock", ![q].kind = k]
          /\ UNCHANGED <<tmp, out, thread, file, stale>>
      BY <3>1 DEF TestLock, hosts
    <3>3. req'[q].pc = "lock" /\ \A p \in Requests \ {q} : req'[p] = req[p]
      BY <1>1, <3>2 DEF Request
    <3>4. raced => raced'
      BY <3>1, Zenon DEF TestLock
    <3>5. QED
      BY <3>2, <3>3, <3>4
  <2>4. QED
    BY <2>1, <2>2, <2>3
<1>3. ASSUME ~stale'
      PROVE  /\ db'.deps.instances = db.deps.instances
             /\ db'.rnodes = db.rnodes /\ db'.snodes = db.snodes
  <2>1. ASSUME NEW d \in Deps, WriteUpload(q, d)
        PROVE  /\ db'.deps.instances = db.deps.instances
               /\ db'.rnodes = db.rnodes /\ db'.snodes = db.snodes
    <3>1. db.deps = req[q].mine.deps
      BY <1>3, <2>1 DEF WriteUpload
    <3>2. db' = [db EXCEPT !.deps = [req[q].mine.deps EXCEPT !.known = @ \cup {d}]]
      BY <2>1 DEF WriteUpload
    <3>3. QED
      BY <1>1, <3>1, <3>2 DEF Columns
  <2>2. CASE \/ ReadForUpload(q) \/ PostPage(q) \/ \E c \in EditColumns : ShowPage(q, c)
             \/ \E k \in Kinds : TestLock(q, k)
    BY <1>3, <2>2 DEF ReadForUpload, PostPage, ShowPage, TestLock
  <2>3. QED
    BY <2>1, <2>2
<1>4. QED
  BY <1>2, <1>3, BesideTracks

LEMMA TracksStep ==
    TypeOK /\ LockInv /\ PushInv /\ UploadInv /\ TracksInv /\ [Next]_vars => TracksInv'
<1>1. SUFFICES ASSUME TypeOK, LockInv, PushInv, UploadInv, TracksInv, [Next]_vars
               PROVE  TracksInv'
  OBVIOUS
<1>2. ASSUME NEW q \in Deployers, Deploying(q) PROVE TracksInv'
  <2>1. CASE SetLock(q) \/ ReadColumn(q) \/ LoadFile(q) \/ EmitFile(q) \/ TakeColumn(q)
    BY <1>1, <2>1, SetLockTracksMove, ReadTracksMove, LoadTracksMove, EmitTracksMove,
       TakeTracksMove, TracksKept
  <2>2. CASE SolveSimple(q) \/ Solve(q) \/ CreateMore(q)
    BY <1>1, <2>2, SpreadTracksMove, SolveTracksMove, CreateTracksMove, TracksKept
  <2>3. CASE StartThreads(q) \/ CollectResults(q) \/ PushRaises(q) \/ Merge(q)
    BY <1>1, <2>3, ThreadsTracksMove, MergeTracksMove, TracksKept
  <2>4. CASE WriteMerged(q) \/ ReadForRegister(q) \/ WriteRegistered(q) \/ Unlock(q)
    BY <1>1, <2>4, WriteTracksMove, EndTracksMove, TracksKept
  <2>5. ASSUME NEW i \in Instances,
               SkipKnown(q, i) \/ NoCidToRegister(q, i) \/ PostEntry(q, i)
        PROVE  TracksInv'
    BY <1>1, <2>5, EntryTracksMove, EndTracksMove, TracksKept
  <2>6. CASE NextNode(q)
    BY <1>1, <2>6, EntryTracksMove, TracksKept
  <2>7. QED
    BY <1>2, <2>1, <2>2, <2>3, <2>4, <2>5, <2>6 DEF Deploying
<1>3. ASSUME NEW q \in Deployers, Failing(q) PROVE TracksInv'
  BY <1>1, <1>3, EndTracksMove, TaskTracks, TracksKept DEF Failing
<1>4. ASSUME NEW q \in Deployers, NEW s \in SNodes, Pushing(q, s) PROVE TracksInv'
  BY <1>1, <1>4, TaskTracks
<1>5. ASSUME NEW q \in Requests,
             \/ ReadForUpload(q) \/ \E d \in Deps : WriteUpload(q, d)
             \/ PostPage(q) \/ \E c \in EditColumns : ShowPage(q, c)
             \/ \E k \in Kinds : TestLock(q, k)
      PROVE  TracksInv'
  BY <1>1, <1>5, PagesTrack
<1>6. CASE Restart
  <2>1. /\ UNCHANGED <<db, raced, stale>>
        /\ \A p \in Requests : req'[p].pc = "idle"
    BY <1>6 DEF Restart, Idle
  <2>2. QED
    BY <1>1, <2>1 DEF TracksInv, Inside, Requests
<1>7. CASE UNCHANGED vars
  <2>1. \A p \in Deployers : Stage(p) => Stage(p)'
    BY <1>7 DEF vars, Stage, Reading, Loading, Solving, Emitting, Taking, Spreading, Registering,
       ReadTo, TakenFrom, Stored, At
  <2>2. QED
    BY <1>1, <1>7, <2>1 DEF vars, TracksInv, Inside
<1>8. QED
  BY <1>1, <1>2, <1>3, <1>4, <1>5, <1>6, <1>7 DEF Next, Requests

LEMMA TracksInit == Init => TracksInv
<1> SUFFICES ASSUME Init PROVE TracksInv
  OBVIOUS
<1>1. \A q \in Deployers : ~Inside(q)
  BY DEF Init, Inside, Idle, Requests
<1>2. \A r \in RNodes : db.rnodes[r] = {}
  BY DEF Init, EmptyColumns
<1>3. QED
  BY <1>1, <1>2 DEF TracksInv, Covers

-----------------------------------------------------------------------------
(***************************************************************************)
(* What a registry holds.                                                   *)
(***************************************************************************)

\* HandedOutIsThere of one entry, but that a file need only be there, cut or whole;
\* f is what the hosts have.
Placed(f, locations, d) ==
    \E i \in Instances :
        /\ i[1] = d
        /\ {l[2][1] : l \in locations} = {i}
        /\ <<i, Blob>> \in {l[2] : l \in locations}
        /\ Cardinality({l \in locations : l[2][2] # Blob}) >= Need
        /\ \A l \in locations : f[l[1]][l[2]] # "absent"

LocationsOf(entries) == {<<e.at, e.piece>> : e \in entries}

LEMMA PlacedStays ==
    ASSUME NEW locations \in SUBSET (SNodes \X Names), NEW d, Placed(file, locations, d), FilesGrow
    PROVE  Placed(file', locations, d)
<1>1. ASSUME NEW l \in locations, file[l[1]][l[2]] # "absent" PROVE file'[l[1]][l[2]] # "absent"
  BY <1>1 DEF FilesGrow
<1>2. QED
  BY <1>1 DEF Placed

\* Different shards have different locations.
LEMMA ManyLocations ==
    ASSUME NEW i \in Instances, NEW entries,
           \A e \in entries : e.at \in SNodes /\ e.piece \in {i} \X Pieces,
           Cardinality(ShardsAmong(PiecesOf(entries), i)) >= Need
    PROVE  Cardinality({l \in LocationsOf(entries) : l[2][2] # Blob}) >= Need
<1> DEFINE N == {l \in LocationsOf(entries) : l[2][2] # Blob}
           P == {l[2] : l \in N}
           f == [l \in N |-> l[2]]
<1>1. N \subseteq SNodes \X ({i} \X Pieces)
  BY DEF LocationsOf
<1>2. IsFiniteSet(SNodes \X ({i} \X Pieces))
  <2>1. IsFiniteSet(SNodes)
    BY FS_Interval, PlacementAssumption DEF SNodes
  <2>2. IsFiniteSet(Pieces)
    BY FS_AddElement, PlacementAssumption DEF Pieces
  <2>3. QED
    BY <2>1, <2>2, FS_Singleton, FS_Product
<1>3. IsFiniteSet(N) /\ Cardinality(N) \in Nat
  BY <1>1, <1>2, FS_Subset, FS_CardinalityType
<1>4. f \in Surjection(N, P)
  BY DEF Surjection
<1>5. IsFiniteSet(P) /\ Cardinality(P) <= Cardinality(N) /\ Cardinality(P) \in Nat
  BY <1>3, <1>4, FS_Surjection, FS_CardinalityType
<1>6. ShardsAmong(PiecesOf(entries), i) \subseteq P
  <2>1. SUFFICES ASSUME NEW e \in entries, e.piece[2] # Blob PROVE e.piece \in P
    BY DEF ShardsAmong, PiecesOf
  <2>2. <<e.at, e.piece>> \in N
    BY <2>1 DEF LocationsOf
  <2>3. QED
    BY <2>2
<1> HIDE DEF N, P, f
<1>7. Cardinality(ShardsAmong(PiecesOf(entries), i)) <= Cardinality(P)
      /\ Cardinality(ShardsAmong(PiecesOf(entries), i)) \in Nat
  BY <1>5, <1>6, FS_Subset, FS_CardinalityType
<1>8. Cardinality(N) >= Need
  BY <1>3, <1>5, <1>7, NeedType
<1>9. QED
  BY <1>8 DEF N

\* An entry of a name the registry does not have yet lists all shards the race
\* node has of the instance: had one been registered, the name would be there.
LEMMA DueIsPlaced ==
    ASSUME TypeOK, RowsInv, TracksInv, ~raced, ~stale, NEW q \in Deployers, NEW i \in Instances,
           At(q, "registering"), Due(q, i) # {}, held[Target(req[q].node)][i[1]] = {}
    PROVE  Placed(file, LocationsOf(Due(q, i)), i[1])
<1> DEFINE mine == req[q].mine
           n == req[q].node
           due == Due(q, i)
           entries == mine.rnodes[n]
<1>1. q \in Requests /\ mine \in Columns /\ n \in RNodes /\ Inside(q)
  BY RequestType DEF Requests, Inside, At
<1>2. \A e \in entries : e.piece \in Names /\ e.at \in SNodes
  BY <1>1, RowsType
<1>3. Full(mine.rnodes) /\ OnRecord(held, mine.rnodes)
  BY <1>1, RowCopiesThere DEF RowsInv
<1>4. Stored(mine.rnodes)
  BY <1>1 DEF TracksInv, Stage, Registering, At
<1>5. due = {e \in entries : e.piece[1] = i}
  BY <1>1, <1>3 DEF Due, OnRecord
<1> HIDE DEF due
<1>6. PICK e \in entries : e.piece[1] = i
  BY <1>5 DEF due
<1>7. /\ <<i, Blob>> \in PiecesOf(entries)
      /\ Cardinality(ShardsAmong(PiecesOf(entries), i)) >= Need
  <2>1. e.piece \in PiecesOf(entries)
    BY <1>6 DEF PiecesOf
  <2>2. QED
    BY <1>1, <1>3, <1>6, <2>1 DEF Full, Enough
<1>8. /\ ShardsAmong(PiecesOf(due), i) = ShardsAmong(PiecesOf(entries), i)
      /\ \A x \in due : x.at \in SNodes /\ x.piece \in {i} \X Pieces
  BY <1>2, <1>5 DEF ShardsAmong, PiecesOf, Names
<1>9. Cardinality({l \in LocationsOf(due) : l[2][2] # Blob}) >= Need
  BY <1>7, <1>8, ManyLocations
<1>10. {l[2][1] : l \in LocationsOf(due)} = {i}
  <2>1. \A l \in LocationsOf(due) : l[2][1] = i
    BY <1>5 DEF LocationsOf
  <2>2. <<e.at, e.piece>> \in LocationsOf(due)
    BY <1>5, <1>6 DEF LocationsOf
  <2>3. QED
    BY <2>1, <2>2
<1>11. <<i, Blob>> \in {l[2] : l \in LocationsOf(due)}
  <2>1. PICK x \in entries : x.piece = <<i, Blob>>
    BY <1>7 DEF PiecesOf
  <2>2. x \in due
    BY <1>5, <2>1
  <2>3. <<x.at, x.piece>> \in LocationsOf(due)
    BY <2>2 DEF LocationsOf
  <2>4. QED
    BY <2>1, <2>3
<1>12. \A l \in LocationsOf(due) : file[l[1]][l[2]] # "absent"
  BY <1>1, <1>4, <1>5 DEF LocationsOf, Stored
<1>13. QED
  BY <1>9, <1>10, <1>11, <1>12 DEF Placed, due

\* HandedOutIsThere but for what hosts keep of requests that broke off.
HandedOutStored ==
    ~raced /\ ~stale =>
        \A g \in Regs, d \in Deps : held[g][d] # {} => Placed(file, held[g][d], d)

\* A file that is there is whole, or the host excused for the part it has.
LEMMA StoredIsThere == TypeOK /\ CutIsExcused /\ HandedOutStored => HandedOutIsThere
<1> SUFFICES ASSUME TypeOK, SH!CutIsExcused, HandedOutStored PROVE HandedOutIsThere
  BY DEF CutIsExcused
<1>1. ASSUME NEW s \in SNodes, NEW n \in Names, file[s][n] # "absent"
      PROVE  file[s][n] = "whole" \/ (file[s][n] = "cut" /\ SH!Excused(s, n))
  <2>1. file[s][n] \in {"absent", "cut", "whole"}
    BY DEF TypeOK, SH!HostTypeOK
  <2>2. QED
    BY <1>1, <2>1 DEF SH!CutIsExcused
<1>2. ASSUME NEW g \in Regs, NEW d \in Deps, NEW l \in held[g][d]
      PROVE  l[1] \in SNodes /\ l[2] \in Names
  BY <1>2 DEF TypeOK
<1>3. ASSUME ~raced, ~stale, NEW g \in Regs, NEW d \in Deps, held[g][d] # {}
      PROVE  \E i \in Instances :
                /\ i[1] = d
                /\ {l[2][1] : l \in held[g][d]} = {i}
                /\ <<i, Blob>> \in {l[2] : l \in held[g][d]}
                /\ Cardinality({l \in held[g][d] : l[2][2] # Blob}) >= Need
                /\ \A l \in held[g][d] :
                      \/ file[l[1]][l[2]] = "whole"
                      \/ file[l[1]][l[2]] = "cut" /\ SH!Excused(l[1], l[2])
  <2>1. Placed(file, held[g][d], d)
    BY <1>3 DEF HandedOutStored
  <2>2. PICK i \in Instances :
          /\ i[1] = d
          /\ {l[2][1] : l \in held[g][d]} = {i}
          /\ <<i, Blob>> \in {l[2] : l \in held[g][d]}
          /\ Cardinality({l \in held[g][d] : l[2][2] # Blob}) >= Need
          /\ \A l \in held[g][d] : file[l[1]][l[2]] # "absent"
    BY <2>1 DEF Placed
  <2>3. \A l \in held[g][d] : \/ file[l[1]][l[2]] = "whole"
                              \/ file[l[1]][l[2]] = "cut" /\ SH!Excused(l[1], l[2])
    BY <1>1, <1>2, <2>2
  <2>4. QED
    BY <2>2, <2>3, Zenon
<1>4. QED
  BY <1>3, Zenon DEF HandedOutIsThere

\* Steps that give a registry nothing.
Quiet == UNCHANGED held /\ FilesGrow /\ (raced => raced') /\ (stale => stale')

LEMMA QuietKeeps ==
    ASSUME TypeOK, HandedOutStored, Quiet
    PROVE  HandedOutStored'
<1>1. SUFFICES ASSUME ~raced', ~stale', NEW g \in Regs, NEW d \in Deps, held'[g][d] # {}
               PROVE  Placed(file', held'[g][d], d)
  BY DEF HandedOutStored
<1>2. held'[g][d] = held[g][d] /\ held[g][d] \in SUBSET (SNodes \X Names)
  BY DEF Quiet, TypeOK
<1>3. Placed(file, held[g][d], d)
  BY <1>1, <1>2 DEF HandedOutStored, Quiet
<1>4. QED
  BY <1>2, <1>3, PlacedStays DEF Quiet

LEMMA EntryHandsOut ==
    ASSUME TypeOK, RowsInv, TracksInv, HandedOutStored, NEW q \in Deployers,
           NEW i \in Instances, PostEntry(q, i) \/ EntryFails(q, i)
    PROVE  HandedOutStored'
<1> DEFINE h == Target(req[q].node)
           stowed == Stowed(h, i, Due(q, i))
<1>1. At(q, "registering") /\ UNCHANGED <<file, raced, stale>> /\ held' \in {held, stowed}
  BY DEF PostEntry, EntryFails, history, hosts
<1>2. SUFFICES ASSUME ~raced, ~stale, NEW g \in Regs, NEW d \in Deps, held'[g][d] # {}
               PROVE  Placed(file, held'[g][d], d)
  BY <1>1 DEF HandedOutStored
<1>3. CASE held'[g][d] = held[g][d]
  BY <1>2, <1>3 DEF HandedOutStored
<1>4. CASE held'[g][d] # held[g][d]
  <2>1. /\ held[g][d] = {} /\ g = h /\ d = i[1]
        /\ held'[g][d] = LocationsOf(Due(q, i))
    BY <1>1, <1>4, StowedGrows DEF LocationsOf
  <2>2. Due(q, i) # {}
    BY <1>2, <2>1 DEF LocationsOf
  <2>3. QED
    BY <1>1, <1>2, <2>1, <2>2, DueIsPlaced
<1>5. QED
  BY <1>3, <1>4

LEMMA HandedOutStep ==
    TypeOK /\ RowsInv /\ TracksInv /\ HandedOutStored /\ [Next]_vars => HandedOutStored'
<1>1. SUFFICES ASSUME TypeOK, RowsInv, TracksInv, HandedOutStored, [Next]_vars
               PROVE  HandedOutStored'
  OBVIOUS
<1>2. UNCHANGED <<held, file, raced, stale>> => HandedOutStored'
  BY <1>1, QuietKeeps DEF Quiet, FilesGrow
<1>3. ASSUME NEW q \in Deployers, NEW s \in SNodes,
             Pushing(q, s) \/ ShardFails(q, s) \/ IpfsFails(q, s) \/ Orphaned(q, s)
      PROVE  HandedOutStored'
  BY <1>1, <1>3, TaskIs, TaskEnds, QuietKeeps DEF Quiet
<1>4. ASSUME NEW q \in Deployers, Deploying(q) PROVE HandedOutStored'
  <2>1. CASE \E i \in Instances : PostEntry(q, i)
    BY <1>1, <2>1, EntryHandsOut
  <2>2. CASE \/ SetLock(q) \/ ReadColumn(q) \/ LoadFile(q) \/ SolveSimple(q) \/ Solve(q)
             \/ CreateMore(q) \/ EmitFile(q) \/ TakeColumn(q) \/ StartThreads(q)
    <3>1. UNCHANGED <<held, hosts, history>>
      BY <2>2 DEF SetLock, ReadColumn, LoadFile, SolveSimple, Solve, CreateMore, EmitFile,
         TakeColumn, StartThreads
    <3>2. QED
      BY <1>2, <3>1 DEF hosts, history
  <2>3. CASE \/ CollectResults(q) \/ PushRaises(q) \/ Merge(q) \/ WriteMerged(q)
             \/ ReadForRegister(q) \/ NextNode(q) \/ WriteRegistered(q) \/ Unlock(q)
             \/ \E i \in Instances : SkipKnown(q, i) \/ NoCidToRegister(q, i)
    <3>1. UNCHANGED <<held, hosts, history>>
      BY <2>3 DEF CollectResults, PushRaises, Merge, WriteMerged, ReadForRegister, NextNode,
         WriteRegistered, Unlock, SkipKnown, NoCidToRegister
    <3>2. QED
      BY <1>2, <3>1 DEF hosts, history
  <2>4. QED
    BY <1>4, <2>1, <2>2, <2>3 DEF Deploying
<1>5. ASSUME NEW q \in Deployers, Failing(q) PROVE HandedOutStored'
  <2>1. OptimizeRaises(q) => UNCHANGED <<held, file, raced, stale>>
    BY DEF OptimizeRaises, hosts
  <2>2. QED
    BY <1>1, <1>2, <1>3, <1>5, <2>1, EntryHandsOut DEF Failing
<1>6. ASSUME NEW q \in Requests,
             \/ ReadForUpload(q) \/ \E d \in Deps : WriteUpload(q, d)
             \/ PostPage(q) \/ \E c \in EditColumns : ShowPage(q, c)
             \/ \E k \in Kinds : TestLock(q, k)
      PROVE  HandedOutStored'
  <2>1. UNCHANGED <<held, file>>
    BY <1>6 DEF ReadForUpload, WriteUpload, PostPage, ShowPage, TestLock, hosts
  <2>2. CASE ReadForUpload(q) \/ \E c \in EditColumns : ShowPage(q, c)
    BY <1>2, <2>2 DEF ReadForUpload, ShowPage, hosts, history
  <2>3. CASE PostPage(q) \/ \E d \in Deps : WriteUpload(q, d)
    <3>1. UNCHANGED raced
      BY <2>3 DEF PostPage, WriteUpload
    <3>2. stale => stale'
      BY <2>3, Zenon DEF PostPage, WriteUpload
    <3>3. QED
      BY <1>1, <2>1, <3>1, <3>2, QuietKeeps DEF Quiet, FilesGrow
  <2>4. CASE \E k \in Kinds : TestLock(q, k)
    <3>1. UNCHANGED stale
      BY <2>4 DEF TestLock
    <3>2. raced => raced'
      BY <2>4, Zenon DEF TestLock
    <3>3. QED
      BY <1>1, <2>1, <3>1, <3>2, QuietKeeps DEF Quiet, FilesGrow
  <2>5. QED
    BY <1>6, <2>2, <2>3, <2>4
<1>7. Restart => UNCHANGED <<held, file, raced, stale>>
  BY DEF Restart, hosts
<1>8. UNCHANGED vars => UNCHANGED <<held, file, raced, stale>>
  BY DEF vars
<1>9. ASSUME NEW q \in Deployers, NEW s \in SNodes, Pushing(q, s) PROVE HandedOutStored'
  BY <1>3, <1>9
<1>10. QED
  BY <1>1, <1>2, <1>4, <1>5, <1>6, <1>7, <1>8, <1>9 DEF Next, Requests

\* Whatever the optimiser picks and whatever fails: what a registry hands out for a
\* dependency are the blob and Need shards or more of one instance, each at the host
\* it names, whole unless a POST of it broke off there, as long as no second request
\* passes the test of deploy_lock and no page or upload puts back a column that has
\* changed in the meantime.
THEOREM HandedOutStays == Spec => []HandedOutIsThere
<1> DEFINE IInv == /\ LockInv /\ PushInv /\ UploadInv
                   /\ RowsInv /\ TracksInv /\ HandedOutStored
<1>1. Init => IInv
  <2>1. Init => LockInv /\ PushInv /\ UploadInv
    BY LockInit, PushInit, UploadInit
  <2>2. Init => HandedOutStored
    BY DEF Init, HandedOutStored
  <2>3. QED
    BY <2>1, <2>2, RowsInit, TracksInit
<1>2. TypeOK /\ IInv /\ [Next]_vars => IInv'
  BY LockStep, PushedStep, UploadStep, RowsStep, TracksStep, HandedOutStep
<1>3. QED
  BY <1>1, <1>2, TypeCorrect, CutFilesAreExcused, StoredIsThere, PTL DEF Spec
=============================================================================
