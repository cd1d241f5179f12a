-------------------------- MODULE RegistryDbProofs --------------------------
(***************************************************************************)
(* Proofs about RegistryDb for any names, entries and readers: what the     *)
(* registry holds while it is up, and that a complete schema is never       *)
(* taken for one to be rebuilt, wherever the starts after it are cut short. *)
(***************************************************************************)
EXTENDS RegistryDb, TLAPS

\* The statements of removeAllTables and create are run only on a schema that is
\* not complete: the tables of a rebuild are not on disk before its last statement.
RebuildsIncomplete ==
    /\ pc = "remove" => ~Settled
    /\ pc \in {"createBase", "deleteVersion", "insertVersion", "createRegistry"}
          => "REGISTRY" \notin catalog

IInv ==
    /\ TypeOK
    /\ RebuildsIncomplete
    /\ FoundIsThere
    /\ \A r \in Readers : reading[r] # None => pc = "up"

-----------------------------------------------------------------------------

LEMMA InitIInv == Init => IInv
<1>1. SUFFICES ASSUME Init PROVE IInv
  OBVIOUS
<1>2. rows \in [Names -> Entries \cup {None}]
  BY <1>1 DEF Init, NoRows
<1>3. reading \in [Readers -> Names \cup {None}] /\ \A r \in Readers : reading[r] = None
  BY <1>1 DEF Init
<1>4. TypeOK
  <2>1. catalog \subseteq Tables /\ cache \subseteq Tables
    BY <1>1 DEF Init
  <2>2. versionRow \in BOOLEAN /\ rebuilding \in BOOLEAN
    BY <1>1, Zenon DEF Init
  <2>3. pc = "down" /\ cleanStarts \in 0 .. 3
    BY <1>1 DEF Init
  <2>4. QED
    BY <1>2, <1>3, <2>1, <2>2, <2>3 DEF TypeOK
<1>5. RebuildsIncomplete /\ FoundIsThere /\ (\A r \in Readers : reading[r] # None => pc = "up")
  BY <1>1, <1>3 DEF Init, RebuildsIncomplete, FoundIsThere, Settled
<1>6. QED
  BY <1>4, <1>5 DEF IInv

\* A statement of a start: types, and the rebuild of an incomplete schema only.
LEMMA StartIInv == IInv /\ Start => IInv'
<1>1. SUFFICES ASSUME IInv, Start PROVE IInv'
  OBVIOUS
<1> USE <1>1 DEF IInv, TypeOK, Tables, Startup
<1>2. \A r \in Readers : reading[r] = None /\ reading'[r] = None
  BY DEF Start, Open, OpenFails, Check, RemoveAllTables, CreateBaseTable, DeleteVersion, InsertVersion,
         CreateRegistry, Validate
<1>3. FoundIsThere' /\ (\A r \in Readers : reading'[r] # None => pc' = "up")
  BY <1>2 DEF FoundIsThere
<1>4. CASE Open
  <2>1. rows' \in [Names -> Entries \cup {None}]
    BY <1>4 DEF Open, NoRows
  <2>2. QED
    BY <1>3, <1>4, <2>1 DEF Open, RebuildsIncomplete
<1>4a. CASE OpenFails
  BY <1>3, <1>4a DEF OpenFails, RebuildsIncomplete
<1>5. CASE Check
  BY <1>3, <1>5 DEF Check, RebuildsIncomplete, Settled
<1>6. CASE RemoveAllTables
  BY <1>3, <1>6 DEF RemoveAllTables, RebuildsIncomplete
<1>7. CASE CreateBaseTable
  BY <1>3, <1>7 DEF CreateBaseTable, Create, RebuildsIncomplete
<1>8. CASE DeleteVersion
  BY <1>3, <1>8 DEF DeleteVersion, RebuildsIncomplete
<1>9. CASE InsertVersion
  BY <1>3, <1>9 DEF InsertVersion, RebuildsIncomplete
<1>10. CASE CreateRegistry
  <2>1. catalog' \subseteq Tables /\ cache' \subseteq Tables /\ catalog' \subseteq cache'
    BY <1>10 DEF CreateRegistry, Create
  <2>2. pc' \in {"up", "validate"} /\ cleanStarts' \in 0 .. 3
    BY <1>10 DEF CreateRegistry
  <2>3. UNCHANGED <<versionRow, rows, rebuilding, reading>>
    BY <1>10 DEF CreateRegistry
  <2>4. TypeOK' /\ RebuildsIncomplete'
    BY <2>1, <2>2, <2>3 DEF RebuildsIncomplete
  <2>5. QED
    BY <1>3, <2>4
<1>11. CASE Validate
  BY <1>3, <1>11 DEF Validate, RebuildsIncomplete
<1>12. QED
  BY <1>4, <1>4a, <1>5, <1>6, <1>7, <1>8, <1>9, <1>10, <1>11 DEF Start

\* An operation runs on a database that is up; storing fills a row that was empty.
LEMMA OperationIInv == IInv /\ Operation => IInv' /\ RowsKept(rows, rows')
<1>1. SUFFICES ASSUME IInv, Operation PROVE IInv' /\ RowsKept(rows, rows')
  OBVIOUS
<1> USE <1>1 DEF IInv, TypeOK, RebuildsIncomplete, FoundIsThere, RowsKept, Settled
<1>2. ASSUME NEW n \in Names, NEW e \in Entries, StoreShardEntry(n, e)
      PROVE  IInv' /\ RowsKept(rows, rows')
  BY <1>2, NoneAssumption DEF StoreShardEntry
<1>3. ASSUME NEW r \in Readers, NEW n \in Names, ShardExists(r, n)
      PROVE  IInv' /\ RowsKept(rows, rows')
  BY <1>3 DEF ShardExists
<1>4. ASSUME NEW r \in Readers, GetShardData(r)
      PROVE  IInv' /\ RowsKept(rows, rows')
  BY <1>4 DEF GetShardData
<1>5. QED
  BY <1>2, <1>3, <1>4 DEF Operation

LEMMA DieIInv == IInv /\ Die => IInv'
  BY DEF IInv, Die, TypeOK, RebuildsIncomplete, FoundIsThere, Settled

LEMMA NextIInv == IInv /\ [Next]_vars => IInv'
<1>1. IInv /\ UNCHANGED vars => IInv'
  BY DEF vars, IInv, TypeOK, RebuildsIncomplete, FoundIsThere, Settled
<1>2. QED
  BY <1>1, StartIInv, OperationIInv, DieIInv DEF Next

\* A step keeps a complete schema, and the entries in it.
LEMMA SettledStep == IInv /\ Settled /\ [Next]_vars => Settled' /\ RowsKept(rows, rows')
<1>1. SUFFICES ASSUME IInv, Settled, [Next]_vars
               PROVE  Settled' /\ RowsKept(rows, rows')
  OBVIOUS
<1> USE <1>1 DEF Settled, Tables
<1>2. CASE UNCHANGED vars
  BY <1>2 DEF vars, RowsKept
<1>3. CASE Die
  BY <1>3 DEF Die, RowsKept
<1>4. CASE Operation
  <2>1. UNCHANGED <<catalog, versionRow>>
    BY <1>4 DEF Operation, StoreShardEntry, ShardExists, GetShardData
  <2>2. QED
    BY <1>4, <2>1, OperationIInv
<1>5. CASE Start
  <2>1. pc \notin {"remove", "createBase", "deleteVersion", "insertVersion", "createRegistry"}
    BY DEF IInv, RebuildsIncomplete
  <2>2. Open \/ OpenFails \/ Check \/ Validate
    BY <1>5, <2>1 DEF Start, Startup, RemoveAllTables, CreateBaseTable, DeleteVersion,
                      InsertVersion, CreateRegistry
  <2>3. UNCHANGED <<catalog, rows>> /\ versionRow'
    BY <2>2 DEF Open, OpenFails, Check, Validate, IInv, TypeOK
  <2>4. QED
    BY <2>3 DEF RowsKept
<1>6. QED
  BY <1>2, <1>3, <1>4, <1>5 DEF Next

-----------------------------------------------------------------------------

\* At every point of a start, of a crash and of an operation.
THEOREM TypeCorrect == Spec => []TypeOK
<1>1. IInv => TypeOK
  BY DEF IInv
<1>2. QED
  BY <1>1, InitIInv, NextIInv, PTL DEF Spec

\* getShardData does not throw at a name that shardExists has just found.
THEOREM FoundStaysThere == Spec => []FoundIsThere
<1>1. IInv => FoundIsThere
  BY DEF IInv
<1>2. QED
  BY <1>1, InitIInv, NextIInv, PTL DEF Spec

\* No operation drops or replaces an entry while the registry is up.
THEOREM EntriesStand == Spec => EntriesStandWhileUp
<1>1. IInv /\ [Next]_vars => [pc = "up" /\ pc' = "up" => RowsKept(rows, rows')]_vars
  <2>1. SUFFICES ASSUME IInv, [Next]_vars, pc = "up", pc' = "up" PROVE RowsKept(rows, rows')
    OBVIOUS
  <2>2. Operation \/ UNCHANGED vars
    BY <2>1 DEF Next, Start, Startup, Open, OpenFails, Check, RemoveAllTables, CreateBaseTable,
                DeleteVersion, InsertVersion, CreateRegistry, Validate, Die
  <2>3. QED
    BY <2>1, <2>2, OperationIInv DEF vars, RowsKept
<1>2. QED
  BY <1>1, InitIInv, NextIInv, PTL DEF Spec, EntriesStandWhileUp

\* A registry that once had its schema on disk keeps it and every entry in it.
THEOREM SettledForGood == Spec => SettledStands
<1>1. IInv /\ [Next]_vars => [Settled => Settled' /\ RowsKept(rows, rows')]_vars
  BY SettledStep
<1>2. QED
  BY <1>1, InitIInv, NextIInv, PTL DEF Spec, SettledStands

-----------------------------------------------------------------------------
(***************************************************************************)
(* How many starts a schema needs.  removeAllTables leaves the tables in    *)
(* the cache, where CREATE TABLE finds them: a start may leave less on disk *)
(* than it found, but each brings the next one nearer to a complete schema. *)
(***************************************************************************)

OnDisk(table) == table \in catalog
Cached(table) == table \in cache
SameTables == \A table \in Tables : OnDisk(table) <=> Cached(table)

\* Between two starts: {} and a complete VERSION need one more, REGISTRY alone or
\* both tables without the row two, VERSION without the row three.
StartsNeeded ==
    IF Settled THEN 0
    ELSE IF ~OnDisk("REGISTRY") /\ (versionRow \/ ~OnDisk("VERSION")) THEN 1
    ELSE IF OnDisk("REGISTRY") THEN 2 ELSE 3

\* Within one: what will be needed after it.
NeededAfter ==
    IF pc = "check" THEN (IF StartsNeeded = 0 THEN 0 ELSE StartsNeeded - 1)
    ELSE IF pc \in {"remove", "createBase"}
         THEN IF Cached("REGISTRY") THEN 1 ELSE IF Cached("VERSION") THEN 2 ELSE 0
    ELSE IF SameTables THEN 0
    ELSE IF Cached("REGISTRY") /\ ~OnDisk("REGISTRY") THEN 1 ELSE 2

\* What catalog, cache and the row are at the statements of a start.
Shape ==
    /\ pc = "check" => SameTables /\ (versionRow => OnDisk("VERSION"))
    /\ pc = "remove" => SameTables /\ ~(OnDisk("VERSION") /\ versionRow)
    /\ pc = "createBase" => catalog = {}
    /\ pc \in {"deleteVersion", "insertVersion", "createRegistry"}
          => Cached("VERSION") /\ ~OnDisk("REGISTRY")
    /\ pc = "createRegistry" => versionRow
    /\ pc = "validate" =>
          /\ versionRow /\ Cached("VERSION")
          /\ Cached("REGISTRY") \/ (OnDisk("VERSION") /\ ~OnDisk("REGISTRY"))

SInv ==
    /\ Shape
    /\ pc \in {"down", "up", "sick"} => StartsNeeded + cleanStarts <= 3
    /\ pc \notin {"down", "up", "sick"} => NeededAfter = 0 \/ NeededAfter + cleanStarts <= 2

LEMMA InitSInv == Init => SInv
  BY DEF Init, SInv, Shape, StartsNeeded, Settled, Tables, OnDisk

\* Both tables and the row: nothing less counts as complete.
LEMMA SettledIs ==
    TypeOK => (Settled <=> OnDisk("VERSION") /\ OnDisk("REGISTRY") /\ versionRow)
  BY DEF TypeOK, Settled, OnDisk, Tables

LEMMA StartSInv ==
    ASSUME IInv, SInv, Start, IInv'
    PROVE  SInv'
<1>1. TypeOK /\ TypeOK' /\ cleanStarts \in 0 .. 3
  BY DEF IInv, TypeOK
<1>2. /\ Settled <=> OnDisk("VERSION") /\ OnDisk("REGISTRY") /\ versionRow
      /\ Settled' <=> OnDisk("VERSION")' /\ OnDisk("REGISTRY")' /\ versionRow'
  <2>1. Settled <=> OnDisk("VERSION") /\ OnDisk("REGISTRY") /\ versionRow
    BY <1>1, SettledIs
  <2>2. Settled' <=> OnDisk("VERSION")' /\ OnDisk("REGISTRY")' /\ versionRow'
    BY <1>1 DEF TypeOK, Settled, OnDisk, Tables
  <2>3. QED
    BY <2>1, <2>2
<1> USE DEF Tables, OnDisk, Cached, SameTables
<1>3. CASE Open
  BY <1>1, <1>2, <1>3 DEF Open, Startup, SInv, Shape, StartsNeeded, NeededAfter, TypeOK
<1>3a. CASE OpenFails
  BY <1>1, <1>2, <1>3a DEF OpenFails, Startup, SInv, Shape, StartsNeeded, TypeOK
<1>4. CASE Check
  BY <1>1, <1>2, <1>4 DEF Check, Startup, SInv, Shape, StartsNeeded, NeededAfter, TypeOK
<1>5. CASE RemoveAllTables
  BY <1>1, <1>2, <1>5 DEF RemoveAllTables, Startup, SInv, Shape, NeededAfter, TypeOK
<1>6. CASE CreateBaseTable
  BY <1>1, <1>2, <1>6 DEF CreateBaseTable, Create, Startup, SInv, Shape, NeededAfter, TypeOK
<1>7. CASE DeleteVersion
  BY <1>1, <1>2, <1>7 DEF DeleteVersion, Startup, SInv, Shape, NeededAfter, TypeOK
<1>8. CASE InsertVersion
  BY <1>1, <1>2, <1>8 DEF InsertVersion, Startup, SInv, Shape, NeededAfter, TypeOK
<1>9. CASE CreateRegistry
  BY <1>1, <1>2, <1>9
    DEF CreateRegistry, Create, Startup, SInv, Shape, StartsNeeded, NeededAfter, TypeOK
<1>10. CASE Validate
  BY <1>1, <1>2, <1>10 DEF Validate, Startup, SInv, Shape, StartsNeeded, NeededAfter, TypeOK
<1>11. QED
  BY <1>3, <1>3a, <1>4, <1>5, <1>6, <1>7, <1>8, <1>9, <1>10 DEF Start


\* The operations leave the schema alone, and a crash starts the count anew.
LEMMA NextSInv ==
    ASSUME IInv, SInv, [Next]_vars
    PROVE  SInv'
<1>1. IInv'
  BY NextIInv
<1>2. CASE Start
  BY <1>1, <1>2, StartSInv
<1>3. ASSUME UNCHANGED <<catalog, cache, versionRow, pc, cleanStarts>>
      PROVE  SInv'
  BY <1>3 DEF SInv, Shape, StartsNeeded, NeededAfter, Settled, OnDisk, Cached, SameTables
<1>4. CASE Operation
  <2>1. UNCHANGED <<catalog, cache, versionRow, pc, cleanStarts>>
    BY <1>4 DEF Operation, StoreShardEntry, ShardExists, GetShardData
  <2>2. QED
    BY <1>3, <2>1
<1>5. CASE UNCHANGED vars
  BY <1>3, <1>5 DEF vars
<1>6. CASE Die
  <2>1. StartsNeeded' = StartsNeeded /\ StartsNeeded \in 0 .. 3
    BY <1>6 DEF Die, StartsNeeded, Settled, OnDisk
  <2>2. pc' = "down" /\ cleanStarts' = IF pc \in {"up", "sick"} THEN cleanStarts ELSE 0
    BY <1>6 DEF Die
  <2>3. StartsNeeded' + cleanStarts' <= 3
    BY <2>1, <2>2 DEF SInv
  <2>4. QED
    BY <2>2, <2>3 DEF SInv, Shape
<1>7. QED
  BY <1>2, <1>4, <1>5, <1>6 DEF Next

\* The third start in a row that runs through leaves nothing to be done, and a
\* complete schema stays.
LEMMA ThirdStep ==
    ASSUME IInv, SInv, ThirdStartSettles, [Next]_vars
    PROVE  ThirdStartSettles'
<1>1. SUFFICES ASSUME cleanStarts' = 3 PROVE Settled'
  BY DEF ThirdStartSettles
<1>2. CASE cleanStarts = 3
  BY <1>2, SettledStep DEF ThirdStartSettles
<1>3. CASE cleanStarts # 3
  <2>1. pc' = "up"
    BY <1>1, <1>3 DEF Next, vars, Start, Startup, Open, OpenFails, Check, RemoveAllTables, CreateBaseTable,
           DeleteVersion, InsertVersion, CreateRegistry, Validate,
           Operation, StoreShardEntry, ShardExists, GetShardData, Die
  <2>2. StartsNeeded' + 3 <= 3 /\ StartsNeeded' \in 0 .. 3
    BY <1>1, <2>1, NextSInv DEF SInv, StartsNeeded
  <2>3. StartsNeeded' = 0
    BY <2>2 DEF StartsNeeded
  <2>4. QED
    BY <2>3 DEF StartsNeeded
<1>4. QED
  BY <1>2, <1>3

\* However starts before them were cut short, three that run through complete the
\* schema that every lookup and every store of the registry needs.
THEOREM ThirdStartCompletes == Spec => []ThirdStartSettles
<1> DEFINE All == IInv /\ SInv /\ ThirdStartSettles
<1>1. Init => All
  BY InitIInv, InitSInv DEF Init, ThirdStartSettles
<1>2. All /\ [Next]_vars => All'
  BY NextIInv, NextSInv, ThirdStep
<1>3. All => ThirdStartSettles
  OBVIOUS
<1> HIDE DEF All
<1>4. QED
  BY <1>1, <1>2, <1>3, PTL DEF Spec
=============================================================================
