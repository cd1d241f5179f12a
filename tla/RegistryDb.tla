----------------------------- MODULE RegistryDb -----------------------------
(***************************************************************************)
(* The registry's SQLite database: tryCreateTable, which repairs or         *)
(* rebuilds the schema at every start with statements that are committed    *)
(* one by one, and the operations that the web server's handlers and the    *)
(* RACE message thread run under dbLock once it is up.  The process may die *)
(* between any two statements and be started again.                         *)
(*                                                                         *)
(* removeAllTables deletes the rows of sqlite_master behind SQLite's back:  *)
(* the connection goes on with the schema it has in memory.  So catalog is  *)
(* what the file says and cache what the connection believes.  A CREATE     *)
(* TABLE fails on a table that is in the cache; a table that is only in the *)
(* cache takes rows, which nobody finds after the next start.               *)
(***************************************************************************)
EXTENDS Naturals

CONSTANTS
    Names,     \* shard names
    Entries,   \* the JSON texts that are stored under them
    Readers,   \* threads that answer a GET or a RACE request
    None       \* no row, no name

Tables == {"VERSION", "REGISTRY"}

ASSUME NoneAssumption == None \notin Names \cup Entries

VARIABLES
    catalog,      \* tables in sqlite_master, on disk
    cache,        \* tables in the schema the connection has loaded
    versionRow,   \* the VERSION table holds its row
    rows,         \* the REGISTRY table
    pc,           \* the statement of tryCreateTable; "down", "up" or "sick" outside it
    rebuilding,   \* create is run for the failed validation
    reading,      \* [Readers -> the name shardExists has just found, or None]
    cleanStarts   \* starts in a row that opened the file and that no crash cut
                  \* short, at most 3

vars == <<catalog, cache, versionRow, rows, pc, rebuilding, reading, cleanStarts>>

NoRows == [n \in Names |-> None]

Init ==
    /\ catalog = {} /\ cache = {}
    /\ versionRow = FALSE
    /\ rows = NoRows
    /\ pc = "down"
    /\ rebuilding = FALSE
    /\ reading = [r \in Readers |-> None]
    /\ cleanStarts = 0

Startup(from, to) ==
    /\ pc = from
    /\ pc' = to
    /\ UNCHANGED reading
    /\ cleanStarts' = IF to # "up" THEN cleanStarts
                      ELSE IF cleanStarts < 3 THEN cleanStarts + 1 ELSE 3

\* CREATE TABLE: an error is printed and passed over.
Create(table) ==
    IF table \in cache
    THEN UNCHANGED <<catalog, cache>>
    ELSE catalog' = catalog \cup {table} /\ cache' = cache \cup {table}

(***************************************************************************)
(* The start.                                                              *)
(***************************************************************************)

\* sqlite3_open: the schema is loaded from the file, and with it the tables'
\* contents; those of a table the file does not name are out of reach.
Open ==
    /\ Startup("down", "check")
    /\ cache' = catalog
    /\ versionRow' = (versionRow /\ "VERSION" \in catalog)
    /\ rows' = IF "REGISTRY" \in catalog THEN rows ELSE NoRows
    /\ rebuilding' = FALSE
    /\ UNCHANGED catalog

\* What sqlite3_open returns is dropped.  After a failure no statement works on the
\* connection, those of the start are passed over like all others, and the registry
\* comes up: it says 200 OK to every entry, keeps none and finds none.
OpenFails ==
    /\ Startup("down", "sick")
    /\ UNCHANGED <<catalog, cache, versionRow, rows, rebuilding>>

\* Faulty variant: a version of 1 is taken for an outdated one.
CheckWipesOldVersion ==
    /\ Startup("check", "remove")
    /\ UNCHANGED <<catalog, cache, versionRow, rows, rebuilding>>

\* baseTableExists, getSchemaVersion.
Check ==
    /\ Startup("check", IF "VERSION" \in catalog /\ versionRow THEN "validate" ELSE "remove")
    /\ UNCHANGED <<catalog, cache, versionRow, rows, rebuilding>>

RemoveAllTables ==
    /\ Startup("remove", "createBase")
    /\ catalog' = {}
    /\ UNCHANGED <<cache, versionRow, rows, rebuilding>>

CreateBaseTable ==
    /\ Startup("createBase", "deleteVersion")
    /\ Create("VERSION")
    /\ UNCHANGED <<versionRow, rows, rebuilding>>

\* setDbVersion is a DELETE and an INSERT.
DeleteVersion ==
    /\ Startup("deleteVersion", "insertVersion")
    /\ versionRow' = FALSE
    /\ UNCHANGED <<catalog, cache, rows, rebuilding>>

InsertVersion ==
    /\ Startup("insertVersion", "createRegistry")
    /\ versionRow' = ("VERSION" \in cache)
    /\ UNCHANGED <<catalog, cache, rows, rebuilding>>

\* Faulty variant: validate asks for REGISTRY, create creates REGISTER.
CreateOtherTable ==
    /\ Startup("createRegistry", IF rebuilding THEN "up" ELSE "validate")
    /\ Create("REGISTER")
    /\ UNCHANGED <<versionRow, rows, rebuilding>>

CreateRegistry ==
    /\ Startup("createRegistry", IF rebuilding THEN "up" ELSE "validate")
    /\ Create("REGISTRY")
    /\ UNCHANGED <<versionRow, rows, rebuilding>>

\* Faulty variant: the outcome of validate is printed and not acted upon.
ValidateOnly ==
    /\ Startup("validate", "up")
    /\ UNCHANGED <<catalog, cache, versionRow, rows, rebuilding>>

\* validate looks for the table in sqlite_master.
Validate ==
    /\ Startup("validate", IF "REGISTRY" \in catalog THEN "up" ELSE "deleteVersion")
    /\ rebuilding' = TRUE
    /\ UNCHANGED <<catalog, cache, versionRow, rows>>

(***************************************************************************)
(* The process dies, in a start or out of one, or is stopped.              *)
(***************************************************************************)
Die ==
    /\ pc # "down"
    /\ pc' = "down"
    /\ cleanStarts' = IF pc \in {"up", "sick"} THEN cleanStarts ELSE 0
    /\ reading' = [r \in Readers |-> None]
    /\ UNCHANGED <<catalog, cache, versionRow, rows, rebuilding>>

(***************************************************************************)
(* The operations, each one critical section of dbLock.                    *)
(***************************************************************************)

\* Faulty variant: INSERT OR REPLACE.
StoreReplaces(n, e) ==
    /\ pc = "up"
    /\ rows' = IF "REGISTRY" \in cache THEN [rows EXCEPT ![n] = e] ELSE rows
    /\ UNCHANGED <<catalog, cache, versionRow, pc, rebuilding, reading, cleanStarts>>

\* storeShardEntry: shard_name is the primary key, so an INSERT under a name that
\* is taken fails.  handleClient drops the result and answers 200 OK.
StoreShardEntry(n, e) ==
    /\ pc = "up"
    /\ rows' = IF "REGISTRY" \in cache /\ rows[n] = None THEN [rows EXCEPT ![n] = e] ELSE rows
    /\ UNCHANGED <<catalog, cache, versionRow, pc, rebuilding, reading, cleanStarts>>

\* Faulty variant: the result of shardExists is tested for being true, and -1 is.
ShardExistsOrNot(r, n) ==
    /\ pc = "up"
    /\ reading[r] = None
    /\ reading' = [reading EXCEPT ![r] = n]
    /\ UNCHANGED <<catalog, cache, versionRow, rows, pc, rebuilding, cleanStarts>>

\* A name that does not exist is answered at once and changes nothing.
ShardExists(r, n) ==
    /\ pc = "up"
    /\ reading[r] = None
    /\ rows[n] # None
    /\ reading' = [reading EXCEPT ![r] = n]
    /\ UNCHANGED <<catalog, cache, versionRow, rows, pc, rebuilding, cleanStarts>>

\* The entry goes out to whoever asked for it.
GetShardData(r) ==
    /\ pc = "up"
    /\ reading[r] # None
    /\ reading' = [reading EXCEPT ![r] = None]
    /\ UNCHANGED <<catalog, cache, versionRow, rows, pc, rebuilding, cleanStarts>>

Start ==
    \/ Open
    \/ OpenFails
    \/ Check
    \/ RemoveAllTables
    \/ CreateBaseTable
    \/ DeleteVersion
    \/ InsertVersion
    \/ CreateRegistry
    \/ Validate

Operation ==
    \/ \E n \in Names, e \in Entries : StoreShardEntry(n, e)
    \/ \E r \in Readers, n \in Names : ShardExists(r, n)
    \/ \E r \in Readers : GetShardData(r)

Next == Start \/ Operation \/ Die

Spec == Init /\ [][Next]_vars

(***************************************************************************)
(* Properties.                                                             *)
(***************************************************************************)

\* What is in the file is known to the connection while one is open.
TypeOK ==
    /\ catalog \subseteq Tables
    /\ cache \subseteq Tables
    /\ pc \notin {"down", "sick"} => catalog \subseteq cache
    /\ versionRow \in BOOLEAN
    /\ rows \in [Names -> Entries \cup {None}]
    /\ pc \in {"down", "check", "remove", "createBase", "deleteVersion",
               "insertVersion", "createRegistry", "validate", "up", "sick"}
    /\ rebuilding \in BOOLEAN
    /\ reading \in [Readers -> Names \cup {None}]
    /\ cleanStarts \in 0 .. 3

\* The schema is complete on disk.
Settled == catalog = Tables /\ versionRow

\* Every row of one database state is a row of the other.
RowsKept(old, new) == \A n \in Names : old[n] # None => new[n] = old[n]

\* dbLock is released between shardExists and getShardData; the row that the one
\* has found is still there for the other, which throws if it is not.
FoundIsThere == \A r \in Readers : reading[r] # None => rows[reading[r]] # None

\* While the registry is up an entry is neither lost nor replaced, whoever stores
\* under the same name later: everyone who asks gets the same locations.
EntriesStandWhileUp == [][pc = "up" /\ pc' = "up" => RowsKept(rows, rows')]_vars

\* A complete schema survives everything, and so does every entry in it, however
\* often and wherever later starts are cut short.
SettledStands == [][Settled => Settled' /\ RowsKept(rows, rows')]_vars

\* Whatever state earlier starts left behind when they were cut short, three
\* starts that run through complete the schema.  Two do not.
ThirdStartSettles == cleanStarts = 3 => Settled
=============================================================================
