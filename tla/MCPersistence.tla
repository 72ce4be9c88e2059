--------------------------- MODULE MCPersistence ---------------------------
(***************************************************************************)
(* soul/cache, soul/storage and soul/orm, side by side: a behaviour is one *)
(* of a single part, its subject.  The parts share no state, and those     *)
(* that are not the subject stay in one initial state.                     *)
(***************************************************************************)
EXTENDS MemoryCache, LayeredCaches, Storages, Repositories, SqlText

VARIABLE subject

(* Two queries of a table and one that names none *)
SomeTables == [q \in Queries |-> IF q = 3 THEN NoTable ELSE "users"]

(* The second process runs an older release *)
SomeReleases == [p \in Deployments |-> IF p = "new" THEN Schemas ELSE {1}]

(* Orders of a sorted map and orders a program gives, with and without the *)
(* fields every entity has; a column with a name of its own                *)
SomeLists == {<<"age", "name">>, <<"age", "createTime", "deleted", "id", "name">>,
              <<"id", "name">>, <<"name", "id", "age">>}
SomeColumns == [f \in AllFields |-> CASE f = "createTime" -> "create_time"
                                      [] f = "updateTime" -> "update_time"
                                      [] f = "age" -> "years"
                                      [] OTHER -> f]

cacheVars == <<memVars, tieredVars, repoVars, queryVars>>
storageVars == <<fileCacheVars, lruMemoryVars, storagesVars>>
tableVars == <<migrationVars, rowVars, wrappers, page, entityVars>>
partVars == <<cacheVars, storageVars, tableVars>>

CacheStep ==
    \/ subject = "memory" /\ MemNext /\ UNCHANGED <<tieredVars, repoVars, queryVars>>
    \/ subject = "tiered" /\ TieredNext /\ UNCHANGED <<memVars, repoVars, queryVars>>
    \/ subject = "repository" /\ RepoNext /\ UNCHANGED <<memVars, tieredVars, queryVars>>
    \/ subject = "queries" /\ QueryNext /\ UNCHANGED <<memVars, tieredVars, repoVars>>

StorageStep ==
    \/ subject = "files" /\ FileCacheNext /\ UNCHANGED <<lruMemoryVars, storagesVars>>
    \/ subject = "lru" /\ LruMemoryNext /\ UNCHANGED <<fileCacheVars, storagesVars>>
    \/ subject = "storages" /\ StoragesNext /\ UNCHANGED <<fileCacheVars, lruMemoryVars>>

TableStep ==
    \/ subject = "migration" /\ MigrationNext /\ UNCHANGED <<rowVars, wrappers, page, entityVars>>
    \/ subject = "rows" /\ RowNext /\ UNCHANGED <<migrationVars, wrappers, page, entityVars>>
    \/ subject = "conditions" /\ WrapperNext /\ UNCHANGED <<migrationVars, rowVars, entityVars>>
    \/ subject = "page" /\ PageNext /\ UNCHANGED <<migrationVars, rowVars, entityVars>>
    \/ subject = "entities" /\ EntityNext /\ UNCHANGED <<migrationVars, rowVars, wrappers, page>>

Subjects == {"memory", "tiered", "repository", "queries", "files", "lru", "storages",
             "migration", "rows", "conditions", "page", "entities"}

Init ==
    /\ subject \in Subjects
    /\ MemInit /\ TieredInit /\ RepoInit /\ QueryInit
    /\ FileCacheInit /\ LruMemoryInit /\ StoragesInit
    /\ MigrationInit /\ RowInit /\ WrapperInit /\ EntityInit
    /\ subject # "repository" => extractor
    /\ subject # "rows" => flavour = "sql"
    /\ subject # "entities" => /\ manner = "mapped" /\ dialect = "sqlite"
                               /\ fields = <<"age", "name">>

Next ==
    /\ UNCHANGED subject
    /\ \/ CacheStep /\ UNCHANGED <<storageVars, tableVars>>
       \/ StorageStep /\ UNCHANGED <<cacheVars, tableVars>>
       \/ TableStep /\ UNCHANGED <<cacheVars, storageVars>>

Spec == Init /\ [][Next]_<<subject, partVars>> /\ RepoFairness

-----------------------------------------------------------------------------
(* Whatever is evicted, expires or disappears, the bookkeeping of a cache  *)
(* fits: in soul/cache the order of use, the map and the byte count agree; *)
(* in the DiskCache of soul/storage the sum covers the recorded sizes and  *)
(* every recorded key can be evicted, until a put() fails to open its      *)
(* file.  It says nothing of files that are not recorded: clear()          *)
(* (cache.cpp:137-151) forgets the values and leaves their files, and so   *)
(* does a restart, and get() goes on serving them.                         *)
CachesSound == LruAgrees /\ StoreCounted

(* What is read back is what was saved, and a built statement has the      *)
(* placeholders, parentheses and page its calls asked for, in every        *)
(* dialect.                                                                *)
RowsSound == EntitiesReadBack /\ StatementIsSound /\ PageIsWindow

=============================================================================
