---------------------------- MODULE Repositories ----------------------------
(***************************************************************************)
(* What changes the database: migrations of its schema, and the rows that  *)
(* repositories write.                                                     *)
(***************************************************************************)
EXTENDS Integers, Sequences, FiniteSets, SequencesExt

(***************************************************************************)
(* sc::orm::migration::MigrationManager (migration.cpp): processes bring   *)
(* one SQLite database up or down, each migration in a transaction.        *)
(*                                                                         *)
(* The database is external: one connection writes at a time and the       *)
(* others are BUSY, a connection reads what it wrote, a transaction begun  *)
(* twice is refused, and what is not committed is lost in a crash.         *)
(***************************************************************************)
CONSTANTS
    Deployments,   \* processes, one connection each
    Schemas,       \* versions, as numbers
    Registered,    \* m_migrations of each process
    MaxRedone      \* bound on the times down() is run for one version too many

ASSUME MigrationAssumption ==
    Schemas \subseteq Nat /\ MaxRedone \in Nat /\ Registered \in [Deployments -> SUBSET Schemas]

VARIABLES
    db,        \* what is committed: the rows of schema_migrations, per version
               \* how often up() was run more often than down(), and as history
               \* how often down() was run while the version was not recorded
    work,      \* what a connection in a transaction sees
    writer,    \* the connection that holds the write lock
    run        \* the call a process is in and the versions it still has to do

migrationVars == <<db, work, writer, run>>

Free == "free"
NoWork == [rows |-> {}, effect |-> <<>>, undone |-> <<>>]
AtRest == [at |-> "rest", up |-> TRUE, plan |-> <<>>]

MigrationInit ==
    /\ db = [rows |-> {}, effect |-> [v \in Schemas |-> 0], undone |-> [v \in Schemas |-> 0]]
    /\ work = [p \in Deployments |-> NoWork]
    /\ writer = Free /\ run = [p \in Deployments |-> AtRest]

InTransaction(p) == work[p] # NoWork
(* appliedVersions(): in an open transaction its own rows *)
AppliedVersions(p) == IF InTransaction(p) THEN work[p].rows ELSE db.rows

(* pendingMigrations(): what is registered and not applied, sorted *)
PendingMigrations(p) == SetToSortSeq(Registered[p] \ AppliedVersions(p), <)

Plan(p, up, plan) == run' = [run EXCEPT ![p] = [at |-> "begin", up |-> up, plan |-> plan]]
Fail(p) == run' = [run EXCEPT ![p] = AtRest]

-----------------------------------------------------------------------------
(* migrate(): the lowest version first *)
Migrate(p) ==
    /\ run[p] = AtRest
    /\ Plan(p, TRUE, PendingMigrations(p))
    /\ UNCHANGED <<db, work, writer>>

(* rollback(steps): what is applied, highest version first *)
RollbackSteps(p, steps) ==
    LET applied == SetToSortSeq(AppliedVersions(p), >)
    IN  /\ run[p] = AtRest
        /\ Plan(p, FALSE, SubSeq(applied, 1, IF steps < Len(applied) THEN steps ELSE Len(applied)))
        /\ UNCHANGED <<db, work, writer>>

RollbackTo(p, target) ==
    /\ run[p] = AtRest
    /\ Plan(p, FALSE, SetToSortSeq({v \in AppliedVersions(p) : v > target}, >))
    /\ UNCHANGED <<db, work, writer>>

(* The plan is done, or its next version is not registered here *)
Finish(p) ==
    /\ run[p].at = "begin"
    /\ run[p].plan # <<>> => Head(run[p].plan) \notin Registered[p]
    /\ Fail(p) /\ UNCHANGED <<db, work, writer>>

(* beginTransaction() is refused within a transaction *)
BeginMigration(p) ==
    /\ run[p].at = "begin" /\ run[p].plan # <<>> /\ Head(run[p].plan) \in Registered[p]
    /\ IF InTransaction(p)
       THEN Fail(p) /\ UNCHANGED work
       ELSE /\ work' = [work EXCEPT ![p] = db]
            /\ run' = [run EXCEPT ![p].at = "exec"]
    /\ UNCHANGED <<db, writer>>

RolledBackMigration(p) ==
    /\ work' = [work EXCEPT ![p] = NoWork]
    /\ writer' = IF writer = p THEN Free ELSE writer
    /\ Fail(p)

(* What a connection that saw w sees after up() or down() of v *)
Ran(w, v, up) ==
    [rows   |-> w.rows,
     effect |-> [w.effect EXCEPT ![v] = @ + IF up THEN 1 ELSE -1],
     undone |-> [w.undone EXCEPT ![v] = @ + IF up \/ v \in w.rows THEN 0 ELSE 1]]

(* up() or down() writes: it needs the write lock and a snapshot that is   *)
(* still what is committed, and may fail for its own reasons               *)
ExecMigration(p) ==
    LET v == Head(run[p].plan)
    IN  /\ run[p].at = "exec"
        /\ \/ /\ writer = Free /\ work[p] = db /\ writer' = p
              /\ run[p].up \/ work[p].effect[v] > -MaxRedone
              /\ work' = [work EXCEPT ![p] = Ran(@, v, run[p].up)]
              /\ run' = [run EXCEPT ![p].at = "record"]
           \/ RolledBackMigration(p)
        /\ UNCHANGED db

(* A mistaken RecordMigration: INSERT OR REPLACE *)
RecordReplaces(p) ==
    LET v == Head(run[p].plan)
    IN  /\ run[p].at = "record" /\ run[p].up
        /\ work' = [work EXCEPT ![p].rows = @ \union {v}]
        /\ run' = [run EXCEPT ![p].at = "commit"] /\ UNCHANGED writer
        /\ UNCHANGED db

(* recordMigration(): version is the primary key *)
RecordMigration(p) ==
    LET v == Head(run[p].plan)
    IN  /\ run[p].at = "record" /\ run[p].up
        /\ IF v \in work[p].rows THEN RolledBackMigration(p)
           ELSE /\ work' = [work EXCEPT ![p].rows = @ \union {v}]
                /\ run' = [run EXCEPT ![p].at = "commit"] /\ UNCHANGED writer
        /\ UNCHANGED db

(* removeMigrationRecord(): a DELETE of no row is no error *)
RemoveMigrationRecord(p) ==
    /\ run[p].at = "record" /\ ~run[p].up
    /\ work' = [work EXCEPT ![p].rows = @ \ {Head(run[p].plan)}]
    /\ run' = [run EXCEPT ![p].at = "commit"]
    /\ UNCHANGED <<db, writer>>

(* commit(); when it fails the transaction stays open *)
CommitMigration(p) ==
    /\ run[p].at = "commit"
    /\ \/ /\ db' = work[p] /\ work' = [work EXCEPT ![p] = NoWork] /\ writer' = Free
          /\ Plan(p, run[p].up, Tail(run[p].plan))
       \/ Fail(p) /\ UNCHANGED <<db, work, writer>>

(* The process dies and comes back *)
CrashMigration(p) ==
    /\ run[p] # AtRest \/ InTransaction(p)
    /\ RolledBackMigration(p) /\ UNCHANGED db

MigrationNext ==
    \E p \in Deployments :
      \/ Migrate(p) \/ Finish(p) \/ BeginMigration(p) \/ ExecMigration(p)
      \/ RecordMigration(p) \/ RemoveMigrationRecord(p) \/ CommitMigration(p) \/ CrashMigration(p)
      \/ \E v \in Schemas : RollbackSteps(p, v) \/ RollbackTo(p, v)

MigrationSpec == MigrationInit /\ [][MigrationNext]_migrationVars

-----------------------------------------------------------------------------
(* Whatever crashes, failed commits and processes that planned from the    *)
(* same old list do, no migration is applied on top of itself, and the     *)
(* schema is what the rows of schema_migrations say, short of the down()s  *)
(* that ran while their version was no longer recorded: two processes that *)
(* planned the same rollback both run down(), because the DELETE of a      *)
(* missing row is no error (migration.cpp:54, 103, 354-380).  A version    *)
(* undone twice and migrated again is recorded with an effect below 1.     *)
RecordedIsApplied ==
    \A v \in Schemas :
      /\ db.effect[v] <= 1
      /\ db.effect[v] = (IF v \in db.rows THEN 1 ELSE 0) - db.undone[v]

-----------------------------------------------------------------------------
(***************************************************************************)
(* The repositories of soul/orm and soul/data over one table:              *)
(* SqlRepository ("sql") and ReadWriteRepository ("rw") mark rows deleted, *)
(* AutoRepository ("auto") and MemoryRepository ("memory") delete them.    *)
(*                                                                         *)
(* A statement is atomic, a call of several statements is not.  The table  *)
(* is external; its primary key is id.                                     *)
(***************************************************************************)
CONSTANTS
    Sessions,       \* threads
    RowIds,         \* ids, given by the caller or generated
    NoRow

ASSUME RowAssumption == NoRow \notin {"live", "deleted"}

VARIABLES
    flavour,    \* the repository
    table,      \* per id NoRow or whether the row is live or deleted
    session,    \* the call of a thread: the statement it has to run next and
                \* the entities of the batch it has to save after it
    acked,      \* history: ids whose save() returned a value
    unwritten   \* history: those whose last such save() left no row

rowVars == <<flavour, table, session, acked, unwritten>>

Quiet == [at |-> "quiet", id |-> NoRow, batch |-> <<>>]

RowInit ==
    /\ flavour \in {"sql", "rw", "auto", "memory"}
    /\ table = [i \in RowIds |-> NoRow]
    /\ session = [s \in Sessions |-> Quiet] /\ acked = {} /\ unwritten = {}

SoftDelete == flavour \in {"sql", "rw"}

(* executeUpdate() of an UPDATE ... WHERE id = ?: the rows it changes *)
UpdatedRows(i) == {j \in {i} : table[j] # NoRow}

(* save() returned the entity: the next one of the batch *)
Acknowledge(s, i) ==
    /\ acked' = acked \union {i}
    /\ unwritten' = IF table'[i] = NoRow THEN unwritten \union {i} ELSE unwritten \ {i}
    /\ session' = [session EXCEPT ![s] =
         IF @.batch = <<>> THEN Quiet
         ELSE [at |-> "save", id |-> Head(@.batch), batch |-> Tail(@.batch)]]

(* ... or an error, which ends saveBatch() with what was saved before *)
SaveFails(s) == session' = [session EXCEPT ![s] = Quiet] /\ UNCHANGED <<acked, unwritten>>

-----------------------------------------------------------------------------
(* saveBatch(); a batch of one is save() *)
SaveBatchOf(s, ids) ==
    /\ session[s] = Quiet
    /\ session' = [session EXCEPT ![s] = [at |-> "save", id |-> Head(ids), batch |-> Tail(ids)]]
    /\ UNCHANGED <<flavour, table, acked, unwritten>>

(* A mistaken InsertRow: INSERT OR REPLACE *)
InsertReplaces(s) ==
    LET i == session[s].id
    IN  /\ session[s].at = "insert"
        /\ table' = [table EXCEPT ![i] = "live"]
        /\ Acknowledge(s, i) /\ UNCHANGED flavour

(* insertInternal() and the second statement of                            *)
(* ReadWriteRepository::save(): an INSERT of an id that is there fails,    *)
(* marked as deleted or not                                                *)
InsertRow(s) ==
    LET i == session[s].id
    IN  /\ session[s].at = "insert"
        /\ \/ /\ table[i] = NoRow /\ table' = [table EXCEPT ![i] = "live"]
              /\ Acknowledge(s, i)
           \/ SaveFails(s) /\ UNCHANGED table
        /\ UNCHANGED flavour

(* SqlRepository::save(): a new id is inserted; a given one is updated,    *)
(* and the number of rows changed is not looked at: the caller of an       *)
(* UPDATE of no row is told of success as well.                            *)
SqlSave(s) ==
    LET i == session[s].id
    IN  /\ flavour = "sql" /\ session[s].at = "save"
        /\ UNCHANGED <<flavour, table>>
        /\ \/ /\ table[i] = NoRow /\ session' = [session EXCEPT ![s].at = "insert"]
              /\ UNCHANGED <<acked, unwritten>>
           \/ Acknowledge(s, i)
           \/ SaveFails(s)

(* A mistaken ReadWriteSave: an update of no row is taken for one *)
ReadWriteUpdateOnly(s) ==
    LET i == session[s].id
    IN  /\ flavour = "rw" /\ session[s].at = "save"
        /\ UNCHANGED <<flavour, table>>
        /\ Acknowledge(s, i)

(* ReadWriteRepository::save(): UPDATE, and INSERT when no row was changed *)
ReadWriteSave(s) ==
    LET i == session[s].id
    IN  /\ flavour = "rw" /\ session[s].at = "save"
        /\ UNCHANGED <<flavour, table>>
        /\ \/ UpdatedRows(i) # {} /\ Acknowledge(s, i)
           \/ /\ UpdatedRows(i) = {} /\ session' = [session EXCEPT ![s].at = "insert"]
              /\ UNCHANGED <<acked, unwritten>>
           \/ SaveFails(s)

(* AutoRepository::save(): INSERT OR REPLACE *)
AutoSave(s) ==
    /\ flavour = "auto" /\ session[s].at = "save"
    /\ \/ table' = [table EXCEPT ![session[s].id] = "live"] /\ Acknowledge(s, session[s].id)
       \/ SaveFails(s) /\ UNCHANGED table
    /\ UNCHANGED flavour

(* AutoRepository::update() changes no row when there is none, and says so *)
(* to nobody: nothing changes here.                                        *)
AutoUpdate(i) == flavour = "auto" /\ UpdatedRows(i) # {} /\ UNCHANGED rowVars

(* MemoryRepository::save(), under its mutex *)
MemorySave(s) ==
    /\ flavour = "memory" /\ session[s].at = "save"
    /\ table' = [table EXCEPT ![session[s].id] = "live"]
    /\ Acknowledge(s, session[s].id) /\ UNCHANGED flavour

(* remove() of a query, removeById() *)
RemoveRows(S) ==
    /\ table' = [i \in RowIds |->
         IF i \notin S \/ table[i] = NoRow THEN table[i]
         ELSE IF SoftDelete THEN "deleted" ELSE NoRow]
    /\ acked' = IF SoftDelete THEN acked ELSE acked \ S
    /\ unwritten' = unwritten \intersect acked'
    /\ UNCHANGED <<flavour, session>>

(* find(), findOne(), count() and findById() *)
Found(S) == {i \in S : table[i] = "live"}

RowNext ==
    \/ \E s \in Sessions :
         \/ InsertRow(s) \/ SqlSave(s) \/ ReadWriteSave(s) \/ AutoSave(s) \/ MemorySave(s)
         \/ \E i, j \in RowIds : SaveBatchOf(s, <<i>>) \/ SaveBatchOf(s, <<i, j>>)
    \/ \E i \in RowIds : AutoUpdate(i)
    \/ \E S \in SUBSET RowIds \ {{}} : RemoveRows(S)

RowSpec == RowInit /\ [][RowNext]_rowVars

-----------------------------------------------------------------------------
(* An entity whose save() succeeded has a row, whatever saves raced with   *)
(* it between their two statements (read_write_repository.h:153-174).      *)
(* There is one exception: SqlRepository::save() of an id without a row    *)
(* says it succeeded and leaves none (sqlite_repository.h:251-272), until  *)
(* a later save() writes the row.                                          *)
SavedHasRow ==
    /\ \A i \in acked \ unwritten : i \in Found(RowIds) \/ (SoftDelete /\ table[i] = "deleted")
    /\ unwritten # {} => flavour = "sql"

(* A row that was marked deleted stays so: saving the entity again does    *)
(* not bring it back, and no row is lost from a table whose deletions are  *)
(* marks (query_wrapper.cpp:217-225, sqlite_repository.h:307-329).         *)
MarkedStaysMarked ==
    [][SoftDelete => \A i \in RowIds : table[i] = "deleted" => table'[i] = "deleted"]_rowVars

(* What is recorded as migrated is in the schema, short of the down()s     *)
(* that ran twice, what is saved has a row, but for the UPDATE of no row   *)
(* that SqlRepository reports as saved, and what is marked deleted stays   *)
(* so, whoever else migrates, rolls back, saves or removes in between      *)
(* (migration.cpp, sqlite_repository.h, read_write_repository.h).          *)
TablesSound == [](RecordedIsApplied /\ SavedHasRow) /\ MarkedStaysMarked
=============================================================================
