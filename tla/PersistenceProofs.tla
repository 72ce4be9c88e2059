------------------------- MODULE PersistenceProofs -------------------------
(***************************************************************************)
(* Proofs about what is kept: the schema that processes migrate, the rows  *)
(* that repositories write, the levels of a cache, the cached results of   *)
(* queries, the caches in memory, the key-value storages, the text of      *)
(* statements and the way between an entity and its row.                   *)
(***************************************************************************)
EXTENDS MCPersistence, FiniteSetTheorems, TLAPS

(* What a connection may see.  In balance: a version that is recorded was  *)
(* applied once, one that is not was not, short of the down()s too many.   *)
Recorded == [rows : SUBSET Schemas, effect : [Schemas -> Int], undone : [Schemas -> Nat]]
Paired(w, v) == w.effect[v] + w.undone[v] = IF v \in w.rows THEN 1 ELSE 0
Squared(w) == w \in Recorded /\ \A v \in Schemas : Paired(w, v)

(* The same between the migration of v and its record. *)
Ahead(w, v, up) ==
    /\ w \in Recorded /\ v \in Schemas
    /\ \A u \in Schemas \ {v} : Paired(w, u)
    /\ up => w.effect[v] + w.undone[v] = IF v \in w.rows THEN 2 ELSE 1
    /\ ~up => w.effect[v] + w.undone[v] = 0

Places == {"rest", "begin", "exec", "record", "commit"}
Call(r) == \E at, up, plan : at \in Places /\ up \in BOOLEAN /\ r = [at |-> at, up |-> up, plan |-> plan]

(* What holds of a process in call r whose connection sees w *)
Sane(r, w) ==
    /\ Call(r)
    /\ r.at \in {"exec", "record", "commit"} => Head(r.plan) \in Schemas
    /\ r.at \in {"exec", "commit"} => Squared(w)
    /\ r.at = "record" => Ahead(w, Head(r.plan), r.up)

MigrationInv ==
    /\ Squared(db)
    /\ work = [p \in Deployments |-> work[p]] /\ run = [p \in Deployments |-> run[p]]
    /\ \A p \in Deployments : Sane(run[p], work[p])

LEMMA CallMoves ==
    ASSUME NEW r, Call(r), NEW x \in Places
    PROVE  LET m == [r EXCEPT !.at = x]
           IN  m.at = x /\ m.up = r.up /\ m.plan = r.plan /\ Call(m) /\ r.up \in BOOLEAN
  <1>1. PICK at, up, plan : at \in Places /\ up \in BOOLEAN /\ r = [at |-> at, up |-> up, plan |-> plan]
    BY DEF Call
  <1>2. [r EXCEPT !.at = x] = [at |-> x, up |-> up, plan |-> plan]
    BY <1>1
  <1>3. Call([at |-> x, up |-> up, plan |-> plan])
    BY <1>1, Zenon DEF Call
  <1> QED BY <1>1, <1>2, <1>3

(* A migration puts the effect ahead of the rows, its record closes up. *)
LEMMA RunsAhead ==
    ASSUME NEW w, Squared(w), NEW v \in Schemas, NEW up \in BOOLEAN
    PROVE  Ahead(Ran(w, v, up), v, up)
  <1> DEFINE e == [w.effect EXCEPT ![v] = @ + IF up THEN 1 ELSE -1]
             n == [w.undone EXCEPT ![v] = @ + IF up \/ v \in w.rows THEN 0 ELSE 1]
             x == Ran(w, v, up)
  <1>1. w.rows \in SUBSET Schemas /\ w.effect \in [Schemas -> Int] /\ w.undone \in [Schemas -> Nat]
    BY DEF Squared, Recorded
  <1>2. e \in [Schemas -> Int] /\ n \in [Schemas -> Nat]
    BY <1>1
  <1>3. \A u \in Schemas \ {v} : e[u] = w.effect[u] /\ n[u] = w.undone[u]
    BY <1>1
  <1>4. e[v] = w.effect[v] + (IF up THEN 1 ELSE -1) /\ n[v] = w.undone[v] + IF up \/ v \in w.rows THEN 0 ELSE 1
    BY <1>1
  <1>5. w.effect[v] \in Int /\ w.undone[v] \in Int /\ w.effect[v] + w.undone[v] = IF v \in w.rows THEN 1 ELSE 0
    BY <1>1 DEF Squared, Paired
  <1>6. x = [rows |-> w.rows, effect |-> e, undone |-> n]
    BY Zenon DEF Ran
  <1> HIDE DEF e, n, x
  <1>7. x.rows = w.rows /\ x.effect = e /\ x.undone = n /\ x \in Recorded
    BY <1>1, <1>2, <1>6 DEF Recorded
  <1>8. \A u \in Schemas \ {v} : Paired(x, u)
    BY <1>3, <1>7 DEF Squared, Paired
  <1>9. /\ up => x.effect[v] + x.undone[v] = IF v \in x.rows THEN 2 ELSE 1
        /\ ~up => x.effect[v] + x.undone[v] = 0
    BY <1>4, <1>5, <1>7
  <1> QED BY <1>7, <1>8, <1>9 DEF Ahead, x

LEMMA RecordCatchesUp ==
    ASSUME NEW w, NEW v \in Schemas, NEW S \in SUBSET Schemas,
           \/ Ahead(w, v, TRUE) /\ v \notin w.rows /\ S = w.rows \union {v}
           \/ Ahead(w, v, FALSE) /\ S = w.rows \ {v}
    PROVE  Squared([w EXCEPT !.rows = S])
  <1>1. w \in Recorded /\ \A u \in Schemas \ {v} : Paired(w, u)
    BY DEF Ahead
  <1>2. /\ [w EXCEPT !.rows = S] \in Recorded
        /\ [w EXCEPT !.rows = S].rows = S /\ [w EXCEPT !.rows = S].effect = w.effect
        /\ [w EXCEPT !.rows = S].undone = w.undone
    BY <1>1 DEF Recorded
  <1>3. w.effect[v] + w.undone[v] = IF v \in S THEN 1 ELSE 0
    BY DEF Ahead
  <1>4. \A u \in Schemas \ {v} : u \in S <=> u \in w.rows
    OBVIOUS
  <1> QED BY <1>1, <1>2, <1>3, <1>4 DEF Squared, Paired

LEMMA MigrationInvInit == MigrationInit => MigrationInv
  <1> SUFFICES ASSUME MigrationInit PROVE MigrationInv
    OBVIOUS
  <1>1. db = [rows |-> {}, effect |-> [v \in Schemas |-> 0], undone |-> [v \in Schemas |-> 0]]
    BY DEF MigrationInit
  <1>2. Squared(db)
    BY <1>1 DEF Squared, Paired, Recorded
  <1>3. Sane(AtRest, NoWork)
    BY DEF Sane, AtRest, NoWork, Call, Places
  <1> QED BY <1>2, <1>3 DEF MigrationInit, MigrationInv

(* One process goes on. *)
LEMMA OneGoesOn ==
    ASSUME MigrationInv, NEW p \in Deployments, NEW r, NEW w,
           run' = [run EXCEPT ![p] = r], work' = [work EXCEPT ![p] = w],
           Sane(r, w), Squared(db')
    PROVE  MigrationInv'
  <1>1. \A q \in Deployments : run'[q] = (IF q = p THEN r ELSE run[q]) /\ work'[q] = (IF q = p THEN w ELSE work[q])
    BY DEF MigrationInv
  <1>3. work' = [q \in Deployments |-> work'[q]] /\ run' = [q \in Deployments |-> run'[q]]
    BY DEF MigrationInv
  <1> QED BY <1>1, <1>3 DEF MigrationInv

LEMMA AtRestIsSane == ASSUME NEW w PROVE Sane(AtRest, w)
  BY DEF Sane, AtRest, Call, Places

LEMMA MigrationInvStep == MigrationInv /\ [MigrationNext]_migrationVars => MigrationInv'
  <1> SUFFICES ASSUME MigrationInv, [MigrationNext]_migrationVars PROVE MigrationInv'
    OBVIOUS
  <1>0. /\ Squared(db)
        /\ \A p \in Deployments : Sane(run[p], work[p]) /\ Call(run[p])
        /\ \A p \in Deployments : work = [work EXCEPT ![p] = work[p]]
    BY DEF MigrationInv, Sane
  <1>1. CASE UNCHANGED migrationVars
    BY <1>1 DEF migrationVars, MigrationInv
  <1> SUFFICES ASSUME NEW p \in Deployments,
                      \/ Migrate(p) \/ Finish(p) \/ BeginMigration(p) \/ ExecMigration(p)
                      \/ RecordMigration(p) \/ RemoveMigrationRecord(p) \/ CommitMigration(p) \/ CrashMigration(p)
                      \/ \E v \in Schemas : RollbackSteps(p, v) \/ RollbackTo(p, v)
               PROVE  MigrationInv'
    BY <1>1 DEF MigrationNext
  <1>3. ASSUME Fail(p), UNCHANGED db, work' = work \/ work' = [work EXCEPT ![p] = NoWork]
        PROVE  MigrationInv'
    <2>1. run' = [run EXCEPT ![p] = AtRest] /\ db' = db
      BY <1>3 DEF Fail
    <2>2. work' = [work EXCEPT ![p] = work[p]] \/ work' = [work EXCEPT ![p] = NoWork]
      BY <1>0, <1>3
    <2> QED BY <1>0, <2>1, <2>2, OneGoesOn, AtRestIsSane
  <1>4. ASSUME NEW up \in BOOLEAN, NEW plan, Plan(p, up, plan), UNCHANGED <<db, work>>
        PROVE  MigrationInv'
    <2> DEFINE r == [at |-> "begin", up |-> up, plan |-> plan]
    <2>1. Sane(r, work[p])
      BY <1>0 DEF Sane, Call, Places
    <2>2. run' = [run EXCEPT ![p] = r]
      BY <1>4 DEF Plan
    <2>3. work' = [work EXCEPT ![p] = work[p]] /\ db' = db
      BY <1>0, <1>4
    <2> QED BY <1>0, <2>1, <2>2, <2>3, OneGoesOn
  <1>5. CASE Migrate(p) \/ \E v \in Schemas : RollbackSteps(p, v) \/ RollbackTo(p, v)
    BY <1>4, <1>5 DEF Migrate, RollbackSteps, RollbackTo
  <1>6. CASE Finish(p)
    BY <1>3, <1>6 DEF Finish
  <1>7. CASE BeginMigration(p)
    <2>1. CASE InTransaction(p)
      BY <1>3, <1>7, <2>1 DEF BeginMigration
    <2>2. CASE ~InTransaction(p)
      <3> DEFINE r == [run[p] EXCEPT !.at = "exec"]
      <3>1. run' = [run EXCEPT ![p] = r] /\ work' = [work EXCEPT ![p] = db] /\ db' = db
        BY <1>7, <2>2 DEF BeginMigration
      <3>2. Head(run[p].plan) \in Schemas
        BY <1>7, MigrationAssumption DEF BeginMigration
      <3>3. r.at = "exec" /\ r.plan = run[p].plan /\ Call(r)
        BY <1>0, CallMoves DEF Places
      <3> HIDE DEF r
      <3>4. Sane(r, db)
        BY <1>0, <3>2, <3>3 DEF Sane
      <3> QED BY <1>0, <3>1, <3>4, OneGoesOn
    <2> QED BY <2>1, <2>2
  <1>8. CASE ExecMigration(p)
    <2> DEFINE v == Head(run[p].plan)
               r == [run[p] EXCEPT !.at = "record"]
               w == Ran(work[p], v, run[p].up)
    <2>1. CASE RolledBackMigration(p)
      BY <1>3, <1>8, <2>1 DEF ExecMigration, RolledBackMigration
    <2>2. CASE ~RolledBackMigration(p)
      <3>1. /\ run' = [run EXCEPT ![p] = r] /\ work' = [work EXCEPT ![p] = w] /\ db' = db
            /\ run[p].at = "exec"
        BY <1>8, <2>2 DEF ExecMigration
      <3>3. v \in Schemas /\ Squared(work[p])
        BY <1>0, <3>1 DEF Sane
      <3>4. r.at = "record" /\ r.up = run[p].up /\ r.plan = run[p].plan /\ Call(r) /\ run[p].up \in BOOLEAN
        BY <1>0, CallMoves DEF Places
      <3>7. Ahead(w, v, run[p].up)
        BY <3>3, <3>4, RunsAhead
      <3> HIDE DEF r, w
      <3>8. Sane(r, w)
        BY <3>3, <3>4, <3>7 DEF Sane
      <3> QED BY <1>0, <3>1, <3>8, OneGoesOn
    <2> QED BY <2>1, <2>2
  <1>9. ASSUME NEW S, run[p].at = "record", db' = db,
               run' = [run EXCEPT ![p].at = "commit"], work' = [work EXCEPT ![p].rows = S],
               \/ run[p].up /\ Head(run[p].plan) \notin work[p].rows /\ S = work[p].rows \union {Head(run[p].plan)}
               \/ ~run[p].up /\ S = work[p].rows \ {Head(run[p].plan)}
        PROVE  MigrationInv'
    <2> DEFINE v == Head(run[p].plan)
               r == [run[p] EXCEPT !.at = "commit"]
               w == [work[p] EXCEPT !.rows = S]
    <2>1. run' = [run EXCEPT ![p] = r] /\ work' = [work EXCEPT ![p] = w]
      BY <1>9
    <2>2. v \in Schemas /\ Ahead(work[p], v, run[p].up) /\ run[p].up \in BOOLEAN
      BY <1>0, <1>9, CallMoves DEF Sane, Places
    <2>3. r.at = "commit" /\ r.plan = run[p].plan /\ Call(r)
      BY <1>0, CallMoves DEF Places
    <2>4. S \in SUBSET Schemas
      BY <1>9, <2>2 DEF Ahead, Recorded
    <2>5. \/ Ahead(work[p], v, TRUE) /\ v \notin work[p].rows /\ S = work[p].rows \union {v}
          \/ Ahead(work[p], v, FALSE) /\ S = work[p].rows \ {v}
      BY <1>9, <2>2 DEF Ahead
    <2>6. Squared(w)
      BY <2>2, <2>4, <2>5, RecordCatchesUp
    <2> HIDE DEF r, w
    <2>7. Sane(r, w)
      BY <2>2, <2>3, <2>6 DEF Sane
    <2> QED BY <1>0, <1>9, <2>1, <2>7, OneGoesOn
  <1>10. CASE RecordMigration(p)
    <2>1. CASE Head(run[p].plan) \in work[p].rows
      BY <1>3, <1>10, <2>1 DEF RecordMigration, RolledBackMigration
    <2>2. CASE Head(run[p].plan) \notin work[p].rows
      <3>1. work' = [work EXCEPT ![p].rows = work[p].rows \union {Head(run[p].plan)}]
        BY <1>10, <2>2 DEF RecordMigration
      <3> QED BY <1>9, <1>10, <2>2, <3>1 DEF RecordMigration
    <2> QED BY <2>1, <2>2
  <1>11. CASE RemoveMigrationRecord(p)
    <2>1. work' = [work EXCEPT ![p].rows = work[p].rows \ {Head(run[p].plan)}]
      BY <1>11 DEF RemoveMigrationRecord
    <2> QED BY <1>9, <1>11, <2>1 DEF RemoveMigrationRecord
  <1>12. CASE CommitMigration(p)
    <2>1. CASE Fail(p) /\ UNCHANGED <<db, work, writer>>
      BY <1>3, <1>12, <2>1 DEF CommitMigration
    <2>2. CASE ~ (Fail(p) /\ UNCHANGED <<db, work, writer>>)
      <3> DEFINE r == [at |-> "begin", up |-> run[p].up, plan |-> Tail(run[p].plan)]
      <3>1. /\ run' = [run EXCEPT ![p] = r]
            /\ work' = [work EXCEPT ![p] = NoWork] /\ db' = work[p]
            /\ run[p].at = "commit"
        BY <1>12, <2>2 DEF CommitMigration, Plan
      <3>2. PICK at, up, plan : at \in Places /\ up \in BOOLEAN /\ run[p] = [at |-> at, up |-> up, plan |-> plan]
        BY <1>0 DEF Call
      <3>6. "begin" \in Places /\ run[p].up = up
        BY <3>2 DEF Places
      <3>7. Call(r)
        BY <3>2, <3>6, Zenon DEF Call
      <3>4. Sane(r, NoWork)
        BY <3>7 DEF Sane
      <3>5. Squared(work[p])
        BY <1>0, <3>1 DEF Sane
      <3> HIDE DEF r
      <3> QED BY <3>1, <3>4, <3>5, OneGoesOn
    <2> QED BY <2>1, <2>2
  <1>13. CASE CrashMigration(p)
    BY <1>3, <1>13 DEF CrashMigration, RolledBackMigration
  <1> QED BY <1>5, <1>6, <1>7, <1>8, <1>10, <1>11, <1>12, <1>13

LEMMA MigrationIsSound == MigrationInv => RecordedIsApplied
  <1> SUFFICES ASSUME MigrationInv, NEW v \in Schemas
               PROVE  /\ db.effect[v] <= 1
                      /\ db.effect[v] = (IF v \in db.rows THEN 1 ELSE 0) - db.undone[v]
    BY DEF RecordedIsApplied
  <1>1. db.effect[v] \in Int /\ db.undone[v] \in Nat
    BY DEF MigrationInv, Squared, Recorded
  <1>2. db.effect[v] + db.undone[v] = IF v \in db.rows THEN 1 ELSE 0
    BY DEF MigrationInv, Squared, Paired
  <1> QED BY <1>1, <1>2

-----------------------------------------------------------------------------
(* Rows.  A row is marked only where deletions are marks, and a call saves *)
(* ids.                                                                    *)
RowStates == {NoRow, "live", "deleted"}
Saves == [at : {"quiet", "save", "insert"}, id : RowIds \union {NoRow}, batch : Seq(RowIds)]

RowInv ==
    /\ flavour \in {"sql", "rw", "auto", "memory"}
    /\ table \in [RowIds -> RowStates] /\ session \in [Sessions -> Saves]
    /\ \A s \in Sessions : session[s].at # "quiet" => session[s].id \in RowIds
    /\ acked \subseteq RowIds
    /\ \A i \in RowIds : table[i] = "deleted" => SoftDelete
    /\ \A i \in acked \ unwritten : table[i] # NoRow
    /\ unwritten # {} => flavour = "sql"

LEMMA RowInvInit == RowInit => RowInv
  <1> SUFFICES ASSUME RowInit PROVE RowInv
    OBVIOUS
  <1>1. Quiet \in Saves /\ Quiet.at = "quiet"
    BY DEF Quiet, Saves
  <1>2. session = [s \in Sessions |-> Quiet] /\ table = [i \in RowIds |-> NoRow] /\ acked = {} /\ unwritten = {}
    BY DEF RowInit
  <1>3. flavour \in {"sql", "rw", "auto", "memory"}
    BY DEF RowInit
  <1>4. session \in [Sessions -> Saves] /\ \A s \in Sessions : session[s].at = "quiet"
    BY <1>1, <1>2
  <1>5. table \in [RowIds -> RowStates] /\ \A i \in RowIds : table[i] # "deleted"
    BY <1>2, RowAssumption DEF RowStates
  <1> QED BY <1>2, <1>3, <1>4, <1>5 DEF RowInv

(* A row may become live, and a call may be told so. *)
LEMMA RowKeeps ==
    ASSUME RowInv, NEW s \in Sessions, NEW i \in RowIds, NEW k \in Saves,
           session' = [session EXCEPT ![s] = k], k.at # "quiet" => k.id \in RowIds,
           flavour' = flavour, table' = table \/ table' = [table EXCEPT ![i] = "live"],
           \/ acked' = acked /\ unwritten' = unwritten
           \/ /\ acked' = acked \union {i}
              /\ unwritten' = IF table'[i] = NoRow THEN unwritten \union {i} ELSE unwritten \ {i}
              /\ table'[i] = NoRow => flavour = "sql"
    PROVE  RowInv'
  <1>1. /\ session' \in [Sessions -> Saves] /\ acked' \subseteq RowIds
        /\ \A q \in Sessions : session'[q].at # "quiet" => session'[q].id \in RowIds
    BY DEF RowInv
  <1>2. /\ table' \in [RowIds -> RowStates]
        /\ \A j \in RowIds : table'[j] # table[j] => table'[j] = "live"
    BY DEF RowInv, RowStates
  <1>3. \A j \in RowIds : table'[j] = "deleted" => SoftDelete'
    BY <1>2 DEF RowInv, SoftDelete
  <1>4. \A j \in acked' \ unwritten' : table'[j] # NoRow
    <2> SUFFICES ASSUME NEW j \in acked' \ unwritten' PROVE table'[j] # NoRow
      OBVIOUS
    <2>1. j \in RowIds
      BY <1>1
    <2>2. CASE j = i /\ acked' = acked \union {i} /\ unwritten' = IF table'[i] = NoRow THEN unwritten \union {i} ELSE unwritten \ {i}
      BY <2>2
    <2>3. CASE j \in acked \ unwritten
      BY <1>2, <2>1, <2>3, RowAssumption DEF RowInv
    <2> QED BY <2>2, <2>3
  <1>5. unwritten' # {} => flavour' = "sql"
    BY DEF RowInv
  <1> QED BY <1>1, <1>2, <1>3, <1>4, <1>5 DEF RowInv

LEMMA RowInvStep == RowInv /\ [RowNext]_rowVars => RowInv'
  <1> SUFFICES ASSUME RowInv, [RowNext]_rowVars PROVE RowInv'
    OBVIOUS
  <1>1. CASE UNCHANGED rowVars
    BY <1>1 DEF rowVars, RowInv, SoftDelete
  <1>2. CASE \E i \in RowIds : AutoUpdate(i)
    BY <1>1, <1>2 DEF AutoUpdate
  <1>3. ASSUME NEW S \in SUBSET RowIds, RemoveRows(S) PROVE RowInv'
    <2>1. /\ flavour' = flavour /\ session' = session
          /\ table' = [i \in RowIds |-> IF i \notin S \/ table[i] = NoRow THEN table[i]
                                        ELSE IF SoftDelete THEN "deleted" ELSE NoRow]
          /\ acked' = IF SoftDelete THEN acked ELSE acked \ S
          /\ unwritten' = unwritten \intersect acked'
      BY <1>3 DEF RemoveRows
    <2>2. /\ table' \in [RowIds -> RowStates]
          /\ \A i \in RowIds : table'[i] = table[i] \/ (table'[i] = "deleted" /\ SoftDelete) \/ (~SoftDelete /\ i \in S)
      BY <2>1 DEF RowInv, RowStates
    <2>3. \A i \in RowIds : table'[i] = "deleted" => SoftDelete
      BY <2>1, RowAssumption DEF RowInv
    <2>4. acked' \subseteq RowIds /\ \A i \in acked' \ unwritten' : table'[i] # NoRow
      BY <2>1, <2>2, RowAssumption DEF RowInv
    <2>5. unwritten' # {} => flavour = "sql"
      BY <2>1 DEF RowInv
    <2> QED BY <2>1, <2>2, <2>3, <2>4, <2>5 DEF RowInv, SoftDelete
  <1> SUFFICES ASSUME NEW s \in Sessions,
                      \/ InsertRow(s) \/ SqlSave(s) \/ ReadWriteSave(s) \/ AutoSave(s) \/ MemorySave(s)
                      \/ \E i, j \in RowIds : SaveBatchOf(s, <<i>>) \/ SaveBatchOf(s, <<i, j>>)
               PROVE  RowInv'
    BY <1>1, <1>2, <1>3 DEF RowNext
  <1> DEFINE i == session[s].id
             next == IF session[s].batch = <<>> THEN Quiet
                     ELSE [at |-> "save", id |-> Head(session[s].batch), batch |-> Tail(session[s].batch)]
  <1>4. session[s] \in Saves /\ (session[s].at # "quiet" => i \in RowIds)
    BY DEF RowInv
  <1>5. Quiet \in Saves /\ Quiet.at = "quiet" /\ next \in Saves /\ (next.at # "quiet" => next.id \in RowIds)
    <2>1. Quiet \in Saves /\ Quiet.at = "quiet"
      BY DEF Quiet, Saves
    <2>2. session[s].batch \in Seq(RowIds)
      BY <1>4 DEF Saves
    <2>3. session[s].batch # <<>> => Head(session[s].batch) \in RowIds /\ Tail(session[s].batch) \in Seq(RowIds)
      BY <2>2
    <2> QED BY <2>1, <2>3 DEF Saves
  <1>6. ASSUME \E j, l \in RowIds : SaveBatchOf(s, <<j>>) \/ SaveBatchOf(s, <<j, l>>) PROVE RowInv'
    <2>1. PICK j, l \in RowIds : SaveBatchOf(s, <<j>>) \/ SaveBatchOf(s, <<j, l>>)
      BY <1>6
    <2>2. /\ [at |-> "save", id |-> j, batch |-> <<>>] \in Saves
          /\ [at |-> "save", id |-> j, batch |-> <<l>>] \in Saves
      BY DEF Saves
    <2>3. \/ session' = [session EXCEPT ![s] = [at |-> "save", id |-> j, batch |-> <<>>]]
          \/ session' = [session EXCEPT ![s] = [at |-> "save", id |-> j, batch |-> <<l>>]]
      <3>1. Head(<<j>>) = j /\ Tail(<<j>>) = <<>> /\ Head(<<j, l>>) = j /\ Tail(<<j, l>>) = <<l>>
        OBVIOUS
      <3> QED BY <2>1, <3>1 DEF SaveBatchOf
    <2>4. flavour' = flavour /\ table' = table /\ acked' = acked /\ unwritten' = unwritten
      BY <2>1 DEF SaveBatchOf
    <2> QED BY <2>2, <2>3, <2>4, RowKeeps
  <1>7. ASSUME Acknowledge(s, i), i \in RowIds, flavour' = flavour, table' = table \/ table' = [table EXCEPT ![i] = "live"],
               table'[i] = NoRow => flavour = "sql"
        PROVE  RowInv'
    <2>1. /\ acked' = acked \union {i} /\ session' = [session EXCEPT ![s] = next]
          /\ unwritten' = IF table'[i] = NoRow THEN unwritten \union {i} ELSE unwritten \ {i}
      BY <1>7 DEF Acknowledge
    <2> HIDE DEF next, i
    <2> QED BY <1>5, <1>7, <2>1, RowKeeps
  <1>8. ASSUME SaveFails(s), i \in RowIds, flavour' = flavour, table' = table PROVE RowInv'
    BY <1>5, <1>8, RowKeeps DEF SaveFails
  <1>9. ASSUME i \in RowIds, session' = [session EXCEPT ![s].at = "insert"], flavour' = flavour, table' = table,
               acked' = acked, unwritten' = unwritten
        PROVE  RowInv'
    <2>1. [session[s] EXCEPT !.at = "insert"] \in Saves /\ [session[s] EXCEPT !.at = "insert"].id = i
      BY <1>4 DEF Saves
    <2>2. session' = [session EXCEPT ![s] = [session[s] EXCEPT !.at = "insert"]]
      BY <1>9
    <2> QED BY <1>9, <2>1, <2>2, RowKeeps
  <1>10. i \in RowIds /\ table \in [RowIds -> RowStates] => [table EXCEPT ![i] = "live"][i] # NoRow
    BY RowAssumption
  <1>11. table \in [RowIds -> RowStates]
    BY DEF RowInv
  <1>12. UpdatedRows(i) # {} => table[i] # NoRow
    BY DEF UpdatedRows
  <1>13. CASE InsertRow(s)
    BY <1>4, <1>7, <1>8, <1>10, <1>11, <1>13 DEF InsertRow
  <1>14. CASE SqlSave(s)
    BY <1>4, <1>7, <1>8, <1>9, <1>12, <1>14 DEF SqlSave
  <1>15. CASE ReadWriteSave(s)
    BY <1>4, <1>7, <1>8, <1>9, <1>12, <1>15 DEF ReadWriteSave
  <1>16. CASE AutoSave(s)
    BY <1>4, <1>7, <1>8, <1>10, <1>11, <1>16 DEF AutoSave
  <1>17. CASE MemorySave(s)
    BY <1>4, <1>7, <1>10, <1>11, <1>17 DEF MemorySave
  <1> QED BY <1>6, <1>13, <1>14, <1>15, <1>16, <1>17

LEMMA RowsAreSound == RowInv => SavedHasRow
  BY DEF RowInv, RowStates, SavedHasRow, Found

(* Where deletions are marks a mark stays: no save brings a deleted row    *)
(* back, whichever statements of other threads come between its own        *)
(* (sqlite_repository.h, read_write_repository.h).                         *)
THEOREM MarksStay == RowSpec => MarkedStaysMarked
  <1> DEFINE Kept == SoftDelete => \A i \in RowIds : table[i] = "deleted" => table'[i] = "deleted"
  <1>1. ASSUME RowInv, RowNext PROVE Kept
    <2> SUFFICES ASSUME SoftDelete, NEW i \in RowIds, table[i] = "deleted" PROVE table'[i] = "deleted"
      OBVIOUS
    <2>1. table \in [RowIds -> RowStates] /\ flavour \in {"sql", "rw"}
      BY <1>1 DEF RowInv, SoftDelete
    <2>2. CASE \E S \in SUBSET RowIds : RemoveRows(S)
      BY <2>2 DEF RemoveRows
    <2>3. CASE table' = table
      BY <2>3
    <2>4. CASE \E s \in Sessions : InsertRow(s)
      BY <2>1, <2>3, <2>4, RowAssumption DEF InsertRow
    <2>5. \A s \in Sessions : ~AutoSave(s) /\ ~MemorySave(s)
      BY <2>1 DEF AutoSave, MemorySave
    <2>6. \A s \in Sessions : SqlSave(s) \/ ReadWriteSave(s) => table' = table
      BY DEF SqlSave, ReadWriteSave
    <2>7. \A s, ids : SaveBatchOf(s, ids) => table' = table
      BY DEF SaveBatchOf
    <2>8. \A j \in RowIds : AutoUpdate(j) => table' = table
      BY DEF AutoUpdate, rowVars
    <2> QED BY <1>1, <2>2, <2>3, <2>4, <2>5, <2>6, <2>7, <2>8 DEF RowNext
  <1>2. RowInv /\ [RowNext]_rowVars => [Kept]_rowVars
    BY <1>1
  <1> QED BY <1>2, RowInvInit, RowInvStep, PTL DEF RowSpec, MarkedStaysMarked

(* Whatever crashes, fails and races, the schema is what the rows of       *)
(* schema_migrations say, each migration applied at most once, short of    *)
(* the down()s that ran for a version no longer recorded (migration.cpp);  *)
(* what a repository said it saved has a row, unless it was an UPDATE of   *)
(* no row by SqlRepository; and a mark stays (sqlite_repository.h,         *)
(* read_write_repository.h, auto_repository.h): for any processes,         *)
(* versions, threads and ids.                                              *)
THEOREM TablesCorrect == MigrationSpec /\ RowSpec => TablesSound
  <1>1. MigrationInv /\ RowInv => RecordedIsApplied /\ SavedHasRow
    BY MigrationIsSound, RowsAreSound
  <1> QED
    BY <1>1, MigrationInvInit, MigrationInvStep, RowInvInit, RowInvStep, MarksStay, PTL
       DEF MigrationSpec, RowSpec, TablesSound

-----------------------------------------------------------------------------
(* The levels of a cache.  While a call writes a key nobody else reads or  *)
(* writes it unless it is disturbed; the levels passed have what is        *)
(* written, and without a writer every level has the latest or nothing.    *)
Held == CacheValues \union {Absent}
Ops == {"idle", "get", "contains", "put", "remove", "clear"}
Jobs == [op : Ops, keys : SUBSET CacheKeys, rest : SUBSET CacheKeys, value : Held, at : Nat, fill : Nat,
         hits : UNION {[S -> Held] : S \in SUBSET CacheKeys}]

Shapes ==
    /\ level \in [1..Depth -> [CacheKeys -> Held]] /\ latest \in [CacheKeys -> Held]
    /\ job \in [Callers -> Jobs]
    /\ \A t \in Callers :
         /\ job[t].rest \subseteq job[t].keys /\ DOMAIN job[t].hits \subseteq job[t].keys
         /\ job[t].op = "idle" => job[t].keys = {}
         /\ job[t].op # "idle" => job[t].at >= 1
         /\ job[t].fill > 0 => job[t].op = "get"

Alone ==
    \A t, u \in Callers : t # u /\ IsWrite(job[t].op) =>
      \A k \in (job[t].keys \intersect job[u].keys) \ disturbed : job[u].op = "contains"

HitsFresh ==
    \A t \in Callers : job[t].op = "get" =>
      \A k \in DOMAIN job[t].hits \ disturbed : job[t].hits[k] \in {latest[k], Absent}

WrittenSoFar ==
    \A t \in Callers : IsWrite(job[t].op) =>
      \A k \in job[t].keys \ disturbed, i \in 1..Depth :
        i < job[t].at => level[i][k] \in {job[t].value, Absent}

Unwritten(k) == \A t \in Callers : k \in job[t].keys => ~IsWrite(job[t].op)
LevelsFresh ==
    \A k \in CacheKeys \ disturbed : Unwritten(k) =>
      \A i \in 1..Depth : level[i][k] \in {latest[k], Absent}

TieredInv == Shapes /\ Alone /\ HitsFresh /\ WrittenSoFar /\ LevelsFresh

LEMMA TieredInvInit == TieredInit => TieredInv
  <1> SUFFICES ASSUME TieredInit PROVE TieredInv
    OBVIOUS
  <1>1. NoHits \in [{} -> Held] /\ DOMAIN NoHits = {}
    BY DEF NoHits
  <1>2. NoHits \in UNION {[S -> Held] : S \in SUBSET CacheKeys}
    BY <1>1
  <1>3. Idle \in Jobs
    BY <1>2 DEF Idle, Jobs, Ops, Held
  <1>4. /\ job = [t \in Callers |-> Idle] /\ latest = [k \in CacheKeys |-> Absent]
        /\ level = [i \in 1..Depth |-> [k \in CacheKeys |-> Absent]]
    BY DEF TieredInit
  <1>5. /\ Idle.op = "idle" /\ Idle.keys = {} /\ Idle.rest = {} /\ Idle.fill = 0 /\ Idle.hits = NoHits
    BY DEF Idle
  <1>6. Shapes
    BY <1>1, <1>3, <1>4, <1>5 DEF Shapes, Held
  <1>7. \A t \in Callers : ~IsWrite(job[t].op) /\ job[t].op # "get"
    BY <1>4, <1>5 DEF IsWrite
  <1>8. LevelsFresh
    BY <1>4 DEF LevelsFresh
  <1> QED BY <1>6, <1>7, <1>8 DEF TieredInv, Alone, HitsFresh, WrittenSoFar

(* A call begins: the keys it meets another call on are disturbed. *)
LEMMA BeginCallKeeps ==
    ASSUME TieredInv, NEW t \in Callers, NEW op \in Ops \ {"idle"}, NEW ks \in SUBSET CacheKeys, NEW v \in Held,
           BeginCall(t, op, ks, v)
    PROVE  TieredInv'
  <1> DEFINE j == [op |-> op, keys |-> ks, rest |-> ks, value |-> v, at |-> 1, fill |-> 0, hits |-> NoHits]
  <1>1. /\ job[t].op = "idle" /\ job' = [job EXCEPT ![t] = j] /\ level' = level /\ latest' = latest
        /\ \A k : k \notin disturbed' => k \notin disturbed \/ (IsWrite(op) /\ k \in ks)
    BY DEF BeginCall
  <1>2. \A u \in Callers : /\ u # t /\ "contains" \notin {op, job[u].op}
                           /\ IsWrite(op) \/ IsWrite(job[u].op)
                           => job[u].keys \intersect ks \subseteq disturbed'
    BY DEF BeginCall
  <1>4. \A u \in Callers : \A k : u # t /\ k \in job[u].keys /\ job[u].op # "contains" /\ k \notin disturbed'
                             => k \notin disturbed
    BY <1>1, <1>2 DEF IsWrite
  <1>3. NoHits \in [{} -> Held] /\ DOMAIN NoHits = {}
    BY DEF NoHits
  <1>5. NoHits \in UNION {[S -> Held] : S \in SUBSET CacheKeys}
    BY <1>3
  <1>6. j \in Jobs /\ j.op = op /\ j.keys = ks /\ j.rest = ks /\ j.at = 1 /\ j.fill = 0 /\ DOMAIN j.hits = {}
    <2>1. j \in Jobs
      BY <1>5 DEF Jobs
    <2>2. j.op = op /\ j.keys = ks /\ j.rest = ks /\ j.at = 1 /\ j.fill = 0 /\ j.hits = NoHits
      OBVIOUS
    <2> QED BY <1>3, <2>1, <2>2
  <1> HIDE DEF j
  <1>7. job \in [Callers -> Jobs]
    BY DEF TieredInv, Shapes
  <1>8. job' \in [Callers -> Jobs] /\ job'[t] = j /\ \A u \in Callers : u # t => job'[u] = job[u]
    BY <1>1, <1>6, <1>7
  <1>9. Shapes'
    BY <1>1, <1>6, <1>8 DEF TieredInv, Shapes
  <1>10. Alone'
    <2> SUFFICES ASSUME NEW a \in Callers, NEW b \in Callers, a # b, IsWrite(job'[a].op),
                        NEW k \in (job'[a].keys \intersect job'[b].keys) \ disturbed'
                 PROVE  job'[b].op = "contains"
      BY DEF Alone
    <2>1. CASE a = t
      BY <1>2, <1>6, <1>8, <2>1 DEF IsWrite
    <2>2. CASE b = t
      BY <1>2, <1>6, <1>8, <2>2 DEF IsWrite
    <2>3. CASE a # t /\ b # t
      <3>1. k \notin disturbed
        BY <1>4, <1>8, <2>3 DEF IsWrite
      <3> QED BY <1>8, <2>3, <3>1 DEF TieredInv, Alone
    <2> QED BY <2>1, <2>2, <2>3
  <1>11. HitsFresh'
    <2> SUFFICES ASSUME NEW u \in Callers, job'[u].op = "get", NEW k \in DOMAIN job'[u].hits \ disturbed'
                 PROVE  job'[u].hits[k] \in {latest[k], Absent}
      BY <1>1 DEF HitsFresh
    <2>1. u # t /\ job'[u] = job[u]
      BY <1>6, <1>8
    <2>2. k \in job[u].keys
      BY <2>1 DEF TieredInv, Shapes
    <2>3. k \notin disturbed
      BY <1>4, <2>1, <2>2
    <2> QED BY <2>1, <2>3 DEF TieredInv, HitsFresh
  <1>12. WrittenSoFar'
    <2> SUFFICES ASSUME NEW u \in Callers, IsWrite(job'[u].op), NEW k \in job'[u].keys \ disturbed', NEW i \in 1..Depth,
                        i < job'[u].at
                 PROVE  level[i][k] \in {job'[u].value, Absent}
      BY <1>1 DEF WrittenSoFar
    <2>1. u # t /\ job'[u] = job[u]
      BY <1>6, <1>8
    <2>2. k \notin disturbed
      BY <1>4, <2>1 DEF IsWrite
    <2> QED BY <2>1, <2>2 DEF TieredInv, WrittenSoFar
  <1>13. \A k : Unwritten(k)' => Unwritten(k)
    BY <1>1, <1>8 DEF Unwritten, IsWrite
  <1>14. LevelsFresh'
    <2> SUFFICES ASSUME NEW k \in CacheKeys \ disturbed', Unwritten(k)', NEW i \in 1..Depth
                 PROVE  level[i][k] \in {latest[k], Absent}
      BY <1>1 DEF LevelsFresh
    <2>1. ~ (IsWrite(op) /\ k \in ks)
      BY <1>6, <1>8 DEF Unwritten
    <2>2. k \notin disturbed
      BY <1>1, <2>1
    <2> QED BY <1>13, <2>2 DEF TieredInv, LevelsFresh
  <1> QED BY <1>9, <1>10, <1>11, <1>12, <1>14 DEF TieredInv

(* A call goes on at its next level: who writes what is as before. *)
LEMMA CallGoesOn ==
    ASSUME TieredInv, NEW t \in Callers, NEW j \in Jobs, job' = [job EXCEPT ![t] = j],
           j.op = job[t].op, j.keys = job[t].keys, j.value = job[t].value,
           j.rest \subseteq j.keys, DOMAIN j.hits \subseteq j.keys, j.op # "idle", j.at >= 1, j.fill > 0 => j.op = "get",
           disturbed \subseteq disturbed', latest' = latest, level' \in [1..Depth -> [CacheKeys -> Held]]
    PROVE  /\ Shapes' /\ Alone'
           /\ job'[t] = j /\ \A u \in Callers : u # t => job'[u] = job[u]
           /\ \A k : Unwritten(k)' <=> Unwritten(k)
           /\ \A k \in job[t].keys \ disturbed : job[t].op = "get" => Unwritten(k)
           /\ \A k \in job[t].keys \ disturbed : IsWrite(job[t].op) => ~Unwritten(k)
           /\ \A u \in Callers, k \in job[t].keys \ disturbed :
                u # t /\ (IsWrite(job[t].op) \/ job[t].op = "get") => ~ (k \in job[u].keys /\ IsWrite(job[u].op))
  <1>1. job'[t] = j /\ (\A u \in Callers : u # t => job'[u] = job[u]) /\ job' \in [Callers -> Jobs]
    BY DEF TieredInv, Shapes
  <1>2. Shapes'
    BY <1>1 DEF TieredInv, Shapes
  <1>3. \A u \in Callers : job'[u].op = job[u].op /\ job'[u].keys = job[u].keys
    BY <1>1
  <1>4. Alone'
    BY <1>3 DEF TieredInv, Alone
  <1>5. \A k : Unwritten(k)' <=> Unwritten(k)
    BY <1>3 DEF Unwritten
  <1>6. \A u \in Callers, k \in job[t].keys \ disturbed :
          u # t /\ (IsWrite(job[t].op) \/ job[t].op = "get") => ~ (k \in job[u].keys /\ IsWrite(job[u].op))
    BY DEF TieredInv, Alone, IsWrite
  <1>7. job[t].op = "get" => ~IsWrite(job[t].op)
    BY DEF IsWrite
  <1> QED BY <1>1, <1>2, <1>4, <1>5, <1>6, <1>7 DEF Unwritten

(* The branches of a step that leave the levels as they are and find       *)
(* nothing new                                                             *)
LEMMA CallPasses ==
    ASSUME TieredInv, NEW t \in Callers, NEW i \in Nat \ {0}, Goto(t, i), job[t].op # "idle",
           ~IsWrite(job[t].op) \/ job[t].keys \subseteq disturbed',
           level' = level, latest' = latest, disturbed \subseteq disturbed'
    PROVE  TieredInv'
  <1> DEFINE j == [job[t] EXCEPT !.at = i, !.fill = 0]
  <1>1. job \in [Callers -> Jobs] /\ job[t] \in Jobs /\ level \in [1..Depth -> [CacheKeys -> Held]]
        /\ job[t].rest \subseteq job[t].keys /\ DOMAIN job[t].hits \subseteq job[t].keys
    BY DEF TieredInv, Shapes
  <1>2. job' = [job EXCEPT ![t] = j]
    BY <1>1 DEF Goto
  <1>3. j \in Jobs
    BY <1>1 DEF Jobs
  <1>4. /\ j.op = job[t].op /\ j.keys = job[t].keys /\ j.value = job[t].value /\ j.rest = job[t].rest
        /\ j.hits = job[t].hits /\ j.at = i /\ j.fill = 0
    BY <1>1 DEF Jobs
  <1> HIDE DEF j
  <1>5. /\ Shapes' /\ Alone' /\ job'[t] = j /\ \A u \in Callers : u # t => job'[u] = job[u]
        /\ \A k : Unwritten(k)' <=> Unwritten(k)
    <2>1. j.rest \subseteq j.keys /\ DOMAIN j.hits \subseteq j.keys /\ j.op # "idle" /\ j.at >= 1 /\ ~ (j.fill > 0)
      BY <1>1, <1>4
    <2>2. level' \in [1..Depth -> [CacheKeys -> Held]]
      BY <1>1
    <2> QED BY <1>2, <1>3, <1>4, <2>1, <2>2, CallGoesOn, ZenonT(60)
  <1>6. HitsFresh'
    BY <1>4, <1>5 DEF TieredInv, HitsFresh
  <1>7. WrittenSoFar'
    BY <1>4, <1>5 DEF TieredInv, WrittenSoFar
  <1>8. LevelsFresh'
    BY <1>5 DEF TieredInv, LevelsFresh
  <1> QED BY <1>5, <1>6, <1>7, <1>8 DEF TieredInv

LEMMA AskLevelKeeps ==
    ASSUME TieredInv, NEW t \in Callers, AskLevel(t)
    PROVE  TieredInv'
  <1> DEFINE i == job[t].at
             there == {k \in job[t].rest : level[i][k] # Absent}
             h == [k \in there |-> level[i][k]]
             f == IF i > 1 /\ DOMAIN h # {} THEN 1 ELSE 0
             n == IF i > 1 /\ DOMAIN h # {} THEN i ELSE i + 1
             j == Answered(job[t], i, h)
  <1>1. /\ job \in [Callers -> Jobs] /\ job[t] \in Jobs /\ level \in [1..Depth -> [CacheKeys -> Held]]
        /\ job[t].rest \subseteq job[t].keys /\ i >= 1 /\ i \in Nat /\ job[t].op = "get" /\ i <= Depth
        /\ UNCHANGED <<level, latest, disturbed>> /\ job[t].keys \subseteq CacheKeys
    BY DEF TieredInv, Shapes, AskLevel, Jobs
  <1>2. CASE Goto(t, i + 1)
    BY <1>1, <1>2, CallPasses DEF IsWrite
  <1>3. CASE ~Goto(t, i + 1)
    <2>1. job' = [job EXCEPT ![t] = j]
      BY <1>1, <1>3 DEF AskLevel
    <2>2. there \subseteq job[t].keys /\ h \in [there -> Held] /\ DOMAIN h = there /\ i \in 1..Depth
      BY <1>1, TieredAssumption
    <2>3. h \in UNION {[S -> Held] : S \in SUBSET CacheKeys}
      BY <1>1, <2>2
    <2>4. f \in Nat /\ n \in Nat /\ n >= 1
      BY <1>1
    <2>0. j = [op |-> job[t].op, keys |-> job[t].keys, rest |-> job[t].rest \ DOMAIN h, value |-> job[t].value,
               at |-> n, fill |-> f, hits |-> h]
      BY Zenon DEF Answered
    <2> HIDE DEF h, f, n, j
    <2>5. job[t].rest \ DOMAIN h \in SUBSET CacheKeys
      BY <1>1
    <2>6. j \in Jobs
      BY <1>1, <2>0, <2>3, <2>4, <2>5 DEF Jobs
    <2>7. /\ j.op = job[t].op /\ j.keys = job[t].keys /\ j.value = job[t].value /\ j.rest = job[t].rest \ there
          /\ j.hits = h /\ j.at = n /\ j.fill = f
      BY <2>0, <2>2
    <2>8. DOMAIN h = there
      BY <2>2
    <2>9. /\ Shapes' /\ Alone' /\ job'[t] = j /\ \A u \in Callers : u # t => job'[u] = job[u]
          /\ \A k : Unwritten(k)' <=> Unwritten(k)
          /\ \A k \in job[t].keys \ disturbed : Unwritten(k)
      BY <1>1, <2>1, <2>2, <2>4, <2>6, <2>7, <2>8, CallGoesOn
    <2>10. ASSUME NEW k \in there \ disturbed PROVE h[k] \in {latest[k], Absent}
      <3>1. h[k] = level[i][k]
        BY DEF h
      <3>2. k \in CacheKeys \ disturbed /\ Unwritten(k)
        BY <1>1, <2>2, <2>9
      <3> QED BY <2>2, <3>1, <3>2 DEF TieredInv, LevelsFresh
    <2>11. HitsFresh'
      BY <1>1, <2>7, <2>8, <2>9, <2>10 DEF TieredInv, HitsFresh
    <2>12. WrittenSoFar'
      BY <1>1, <2>7, <2>9 DEF TieredInv, WrittenSoFar, IsWrite
    <2>13. LevelsFresh'
      BY <1>1, <2>9 DEF TieredInv, LevelsFresh
    <2> QED BY <2>9, <2>11, <2>12, <2>13 DEF TieredInv
  <1> QED BY <1>2, <1>3

(* Filling in a level above, or leaving it, and going on *)
LEMMA BackfillKeeps ==
    ASSUME TieredInv, NEW t \in Callers, BackfillUpper(t)
    PROVE  TieredInv'
  <1> DEFINE hits == job[t].hits
  <1>1. /\ job \in [Callers -> Jobs] /\ job[t] \in Jobs /\ level \in [1..Depth -> [CacheKeys -> Held]]
        /\ job[t].rest \subseteq job[t].keys /\ DOMAIN hits \subseteq job[t].keys
        /\ job[t].op = "get" /\ job[t].at \in Nat /\ job[t].at >= 1 /\ job[t].fill \in Nat
        /\ UNCHANGED <<latest, disturbed>>
    BY DEF TieredInv, Shapes, BackfillUpper, Jobs
  <1> DEFINE m == IF job[t].fill + 1 < job[t].at THEN job[t].at ELSE job[t].at + 1
             n == IF job[t].fill + 1 < job[t].at THEN job[t].fill + 1 ELSE 0
  <1>2. m \in Nat /\ n \in Nat /\ m >= 1 /\ job' = [job EXCEPT ![t] = [job[t] EXCEPT !.at = m, !.fill = n]]
    <2>0. m \in Nat /\ n \in Nat /\ m >= 1
      BY <1>1
    <2>1. CASE job[t].fill + 1 < job[t].at
      <3>1. job' = [job EXCEPT ![t] = [job[t] EXCEPT !.at = job[t].at, !.fill = job[t].fill + 1]]
        BY <1>1, <2>1 DEF BackfillUpper, Jobs
      <3>2. m = job[t].at /\ n = job[t].fill + 1
        BY <2>1
      <3> HIDE DEF m, n
      <3> QED BY <2>0, <3>1, <3>2
    <2>2. CASE ~ (job[t].fill + 1 < job[t].at)
      <3>1. job' = [job EXCEPT ![t] = [job[t] EXCEPT !.at = job[t].at + 1, !.fill = 0]]
        BY <1>1, <2>2 DEF BackfillUpper, Goto
      <3>2. m = job[t].at + 1 /\ n = 0
        BY <2>2
      <3> HIDE DEF m, n
      <3> QED BY <2>0, <3>1, <3>2
    <2> QED BY <2>1, <2>2
  <1> HIDE DEF m, n
  <1> DEFINE j == [job[t] EXCEPT !.at = m, !.fill = n]
  <1>3. j \in Jobs
    BY <1>1, <1>2 DEF Jobs
  <1>4. /\ j.op = job[t].op /\ j.keys = job[t].keys /\ j.value = job[t].value /\ j.rest = job[t].rest
        /\ j.hits = hits /\ j.at = m /\ j.fill = n /\ job' = [job EXCEPT ![t] = j]
    BY <1>1, <1>2 DEF Jobs
  <1> HIDE DEF j
  <1>5. \A k \in DOMAIN hits : hits[k] \in Held
    BY <1>1 DEF Jobs
  <1>6. /\ level' \in [1..Depth -> [CacheKeys -> Held]]
        /\ \A i \in 1..Depth, k \in CacheKeys :
             level'[i][k] = level[i][k] \/ (k \in DOMAIN hits /\ level'[i][k] = hits[k])
    <2>1. CASE level' = level
      BY <1>1, <2>1
    <2>2. CASE level' # level
      <3> DEFINE g == [k \in CacheKeys |-> IF k \in DOMAIN hits THEN hits[k] ELSE level[job[t].fill][k]]
      <3>1. level' = [level EXCEPT ![job[t].fill] = g]
        BY <2>2 DEF BackfillUpper
      <3>2. CASE job[t].fill \in 1..Depth
        <4>1. g \in [CacheKeys -> Held]
          BY <1>1, <1>5, <3>2
        <4>2. \A k \in CacheKeys : g[k] = IF k \in DOMAIN hits THEN hits[k] ELSE level[job[t].fill][k]
          OBVIOUS
        <4> HIDE DEF g
        <4> QED BY <1>1, <3>1, <3>2, <4>1, <4>2
      <3>3. CASE job[t].fill \notin 1..Depth
        <4> HIDE DEF g
        <4> QED BY <1>1, <2>2, <3>1, <3>3
      <3> QED BY <3>2, <3>3
    <2> QED BY <2>1, <2>2
  <1>7. /\ Shapes' /\ Alone' /\ job'[t] = j /\ \A u \in Callers : u # t => job'[u] = job[u]
        /\ \A k : Unwritten(k)' <=> Unwritten(k)
        /\ \A u \in Callers, k \in job[t].keys \ disturbed : u # t => ~ (k \in job[u].keys /\ IsWrite(job[u].op))
    <2>1. /\ j.rest \subseteq j.keys /\ DOMAIN j.hits \subseteq j.keys /\ j.op # "idle" /\ j.at >= 1 /\ j.op = "get"
          /\ disturbed \subseteq disturbed' /\ latest' = latest
      BY <1>1, <1>2, <1>4
    <2> QED BY <1>1, <1>3, <1>4, <1>6, <2>1, CallGoesOn
  <1>8. \A k \in DOMAIN hits \ disturbed : hits[k] \in {latest[k], Absent}
    BY <1>1 DEF TieredInv, HitsFresh
  <1>9. HitsFresh'
    BY <1>1, <1>4, <1>7, <1>8 DEF TieredInv, HitsFresh
  <1>10. WrittenSoFar'
    <2> SUFFICES ASSUME NEW u \in Callers, IsWrite(job'[u].op), NEW k \in job'[u].keys \ disturbed, NEW i \in 1..Depth,
                        i < job'[u].at
                 PROVE  level'[i][k] \in {job'[u].value, Absent}
      BY <1>1 DEF WrittenSoFar
    <2>1. u # t /\ job'[u] = job[u]
      BY <1>1, <1>4, <1>7 DEF IsWrite
    <2>2. k \notin DOMAIN hits
      BY <1>1, <1>7, <2>1
    <2>3. k \in CacheKeys
      BY <1>1, <2>1 DEF Jobs
    <2>4. level[i][k] \in {job[u].value, Absent}
      BY <2>1 DEF TieredInv, WrittenSoFar
    <2> QED BY <1>6, <2>1, <2>2, <2>3, <2>4
  <1>11. LevelsFresh'
    BY <1>1, <1>6, <1>7, <1>8 DEF TieredInv, LevelsFresh
  <1> QED BY <1>7, <1>9, <1>10, <1>11 DEF TieredInv

(* A level is written, or a level without a key counts as done. *)
LEMMA LevelWritten ==
    ASSUME TieredInv, NEW t \in Callers, IsWrite(job[t].op), job[t].at <= Depth, Goto(t, job[t].at + 1),
           NEW v \in Held, v \in {job[t].value, Absent},
           level' = [level EXCEPT ![job[t].at] = WrittenOver(@, job[t].keys, v)], UNCHANGED <<latest, disturbed>>
    PROVE  TieredInv'
  <1> DEFINE i == job[t].at
             j == [job[t] EXCEPT !.at = i + 1, !.fill = 0]
             g == WrittenOver(level[i], job[t].keys, v)
  <1>1. /\ job \in [Callers -> Jobs] /\ job[t] \in Jobs /\ level \in [1..Depth -> [CacheKeys -> Held]]
        /\ job[t].rest \subseteq job[t].keys /\ DOMAIN job[t].hits \subseteq job[t].keys
        /\ job[t].op \notin {"idle", "get"} /\ i \in Nat /\ i >= 1 /\ i \in 1..Depth
    <2>1. job[t].op \notin {"idle", "get"}
      BY DEF IsWrite
    <2>2. job[t] \in Jobs /\ Depth \in Nat
      BY TieredAssumption DEF TieredInv, Shapes
    <2>3. i \in Nat
      BY <2>2 DEF Jobs
    <2> QED BY <2>1, <2>2, <2>3 DEF TieredInv, Shapes
  <1>2. job' = [job EXCEPT ![t] = j]
    BY <1>1 DEF Goto
  <1>3. j \in Jobs
    <2> DEFINE n == i + 1
    <2>1. n \in Nat
      BY <1>1
    <2>2. [job[t] EXCEPT !.at = n, !.fill = 0] \in Jobs
      <3> HIDE DEF n
      <3> QED BY <1>1, <2>1 DEF Jobs
    <2> QED BY <2>2
  <1>4. /\ j.op = job[t].op /\ j.keys = job[t].keys /\ j.value = job[t].value /\ j.rest = job[t].rest
        /\ j.hits = job[t].hits /\ j.at = i + 1 /\ j.fill = 0
    BY <1>1 DEF Jobs
  <1> HIDE DEF j
  <1>5. g \in [CacheKeys -> Held] /\ \A k \in CacheKeys : g[k] = IF k \in job[t].keys THEN v ELSE level[i][k]
    BY <1>1 DEF WrittenOver
  <1>6. level' = [level EXCEPT ![i] = g]
    OBVIOUS
  <1> HIDE DEF g, i
  <1>7. /\ level' \in [1..Depth -> [CacheKeys -> Held]]
        /\ \A l \in 1..Depth, k \in CacheKeys :
             level'[l][k] = IF l = i /\ k \in job[t].keys THEN v ELSE level[l][k]
    BY <1>1, <1>5, <1>6
  <1>8. /\ Shapes' /\ Alone' /\ job'[t] = j /\ \A u \in Callers : u # t => job'[u] = job[u]
        /\ \A k : Unwritten(k)' <=> Unwritten(k)
        /\ \A k \in job[t].keys \ disturbed : ~Unwritten(k)
        /\ \A u \in Callers, k \in job[t].keys \ disturbed : u # t => ~ (k \in job[u].keys /\ IsWrite(job[u].op))
    <2>1. /\ j.rest \subseteq j.keys /\ DOMAIN j.hits \subseteq j.keys /\ j.op # "idle" /\ j.at >= 1 /\ ~ (j.fill > 0)
          /\ disturbed \subseteq disturbed' /\ latest' = latest
      BY <1>1, <1>4
    <2> QED BY <1>2, <1>3, <1>4, <1>7, <2>1, CallGoesOn, ZenonT(60)
  <1>9. HitsFresh'
    BY <1>1, <1>4, <1>8 DEF TieredInv, HitsFresh
  <1>10. WrittenSoFar'
    <2> SUFFICES ASSUME NEW u \in Callers, IsWrite(job'[u].op), NEW k \in job'[u].keys \ disturbed, NEW l \in 1..Depth,
                        l < job'[u].at
                 PROVE  level'[l][k] \in {job'[u].value, Absent}
      BY DEF WrittenSoFar
    <2>1. k \in CacheKeys
      BY <1>8 DEF Shapes, Jobs
    <2>2. CASE u = t
      <3>1. job'[u].value = job[t].value /\ k \in job[t].keys /\ l < i + 1
        BY <1>4, <1>8, <2>2
      <3>2. CASE l = i
        BY <1>7, <2>1, <3>1, <3>2
      <3>3. CASE l # i
        <4>1. l < i
          BY <1>1, <3>1, <3>3
        <4>2. level[l][k] \in {job[t].value, Absent}
          BY <3>1, <4>1 DEF TieredInv, WrittenSoFar, i
        <4> QED BY <1>7, <2>1, <3>1, <3>3, <4>2
      <3> QED BY <3>2, <3>3
    <2>3. CASE u # t
      <3>1. job'[u] = job[u] /\ k \notin job[t].keys
        BY <1>8, <2>3
      <3>2. level[l][k] \in {job[u].value, Absent}
        BY <3>1 DEF TieredInv, WrittenSoFar
      <3> QED BY <1>7, <2>1, <3>1, <3>2
    <2> QED BY <2>2, <2>3
  <1>11. LevelsFresh'
    <2> SUFFICES ASSUME NEW k \in CacheKeys \ disturbed, Unwritten(k)', NEW l \in 1..Depth
                 PROVE  level'[l][k] \in {latest[k], Absent}
      BY DEF LevelsFresh
    <2>1. Unwritten(k) /\ k \notin job[t].keys
      BY <1>8
    <2> QED BY <1>7, <2>1 DEF TieredInv, LevelsFresh
  <1> QED BY <1>8, <1>9, <1>10, <1>11 DEF TieredInv

LEMMA ReturnKeeps ==
    ASSUME TieredInv, NEW t \in Callers, ReturnCall(t)
    PROVE  TieredInv'
  <1>1. /\ job \in [Callers -> Jobs] /\ job[t] \in Jobs /\ level \in [1..Depth -> [CacheKeys -> Held]]
        /\ latest \in [CacheKeys -> Held] /\ job[t].at \in Nat /\ job[t].keys \subseteq CacheKeys /\ job[t].value \in Held
    BY DEF TieredInv, Shapes, Jobs
  <1>2. /\ job' = [job EXCEPT ![t] = Idle] /\ UNCHANGED <<level, disturbed>>
        /\ latest' = IF IsWrite(job[t].op) THEN WrittenOver(latest, job[t].keys, job[t].value) ELSE latest
        /\ IsWrite(job[t].op) => job[t].at > Depth
    BY DEF ReturnCall, IsWrite
  <1>3. latest' \in [CacheKeys -> Held] /\
        \A k \in CacheKeys : latest'[k] = IF IsWrite(job[t].op) /\ k \in job[t].keys THEN job[t].value ELSE latest[k]
    BY <1>1, <1>2 DEF WrittenOver
  <1>4. NoHits \in [{} -> Held] /\ DOMAIN NoHits = {}
    BY DEF NoHits
  <1>5. NoHits \in UNION {[S -> Held] : S \in SUBSET CacheKeys}
    BY <1>4
  <1>6. Idle \in Jobs /\ Idle.op = "idle" /\ Idle.keys = {} /\ Idle.rest = {} /\ Idle.fill = 0 /\ DOMAIN Idle.hits = {}
    BY <1>4, <1>5 DEF Idle, Jobs, Ops, Held
  <1>7. job' \in [Callers -> Jobs] /\ job'[t] = Idle /\ \A u \in Callers : u # t => job'[u] = job[u]
    BY <1>1, <1>2, <1>6
  <1>8. Shapes'
    BY <1>1, <1>2, <1>3, <1>6, <1>7 DEF TieredInv, Shapes
  <1>9. Alone'
    BY <1>2, <1>6, <1>7 DEF TieredInv, Alone, IsWrite
  <1>10. HitsFresh'
    <2> SUFFICES ASSUME NEW u \in Callers, job'[u].op = "get", NEW k \in DOMAIN job'[u].hits \ disturbed
                 PROVE  job'[u].hits[k] \in {latest'[k], Absent}
      BY <1>2 DEF HitsFresh
    <2>1. u # t /\ job'[u] = job[u]
      BY <1>6, <1>7
    <2>2. k \in job[u].keys /\ k \in CacheKeys
      BY <1>1, <2>1 DEF TieredInv, Shapes, Jobs
    <2>3. ~ (IsWrite(job[t].op) /\ k \in job[t].keys)
      BY <2>1, <2>2 DEF TieredInv, Alone
    <2> QED BY <1>3, <2>1, <2>2, <2>3 DEF TieredInv, HitsFresh
  <1>11. WrittenSoFar'
    BY <1>2, <1>6, <1>7 DEF TieredInv, WrittenSoFar, IsWrite
  <1>12. LevelsFresh'
    <2> SUFFICES ASSUME NEW k \in CacheKeys \ disturbed, Unwritten(k)', NEW i \in 1..Depth
                 PROVE  level[i][k] \in {latest'[k], Absent}
      BY <1>2 DEF LevelsFresh
    <2>1. CASE IsWrite(job[t].op) /\ k \in job[t].keys
      <3>1. i < job[t].at
        BY <1>1, <1>2, <2>1, TieredAssumption
      <3> QED BY <1>3, <2>1, <3>1 DEF TieredInv, WrittenSoFar
    <2>2. CASE ~ (IsWrite(job[t].op) /\ k \in job[t].keys)
      <3>1. Unwritten(k)
        BY <1>7, <2>2 DEF Unwritten
      <3> QED BY <1>3, <2>2, <3>1 DEF TieredInv, LevelsFresh
    <2> QED BY <2>1, <2>2
  <1> QED BY <1>8, <1>9, <1>10, <1>11, <1>12 DEF TieredInv

LEMMA LoseEntryKeeps ==
    ASSUME TieredInv, NEW i \in 1..Depth, NEW k \in CacheKeys, LoseEntry(i, k)
    PROVE  TieredInv'
  <1>1. UNCHANGED <<job, latest, disturbed>> /\ level \in [1..Depth -> [CacheKeys -> Held]]
    BY DEF LoseEntry, TieredInv, Shapes
  <1>2. /\ level' \in [1..Depth -> [CacheKeys -> Held]]
        /\ \A l \in 1..Depth, q \in CacheKeys : level'[l][q] \in {level[l][q], Absent}
    BY <1>1 DEF LoseEntry, Held
  <1>3. Shapes' /\ Alone' /\ HitsFresh'
    BY <1>1, <1>2 DEF TieredInv, Shapes, Alone, HitsFresh
  <1>4. \A t \in Callers : job[t].keys \subseteq CacheKeys
    BY DEF TieredInv, Shapes, Jobs
  <1>5. WrittenSoFar'
    BY <1>1, <1>2, <1>4 DEF TieredInv, WrittenSoFar
  <1>6. LevelsFresh'
    BY <1>1, <1>2 DEF TieredInv, LevelsFresh, Unwritten
  <1> QED BY <1>3, <1>5, <1>6 DEF TieredInv

LEMMA TieredInvStep == TieredInv /\ [TieredNext]_tieredVars => TieredInv'
  <1> SUFFICES ASSUME TieredInv, [TieredNext]_tieredVars PROVE TieredInv'
    OBVIOUS
  <1>1. CASE UNCHANGED tieredVars
    BY <1>1 DEF tieredVars, TieredInv, Shapes, Alone, HitsFresh, WrittenSoFar, LevelsFresh, Unwritten
  <1>2. CASE \E i \in 1..Depth, k \in CacheKeys : LoseEntry(i, k)
    BY <1>2, LoseEntryKeeps
  <1>3. ASSUME NEW t \in Callers,
               \/ \E k \in CacheKeys : BeginCall(t, "remove", {k}, Absent) \/ BeginCall(t, "contains", {k}, Absent)
               \/ \E ks \in SUBSET CacheKeys : GetCall(t, ks) \/ \E v \in CacheValues : PutCall(t, ks, v)
               \/ ClearCall(t)
        PROVE  TieredInv'
    <2>1. \A op \in Ops \ {"idle"}, ks \in SUBSET CacheKeys, v \in Held : BeginCall(t, op, ks, v) => TieredInv'
      BY BeginCallKeeps
    <2>2. {"get", "put", "remove", "contains", "clear"} \subseteq Ops \ {"idle"} /\ CacheValues \union {Absent} = Held
      BY DEF Ops, Held
    <2> QED BY <1>3, <2>1, <2>2 DEF GetCall, PutCall, ClearCall
  <1>4. ASSUME NEW t \in Callers, AskLevel(t) \/ BackfillUpper(t) \/ ReturnCall(t) PROVE TieredInv'
    BY <1>4, AskLevelKeeps, BackfillKeeps, ReturnKeeps
  <1>5. ASSUME NEW t \in Callers PROVE job[t].value \in Held /\ job[t].at \in Nat /\ Absent \in Held /\ Depth + 1 \in Nat \ {0}
                                       /\ job[t].at + 1 \in Nat \ {0}
    BY TieredAssumption DEF TieredInv, Shapes, Jobs, Held
  <1>6. ASSUME NEW t \in Callers, ContainsLevel(t) PROVE TieredInv'
    <2>1. Goto(t, job[t].at + 1) \/ Goto(t, Depth + 1)
      BY <1>6 DEF ContainsLevel
    <2>2. job[t].op # "idle" /\ ~IsWrite(job[t].op) /\ UNCHANGED <<level, latest, disturbed>>
      BY <1>6 DEF ContainsLevel, IsWrite
    <2> QED BY <1>5, <2>1, <2>2, CallPasses
  <1>7. ASSUME NEW t \in Callers, WriteLevel(t) \/ RemoveLevel(t) PROVE TieredInv'
    <2>1. IsWrite(job[t].op) /\ job[t].op # "idle" /\ job[t].at <= Depth /\ latest' = latest
      BY <1>7 DEF WriteLevel, RemoveLevel, IsWrite
    <2>2. \/ /\ level' = level /\ disturbed' = disturbed \union job[t].keys
             /\ Goto(t, job[t].at + 1) \/ Goto(t, Depth + 1)
          \/ /\ \/ level' = [level EXCEPT ![job[t].at] = WrittenOver(@, job[t].keys, job[t].value)]
                \/ level' = [level EXCEPT ![job[t].at] = WrittenOver(@, job[t].keys, Absent)]
             /\ disturbed' = disturbed /\ Goto(t, job[t].at + 1)
      BY <1>7 DEF WriteLevel, RemoveLevel
    <2>3. CASE level' = level /\ disturbed' = disturbed \union job[t].keys /\ (Goto(t, job[t].at + 1) \/ Goto(t, Depth + 1))
      BY <1>5, <2>1, <2>3, CallPasses
    <2>4. CASE /\ \/ level' = [level EXCEPT ![job[t].at] = WrittenOver(@, job[t].keys, job[t].value)]
                  \/ level' = [level EXCEPT ![job[t].at] = WrittenOver(@, job[t].keys, Absent)]
               /\ disturbed' = disturbed /\ Goto(t, job[t].at + 1)
      BY <1>5, <2>1, <2>4, LevelWritten
    <2> QED BY <2>2, <2>3, <2>4
  <1> QED BY <1>1, <1>2, <1>3, <1>4, <1>6, <1>7 DEF TieredNext

LEMMA TieredIsSound == TieredInv => NoStaleLevel
  BY DEF TieredInv, LevelsFresh, Unwritten, NoStaleLevel

-----------------------------------------------------------------------------
(* Cached results of queries: the keys listed for a table *)
QueryInv ==
    /\ tableKeys = [t \in DOMAIN tableKeys |-> tableKeys[t]]
    /\ \A t \in DOMAIN tableKeys : tableKeys[t] \in Seq(Queries)
    /\ DOMAIN results \subseteq Queries
    /\ \A q \in DOMAIN results : TableOf[q] # NoTable =>
         /\ TableOf[q] \in DOMAIN tableKeys
         /\ \E n \in 1..Len(tableKeys[TableOf[q]]) : tableKeys[TableOf[q]][n] = q

LEMMA QueryInvInit == QueryInit => QueryInv
  BY DEF QueryInit, QueryInv

LEMMA QueryInvStep == QueryInv /\ [QueryNext]_queryVars => QueryInv'
  <1> SUFFICES ASSUME QueryInv, [QueryNext]_queryVars PROVE QueryInv'
    OBVIOUS
  <1>1. CASE UNCHANGED queryVars
    BY <1>1 DEF queryVars, QueryInv
  <1>2. ASSUME NEW q \in Queries, PutResult(q) PROVE QueryInv'
    <2> DEFINE t == TableOf[q]
               l == Listed(t)
    <2>1. l \in Seq(Queries)
      BY DEF Listed, QueryInv
    <2>2. /\ Append(l, q) \in Seq(Queries) /\ Len(l) \in Nat /\ Len(Append(l, q)) = Len(l) + 1
          /\ Append(l, q)[Len(l) + 1] = q /\ \A n \in 1..Len(l) : Append(l, q)[n] = l[n]
      BY <2>1
    <2>3. t \in DOMAIN tableKeys => l = tableKeys[t]
      BY DEF Listed
    <2>4. /\ DOMAIN results' = DOMAIN results \union {q}
          /\ tableKeys' = IF t = NoTable THEN tableKeys
                          ELSE [x \in DOMAIN tableKeys \union {t} |-> IF x = t THEN Append(l, q) ELSE tableKeys[x]]
      BY <1>2 DEF PutResult
    <2> HIDE DEF l
    <2>5. CASE t = NoTable
      BY <2>4, <2>5 DEF QueryInv
    <2>6. CASE t # NoTable
      <3>1. /\ DOMAIN tableKeys' = DOMAIN tableKeys \union {t} /\ tableKeys'[t] = Append(l, q)
            /\ \A x \in DOMAIN tableKeys : x # t => tableKeys'[x] = tableKeys[x]
            /\ tableKeys' = [x \in DOMAIN tableKeys' |-> tableKeys'[x]]
        BY <2>4, <2>6
      <3>2. \A x \in DOMAIN tableKeys' : tableKeys'[x] \in Seq(Queries)
        BY <2>2, <3>1 DEF QueryInv
      <3>3. ASSUME NEW r \in DOMAIN results', TableOf[r] # NoTable
            PROVE  /\ TableOf[r] \in DOMAIN tableKeys'
                   /\ \E n \in 1..Len(tableKeys'[TableOf[r]]) : tableKeys'[TableOf[r]][n] = r
        <4>1. CASE r = q
          <5>1. Len(l) + 1 \in 1..Len(tableKeys'[TableOf[r]]) /\ tableKeys'[TableOf[r]][Len(l) + 1] = r
            BY <2>2, <3>1, <4>1
          <5> QED BY <3>1, <4>1, <5>1
        <4>2. CASE r # q
          <5>1. /\ r \in DOMAIN results /\ TableOf[r] \in DOMAIN tableKeys
            BY <2>4, <3>3, <4>2 DEF QueryInv
          <5>2. PICK n \in 1..Len(tableKeys[TableOf[r]]) : tableKeys[TableOf[r]][n] = r
            BY <3>3, <5>1 DEF QueryInv
          <5>3. CASE TableOf[r] = t
            <6>1. n \in 1..Len(l) /\ l[n] = r
              BY <2>3, <5>1, <5>2, <5>3
            <6>2. n \in 1..Len(Append(l, q)) /\ Append(l, q)[n] = r
              BY <2>2, <6>1
            <6> QED BY <3>1, <5>3, <6>2
          <5>4. CASE TableOf[r] # t
            BY <3>1, <5>1, <5>2, <5>4
          <5> QED BY <5>3, <5>4
        <4> QED BY <4>1, <4>2
      <3>4. DOMAIN results' \subseteq Queries
        BY <2>4 DEF QueryInv
      <3> QED BY <3>1, <3>2, <3>3, <3>4 DEF QueryInv
    <2> QED BY <2>5, <2>6
  <1>3. ASSUME DOMAIN results' \subseteq DOMAIN results, tableKeys' = tableKeys PROVE QueryInv'
    BY <1>3 DEF QueryInv
  <1>4. CASE \E q \in Queries : ResultExpires(q) \/ Invalidate(q)
    BY <1>3, <1>4 DEF ResultExpires, Invalidate, Without
  <1>5. ASSUME NEW t \in Tables, InvalidateTable(t) PROVE QueryInv'
    <2>1. /\ DOMAIN results' = DOMAIN results \ ToSet(tableKeys[t]) /\ t \in DOMAIN tableKeys
          /\ tableKeys' = [x \in DOMAIN tableKeys \ {t} |-> tableKeys[x]]
      BY <1>5 DEF InvalidateTable, Without
    <2>2. \A q \in DOMAIN results' : TableOf[q] # t \/ TableOf[q] = NoTable
      BY <2>1 DEF QueryInv, ToSet
    <2> QED BY <2>1, <2>2 DEF QueryInv
  <1>6. CASE ClearResults
    <2>1. DOMAIN results' = {} /\ tableKeys' = [x \in DOMAIN tableKeys \ Tables |-> tableKeys[x]]
      BY <1>6 DEF ClearResults, Without, QueryInv
    <2> QED BY <2>1 DEF QueryInv
  <1>7. CASE EvictExpired
    BY <1>3, <1>7 DEF EvictExpired, Without
  <1> QED BY <1>1, <1>2, <1>4, <1>5, <1>6, <1>7 DEF QueryNext

LEMMA QueriesAreSound == QueryInv => TableKeysCover
  BY DEF QueryInv, TableKeysCover, Listed, Contains

(* Whatever is lost, filled in from below or fails, a level holds what was *)
(* last written or nothing, unless that write overlapped another call on   *)
(* the key or failed at a level (multi_level_cache.h), and a table's       *)
(* results are all found when it is invalidated (query_result_cache.h):    *)
(* for any threads, keys, values, levels, queries and tables.              *)
THEOREM LevelsCorrect == TieredSpec /\ QuerySpec => []LevelsSound
  <1>1. TieredInv /\ QueryInv => LevelsSound
    BY TieredIsSound, QueriesAreSound DEF LevelsSound
  <1> QED BY <1>1, TieredInvInit, TieredInvStep, QueryInvInit, QueryInvStep, PTL DEF TieredSpec, QuerySpec

-----------------------------------------------------------------------------
(* The cache in memory against the contract of a cache.  Only the entries  *)
(* are seen from outside; the list decides which of them go.               *)
IsEntries(e) ==
    /\ e = [k \in DOMAIN e |-> e[k]] /\ DOMAIN e \subseteq Keys
    /\ \A k \in DOMAIN e : e[k].value \in Values
IsCache(c) == IsEntries(c.entries) /\ \E lru, bytes : c = [entries |-> c.entries, lru |-> lru, bytes |-> bytes]

(* What c holds became what d holds: k holds v, others stay or go. *)
Holds(c, k) == IF k \in DOMAIN c.entries THEN c.entries[k].value ELSE NoValue
KeptOrLost(c, d, S) == \A k \in Keys \ S : Holds(d, k) \in {Holds(c, k), NoValue}

LEMMA HeldByIs ==
    ASSUME NEW c, IsCache(c)
    PROVE  /\ HeldBy(c) \in [Keys -> Values \union {NoValue}]
           /\ \A k \in Keys : HeldBy(c)[k] = Holds(c, k)
  BY DEF HeldBy, Holds, Has, IsCache, IsEntries

LEMMA EvictedIs ==
    ASSUME NEW c, IsCache(c), NEW k \in Keys
    PROVE  /\ IsCache(Evicted(c, k))
           /\ \A j \in Keys : Holds(Evicted(c, k), j) = IF j = k THEN NoValue ELSE Holds(c, j)
  <1> DEFINE e == [j \in DOMAIN c.entries \ {k} |-> c.entries[j]]
             l == Only(c.lru, Keys \ {k})
             b == c.bytes - c.entries[k].value
  <1>1. Evicted(c, k) = [entries |-> e, lru |-> l, bytes |-> b]
    BY DEF Evicted
  <1>2. IsEntries(e) /\ DOMAIN e = DOMAIN c.entries \ {k} /\ \A j \in DOMAIN e : e[j] = c.entries[j]
    BY DEF IsCache, IsEntries
  <1> HIDE DEF e, l, b
  <1>3. Evicted(c, k).entries = e
    BY <1>1
  <1>4. IsCache(Evicted(c, k))
    BY <1>1, <1>2, <1>3, Zenon DEF IsCache
  <1>5. \A j \in Keys : Holds(Evicted(c, k), j) = IF j = k THEN NoValue ELSE Holds(c, j)
    BY <1>2, <1>3 DEF Holds
  <1> QED BY <1>4, <1>5

LEMMA TouchedIs ==
    ASSUME NEW c, IsCache(c), NEW k
    PROVE  IsCache(Touched(c, k)) /\ Touched(c, k).entries = c.entries
  <1> DEFINE e == c.entries
             m == <<k>> \o Only(c.lru, Keys \ {k})
  <1>1. PICK lru, bytes : c = [entries |-> e, lru |-> lru, bytes |-> bytes]
    BY DEF IsCache
  <1>2. Touched(c, k) = [c EXCEPT !.lru = m]
    BY DEF Touched
  <1> HIDE DEF e, m
  <1>3. Touched(c, k) = [entries |-> e, lru |-> m, bytes |-> bytes]
    BY <1>1, <1>2
  <1>4. Touched(c, k).entries = e
    BY <1>3
  <1>5. IsEntries(e)
    BY DEF IsCache, e
  <1>6. IsCache(Touched(c, k))
    BY <1>3, <1>4, <1>5, Zenon DEF IsCache
  <1> QED BY <1>4, <1>6 DEF e

LEMMA LookedUpIs ==
    ASSUME NEW c, IsCache(c), NEW k \in Keys
    PROVE  IsCache(LookedUp(c, k)) /\ KeptOrLost(c, LookedUp(c, k), {})
  <1>1. CASE ~Has(c, k)
    BY <1>1 DEF LookedUp, KeptOrLost
  <1>2. CASE Has(c, k) /\ IsExpired(c, k)
    <2>1. LookedUp(c, k) = Evicted(c, k)
      BY <1>2 DEF LookedUp
    <2> QED BY <2>1, EvictedIs DEF KeptOrLost
  <1>3. CASE Has(c, k) /\ ~IsExpired(c, k)
    <2>1. LookedUp(c, k) = Touched(c, k)
      BY <1>3 DEF LookedUp
    <2>2. \A j : Holds(Touched(c, k), j) = Holds(c, j)
      BY TouchedIs DEF Holds
    <2> QED BY <2>1, <2>2, TouchedIs DEF KeptOrLost
  <1> QED BY <1>1, <1>2, <1>3

LEMMA UpdatedIs ==
    ASSUME NEW c, IsCache(c), NEW k \in Keys, Has(c, k), NEW v \in Values, NEW x
    PROVE  /\ IsCache(Updated(c, k, v, x)) /\ Holds(Updated(c, k, v, x), k) = v
           /\ KeptOrLost(c, Updated(c, k, v, x), {k})
  <1> DEFINE n == [value |-> v, expire |-> x]
             e == [c.entries EXCEPT ![k] = n]
             l == Touched(c, k).lru
             b == c.bytes - c.entries[k].value + v
             d == Updated(c, k, v, x)
  <1>1. d = [entries |-> e, lru |-> l, bytes |-> b]
    BY DEF Updated
  <1>2. n.value = v
    OBVIOUS
  <1> HIDE DEF n
  <1>3. /\ DOMAIN e = DOMAIN c.entries /\ e[k] = n /\ \A j \in DOMAIN e : j # k => e[j] = c.entries[j]
        /\ IsEntries(e) /\ k \in DOMAIN e
    BY <1>2 DEF IsCache, IsEntries, Has
  <1> HIDE DEF e, l, b, d
  <1>4. d.entries = e
    BY <1>1
  <1>5. IsCache(d)
    BY <1>1, <1>3, <1>4, Zenon DEF IsCache
  <1>6. Holds(d, k) = v /\ KeptOrLost(c, d, {k})
    BY <1>2, <1>3, <1>4 DEF Holds, KeptOrLost
  <1> QED BY <1>5, <1>6 DEF d

LEMMA InsertedIs ==
    ASSUME NEW c, IsCache(c), NEW k \in Keys, NEW v \in Values, NEW x
    PROVE  /\ IsCache(Inserted(c, k, v, x)) /\ Holds(Inserted(c, k, v, x), k) = v
           /\ KeptOrLost(c, Inserted(c, k, v, x), {k})
  <1> DEFINE n == [value |-> v, expire |-> x]
             f == FittedTo(c, v)
             e == [j \in DOMAIN f.entries \union {k} |-> IF j = k THEN n ELSE f.entries[j]]
             d == Inserted(c, k, v, x)
  <1>1. PICK S : f.entries = [j \in DOMAIN c.entries \ S |-> c.entries[j]]
    BY DEF FittedTo
  <1>2. n.value = v
    OBVIOUS
  <1>3. PICK l, b : d = [entries |-> e, lru |-> l, bytes |-> b]
    BY DEF Inserted
  <1> HIDE DEF n, f
  <1>4. /\ DOMAIN f.entries = DOMAIN c.entries \ S /\ \A j \in DOMAIN f.entries : f.entries[j] = c.entries[j]
        /\ IsEntries(f.entries)
    BY <1>1 DEF IsCache, IsEntries
  <1>5. /\ DOMAIN e = DOMAIN f.entries \union {k} /\ e[k] = n /\ \A j \in DOMAIN f.entries : j # k => e[j] = f.entries[j]
        /\ IsEntries(e)
    BY <1>2, <1>4 DEF IsEntries
  <1> HIDE DEF e, d
  <1>6. d.entries = e
    BY <1>3
  <1>7. IsCache(d)
    BY <1>3, <1>5, <1>6, Zenon DEF IsCache
  <1>8. Holds(d, k) = v /\ KeptOrLost(c, d, {k})
    BY <1>2, <1>4, <1>5, <1>6 DEF Holds, KeptOrLost
  <1> QED BY <1>7, <1>8 DEF d

LEMMA StoredIs ==
    ASSUME NEW c, IsCache(c), NEW k \in Keys, NEW v \in Values, NEW x
    PROVE  /\ IsCache(Stored(c, k, v, x)) /\ Holds(Stored(c, k, v, x), k) = v
           /\ KeptOrLost(c, Stored(c, k, v, x), {k})
  <1>1. CASE Has(c, k)
    <2>1. Stored(c, k, v, x) = Updated(c, k, v, x)
      BY <1>1 DEF Stored
    <2> QED BY <1>1, <2>1, UpdatedIs
  <1>2. CASE ~Has(c, k)
    <2>1. Stored(c, k, v, x) = Inserted(c, k, v, x)
      BY <1>2 DEF Stored
    <2> QED BY <2>1, InsertedIs
  <1> QED BY <1>1, <1>2

MemInv == IsCache(mem)

LEMMA EmptyIs == IsCache(EmptyCache) /\ \A k : Holds(EmptyCache, k) = NoValue
  <1> DEFINE e == [k \in {} |-> [value |-> 0, expire |-> 0]]
  <1>1. EmptyCache = [entries |-> e, lru |-> <<>>, bytes |-> 0]
    BY DEF EmptyCache
  <1>2. DOMAIN e = {} /\ IsEntries(e)
    BY DEF IsEntries
  <1> HIDE DEF e
  <1>3. EmptyCache.entries = e
    BY <1>1
  <1>4. IsCache(EmptyCache)
    BY <1>1, <1>2, <1>3, Zenon DEF IsCache
  <1> QED BY <1>2, <1>3, <1>4 DEF Holds

(* Each call is one of the contract, or changes nothing that is seen. *)
LEMMA MemStep == MemInv /\ [MemNext]_memVars => MemInv' /\ [C!SpecNext]_(C!specVars)
  <1> SUFFICES ASSUME MemInv, [MemNext]_memVars PROVE MemInv' /\ [C!SpecNext]_(C!specVars)
    OBVIOUS
  <1>0. HeldBy(mem)' = HeldBy(mem')
    BY DEF HeldBy, Has
  <1>1. IsCache(mem)
    BY DEF MemInv
  <1>2. CASE UNCHANGED <<mem, found>>
    <2>1. MemInv'
      BY <1>1, <1>2 DEF MemInv
    <2>2. UNCHANGED C!specVars
      BY <1>0, <1>2 DEF C!specVars
    <2> QED BY <2>1, <2>2
  <1>3. ASSUME IsCache(mem')
        PROVE  /\ HeldBy(mem)' \in [Keys -> Values \union {NoValue}]
               /\ \A k \in Keys : HeldBy(mem)'[k] = Holds(mem', k) /\ HeldBy(mem)[k] = Holds(mem, k)
    BY <1>0, <1>1, <1>3, HeldByIs
  <1>4. ASSUME NEW k \in Keys, NEW v \in Values, NEW ttl \in Ttls, Put(k, v, ttl) PROVE MemInv' /\ C!SpecNext
    <2> DEFINE x == ComputeExpireTime(ttl)
    <2>1. mem' = Stored(mem, k, v, x) /\ found' = [j \in {k} |-> v]
      BY <1>4 DEF Put
    <2> HIDE DEF x
    <2>2. IsCache(mem') /\ Holds(mem', k) = v /\ KeptOrLost(mem, mem', {k})
      BY <1>1, <2>1, StoredIs
    <2>3. C!SpecPut(k, v)
      BY <1>3, <2>1, <2>2 DEF C!SpecPut, C!OthersKeptOrLost, KeptOrLost
    <2> QED BY <2>2, <2>3 DEF C!SpecNext, MemInv
  <1>5. ASSUME NEW j \in Keys, NEW k \in Keys, NEW v \in Values, NEW ttl \in Ttls, PutMany(j, k, v, ttl)
        PROVE  MemInv' /\ C!SpecNext
    <2> DEFINE x == ComputeExpireTime(ttl)
               c == Stored(mem, j, v, x)
               g == [i \in {j, k} |-> v]
    <2>1. mem' = Stored(c, k, v, x) /\ found' = g
      BY <1>5 DEF PutMany
    <2> HIDE DEF x
    <2>2. IsCache(c) /\ Holds(c, j) = v /\ KeptOrLost(mem, c, {j})
      BY <1>1, StoredIs
    <2> HIDE DEF c
    <2>3. IsCache(mem') /\ Holds(mem', k) = v /\ KeptOrLost(c, mem', {k})
      BY <2>1, <2>2, StoredIs
    <2>4. \A i \in Keys \ {j, k} : Holds(mem', i) \in {Holds(mem, i), NoValue}
      BY <2>2, <2>3 DEF KeptOrLost
    <2>5. Holds(mem', j) \in {v, NoValue} /\ Holds(mem', k) = v
      BY <2>2, <2>3 DEF KeptOrLost
    <2>6. g \in [{j, k} -> Values] /\ DOMAIN g = {j, k} /\ \A i \in {j, k} : g[i] = v
      OBVIOUS
    <2> HIDE DEF g
    <2>7. C!SpecPutMany(g)
      BY <1>3, <2>1, <2>3, <2>4, <2>5, <2>6 DEF C!SpecPutMany, C!OthersKeptOrLost
    <2>8. {j, k} \in SUBSET Keys
      OBVIOUS
    <2> QED BY <2>3, <2>6, <2>7, <2>8 DEF C!SpecNext, MemInv
  <1>6. ASSUME NEW S \in SUBSET Keys, IsCache(mem'), KeptOrLost(mem, mem', {}), found' = [i \in S |-> HeldBy(mem')[i]]
        PROVE  MemInv' /\ C!SpecNext
    <2>1. C!SpecGet(S)
      BY <1>0, <1>3, <1>6 DEF C!SpecGet, C!OthersKeptOrLost, KeptOrLost
    <2> QED BY <1>6, <2>1 DEF C!SpecNext, MemInv
  <1>7. ASSUME NEW j \in Keys, NEW k \in Keys, Get(j, k) PROVE MemInv' /\ C!SpecNext
    <2> DEFINE c == LookedUp(mem, j)
    <2>1. mem' = LookedUp(c, k) /\ found' = [i \in {j, k} |-> HeldBy(mem')[i]]
      BY <1>7 DEF Get
    <2>2. IsCache(c) /\ KeptOrLost(mem, c, {})
      BY <1>1, LookedUpIs
    <2> HIDE DEF c
    <2>3. IsCache(mem') /\ KeptOrLost(c, mem', {})
      BY <2>1, <2>2, LookedUpIs
    <2>4. KeptOrLost(mem, mem', {})
      BY <2>2, <2>3 DEF KeptOrLost
    <2> QED BY <1>6, <2>1, <2>3, <2>4
  <1>8. ASSUME NEW k \in Keys, ContainsKey(k) PROVE MemInv' /\ C!SpecNext
    <2>1. (mem' = mem \/ mem' = Evicted(mem, k)) /\ found' = [j \in {k} |-> HeldBy(mem')[k]]
      BY <1>8 DEF ContainsKey
    <2>2. IsCache(mem') /\ KeptOrLost(mem, mem', {})
      BY <1>1, <2>1, EvictedIs DEF KeptOrLost
    <2>3. found' = [j \in {k} |-> HeldBy(mem')[j]]
      BY <2>1
    <2> QED BY <1>6, <2>2, <2>3
  <1>9. ASSUME NEW k \in Keys, RemoveKey(k) PROVE MemInv' /\ C!SpecNext
    <2>1. mem' = Evicted(mem, k) /\ found' = [j \in {} |-> NoValue]
      BY <1>9 DEF RemoveKey
    <2>2. IsCache(mem') /\ \A j \in Keys : Holds(mem', j) = IF j = k THEN NoValue ELSE Holds(mem, j)
      BY <1>1, <2>1, EvictedIs
    <2>3. HeldBy(mem) \in [Keys -> Values \union {NoValue}]
      BY <1>1, HeldByIs
    <2>4. HeldBy(mem)' = [HeldBy(mem) EXCEPT ![k] = NoValue]
      BY <1>3, <2>2, <2>3
    <2>5. C!SpecRemove(k)
      BY <2>1, <2>4 DEF C!SpecRemove, C!Nothing
    <2> QED BY <2>2, <2>5 DEF C!SpecNext, MemInv
  <1>10. ASSUME Clear PROVE MemInv' /\ C!SpecNext
    <2>1. mem' = EmptyCache /\ found' = [j \in {} |-> NoValue]
      BY <1>10 DEF Clear
    <2>2. IsCache(mem') /\ \A j \in Keys : Holds(mem', j) = NoValue
      BY <2>1, EmptyIs
    <2>3. HeldBy(mem)' = [k \in Keys |-> NoValue]
      BY <1>3, <2>2
    <2>4. C!SpecClear
      BY <2>1, <2>3 DEF C!SpecClear, C!Nothing
    <2> QED BY <2>2, <2>4 DEF C!SpecNext, MemInv
  <1>11. CASE Tick
    BY <1>2, <1>11 DEF Tick
  <1>12. CASE UNCHANGED memVars
    BY <1>2, <1>12 DEF memVars
  <1> QED BY <1>4, <1>5, <1>7, <1>8, <1>9, <1>10, <1>11, <1>12 DEF MemNext

(* sc::cache::MemoryCache implements the contract of sc::cache::ICache:    *)
(* whatever the limits, times to live and order of use make go, a key      *)
(* holds what was put last or nothing (memory_cache.h, icache.h).          *)
THEOREM CacheImplemented == MemSpec => MemoryCacheIsCache
  <1>1. MemInit => MemInv /\ C!SpecInit
    <2> SUFFICES ASSUME MemInit PROVE MemInv /\ C!SpecInit
      OBVIOUS
    <2>1. mem = EmptyCache /\ found = [k \in {} |-> NoValue]
      BY DEF MemInit
    <2>2. IsCache(mem) /\ \A k : Holds(mem, k) = NoValue
      BY <2>1, EmptyIs
    <2>3. HeldBy(mem) = [k \in Keys |-> NoValue]
      BY <2>2, HeldByIs
    <2> QED BY <2>1, <2>2, <2>3 DEF MemInv, C!SpecInit, C!Nothing
  <1> QED BY <1>1, MemStep, PTL DEF MemSpec, MemoryCacheIsCache, C!CacheContract

-----------------------------------------------------------------------------
(* The list and the byte count of sc::cache::MemoryCache: entries e, list  *)
(* l and count b agree.                                                    *)
Weights(e) == [k \in DOMAIN e |-> e[k].value]
Tally(e, l, b) == IsEntries(e) /\ IsListOf(l, DOMAIN e) /\ b = SumOver(Weights(e), DOMAIN e)

LEMMA TallyFacts ==
    ASSUME NEW e, NEW l, NEW b, Tally(e, l, b)
    PROVE  /\ IsEntries(e) /\ IsListOf(l, DOMAIN e) /\ b = SumOver(Weights(e), DOMAIN e)
           /\ IsFiniteSet(DOMAIN e) /\ Len(l) = Cardinality(DOMAIN e) /\ Len(l) \in Nat
           /\ HasSizes(Weights(e), DOMAIN e) /\ b \in Nat
  <1>1. IsEntries(e) /\ IsListOf(l, DOMAIN e) /\ b = SumOver(Weights(e), DOMAIN e)
    BY DEF Tally
  <1>2. IsFiniteSet(DOMAIN e) /\ Len(l) = Cardinality(DOMAIN e)
    BY <1>1, ListCounts
  <1>3. \A k \in DOMAIN e : Weights(e)[k] \in Nat
    BY <1>1, MemoryCacheAssumption DEF IsEntries, Weights
  <1>4. HasSizes(Weights(e), DOMAIN e)
    BY <1>2, <1>3 DEF HasSizes
  <1>5. b \in Nat
    BY <1>1, <1>4, UnitsFinite
  <1> QED BY <1>1, <1>2, <1>4, <1>5, FS_CardinalityType

(* Entries that go, with their places and their bytes.                     *)
LEMMA TallyOfRest ==
    ASSUME NEW e, NEW l, NEW b, Tally(e, l, b), NEW A, A \subseteq DOMAIN e,
           NEW m, IsListOf(m, DOMAIN e \ A)
    PROVE  Tally([j \in DOMAIN e \ A |-> e[j]], m, b - SumOver(Weights(e), A))
  <1> DEFINE D == DOMAIN e
             r == [j \in D \ A |-> e[j]]
             w == Weights(e)
  <1>1. IsEntries(e) /\ b = SumOver(w, D) /\ HasSizes(w, D)
    BY TallyFacts
  <1>2. DOMAIN r = D \ A /\ IsEntries(r) /\ \A k \in D \ A : Weights(r)[k] = w[k]
    BY <1>1 DEF IsEntries, Weights
  <1>3. /\ SumOver(w, A) \in Nat /\ SumOver(w, D \ A) \in Nat
        /\ SumOver(w, D) = SumOver(w, D \ A) + SumOver(w, A)
    BY <1>1, SumOfRest
  <1>4. SumOver(Weights(r), D \ A) = SumOver(w, D \ A)
    <2> DEFINE v == Weights(r)
               E == D \ A
    <2>1. \A k \in E : v[k] = w[k]
      BY <1>2
    <2> HIDE DEF v, w, E
    <2>2. SumOver(v, E) = SumOver(w, E)
      BY <2>1, SumOfSame
    <2> QED BY <2>2 DEF v, E
  <1>5. b - SumOver(w, A) = SumOver(Weights(r), D \ A)
    <2> DEFINE x == SumOver(w, A)
               y == SumOver(w, D \ A)
    <2>1. x \in Nat /\ y \in Nat /\ b = y + x
      BY <1>1, <1>3
    <2> HIDE DEF x, y
    <2>2. b - x = y
      BY <2>1
    <2> QED BY <1>4, <2>2 DEF x, y
  <1> HIDE DEF r
  <1>6. Tally(r, m, b - SumOver(w, A))
    BY <1>2, <1>5 DEF Tally
  <1> QED BY <1>6 DEF r

LEMMA TallyWithout ==
    ASSUME NEW e, NEW l, NEW b, Tally(e, l, b), NEW k \in DOMAIN e
    PROVE  Tally([j \in DOMAIN e \ {k} |-> e[j]], Only(l, Keys \ {k}), b - e[k].value)
  <1>1. IsListOf(l, DOMAIN e) /\ DOMAIN e \subseteq Keys /\ HasSizes(Weights(e), DOMAIN e)
    BY TallyFacts DEF IsEntries
  <1>2. IsListOf(Only(l, Keys \ {k}), DOMAIN e \ {k})
    BY <1>1, WithoutLists
  <1>3. Weights(e)[k] = e[k].value /\ Weights(e)[k] \in Nat
    BY <1>1 DEF Weights, HasSizes
  <1>4. SumOver(Weights(e), {k}) = e[k].value
    BY <1>3, SumOfOne
  <1>5. Tally([j \in DOMAIN e \ {k} |-> e[j]], Only(l, Keys \ {k}), b - SumOver(Weights(e), {k}))
    BY <1>2, TallyOfRest
  <1> QED BY <1>4, <1>5

LEMMA TallyTouched ==
    ASSUME NEW e, NEW l, NEW b, Tally(e, l, b), NEW k \in DOMAIN e
    PROVE  Tally(e, <<k>> \o Only(l, Keys \ {k}), b)
  <1>1. IsListOf(l, DOMAIN e) /\ DOMAIN e \subseteq Keys
    BY TallyFacts DEF IsEntries
  <1>2. IsListOf(<<k>> \o Only(l, Keys \ {k}), DOMAIN e \cup {k})
    BY <1>1, WithoutLists
  <1>3. DOMAIN e \cup {k} = DOMAIN e
    OBVIOUS
  <1>4. IsListOf(<<k>> \o Only(l, Keys \ {k}), DOMAIN e)
    BY <1>2, <1>3
  <1> QED BY <1>4 DEF Tally

(* The entry of k is n, which was not there or was another.                *)
LEMMA TallyWith ==
    ASSUME NEW e, NEW l, NEW b, Tally(e, l, b), NEW k \in Keys \ DOMAIN e, NEW n, n.value \in Values,
           NEW m, IsListOf(m, DOMAIN e \cup {k}),
           NEW f, f = [j \in DOMAIN f |-> f[j]], DOMAIN f = DOMAIN e \cup {k}, f[k] = n,
           \A j \in DOMAIN e : f[j] = e[j]
    PROVE  Tally(f, m, b + n.value)
  <1> DEFINE D == DOMAIN e
             v == Weights(f)
  <1>1. IsEntries(e) /\ b = SumOver(Weights(e), D) /\ HasSizes(Weights(e), D) /\ b \in Nat
    BY TallyFacts
  <1>2. IsEntries(f)
    BY <1>1 DEF IsEntries
  <1>3. v[k] = n.value /\ n.value \in Nat /\ \A j \in D : v[j] = Weights(e)[j]
    BY MemoryCacheAssumption DEF Weights
  <1>4. HasSizes(v, D) /\ HasSizes(v, {k})
    BY <1>1, <1>3, FS_Singleton DEF HasSizes
  <1>5. SumOver(v, D) = b
    <2> DEFINE w == Weights(e)
    <2>1. \A j \in D : v[j] = w[j]
      BY <1>3
    <2> HIDE DEF v, w, D
    <2>2. SumOver(v, D) = SumOver(w, D)
      BY <2>1, SumOfSame
    <2> QED BY <1>1, <2>2 DEF w
  <1>6. SumOver(v, {k}) = n.value
    BY <1>3, SumOfOne
  <1>7. SumOver(v, D \cup {k}) = SumOver(v, D) + SumOver(v, {k})
    BY <1>4, SumOfParts
  <1>8. SumOver(v, DOMAIN f) = b + n.value
    BY <1>5, <1>6, <1>7
  <1> QED BY <1>2, <1>8 DEF Tally

-----------------------------------------------------------------------------
Fine(c) ==
    /\ IsCache(c) /\ Tally(c.entries, c.lru, c.bytes)
    /\ Len(c.lru) <= MaxEntries \/ Len(c.lru) = 1

(* evictEntryUnlocked() and touchUnlocked() *)
LEMMA EvictedFine ==
    ASSUME NEW c, Fine(c), NEW k \in Keys, Has(c, k)
    PROVE  Fine(Evicted(c, k))
  <1> DEFINE e == [j \in DOMAIN c.entries \ {k} |-> c.entries[j]]
             l == Only(c.lru, Keys \ {k})
             b == c.bytes - c.entries[k].value
             d == Evicted(c, k)
  <1>1. IsCache(c) /\ Tally(c.entries, c.lru, c.bytes) /\ k \in DOMAIN c.entries
    BY DEF Fine, Has
  <1>2. Tally(e, l, b)
    BY <1>1, TallyWithout
  <1>3. DOMAIN e = DOMAIN c.entries \ {k}
    OBVIOUS
  <1>4. d = [entries |-> e, lru |-> l, bytes |-> b]
    BY DEF Evicted
  <1>5. IsCache(d)
    BY <1>1, EvictedIs
  <1> HIDE DEF e, l, b, d
  <1>6. d.entries = e /\ d.lru = l /\ d.bytes = b
    BY <1>4
  <1>7. /\ Len(l) = Cardinality(DOMAIN e) /\ Len(l) \in Nat
        /\ Len(c.lru) = Cardinality(DOMAIN c.entries) /\ IsFiniteSet(DOMAIN c.entries)
    BY <1>1, <1>2, TallyFacts
  <1>8. Cardinality(DOMAIN c.entries \ {k}) = Cardinality(DOMAIN c.entries) - 1
    BY <1>1, <1>7, FS_RemoveElement
  <1>9. Len(l) = Len(c.lru) - 1 /\ Len(c.lru) \in Nat
    BY <1>1, <1>3, <1>7, <1>8, TallyFacts
  <1>10. Len(l) <= MaxEntries
    BY <1>7, <1>9, MemoryCacheAssumption DEF Fine
  <1> QED BY <1>2, <1>5, <1>6, <1>10 DEF Fine, d

LEMMA TouchedFine ==
    ASSUME NEW c, Fine(c), NEW k \in Keys, Has(c, k)
    PROVE  /\ Fine(Touched(c, k))
           /\ Touched(c, k).lru = <<k>> \o Only(c.lru, Keys \ {k})
  <1> DEFINE l == <<k>> \o Only(c.lru, Keys \ {k})
             d == Touched(c, k)
  <1>1. IsCache(c) /\ Tally(c.entries, c.lru, c.bytes) /\ k \in DOMAIN c.entries
    BY DEF Fine, Has
  <1>2. Tally(c.entries, l, c.bytes)
    BY <1>1, TallyTouched
  <1>3. d = [c EXCEPT !.lru = l]
    BY DEF Touched
  <1>4. IsCache(d) /\ d.entries = c.entries
    BY <1>1, TouchedIs
  <1>5. PICK lru, bytes : c = [entries |-> c.entries, lru |-> lru, bytes |-> bytes]
    BY <1>1 DEF IsCache
  <1> HIDE DEF l, d
  <1>6. d.lru = l /\ d.bytes = c.bytes
    BY <1>3, <1>5
  <1>7. Len(l) = Cardinality(DOMAIN c.entries) /\ Len(c.lru) = Cardinality(DOMAIN c.entries)
    BY <1>1, <1>2, TallyFacts
  <1>8. Fine(d)
    BY <1>2, <1>4, <1>6, <1>7 DEF Fine
  <1> QED BY <1>6, <1>8 DEF l, d

LEMMA LookedUpFine ==
    ASSUME NEW c, Fine(c), NEW k \in Keys
    PROVE  Fine(LookedUp(c, k))
  BY EvictedFine, TouchedFine DEF LookedUp

(* The update of put() *)
LEMMA UpdatedFine ==
    ASSUME NEW c, Fine(c), NEW k \in Keys, Has(c, k), NEW v \in Values, NEW x
    PROVE  Fine(Updated(c, k, v, x))
  <1> DEFINE n == [value |-> v, expire |-> x]
             D == DOMAIN c.entries
             e == [c.entries EXCEPT ![k] = n]
             r == [j \in D \ {k} |-> c.entries[j]]
             u == Only(c.lru, Keys \ {k})
             l == Touched(c, k).lru
             o == c.bytes - c.entries[k].value
             d == Updated(c, k, v, x)
  <1>1. IsCache(c) /\ Tally(c.entries, c.lru, c.bytes) /\ k \in D
    BY DEF Fine, Has
  <1>2. Tally(r, u, o)
    BY <1>1, TallyWithout
  <1>3. l = <<k>> \o u
    BY TouchedFine
  <1>4. d = [entries |-> e, lru |-> l, bytes |-> o + v]
    BY DEF Updated
  <1>5. IsCache(d)
    BY <1>1, UpdatedIs
  <1>6. n.value \in Values /\ n.value = v
    OBVIOUS
  <1>7. IsEntries(c.entries) /\ IsListOf(c.lru, D)
    BY <1>1, TallyFacts
  <1>8. D \subseteq Keys /\ DOMAIN c.entries = D
    BY <1>7 DEF IsEntries
  <1>9. IsListOf(<<k>> \o u, D \cup {k})
    BY <1>7, <1>8, WithoutLists
  <1>10. DOMAIN r = D \ {k} /\ DOMAIN r \cup {k} = D /\ D \cup {k} = D /\ k \in Keys \ DOMAIN r
    BY <1>1
  <1> HIDE DEF n
  <1>11. e = [j \in DOMAIN e |-> e[j]] /\ DOMAIN e = D /\ e[k] = n /\ \A j \in DOMAIN r : e[j] = r[j]
    BY <1>1, <1>7 DEF IsEntries
  <1> HIDE DEF D, e, r, u, l, o, d
  <1>12. IsListOf(l, DOMAIN r \cup {k}) /\ DOMAIN e = DOMAIN r \cup {k}
    BY <1>3, <1>9, <1>10, <1>11
  <1>13. Tally(e, l, o + n.value)
    BY <1>2, <1>6, <1>10, <1>11, <1>12, TallyWith
  <1>14. d.entries = e /\ d.lru = l /\ d.bytes = o + v
    BY <1>4
  <1>15. Len(l) = Cardinality(DOMAIN e) /\ Len(c.lru) = Cardinality(D)
    BY <1>1, <1>13, TallyFacts DEF D
  <1> QED BY <1>5, <1>6, <1>11, <1>13, <1>14, <1>15 DEF Fine, d

(* evictToFitUnlocked() leaves room for an entry, or nothing *)
LEMMA FittedFine ==
    ASSUME NEW c, Fine(c), NEW v \in Values
    PROVE  \E e, l, b :
             /\ FittedTo(c, v) = [entries |-> e, lru |-> l, bytes |-> b]
             /\ Tally(e, l, b) /\ DOMAIN e \subseteq DOMAIN c.entries
             /\ Len(l) = 0 \/ Len(l) < MaxEntries
  <1> DEFINE s == c.lru
             D == DOMAIN c.entries
             Away(n) == {c.lru[i] : i \in (n + 1)..Len(c.lru)}
             Fits(n) == \/ n = 0
                        \/ /\ n < MaxEntries
                           /\ MaxBytes > 0 => c.bytes - BytesOf(c, Away(n)) + v <= MaxBytes
             T == {n \in 0..Len(c.lru) : Fits(n)}
             staying == Max(T)
             e == [k \in DOMAIN c.entries \ Away(staying) |-> c.entries[k]]
             l == SubSeq(c.lru, 1, staying)
             b == c.bytes - BytesOf(c, Away(staying))
  <1>1. FittedTo(c, v) = [entries |-> e, lru |-> l, bytes |-> b]
    BY DEF FittedTo
  <1>2. IsCache(c) /\ Tally(c.entries, s, c.bytes)
    BY DEF Fine
  <1>3. IsEntries(c.entries) /\ IsListOf(s, D) /\ Len(s) \in Nat
    BY <1>2, TallyFacts
  <1>4. staying \in T
    <2>1. 0 \in T /\ T \subseteq 0..Len(s)
      BY <1>3
    <2> HIDE DEF T
    <2>2. \E t \in T : \A y \in T : y <= t
      BY <1>3, <2>1, Greatest
    <2>3. \A y, t \in T : y <= t => t >= y
      BY <2>1
    <2>4. \E t \in T : \A y \in T : t >= y
      BY <2>2, <2>3
    <2> QED BY <2>4 DEF Max
  <1>5. staying \in 0..Len(s) /\ (staying = 0 \/ staying < MaxEntries)
    BY <1>4
  <1> HIDE DEF T, staying
  <1>6. /\ s \in Seq(D) /\ \A i \in 1..Len(s) : s[i] \in D
        /\ \A y \in D : \E i \in 1..Len(s) : s[i] = y
        /\ \A i, j \in 1..Len(s) : s[i] = s[j] => i = j
    BY <1>3, ListFacts
  <1> DEFINE G == Away(staying)
             K == {s[i] : i \in 1..staying}
  <1>7. G \subseteq D
    <2>1. \A i \in (staying + 1)..Len(s) : i \in 1..Len(s)
      BY <1>3, <1>5
    <2>2. G = {s[i] : i \in (staying + 1)..Len(s)}
      OBVIOUS
    <2> HIDE DEF s, D, G
    <2> QED BY <1>6, <2>1, <2>2
  <1>8. D \ G = K
    <2>1. \A i \in 1..Len(s) : i \in (staying + 1)..Len(s) <=> i \notin 1..staying
      BY <1>3, <1>5
    <2>2. \A i \in 1..staying : i \in 1..Len(s)
      BY <1>3, <1>5
    <2>3. \A i \in (staying + 1)..Len(s) : i \in 1..Len(s)
      BY <1>3, <1>5
    <2>4. G = {s[i] : i \in (staying + 1)..Len(s)}
      OBVIOUS
    <2> HIDE DEF s, D, G
    <2>5. ASSUME NEW y \in D, y \notin G PROVE y \in K
      <3>1. PICK i \in 1..Len(s) : s[i] = y
        BY <1>6
      <3>2. i \in 1..staying
        BY <2>1, <2>4, <2>5, <3>1
      <3> QED BY <3>1, <3>2
    <2>6. ASSUME NEW i \in 1..staying PROVE s[i] \in D /\ s[i] \notin G
      BY <1>6, <2>1, <2>2, <2>3, <2>4, Zenon
    <2> QED BY <2>5, <2>6
  <1>9. IsListOf(l, K)
    BY <1>3, <1>5, FirstLists
  <1>10. Len(l) = staying
    BY <1>3, <1>5, <1>6
  <1>11. BytesOf(c, G) = SumOver(Weights(c.entries), G)
    <2> DEFINE f == [k \in G |-> c.entries[k].value]
               w == Weights(c.entries)
    <2>1. \A k \in G : f[k] = w[k]
      BY <1>7 DEF Weights
    <2>2. BytesOf(c, G) = SumOver(f, G)
      BY DEF BytesOf
    <2> HIDE DEF f, w, G
    <2>3. SumOver(f, G) = SumOver(w, G)
      BY <2>1, SumOfSame
    <2> QED BY <2>2, <2>3 DEF w
  <1>12. IsListOf(l, D \ G)
    BY <1>8, <1>9
  <1> HIDE DEF G, K, l
  <1>13. Tally([j \in D \ G |-> c.entries[j]], l, c.bytes - SumOver(Weights(c.entries), G))
    BY <1>2, <1>7, <1>12, TallyOfRest
  <1>14. Tally(e, l, b) /\ DOMAIN e \subseteq D
    BY <1>11, <1>13 DEF G
  <1> HIDE DEF e, b
  <1> QED BY <1>1, <1>5, <1>10, <1>14

(* The insertion of put() *)
LEMMA InsertedFine ==
    ASSUME NEW c, Fine(c), NEW k \in Keys, ~Has(c, k), NEW v \in Values, NEW x
    PROVE  Fine(Inserted(c, k, v, x))
  <1> DEFINE n == [value |-> v, expire |-> x]
             a == FittedTo(c, v)
             d == Inserted(c, k, v, x)
  <1>1. IsCache(c) /\ k \notin DOMAIN c.entries
    BY DEF Fine, Has
  <1>2. PICK e, l, b :
          /\ a = [entries |-> e, lru |-> l, bytes |-> b]
          /\ Tally(e, l, b) /\ DOMAIN e \subseteq DOMAIN c.entries
          /\ Len(l) = 0 \/ Len(l) < MaxEntries
    BY FittedFine
  <1>3. IsCache(d)
    BY <1>1, InsertedIs
  <1> DEFINE f == [j \in DOMAIN e \cup {k} |-> IF j = k THEN n ELSE e[j]]
             m == <<k>> \o l
  <1>4. n.value = v /\ n.value \in Values
    OBVIOUS
  <1>5. a.entries = e /\ a.lru = l /\ a.bytes = b
    BY <1>2
  <1>6. d = [entries |-> f, lru |-> m, bytes |-> b + v]
    BY <1>5 DEF Inserted
  <1> HIDE DEF n, a
  <1>7. /\ f = [j \in DOMAIN f |-> f[j]] /\ DOMAIN f = DOMAIN e \cup {k} /\ f[k] = n
        /\ k \in Keys \ DOMAIN e /\ \A j \in DOMAIN e : f[j] = e[j]
    BY <1>1, <1>2
  <1>8. IsListOf(l, DOMAIN e) /\ Len(l) \in Nat /\ Len(l) = Cardinality(DOMAIN e) /\ IsFiniteSet(DOMAIN e)
    BY <1>2, TallyFacts
  <1>9. IsListOf(m, DOMAIN e \cup {k})
    BY <1>7, <1>8, PrependLists
  <1> HIDE DEF f, m, d
  <1>10. Tally(f, m, b + n.value)
    BY <1>2, <1>4, <1>7, <1>9, TallyWith
  <1>11. d.entries = f /\ d.lru = m /\ d.bytes = b + v
    BY <1>6
  <1>12. Len(m) = Cardinality(DOMAIN f)
    BY <1>10, TallyFacts
  <1>13. Cardinality(DOMAIN e \cup {k}) = Cardinality(DOMAIN e) + 1
    BY <1>7, <1>8, FS_AddElement
  <1>14. Len(m) = Len(l) + 1
    BY <1>7, <1>8, <1>12, <1>13
  <1>15. Len(m) <= MaxEntries \/ Len(m) = 1
    BY <1>2, <1>8, <1>14, MemoryCacheAssumption
  <1> QED BY <1>3, <1>4, <1>10, <1>11, <1>15 DEF Fine, d

LEMMA StoredFine ==
    ASSUME NEW c, Fine(c), NEW k \in Keys, NEW v \in Values, NEW x
    PROVE  Fine(Stored(c, k, v, x))
  BY UpdatedFine, InsertedFine DEF Stored

LEMMA EmptyFine == Fine(EmptyCache)
  <1> DEFINE e == [k \in {} |-> [value |-> 0, expire |-> 0]]
  <1>1. EmptyCache = [entries |-> e, lru |-> <<>>, bytes |-> 0]
    BY DEF EmptyCache
  <1>2. DOMAIN e = {} /\ IsEntries(e)
    BY DEF IsEntries
  <1> HIDE DEF e
  <1>3. EmptyCache.entries = e /\ EmptyCache.lru = <<>> /\ EmptyCache.bytes = 0
    BY <1>1
  <1>4. SumOver(Weights(e), DOMAIN e) = 0
    BY <1>2, SumOfNone
  <1>5. Tally(e, <<>>, 0)
    BY <1>2, <1>4, NothingListed DEF Tally
  <1> QED BY <1>3, <1>5, EmptyIs, MemoryCacheAssumption DEF Fine

(* Whatever is put, looked up, expired, removed or cleared *)
LEMMA FineStays == Fine(mem) /\ [MemNext]_memVars => Fine(mem')
  <1> SUFFICES ASSUME Fine(mem), [MemNext]_memVars PROVE Fine(mem')
    OBVIOUS
  <1>1. ASSUME NEW k \in Keys, NEW v \in Values, NEW ttl \in Ttls, Put(k, v, ttl) PROVE Fine(mem')
    BY <1>1, StoredFine DEF Put
  <1>2. ASSUME NEW j \in Keys, NEW k \in Keys, NEW v \in Values, NEW ttl \in Ttls, PutMany(j, k, v, ttl)
        PROVE  Fine(mem')
    <2> DEFINE x == ComputeExpireTime(ttl)
               c == Stored(mem, j, v, x)
    <2>1. mem' = Stored(c, k, v, x)
      BY <1>2 DEF PutMany
    <2> HIDE DEF x
    <2>2. Fine(c)
      BY StoredFine
    <2> HIDE DEF c
    <2> QED BY <2>1, <2>2, StoredFine
  <1>3. ASSUME NEW j \in Keys, NEW k \in Keys, Get(j, k) PROVE Fine(mem')
    BY <1>3, LookedUpFine DEF Get
  <1>4. ASSUME NEW k \in Keys, ContainsKey(k) PROVE Fine(mem')
    BY <1>4, EvictedFine DEF ContainsKey
  <1>5. ASSUME NEW k \in Keys, RemoveKey(k) PROVE Fine(mem')
    BY <1>5, EvictedFine DEF RemoveKey
  <1>6. CASE Clear
    BY <1>6, EmptyFine DEF Clear
  <1>7. CASE Tick
    BY <1>7 DEF Tick
  <1>8. CASE UNCHANGED memVars
    BY <1>8 DEF memVars
  <1> QED BY <1>1, <1>2, <1>3, <1>4, <1>5, <1>6, <1>7, <1>8 DEF MemNext

LEMMA FineAgrees == Fine(mem) => LruAgrees
  <1> SUFFICES ASSUME Fine(mem) PROVE LruAgrees
    OBVIOUS
  <1> DEFINE e == mem.entries
  <1>1. Tally(e, mem.lru, mem.bytes) /\ (Len(mem.lru) <= MaxEntries \/ Len(mem.lru) = 1)
    BY DEF Fine
  <1>2. IsListOf(mem.lru, DOMAIN e) /\ mem.bytes = SumOver(Weights(e), DOMAIN e)
    BY <1>1 DEF Tally
  <1>3. Range(mem.lru) = DOMAIN e /\ IsInjective(mem.lru)
    BY <1>2 DEF IsListOf
  <1>4. ToSet(mem.lru) = Range(mem.lru)
    BY DEF ToSet, Range
  <1>5. BytesOf(mem, DOMAIN e) = SumOver(Weights(e), DOMAIN e)
    BY DEF BytesOf, Weights
  <1> QED BY <1>1, <1>2, <1>3, <1>4, <1>5 DEF LruAgrees

-----------------------------------------------------------------------------
(* The list of sc::MemoryCache has every key of the map once. *)
Lists(list, D) == IsListOf(list, D) /\ D \subseteq LruKeys

LEMMA KeyListFacts ==
    ASSUME NEW list, NEW D, Lists(list, D)
    PROVE  /\ list \in Seq(LruKeys) /\ Len(list) \in Nat /\ D \subseteq LruKeys
           /\ \A i \in 1..Len(list) : list[i] \in D
           /\ \A i, j \in 1..Len(list) : list[i] = list[j] => i = j
           /\ \A k \in D : \E i \in 1..Len(list) : list[i] = k
  <1>1. IsListOf(list, D) /\ D \subseteq LruKeys
    BY DEF Lists
  <1>2. /\ list \in Seq(D) /\ Len(list) \in Nat
        /\ \A i \in 1..Len(list) : list[i] \in D
        /\ \A i, j \in 1..Len(list) : list[i] = list[j] => i = j
        /\ \A k \in D : \E i \in 1..Len(list) : list[i] = k
    BY <1>1, ListFacts
  <1> QED BY <1>1, <1>2

LEMMA MakesKeyList ==
    ASSUME NEW list \in Seq(LruKeys), NEW D, \A i \in 1..Len(list) : list[i] \in D,
           \A i, j \in 1..Len(list) : list[i] = list[j] => i = j,
           \A k \in D : \E i \in 1..Len(list) : list[i] = k
    PROVE  Lists(list, D)
  <1>1. list \in Seq(D) /\ D \subseteq LruKeys
    OBVIOUS
  <1>2. IsListOf(list, D)
    BY <1>1, MakesList
  <1> QED BY <1>1, <1>2 DEF Lists

LEMMA NoList == Lists(<<>>, {})
  BY NothingListed DEF Lists

LEMMA KeyListCounts ==
    ASSUME NEW list, NEW D, Lists(list, D)
    PROVE  IsFiniteSet(D) /\ Cardinality(D) = Len(list)
  BY ListCounts DEF Lists

(* A place is taken out, and a key is put in front. *)
LEMMA OneLess ==
    ASSUME NEW list, NEW D, Lists(list, D), NEW n \in 1..Len(list), NEW less \in Seq(LruKeys),
           Len(less) = Len(list) - 1, \A i \in 1..(Len(list) - 1) : less[i] = IF i < n THEN list[i] ELSE list[i + 1]
    PROVE  Lists(less, D \ {list[n]})
  <1>0. Len(list) \in Nat
    BY KeyListFacts
  <1>1. \A i \in 1..Len(less) : \E j \in 1..Len(list) : j # n /\ less[i] = list[j] /\ j = IF i < n THEN i ELSE i + 1
    BY <1>0
  <1>2. \A i \in 1..Len(less) : less[i] \in D \ {list[n]}
    BY <1>1, KeyListFacts
  <1>3. \A i, j \in 1..Len(less) : less[i] = less[j] => i = j
    <2> SUFFICES ASSUME NEW i \in 1..Len(less), NEW j \in 1..Len(less), less[i] = less[j] PROVE i = j
      OBVIOUS
    <2>1. PICK a \in 1..Len(list) : less[i] = list[a] /\ a = IF i < n THEN i ELSE i + 1
      BY <1>1
    <2>2. PICK b \in 1..Len(list) : less[j] = list[b] /\ b = IF j < n THEN j ELSE j + 1
      BY <1>1
    <2>3. list[a] = list[b]
      BY <2>1, <2>2
    <2>4. a = b
      BY <2>3, KeyListFacts
    <2> QED BY <1>0, <2>1, <2>2, <2>4
  <1>4. ASSUME NEW k \in D \ {list[n]} PROVE \E i \in 1..Len(less) : less[i] = k
    <2>1. PICK a \in 1..Len(list) : list[a] = k
      BY KeyListFacts
    <2>2. a # n
      BY <2>1
    <2> DEFINE i == IF a < n THEN a ELSE a - 1
    <2>3. i \in 1..Len(less) /\ less[i] = list[a]
      BY <1>0, <2>2
    <2> QED BY <2>1, <2>3
  <1> QED BY <1>2, <1>3, <1>4, MakesKeyList

LEMMA JoinedKeys ==
    ASSUME NEW S, NEW s \in Seq(S), NEW t \in Seq(S)
    PROVE  /\ s \o t \in Seq(S) /\ Len(s \o t) = Len(s) + Len(t)
           /\ \A i \in 1..(Len(s) + Len(t)) : (s \o t)[i] = IF i <= Len(s) THEN s[i] ELSE t[i - Len(s)]
  OBVIOUS

LEMMA PartOf ==
    ASSUME NEW S, NEW s \in Seq(S), NEW m \in Nat, m <= Len(s), NEW n \in Nat, n <= Len(s) - m
    PROVE  /\ SubSeq(s, m + 1, m + n) \in Seq(S) /\ Len(SubSeq(s, m + 1, m + n)) = n
           /\ \A i \in 1..n : SubSeq(s, m + 1, m + n)[i] = s[m + i]
  OBVIOUS

LEMMA DelistedIs ==
    ASSUME NEW list, NEW D, Lists(list, D), NEW k \in D
    PROVE  Lists(Delisted(list, k), D \ {k})
  <1> DEFINE n == CHOOSE i \in DOMAIN list : list[i] = k
  <1>0. list \in Seq(LruKeys) /\ Len(list) \in Nat /\ DOMAIN list = 1..Len(list)
    BY KeyListFacts
  <1>1. n \in 1..Len(list) /\ list[n] = k
    BY <1>0, KeyListFacts
  <1>2. Delisted(list, k) = SubSeq(list, 1, n - 1) \o SubSeq(list, n + 1, Len(list))
    BY DEF Delisted, RemoveAt
  <1> HIDE DEF n
  <1> DEFINE a == SubSeq(list, 1, n - 1)
             b == SubSeq(list, n + 1, Len(list))
  <1>3. a \in Seq(LruKeys) /\ Len(a) = n - 1 /\ \A i \in 1..(n - 1) : a[i] = list[i]
    BY <1>0, <1>1
  <1>4. b \in Seq(LruKeys) /\ Len(b) = Len(list) - n /\ \A i \in 1..(Len(list) - n) : b[i] = list[n + i]
    <2> DEFINE m == Len(list) - n
    <2>1. m \in Nat /\ n \in Nat /\ n <= Len(list) /\ m <= Len(list) - n /\ n + m = Len(list)
      BY <1>0, <1>1
    <2>2. b = SubSeq(list, n + 1, n + m)
      BY <2>1
    <2> HIDE DEF b, m
    <2>3. b \in Seq(LruKeys) /\ Len(b) = m /\ \A i \in 1..m : b[i] = list[n + i]
      BY <1>0, <2>1, <2>2, PartOf
    <2> QED BY <2>3 DEF m
  <1>5. Delisted(list, k) = a \o b
    BY <1>2
  <1> HIDE DEF a, b
  <1>6. /\ Delisted(list, k) \in Seq(LruKeys) /\ Len(Delisted(list, k)) = Len(a) + Len(b)
        /\ \A i \in 1..(Len(a) + Len(b)) : Delisted(list, k)[i] = IF i <= Len(a) THEN a[i] ELSE b[i - Len(a)]
    <2>1. /\ a \o b \in Seq(LruKeys) /\ Len(a \o b) = Len(a) + Len(b)
          /\ \A i \in 1..(Len(a) + Len(b)) : (a \o b)[i] = IF i <= Len(a) THEN a[i] ELSE b[i - Len(a)]
      BY <1>3, <1>4, JoinedKeys
    <2> QED BY <1>5, <2>1
  <1>7. Len(Delisted(list, k)) = Len(list) - 1
    BY <1>0, <1>1, <1>3, <1>4, <1>6
  <1>8. ASSUME NEW i \in 1..(Len(list) - 1) PROVE Delisted(list, k)[i] = IF i < n THEN list[i] ELSE list[i + 1]
    <2>1. i \in 1..(Len(a) + Len(b)) /\ i \in Nat /\ n \in Nat
      BY <1>0, <1>1, <1>3, <1>4
    <2>2. CASE i < n
      <3>1. i <= Len(a) /\ i \in 1..(n - 1)
        BY <1>3, <2>1, <2>2
      <3> QED BY <1>3, <1>6, <2>1, <2>2, <3>1
    <2>3. CASE ~ (i < n)
      <3>1. ~ (i <= Len(a)) /\ i - Len(a) \in 1..(Len(list) - n) /\ n + (i - Len(a)) = i + 1
        BY <1>0, <1>1, <1>3, <2>1, <2>3
      <3>2. Delisted(list, k)[i] = b[i - Len(a)] /\ b[i - Len(a)] = list[n + (i - Len(a))]
        BY <1>4, <1>6, <2>1, <3>1
      <3> QED BY <2>3, <3>1, <3>2
    <2> QED BY <2>2, <2>3
  <1>9. Lists(Delisted(list, k), D \ {list[n]})
    BY <1>1, <1>6, <1>7, <1>8, OneLess
  <1> QED BY <1>1, <1>9

LEMMA FrontIs ==
    ASSUME NEW list, NEW D, Lists(list, D), list # <<>>
    PROVE  Last(list) \in D /\ Lists(Front(list), D \ {Last(list)}) /\ Len(Front(list)) = Len(list) - 1
  <1>0. list \in Seq(LruKeys) /\ Len(list) \in Nat /\ Len(list) # 0
    BY KeyListFacts
  <1> DEFINE n == Len(list)
  <1>1. n \in 1..n /\ Last(list) = list[n]
    BY <1>0 DEF Last
  <1>2. Front(list) = SubSeq(list, 1, n - 1)
    BY DEF Front
  <1>3. Front(list) \in Seq(LruKeys) /\ Len(Front(list)) = n - 1 /\ \A i \in 1..(n - 1) : Front(list)[i] = list[i]
    <2> DEFINE m == n - 1
    <2>1. m \in Nat /\ m <= Len(list) - 0 /\ 0 \in Nat /\ 0 <= Len(list)
      BY <1>0
    <2>2. Front(list) = SubSeq(list, 0 + 1, 0 + m)
      BY <1>2, <2>1
    <2> HIDE DEF m
    <2>3. Front(list) \in Seq(LruKeys) /\ Len(Front(list)) = m /\ \A i \in 1..m : Front(list)[i] = list[0 + i]
      BY <1>0, <2>1, <2>2, PartOf
    <2>4. \A i \in 1..m : 0 + i = i
      BY <2>1
    <2> QED BY <2>3, <2>4 DEF m
  <1>4. \A i \in 1..(n - 1) : Front(list)[i] = IF i < n THEN list[i] ELSE list[i + 1]
    BY <1>0, <1>3
  <1>5. Lists(Front(list), D \ {list[n]})
    BY <1>1, <1>3, <1>4, OneLess
  <1> QED BY <1>1, <1>3, <1>5, KeyListFacts

LEMMA InFront ==
    ASSUME NEW list, NEW D, Lists(list, D), NEW k \in LruKeys \ D
    PROVE  Lists(<<k>> \o list, D \union {k}) /\ Len(<<k>> \o list) = Len(list) + 1
  <1> DEFINE more == <<k>> \o list
  <1>0. list \in Seq(LruKeys) /\ Len(list) \in Nat
    BY KeyListFacts
  <1>1. more \in Seq(LruKeys) /\ Len(more) = Len(list) + 1 /\ more[1] = k /\ \A i \in 2..(Len(list) + 1) : more[i] = list[i - 1]
    BY <1>0
  <1> HIDE DEF more
  <1>2. \A i \in 1..Len(more) : i = 1 \/ (i \in 2..(Len(list) + 1) /\ i - 1 \in 1..Len(list))
    BY <1>0, <1>1
  <1>3. \A i \in 1..Len(more) : more[i] \in D \union {k}
    BY <1>1, <1>2, KeyListFacts
  <1>4. \A i, j \in 1..Len(more) : more[i] = more[j] => i = j
    <2> SUFFICES ASSUME NEW i \in 1..Len(more), NEW j \in 1..Len(more), more[i] = more[j] PROVE i = j
      OBVIOUS
    <2>1. CASE i = 1 /\ j = 1
      BY <2>1
    <2>a. ASSUME NEW q \in 1..Len(more), q # 1 PROVE more[q] # more[1]
      <3>1. more[q] = list[q - 1] /\ q - 1 \in 1..Len(list)
        BY <1>1, <1>2, <2>a
      <3>2. more[q] \in D
        BY <3>1, KeyListFacts
      <3> QED BY <1>1, <3>2
    <2>2. CASE i = 1 /\ j # 1
      BY <2>2, <2>a
    <2>3. CASE i # 1 /\ j = 1
      BY <2>3, <2>a
    <2>4. CASE i # 1 /\ j # 1
      <3>1. list[i - 1] = list[j - 1] /\ i - 1 \in 1..Len(list) /\ j - 1 \in 1..Len(list)
        BY <1>1, <1>2, <2>4
      <3>2. i - 1 = j - 1
        BY <3>1, KeyListFacts
      <3> QED BY <3>2
    <2> QED BY <2>1, <2>2, <2>3, <2>4
  <1>5. ASSUME NEW q \in D \union {k} PROVE \E i \in 1..Len(more) : more[i] = q
    <2>1. CASE q = k
      <3>1. 1 \in 1..Len(more)
        BY <1>0, <1>1
      <3> QED BY <1>1, <2>1, <3>1
    <2>2. CASE q # k
      <3>1. PICK a \in 1..Len(list) : list[a] = q
        BY <2>2, KeyListFacts
      <3>2. a + 1 \in 1..Len(more) /\ a + 1 \in 2..(Len(list) + 1) /\ (a + 1) - 1 = a
        BY <1>0, <1>1
      <3> QED BY <1>1, <3>1, <3>2
    <2> QED BY <2>1, <2>2
  <1> QED BY <1>1, <1>3, <1>4, <1>5, MakesKeyList DEF more

LEMMA EvictMakesRoom ==
    ASSUME NEW m, NEW list, Lists(list, DOMAIN m), NEW r, r = LruEvicted(m, list),
           MaxHeld > 0 => Len(list) <= MaxHeld
    PROVE  /\ Lists(r.list, DOMAIN r.map) /\ DOMAIN r.map \subseteq DOMAIN m
           /\ r.out \subseteq DOMAIN m /\ r.out \intersect DOMAIN r.map = {}
           /\ MaxHeld > 0 => Len(r.list) < MaxHeld
  <1>0. Len(list) \in Nat /\ Cardinality(DOMAIN m) = Len(list) /\ MaxHeld \in Nat
    BY KeyListCounts, KeyListFacts, LruMemoryAssumption
  <1>1. CASE MaxHeld = 0 \/ Cardinality(DOMAIN m) < MaxHeld \/ list = <<>>
    <2>1. r = [map |-> m, list |-> list, out |-> {}]
      BY <1>1 DEF LruEvicted
    <2>2. r.map = m /\ r.list = list /\ r.out = {}
      BY <2>1
    <2>3. MaxHeld > 0 => Len(list) < MaxHeld
      <3>1. CASE MaxHeld = 0
        BY <3>1
      <3>2. CASE Cardinality(DOMAIN m) < MaxHeld
        BY <1>0, <3>2
      <3>3. CASE list = <<>>
        <4>1. Len(list) = 0
          BY <3>3
        <4> QED BY <1>0, <4>1
      <3> QED BY <1>1, <3>1, <3>2, <3>3
    <2> QED BY <2>2, <2>3
  <1>2. CASE ~ (MaxHeld = 0 \/ Cardinality(DOMAIN m) < MaxHeld \/ list = <<>>)
    <2>1. r = [map |-> Erased(m, {Last(list)}), list |-> Front(list), out |-> {Last(list)}]
      BY <1>2 DEF LruEvicted
    <2>2. r.map = Erased(m, {Last(list)}) /\ r.list = Front(list) /\ r.out = {Last(list)}
      BY <2>1
    <2>3. DOMAIN r.map = DOMAIN m \ {Last(list)}
      BY <2>2 DEF Erased
    <2>4. Last(list) \in DOMAIN m /\ Lists(Front(list), DOMAIN m \ {Last(list)}) /\ Len(Front(list)) = Len(list) - 1
      BY <1>2, FrontIs
    <2>5. MaxHeld > 0 => Len(list) - 1 < MaxHeld
      BY <1>0
    <2> QED BY <2>2, <2>3, <2>4, <2>5
  <1> QED BY <1>1, <1>2

(* The list has every key of the map once, and there is room for them. *)
LruInv ==
    /\ Lists(recent, DOMAIN lruMap)
    /\ MaxHeld > 0 => Len(recent) <= MaxHeld
    /\ pushed \intersect DOMAIN lruMap = {}

LEMMA DelistedLength ==
    ASSUME NEW list, NEW D, Lists(list, D), NEW k \in D
    PROVE  Len(Delisted(list, k)) = Len(list) - 1
  <1>1. Lists(Delisted(list, k), D \ {k})
    BY DelistedIs
  <1>2. IsFiniteSet(D) /\ Cardinality(D) = Len(list) /\ Len(list) \in Nat
    BY KeyListCounts, KeyListFacts
  <1>3. Cardinality(D \ {k}) = Len(Delisted(list, k))
    BY <1>1, KeyListCounts
  <1>4. Cardinality(D \ {k}) = Cardinality(D) - 1
    BY <1>2, FS_RemoveElement
  <1> QED BY <1>2, <1>3, <1>4

LEMMA LruPutKeeps ==
    ASSUME LruInv, NEW k \in LruKeys, NEW ttl, LruPut(k, ttl)
    PROVE  LruInv'
  <1> DEFINE rest == IF k \in DOMAIN lruMap THEN Delisted(recent, k) ELSE recent
             m == Erased(lruMap, {k})
             room == LruEvicted(m, rest)
  <1>1. /\ lruMap' = [j \in DOMAIN room.map \union {k} |->
             IF j = k THEN [ttl |-> ttl, expired |-> FALSE] ELSE room.map[j]]
        /\ recent' = <<k>> \o room.list /\ pushed' = room.out
    BY DEF LruPut
  <1>2. DOMAIN m = DOMAIN lruMap \ {k}
    BY DEF Erased
  <1>3. Lists(rest, DOMAIN lruMap \ {k}) /\ (MaxHeld > 0 => Len(rest) <= MaxHeld)
    <2>1. CASE k \in DOMAIN lruMap
      <3>1. rest = Delisted(recent, k)
        BY <2>1
      <3>2. Lists(rest, DOMAIN lruMap \ {k}) /\ Len(rest) = Len(recent) - 1 /\ Len(recent) \in Nat /\ MaxHeld \in Nat
        BY <2>1, <3>1, DelistedIs, DelistedLength, KeyListFacts, LruMemoryAssumption DEF LruInv
      <3> QED BY <3>2 DEF LruInv
    <2>2. CASE k \notin DOMAIN lruMap
      <3>1. rest = recent /\ DOMAIN lruMap \ {k} = DOMAIN lruMap
        BY <2>2
      <3> QED BY <3>1 DEF LruInv
    <2> QED BY <2>1, <2>2
  <1> HIDE DEF m, rest
  <1>4. /\ Lists(room.list, DOMAIN room.map) /\ DOMAIN room.map \subseteq DOMAIN m
        /\ room.out \subseteq DOMAIN m /\ room.out \intersect DOMAIN room.map = {}
        /\ MaxHeld > 0 => Len(room.list) < MaxHeld
    BY <1>2, <1>3, EvictMakesRoom
  <1> HIDE DEF room
  <1>5. k \notin DOMAIN room.map /\ k \notin room.out
    BY <1>2, <1>4
  <1>6. DOMAIN lruMap' = DOMAIN room.map \union {k}
    BY <1>1
  <1>7. Lists(<<k>> \o room.list, DOMAIN room.map \union {k}) /\ Len(<<k>> \o room.list) = Len(room.list) + 1
    BY <1>4, <1>5, InFront
  <1>8. Len(room.list) \in Nat /\ MaxHeld \in Nat
    BY <1>4, KeyListFacts, LruMemoryAssumption
  <1>9. MaxHeld > 0 => Len(room.list) + 1 <= MaxHeld
    BY <1>4, <1>8
  <1>10. pushed' \intersect DOMAIN lruMap' = {}
    BY <1>1, <1>4, <1>5, <1>6
  <1> QED BY <1>1, <1>6, <1>7, <1>9, <1>10 DEF LruInv

LEMMA LruStepKeeps ==
    ASSUME LruInv, [LruMemoryNext]_lruMemoryVars
    PROVE  LruInv'
  <1>0. Len(recent) \in Nat /\ MaxHeld \in Nat
    BY KeyListFacts, LruMemoryAssumption DEF LruInv
  <1>a. ASSUME NEW k \in DOMAIN lruMap, lruMap' = Erased(lruMap, {k}), recent' = Delisted(recent, k), pushed' = {}
        PROVE LruInv'
    <2>1. DOMAIN lruMap' = DOMAIN lruMap \ {k}
      BY <1>a DEF Erased
    <2>2. Lists(Delisted(recent, k), DOMAIN lruMap \ {k}) /\ Len(Delisted(recent, k)) = Len(recent) - 1
      BY DelistedIs, DelistedLength DEF LruInv
    <2>3. MaxHeld > 0 => Len(recent) - 1 <= MaxHeld
      BY <1>0 DEF LruInv
    <2> QED BY <1>a, <2>1, <2>2, <2>3 DEF LruInv
  <1>1. CASE LruClear
    <2>1. DOMAIN lruMap' = {} /\ recent' = <<>> /\ pushed' = {} /\ Len(recent') = 0
      BY <1>1 DEF LruClear
    <2>2. Lists(<<>>, {})
      BY NoList
    <2> QED BY <1>0, <2>1, <2>2 DEF LruInv
  <1>2. ASSUME NEW k \in LruKeys, LruGet(k) PROVE LruInv'
    <2>1. k \in DOMAIN lruMap /\ pushed' = {}
      BY <1>2 DEF LruGet
    <2>2. CASE lruMap[k].expired
      BY <1>2, <1>a, <2>1, <2>2 DEF LruGet
    <2>3. CASE ~ lruMap[k].expired
      <3>1. lruMap' = lruMap /\ recent' = <<k>> \o Delisted(recent, k)
        BY <1>2, <2>3 DEF LruGet
      <3>2. Lists(Delisted(recent, k), DOMAIN lruMap \ {k}) /\ Len(Delisted(recent, k)) = Len(recent) - 1
        BY <2>1, DelistedIs, DelistedLength DEF LruInv
      <3>3. /\ Lists(<<k>> \o Delisted(recent, k), (DOMAIN lruMap \ {k}) \union {k})
            /\ Len(<<k>> \o Delisted(recent, k)) = (Len(recent) - 1) + 1
        <4>1. k \in LruKeys \ (DOMAIN lruMap \ {k})
          OBVIOUS
        <4> DEFINE others == DOMAIN lruMap \ {k}
                   list == Delisted(recent, k)
        <4>2. Lists(list, others) /\ k \in LruKeys \ others /\ Len(list) = Len(recent) - 1
          BY <3>2, <4>1
        <4> HIDE DEF others, list
        <4>3. Lists(<<k>> \o list, others \union {k}) /\ Len(<<k>> \o list) = Len(list) + 1
          BY <4>2, InFront
        <4> QED BY <4>2, <4>3 DEF others, list
      <3>4. (DOMAIN lruMap \ {k}) \union {k} = DOMAIN lruMap
        BY <2>1
      <3>5. (Len(recent) - 1) + 1 = Len(recent)
        BY <1>0
      <3> QED BY <2>1, <3>1, <3>3, <3>4, <3>5 DEF LruInv
    <2> QED BY <2>2, <2>3
  <1>3. ASSUME NEW k \in LruKeys, LruRemove(k) PROVE LruInv'
    BY <1>3, <1>a DEF LruRemove
  <1>4. ASSUME NEW k \in LruKeys, LruExpires(k) PROVE LruInv'
    <2>1. DOMAIN lruMap' = DOMAIN lruMap /\ recent' = recent /\ pushed' = {}
      BY <1>4 DEF LruExpires
    <2> QED BY <2>1 DEF LruInv
  <1>5. CASE UNCHANGED lruMemoryVars
    BY <1>5 DEF lruMemoryVars, LruInv
  <1> QED BY <1>1, <1>2, <1>3, <1>4, <1>5, LruPutKeeps DEF LruMemoryNext

LEMMA LruStays == LruMemorySpec => []ListIsMap
  <1>1. LruMemoryInit => LruInv
    <2> SUFFICES ASSUME LruMemoryInit PROVE LruInv
      OBVIOUS
    <2>1. DOMAIN lruMap = {} /\ recent = <<>> /\ pushed = {} /\ Len(recent) = 0 /\ MaxHeld \in Nat
      BY LruMemoryAssumption DEF LruMemoryInit
    <2>2. Lists(<<>>, {})
      BY NoList
    <2> QED BY <2>1, <2>2 DEF LruInv
  <1>2. LruInv /\ [LruMemoryNext]_lruMemoryVars => LruInv'
    BY LruStepKeeps
  <1>3. LruInv => ListIsMap
    BY DEF LruInv, ListIsMap, Lists, IsListOf, ToSet, Range
  <1> QED BY <1>1, <1>2, <1>3, PTL DEF LruMemorySpec

-----------------------------------------------------------------------------
(* One key of the two storages: fo is what FileStorage has, td and bd      *)
(* MemoryStorage, g what was given last; dm and fg are the keys that a     *)
(* failure of the disk or a restart has spoilt.                            *)
FileHas(k, fo, g) == IF g.as = "nothing" THEN k \notin DOMAIN fo ELSE k \in DOMAIN fo /\ fo[k] = g.what
MemoryHas(k, td, bd, g) ==
    /\ g.as = "nothing" => k \notin DOMAIN td
    /\ g.as = "text" => k \in DOMAIN td /\ td[k] = g.what
    /\ g.as = "bytes" => k \in DOMAIN bd /\ bd[k] = g.what
KeyKept(k, fo, td, bd, g, dm, fg) ==
    /\ k \notin dm => FileHas(k, fo, g)
    /\ k \notin fg => MemoryHas(k, td, bd, g)
    /\ k \in fg => k \notin DOMAIN td

Givens == {Nothing} \union [as : {"text", "bytes"}, what : Contents]

StoragesInv ==
    /\ DOMAIN fileOf \subseteq StorageKeys /\ DOMAIN textData \subseteq StorageKeys
    /\ damaged \subseteq StorageKeys /\ forgotten \subseteq StorageKeys
    /\ given \in [StorageKeys -> Givens]
    /\ \A k \in StorageKeys : KeyKept(k, fileOf, textData, bytesData, given[k], damaged, forgotten)

(* At a key j a function of k alone stays as it is. *)
SameAt(j, f, f1) == (j \in DOMAIN f1 <=> j \in DOMAIN f) /\ (j \in DOMAIN f => f1[j] = f[j])

LEMMA WithKey ==
    ASSUME NEW f, NEW k, NEW v, NEW f1, f1 = Including(f, k, v)
    PROVE  DOMAIN f1 = DOMAIN f \union {k} /\ k \in DOMAIN f1 /\ f1[k] = v /\ \A j : j # k => SameAt(j, f, f1)
  BY DEF Including, SameAt

LEMMA WithoutKey ==
    ASSUME NEW f, NEW k, NEW f1, f1 = Excluding(f, k)
    PROVE  DOMAIN f1 = DOMAIN f \ {k} /\ k \notin DOMAIN f1 /\ \A j : j # k => SameAt(j, f, f1)
  BY DEF Excluding, SameAt

LEMMA KeyStays ==
    ASSUME NEW j, NEW fo, NEW td, NEW bd, NEW g, NEW dm, NEW fg, KeyKept(j, fo, td, bd, g, dm, fg),
           NEW fo1, NEW td1, NEW bd1, NEW dm1, NEW fg1,
           SameAt(j, fo, fo1), SameAt(j, td, td1), SameAt(j, bd, bd1),
           j \in dm1 <=> j \in dm, j \in fg1 <=> j \in fg
    PROVE  KeyKept(j, fo1, td1, bd1, g, dm1, fg1)
  BY DEF KeyKept, FileHas, MemoryHas, SameAt

(* A call that is about the key k only *)
LEMMA OneKey ==
    ASSUME StoragesInv, NEW k \in StorageKeys, NEW g \in Givens, given' = [given EXCEPT ![k] = g],
           DOMAIN fileOf' \subseteq StorageKeys, DOMAIN textData' \subseteq StorageKeys,
           damaged' \in {damaged \union {k}, damaged \ {k}}, forgotten' = forgotten \ {k},
           \A j : j # k => SameAt(j, fileOf, fileOf') /\ SameAt(j, textData, textData') /\ SameAt(j, bytesData, bytesData'),
           k \notin damaged' => FileHas(k, fileOf', g), MemoryHas(k, textData', bytesData', g)
    PROVE  StoragesInv'
  <1>1. /\ given' \in [StorageKeys -> Givens] /\ given'[k] = g
        /\ \A j \in StorageKeys : j # k => given'[j] = given[j]
    BY DEF StoragesInv
  <1>2. damaged' \subseteq StorageKeys /\ forgotten' \subseteq StorageKeys
    BY DEF StoragesInv
  <1>3. KeyKept(k, fileOf', textData', bytesData', g, damaged', forgotten')
    BY DEF KeyKept
  <1>4. ASSUME NEW j \in StorageKeys, j # k
        PROVE  KeyKept(j, fileOf', textData', bytesData', given[j], damaged', forgotten')
    <2>1. KeyKept(j, fileOf, textData, bytesData, given[j], damaged, forgotten)
      BY DEF StoragesInv
    <2>2. (j \in damaged' <=> j \in damaged) /\ (j \in forgotten' <=> j \in forgotten)
      BY <1>4
    <2>3. SameAt(j, fileOf, fileOf') /\ SameAt(j, textData, textData') /\ SameAt(j, bytesData, bytesData')
      BY <1>4
    <2> QED BY <2>1, <2>2, <2>3, KeyStays
  <1>5. \A j \in StorageKeys : KeyKept(j, fileOf', textData', bytesData', given'[j], damaged', forgotten')
    BY <1>1, <1>3, <1>4
  <1> QED BY <1>1, <1>2, <1>5 DEF StoragesInv

LEMMA SameIsSame == ASSUME NEW f PROVE \A j : SameAt(j, f, f)
  BY DEF SameAt

LEMMA NothingIs == Nothing \in Givens /\ Nothing.as = "nothing" /\ Nothing.what = "none"
  BY DEF Nothing, Givens

(* What a write does to the file *)
LEMMA FileIsWritten ==
    ASSUME StoragesInv, NEW k \in StorageKeys, NEW v, WriteFile(k, v), NEW g, g.as # "nothing", g.what = v
    PROVE  /\ DOMAIN fileOf' \subseteq StorageKeys /\ \A j : j # k => SameAt(j, fileOf, fileOf')
           /\ damaged' \in {damaged \union {k}, damaged \ {k}}
           /\ k \notin damaged' => FileHas(k, fileOf', g)
  <1>1. DOMAIN fileOf \subseteq StorageKeys
    BY DEF StoragesInv
  <1>2. CASE fileOf' = Including(fileOf, k, v) /\ damaged' = damaged \ {k}
    <2>1. /\ DOMAIN fileOf' = DOMAIN fileOf \union {k} /\ k \in DOMAIN fileOf' /\ fileOf'[k] = v
          /\ \A j : j # k => SameAt(j, fileOf, fileOf')
      BY <1>2 DEF Including, SameAt
    <2>2. FileHas(k, fileOf', g)
      BY <2>1 DEF FileHas
    <2> QED BY <1>1, <1>2, <2>1, <2>2
  <1>3. CASE fileOf' = Including(fileOf, k, "cut") /\ damaged' = damaged \union {k}
    <2>1. DOMAIN fileOf' = DOMAIN fileOf \union {k} /\ \A j : j # k => SameAt(j, fileOf, fileOf')
      BY <1>3 DEF Including, SameAt
    <2> QED BY <1>1, <1>3, <2>1
  <1>4. CASE fileOf' = fileOf /\ damaged' = damaged \union {k}
    BY <1>1, <1>4, SameIsSame
  <1> QED BY <1>2, <1>3, <1>4 DEF WriteFile

LEMMA StoragesKeep ==
    ASSUME StoragesInv, [StoragesNext]_storagesVars
    PROVE  StoragesInv'
  <1>0. DOMAIN fileOf \subseteq StorageKeys /\ DOMAIN textData \subseteq StorageKeys /\ damaged \subseteq StorageKeys
    BY DEF StoragesInv
  <1>n. DOMAIN NoData = {} /\ AllGone \in [StorageKeys -> Givens] /\ \A k \in StorageKeys : AllGone[k] = Nothing
    BY NothingIs DEF NoData, AllGone
  <1>1. CASE OpenStorage \/ CloseStorage \/ UNCHANGED storagesVars
    BY <1>1 DEF OpenStorage, CloseStorage, storagesVars, StoragesInv
  <1>2. CASE ClearAll
    <2>1. PICK left \in SUBSET DOMAIN fileOf : fileOf' = [k \in left |-> fileOf[k]] /\ damaged' = left
      BY <1>2 DEF ClearAll
    <2>2. textData' = NoData /\ bytesData' = NoData /\ given' = AllGone /\ forgotten' = {}
      BY <1>2 DEF ClearAll
    <2>3. DOMAIN fileOf' = left
      BY <2>1
    <2>4. \A k \in StorageKeys : KeyKept(k, fileOf', textData', bytesData', given'[k], damaged', forgotten')
      BY <1>n, <2>1, <2>2, <2>3, NothingIs DEF KeyKept, FileHas, MemoryHas
    <2> QED BY <1>0, <1>n, <2>1, <2>2, <2>3, <2>4 DEF StoragesInv
  <1>3. CASE RestartStorage
    <2>1. /\ textData' = NoData /\ bytesData' = NoData /\ forgotten' = StorageKeys
          /\ fileOf' = fileOf /\ given' = given /\ damaged' = damaged
      BY <1>3 DEF RestartStorage
    <2>2. \A k \in StorageKeys : KeyKept(k, fileOf, NoData, NoData, given[k], damaged, StorageKeys)
      BY <1>n DEF StoragesInv, KeyKept
    <2> QED BY <1>n, <2>1, <2>2 DEF StoragesInv
  <1>4. ASSUME NEW k \in StorageKeys, RemoveStored(k) PROVE StoragesInv'
    <2>1. /\ textData' = Excluding(textData, k) /\ bytesData' = bytesData /\ forgotten' = forgotten \ {k}
          /\ given' = [given EXCEPT ![k] = Nothing]
      BY <1>4 DEF RemoveStored
    <2>2. \/ fileOf' = Excluding(fileOf, k) /\ damaged' = damaged \ {k}
          \/ fileOf' = fileOf /\ damaged' = damaged \union {k}
      BY <1>4 DEF RemoveStored
    <2>t. /\ DOMAIN textData' = DOMAIN textData \ {k} /\ k \notin DOMAIN textData'
          /\ \A j : j # k => SameAt(j, textData, textData')
      BY <2>1, WithoutKey
    <2>b. \A j : SameAt(j, bytesData, bytesData')
      BY <2>1, SameIsSame
    <2>f. /\ DOMAIN fileOf' \subseteq DOMAIN fileOf /\ (k \in damaged' \/ k \notin DOMAIN fileOf')
          /\ \A j : j # k => SameAt(j, fileOf, fileOf')
      <3>1. CASE fileOf' = Excluding(fileOf, k)
        <4>1. /\ DOMAIN fileOf' = DOMAIN fileOf \ {k} /\ k \notin DOMAIN fileOf'
              /\ \A j : j # k => SameAt(j, fileOf, fileOf')
          BY <3>1, WithoutKey
        <4> QED BY <4>1
      <3>2. CASE fileOf' = fileOf /\ damaged' = damaged \union {k}
        BY <3>2, SameIsSame
      <3> QED BY <2>2, <3>1, <3>2
    <2>3. /\ DOMAIN fileOf' \subseteq StorageKeys /\ DOMAIN textData' \subseteq StorageKeys
          /\ \A j : j # k => SameAt(j, fileOf, fileOf') /\ SameAt(j, textData, textData') /\ SameAt(j, bytesData, bytesData')
      BY <1>0, <2>t, <2>b, <2>f
    <2>4. k \notin damaged' => FileHas(k, fileOf', Nothing)
      BY <2>f, NothingIs DEF FileHas
    <2>5. MemoryHas(k, textData', bytesData', Nothing)
      BY <2>t, NothingIs DEF MemoryHas
    <2> QED BY <2>1, <2>2, <2>3, <2>4, <2>5, NothingIs, OneKey
  <1>5. ASSUME NEW v \in Contents, NEW k \in StorageKeys, PutText(k, v) \/ PutBytes(k, v) PROVE StoragesInv'
    <2>1. \A as \in {"text", "bytes"} : [as |-> as, what |-> v] \in Givens /\ [as |-> as, what |-> v].as = as
                                         /\ [as |-> as, what |-> v].what = v
      BY DEF Givens
    <2>2. WriteFile(k, v) /\ forgotten' = forgotten \ {k}
      BY <1>5 DEF PutText, PutBytes
    <2>3. CASE PutText(k, v)
      <3> DEFINE g == [as |-> "text", what |-> v]
      <3>1. g \in Givens /\ g.as = "text" /\ g.what = v
        BY <2>1
      <3>2. textData' = Including(textData, k, v) /\ bytesData' = bytesData /\ given' = [given EXCEPT ![k] = g]
        BY <2>3 DEF PutText
      <3> HIDE DEF g
      <3>w. /\ DOMAIN textData' = DOMAIN textData \union {k} /\ k \in DOMAIN textData' /\ textData'[k] = v
            /\ \A j : j # k => SameAt(j, textData, textData')
        BY <3>2 DEF Including, SameAt
      <3>3. MemoryHas(k, textData', bytesData', g)
        BY <3>1, <3>w DEF MemoryHas
      <3>4. /\ DOMAIN textData' \subseteq StorageKeys
            /\ \A j : j # k => SameAt(j, textData, textData') /\ SameAt(j, bytesData, bytesData')
        BY <1>0, <3>2, <3>w, SameIsSame
      <3>5. /\ DOMAIN fileOf' \subseteq StorageKeys /\ \A j : j # k => SameAt(j, fileOf, fileOf')
            /\ damaged' \in {damaged \union {k}, damaged \ {k}}
            /\ k \notin damaged' => FileHas(k, fileOf', g)
        BY <2>2, <3>1, FileIsWritten
      <3> QED BY <2>2, <3>1, <3>2, <3>3, <3>4, <3>5, OneKey
    <2>4. CASE PutBytes(k, v)
      <3> DEFINE g == [as |-> "bytes", what |-> v]
      <3>1. g \in Givens /\ g.as = "bytes" /\ g.what = v
        BY <2>1
      <3>2. bytesData' = Including(bytesData, k, v) /\ textData' = textData /\ given' = [given EXCEPT ![k] = g]
        BY <2>4 DEF PutBytes
      <3> HIDE DEF g
      <3>w. /\ DOMAIN bytesData' = DOMAIN bytesData \union {k} /\ k \in DOMAIN bytesData' /\ bytesData'[k] = v
            /\ \A j : j # k => SameAt(j, bytesData, bytesData')
        BY <3>2 DEF Including, SameAt
      <3>3. MemoryHas(k, textData', bytesData', g)
        BY <3>1, <3>w DEF MemoryHas
      <3>4. /\ DOMAIN textData' \subseteq StorageKeys
            /\ \A j : j # k => SameAt(j, textData, textData') /\ SameAt(j, bytesData, bytesData')
        BY <1>0, <3>2, <3>w, SameIsSame
      <3>5. /\ DOMAIN fileOf' \subseteq StorageKeys /\ \A j : j # k => SameAt(j, fileOf, fileOf')
            /\ damaged' \in {damaged \union {k}, damaged \ {k}}
            /\ k \notin damaged' => FileHas(k, fileOf', g)
        BY <2>2, <3>1, FileIsWritten
      <3> QED BY <2>2, <3>1, <3>2, <3>3, <3>4, <3>5, OneKey
    <2> QED BY <1>5, <2>3, <2>4
  <1> QED BY <1>1, <1>2, <1>3, <1>4, <1>5 DEF StoragesNext

LEMMA AgreeCounts ==
    ASSUME NEW A, IsFiniteSet(A), NEW B, IsFiniteSet(B), NEW X, X \subseteq A \union B
    PROVE  IsFiniteSet(X) /\ Cardinality(X) \in Nat /\ Cardinality(X) <= Cardinality(A) + Cardinality(B)
  <1>1. IsFiniteSet(A \union B) /\ Cardinality(A \union B) = Cardinality(A) + Cardinality(B) - Cardinality(A \intersect B)
    BY FS_Union
  <1>2. IsFiniteSet(A \intersect B)
    BY FS_Intersection
  <1>3. Cardinality(A) \in Nat /\ Cardinality(B) \in Nat /\ Cardinality(A \intersect B) \in Nat
    BY <1>2, FS_CardinalityType
  <1>4. IsFiniteSet(X) /\ Cardinality(X) <= Cardinality(A \union B)
    BY <1>1, FS_Subset
  <1>5. Cardinality(X) \in Nat
    BY <1>4, FS_CardinalityType
  <1> QED BY <1>1, <1>3, <1>4, <1>5

LEMMA AgreeMeans ==
    ASSUME StoragesInv
    PROVE  StoragesAgree
  <1> DEFINE spare == {k \in DOMAIN fileOf : given[k].as = "bytes" \/ k \in forgotten \union damaged}
  <1>0. \A k \in StorageKeys :
          /\ given[k] = Nothing \/ given[k].as \in {"text", "bytes"}
          /\ KeyKept(k, fileOf, textData, bytesData, given[k], damaged, forgotten)
    BY DEF StoragesInv, Givens
  <1>1. IsFiniteSet(DOMAIN fileOf) /\ IsFiniteSet(damaged) /\ IsFiniteSet(spare)
    <2>1. DOMAIN fileOf \subseteq StorageKeys /\ damaged \subseteq StorageKeys /\ spare \subseteq StorageKeys
      BY DEF StoragesInv
    <2> QED BY <2>1, StoragesAssumption, FS_Subset
  <1>2. DOMAIN textData \subseteq DOMAIN fileOf \union damaged
    BY <1>0, NothingIs DEF StoragesInv, KeyKept, FileHas, MemoryHas
  <1>3. DOMAIN fileOf \subseteq DOMAIN textData \union spare
    BY <1>0, NothingIs DEF StoragesInv, KeyKept, FileHas, MemoryHas
  <1> HIDE DEF spare
  <1>4. IsFiniteSet(DOMAIN textData) /\ Cardinality(DOMAIN textData) <= Cardinality(DOMAIN fileOf) + Cardinality(damaged)
    BY <1>1, <1>2, AgreeCounts
  <1>5. Cardinality(DOMAIN fileOf) <= Cardinality(DOMAIN textData) + Cardinality(spare)
    BY <1>1, <1>3, <1>4, AgreeCounts
  <1>6. \A k \in StorageKeys \ damaged : FileGet(k) = given[k].what
    BY <1>0, NothingIs DEF KeyKept, FileHas, FileGet
  <1>7. \A k \in StorageKeys \ forgotten :
          IF given[k].as = "bytes" THEN MemoryGetBytes(k) = given[k].what ELSE MemoryGet(k) = given[k].what
    BY <1>0, NothingIs DEF KeyKept, MemoryHas, MemoryGet, MemoryGetBytes
  <1> QED BY <1>4, <1>5, <1>6, <1>7 DEF StoragesAgree, FileCount, MemoryCount, spare

(* What either storage is asked for is what it was given last, but for     *)
(* keys whose last access to the disk failed, keys MemoryStorage lost in a *)
(* restart, and what MemoryStorage keeps of a key in its other map;        *)
(* sc::MemoryCache keeps its list and its map alike: StoresSound, for any  *)
(* finite set of keys, used with put() and putBytes() alike, any limit and *)
(* any failures of the disk (cache.h, file_storage.cpp,                    *)
(* memory_storage.cpp).                                                    *)
THEOREM StoresCorrect == LruMemorySpec /\ StoragesSpec => []StoresSound
  <1>1. StoragesInit => StoragesInv
    <2> SUFFICES ASSUME StoragesInit PROVE StoragesInv
      OBVIOUS
    <2>1. DOMAIN NoData = {} /\ AllGone \in [StorageKeys -> Givens] /\ \A k \in StorageKeys : AllGone[k] = Nothing
      BY NothingIs DEF NoData, AllGone
    <2>2. \A k \in StorageKeys : KeyKept(k, NoData, NoData, NoData, AllGone[k], {}, {})
      BY <2>1, NothingIs DEF KeyKept, FileHas, MemoryHas
    <2> QED BY <2>1, <2>2 DEF StoragesInit, StoragesInv
  <1>2. StoragesInv /\ [StoragesNext]_storagesVars => StoragesInv'
    BY StoragesKeep
  <1>3. StoragesInv => StoragesAgree
    BY AgreeMeans
  <1>4. StoragesSpec => []StoragesAgree
    BY <1>1, <1>2, <1>3, PTL DEF StoragesSpec
  <1>5. ListIsMap /\ StoragesAgree => StoresSound
    BY DEF StoresSound
  <1> QED BY <1>4, <1>5, LruStays, PTL

-----------------------------------------------------------------------------
(* The sum and the list of sc::DiskCache of the storage library.           *)
Typed(rec, sum, list) ==
    DOMAIN rec \subseteq FileKeys /\ HasSizes(rec, DOMAIN rec) /\ sum \in Int /\ list \in Seq(FileKeys)
Summed(rec, sum, list) == SumOver(rec, DOMAIN rec) <= sum /\ DOMAIN rec \subseteq Range(list)

(* What put() relies on between taking the old size of k off the sum and   *)
(* recording the new one.                                                  *)
CountedBut(rec, sum, list, k) ==
    /\ SumOver(rec, DOMAIN rec \ {k}) <= sum /\ DOMAIN rec \ {k} \subseteq Range(list)
    /\ k \notin DOMAIN rec \cap Range(list)

(* A recorded size is taken off the sum *)
LEMMA SizeOff ==
    ASSUME NEW rec, NEW sum, NEW list, Typed(rec, sum, list), NEW k
    PROVE  /\ SizeIn(rec, k) \in Nat /\ sum - SizeIn(rec, k) \in Int
           /\ HasSizes(rec, DOMAIN rec \ {k}) /\ SumOver(rec, DOMAIN rec \ {k}) \in Nat
           /\ SumOver(rec, DOMAIN rec) = SumOver(rec, DOMAIN rec \ {k}) + SizeIn(rec, k)
  <1> DEFINE D == DOMAIN rec
  <1>1. HasSizes(rec, D) /\ sum \in Int
    BY DEF Typed
  <1>2. CASE k \in D
    <2>1. SizeIn(rec, k) = rec[k]
      BY <1>2 DEF SizeIn
    <2>2. /\ rec[k] \in Nat /\ SumOver(rec, D \ {k}) \in Nat
          /\ SumOver(rec, D) = SumOver(rec, D \ {k}) + rec[k]
      BY <1>1, <1>2, SumWithout
    <2>3. HasSizes(rec, D \ {k})
      BY <1>1, <1>2, SumOfRest
    <2> QED BY <1>1, <2>1, <2>2, <2>3
  <1>3. CASE k \notin D
    <2>1. SizeIn(rec, k) = 0 /\ D \ {k} = D
      BY <1>3 DEF SizeIn
    <2>2. SumOver(rec, D) \in Nat
      BY <1>1, UnitsFinite
    <2> QED BY <1>1, <2>1, <2>2
  <1> QED BY <1>2, <1>3

(* The sum over a part of the recorded keys *)
LEMMA PartIs ==
    ASSUME NEW rec, NEW sum, NEW list, Typed(rec, sum, list), NEW A, A \subseteq DOMAIN rec,
           NEW s \in Int, NEW l \in Seq(FileKeys)
    PROVE  /\ Typed([j \in A |-> rec[j]], s, l)
           /\ \A B \in SUBSET A : SumOver([j \in A |-> rec[j]], B) = SumOver(rec, B)
  <1> DEFINE f == [j \in A |-> rec[j]]
  <1>1. HasSizes(rec, A)
    BY SumOfRest DEF Typed
  <1>2. DOMAIN f = A /\ \A j \in A : f[j] = rec[j]
    OBVIOUS
  <1> HIDE DEF f
  <1>3. HasSizes(f, DOMAIN f)
    BY <1>1, <1>2 DEF HasSizes
  <1>4. Typed(f, s, l)
    BY <1>2, <1>3 DEF Typed
  <1>5. \A B \in SUBSET A : SumOver(f, B) = SumOver(rec, B)
    BY <1>2, SumOfSame
  <1> QED BY <1>4, <1>5 DEF f

(* A key is forgotten, in remove() or in get() of a file that is gone *)
LEMMA Forgets ==
    ASSUME NEW rec, NEW sum, NEW list, Typed(rec, sum, list), NEW k \in FileKeys,
           NEW s \in Int, s >= sum - SizeIn(rec, k)
    PROVE  /\ Typed(Dropped(rec, k), s, Only(list, FileKeys \ {k}))
           /\ Summed(rec, sum, list) => Summed(Dropped(rec, k), s, Only(list, FileKeys \ {k}))
  <1> DEFINE D == DOMAIN rec
             A == D \ {k}
             f == [j \in A |-> rec[j]]
             l == Only(list, FileKeys \ {k})
  <1>1. list \in Seq(FileKeys) /\ D \subseteq FileKeys /\ sum \in Int
    BY DEF Typed
  <1>2. l \in Seq(FileKeys) /\ Range(l) = Range(list) \cap (FileKeys \ {k})
    BY <1>1, OnlyKeeps
  <1>3. A \subseteq D /\ Dropped(rec, k) = f /\ DOMAIN f = A
    BY DEF Dropped
  <1>4. /\ SizeIn(rec, k) \in Nat /\ SumOver(rec, A) \in Nat
        /\ SumOver(rec, D) = SumOver(rec, A) + SizeIn(rec, k)
    BY SizeOff
  <1> HIDE DEF l, D
  <1>5. Typed(f, s, l) /\ SumOver(f, A) = SumOver(rec, A)
    BY <1>2, <1>3, PartIs DEF D
  <1>6. ASSUME Summed(rec, sum, list) PROVE Summed(f, s, l)
    <2>1. SumOver(rec, D) <= sum /\ D \subseteq Range(list)
      BY <1>6 DEF Summed, D
    <2> HIDE DEF f
    <2>2. SumOver(f, A) <= s
      BY <1>1, <1>4, <1>5, <2>1
    <2>3. A \subseteq Range(l)
      BY <1>1, <1>2, <2>1
    <2> QED BY <1>3, <2>2, <2>3 DEF Summed
  <1> QED BY <1>3, <1>5, <1>6 DEF l

-----------------------------------------------------------------------------
(* The state put() works on, before and after it makes room *)
IsRoom(c) ==
    \E h, x, r, s, l : c = [held |-> h, expiry |-> x, recorded |-> r, fileBytes |-> s, order |-> l]

LEMMA EvictedCounts ==
    ASSUME NEW c, Typed(c.recorded, c.fileBytes, c.order), NEW k
    PROVE  /\ IsRoom(FileEvicted(c))
           /\ Typed(FileEvicted(c).recorded, FileEvicted(c).fileBytes, FileEvicted(c).order)
           /\ CountedBut(c.recorded, c.fileBytes, c.order, k) =>
                CountedBut(FileEvicted(c).recorded, FileEvicted(c).fileBytes, FileEvicted(c).order, k)
  <1> DEFINE o == c.order
             rec == c.recorded
             D == DOMAIN rec
             marks == {i \in DOMAIN c.order : HasExpired(c.expiry, c.order[i])}
             keep == IF marks = {} THEN 0 ELSE Max(marks) - 1
             gone == ToSet(SubSeq(c.order, keep + 1, Len(c.order)))
             h == c.held \ gone
             times == [j \in DOMAIN c.expiry \ gone |-> c.expiry[j]]
             f == [j \in DOMAIN c.recorded \ gone |-> c.recorded[j]]
             s == c.fileBytes - SizesIn(c.recorded, gone)
             l == SubSeq(c.order, 1, keep)
             e == FileEvicted(c)
  <1>1. e = [held |-> h, expiry |-> times, recorded |-> f, fileBytes |-> s, order |-> l]
    BY DEF FileEvicted
  <1>2. /\ D \subseteq FileKeys /\ HasSizes(rec, D) /\ c.fileBytes \in Int
        /\ o \in Seq(FileKeys) /\ Len(o) \in Nat /\ DOMAIN o = 1..Len(o)
    BY DEF Typed
  <1>3. keep \in 0..Len(o)
    <2>1. CASE marks = {}
      BY <1>2, <2>1
    <2>2. CASE marks # {}
      <3>1. marks \subseteq 1..Len(o) /\ marks \subseteq 0..Len(o)
        BY <1>2
      <3> HIDE DEF marks
      <3>2. \E t \in marks : \A y \in marks : y <= t
        BY <1>2, <2>2, <3>1, Greatest
      <3>3. \A y, t \in marks : y <= t => t >= y
        BY <3>1
      <3>4. \E t \in marks : \A y \in marks : t >= y
        BY <3>2, <3>3
      <3>5. Max(marks) \in marks
        BY <3>4 DEF Max
      <3>6. Max(marks) \in 1..Len(o) /\ keep = Max(marks) - 1
        BY <2>2, <3>1, <3>5
      <3> HIDE DEF keep
      <3> QED BY <1>2, <3>6
    <2> QED BY <2>1, <2>2
  <1> HIDE DEF keep
  <1>4. l \in Seq(FileKeys) /\ Range(o) \subseteq Range(l) \cup gone /\ Range(l) \subseteq Range(o) /\ gone \subseteq Range(o)
    <2> DEFINE t == SubSeq(o, keep + 1, Len(o))
    <2>1. /\ l \in Seq(FileKeys) /\ DOMAIN l = 1..keep /\ \A i \in 1..keep : l[i] = o[i]
      BY <1>2, <1>3
    <2>2. Len(t) = Len(o) - keep /\ DOMAIN t = 1..(Len(o) - keep) /\ \A i \in 1..(Len(o) - keep) : t[i] = o[i + keep]
      BY <1>2, <1>3
    <2>3. gone = Range(t)
      BY DEF ToSet, Range
    <2> HIDE DEF l, t, gone, o
    <2>4. Range(l) \subseteq Range(o)
      <3>1. \A i \in 1..keep : i \in 1..Len(o)
        BY <1>2, <1>3
      <3> QED BY <1>2, <2>1, <3>1 DEF Range
    <2>5. Range(t) \subseteq Range(o)
      <3>1. \A i \in 1..(Len(o) - keep) : i + keep \in 1..Len(o)
        BY <1>2, <1>3
      <3> QED BY <1>2, <2>2, <3>1 DEF Range
    <2>6. ASSUME NEW i \in 1..Len(o) PROVE o[i] \in Range(l) \/ o[i] \in Range(t)
      <3>1. CASE i <= keep
        <4>1. i \in 1..keep
          BY <1>3, <3>1
        <4> QED BY <2>1, <4>1 DEF Range
      <3>2. CASE i > keep
        <4>1. i - keep \in 1..(Len(o) - keep) /\ (i - keep) + keep = i
          BY <1>2, <1>3, <3>2
        <4>2. t[i - keep] = o[i]
          BY <2>2, <4>1
        <4> QED BY <2>2, <4>1, <4>2 DEF Range
      <3> QED BY <1>2, <1>3, <3>1, <3>2
    <2>7. Range(o) \subseteq Range(l) \cup Range(t)
      BY <1>2, <2>6 DEF Range
    <2> QED BY <2>1, <2>3, <2>4, <2>5, <2>7
  <1> HIDE DEF gone, l, o, h
  <1> DEFINE G == gone \cap D
             A == D \ gone
  <1>5. SizesIn(rec, gone) = SumOver(rec, G)
    BY DEF SizesIn
  <1>6. /\ HasSizes(rec, G) /\ SumOver(rec, G) \in Nat /\ s \in Int
    <2>1. HasSizes(rec, G) /\ SumOver(rec, G) \in Nat
      BY <1>2, SumOfRest
    <2> QED BY <1>2, <1>5, <2>1
  <1>7. A \subseteq D /\ DOMAIN f = A
    OBVIOUS
  <1>8. Typed(f, s, l) /\ \A B \in SUBSET A : SumOver(f, B) = SumOver(rec, B)
    <2> HIDE DEF s, D
    <2> QED BY <1>4, <1>6, <1>7, PartIs DEF D
  <1>9. ASSUME CountedBut(rec, c.fileBytes, o, k) PROVE CountedBut(f, s, l, k)
    <2> DEFINE B == A \ {k}
    <2>1. SumOver(rec, D \ {k}) <= c.fileBytes /\ D \ {k} \subseteq Range(o) /\ k \notin D \cap Range(o)
      BY <1>9 DEF CountedBut
    <2>2. B \cup G = D \ {k} /\ B \cap G = {} /\ B \subseteq D /\ B \in SUBSET A
      BY <1>4, <2>1
    <2>3. HasSizes(rec, B)
      BY <1>2, <2>2, SumOfRest
    <2>4. SumOver(rec, B) \in Nat /\ SumOver(rec, B \cup G) = SumOver(rec, B) + SumOver(rec, G)
      BY <1>6, <2>2, <2>3, SumOfParts
    <2>5. SumOver(f, B) = SumOver(rec, B)
      BY <1>8, <2>2
    <2> HIDE DEF f, B, G
    <2>6. SumOver(f, B) <= s
      <3> DEFINE x == SumOver(rec, B)
                 y == SumOver(rec, G)
      <3>1. x \in Nat /\ y \in Nat /\ c.fileBytes \in Int /\ x + y <= c.fileBytes /\ s = c.fileBytes - y
        BY <1>2, <1>5, <1>6, <2>1, <2>2, <2>4
      <3> HIDE DEF x, y, s
      <3>2. x <= s
        BY <3>1
      <3> QED BY <2>5, <3>2 DEF x
    <2>7. B \subseteq Range(l) /\ k \notin A \cap Range(l)
      BY <1>4, <2>1 DEF B
    <2> QED BY <1>7, <2>6, <2>7 DEF CountedBut, B
  <1> HIDE DEF f, s, e
  <1>10. e.recorded = f /\ e.fileBytes = s /\ e.order = l
    BY <1>1
  <1>11. IsRoom(e)
    BY <1>1, Zenon DEF IsRoom
  <1> QED BY <1>8, <1>9, <1>10, <1>11 DEF e, o

LEMMA PreparedCounts ==
    ASSUME Typed(recorded, fileBytes, order), NEW k \in FileKeys, NEW size \in Sizes
    PROVE  LET c == Prepared(k, size)
           IN  /\ Typed(c.recorded, c.fileBytes, c.order)
               /\ Summed(recorded, fileBytes, order) => CountedBut(c.recorded, c.fileBytes, c.order, k)
  <1> DEFINE D == DOMAIN recorded
             s == fileBytes - SizeIn(recorded, k)
             l == IF k \in DOMAIN recorded THEN Only(order, FileKeys \ {k}) ELSE order
             b == [held |-> held, expiry |-> expiry, recorded |-> recorded, fileBytes |-> s, order |-> l]
             c == Prepared(k, size)
  <1>1. D \subseteq FileKeys /\ HasSizes(recorded, D) /\ fileBytes \in Int /\ order \in Seq(FileKeys)
    BY DEF Typed
  <1>2. c = b \/ c = FileEvicted(b)
    BY DEF Prepared
  <1>3. /\ SizeIn(recorded, k) \in Nat /\ s \in Int /\ SumOver(recorded, D \ {k}) \in Nat
        /\ SumOver(recorded, D) = SumOver(recorded, D \ {k}) + SizeIn(recorded, k)
    BY SizeOff
  <1>4. l \in Seq(FileKeys) /\ Range(order) \ {k} \subseteq Range(l) /\ k \notin D \cap Range(l)
    <2> DEFINE t == Only(order, FileKeys \ {k})
    <2>1. t \in Seq(FileKeys) /\ Range(t) = Range(order) \cap (FileKeys \ {k})
      BY <1>1, OnlyKeeps
    <2>2. Range(order) \subseteq FileKeys
      BY <1>1 DEF Range
    <2> HIDE DEF t, D
    <2>3. CASE k \in D
      <3>1. l = t
        BY <2>3 DEF t, D
      <3> HIDE DEF l
      <3> QED BY <2>1, <2>2, <3>1
    <2>4. CASE k \notin D
      <3>1. l = order
        BY <2>4 DEF D
      <3> HIDE DEF l
      <3> QED BY <1>1, <2>4, <3>1
    <2> QED BY <2>3, <2>4
  <1> HIDE DEF l, s, c
  <1>5. b.recorded = recorded /\ b.fileBytes = s /\ b.order = l
    OBVIOUS
  <1> HIDE DEF b
  <1>6. Typed(b.recorded, b.fileBytes, b.order)
    BY <1>1, <1>3, <1>4, <1>5 DEF Typed
  <1>7. ASSUME Summed(recorded, fileBytes, order) PROVE CountedBut(b.recorded, b.fileBytes, b.order, k)
    <2>1. SumOver(recorded, D) <= fileBytes /\ D \subseteq Range(order)
      BY <1>7 DEF Summed
    <2>2. SumOver(recorded, D \ {k}) <= s
      BY <1>1, <1>3, <2>1 DEF s
    <2>3. D \ {k} \subseteq Range(l)
      BY <1>4, <2>1
    <2> QED BY <1>4, <1>5, <2>2, <2>3 DEF CountedBut
  <1>8. /\ Typed(c.recorded, c.fileBytes, c.order)
        /\ Summed(recorded, fileBytes, order) => CountedBut(c.recorded, c.fileBytes, c.order, k)
    <2>1. CASE c = b
      BY <1>6, <1>7, <2>1
    <2>2. CASE c = FileEvicted(b)
      BY <1>6, <1>7, <2>2, EvictedCounts
    <2> QED BY <1>2, <2>1, <2>2
  <1> QED BY <1>8 DEF c

(* A key in front of a list *)
LEMMA InFrontRange ==
    ASSUME NEW S, NEW list \in Seq(S), NEW k \in S
    PROVE  <<k>> \o list \in Seq(S) /\ Range(<<k>> \o list) = Range(list) \cup {k}
  <1> DEFINE l == <<k>> \o list
  <1> DEFINE n == Len(list)
  <1>1. n \in Nat /\ DOMAIN list = 1..n /\ l \in Seq(S)
    OBVIOUS
  <1>2. DOMAIN l = 1..(n + 1) /\ l[1] = k /\ \A i \in 2..(n + 1) : l[i] = list[i - 1]
    OBVIOUS
  <1>3. \A i \in 1..n : i + 1 \in 2..(n + 1) /\ i + 1 \in 1..(n + 1) /\ (i + 1) - 1 = i
    BY <1>1
  <1>4. \A i \in 1..(n + 1) : i = 1 \/ (i \in 2..(n + 1) /\ i - 1 \in 1..n)
    BY <1>1
  <1>5. 1 \in 1..(n + 1)
    BY <1>1
  <1> HIDE DEF n, l
  <1>6. Range(list) \subseteq Range(l)
    <2>1. ASSUME NEW i \in 1..n PROVE list[i] = l[i + 1] /\ i + 1 \in DOMAIN l
      BY <1>2, <1>3
    <2> QED BY <1>1, <2>1 DEF Range
  <1>7. Range(l) \subseteq Range(list) \cup {k}
    <2>1. ASSUME NEW i \in 1..(n + 1) PROVE l[i] \in Range(list) \cup {k}
      <3>1. CASE i = 1
        BY <1>2, <3>1
      <3>2. CASE i \in 2..(n + 1) /\ i - 1 \in 1..n
        BY <1>1, <1>2, <3>2 DEF Range
      <3> QED BY <1>4, <3>1, <3>2
    <2> QED BY <1>2, <2>1 DEF Range
  <1>8. k \in Range(l)
    BY <1>2, <1>5 DEF Range
  <1> QED BY <1>1, <1>6, <1>7, <1>8 DEF l

(* put() records the size and lists the key first *)
LEMMA RecordsCounted ==
    ASSUME NEW rec, NEW sum, NEW list, Typed(rec, sum, list), NEW k \in FileKeys, NEW size \in Sizes
    PROVE  LET f == [j \in DOMAIN rec \cup {k} |-> IF j = k THEN size ELSE rec[j]]
           IN  /\ Typed(f, sum + size, <<k>> \o list)
               /\ CountedBut(rec, sum, list, k) => Summed(f, sum + size, <<k>> \o list)
  <1> DEFINE D == DOMAIN rec
             A == D \ {k}
             f == [j \in DOMAIN rec \cup {k} |-> IF j = k THEN size ELSE rec[j]]
             l == <<k>> \o list
  <1>1. D \subseteq FileKeys /\ HasSizes(rec, D) /\ sum \in Int /\ list \in Seq(FileKeys) /\ size \in Nat
    BY FileCacheAssumption DEF Typed
  <1>2. HasSizes(rec, A) /\ SumOver(rec, A) \in Nat
    BY SizeOff
  <1>3. DOMAIN f = D \cup {k} /\ f[k] = size /\ \A j \in A : f[j] = rec[j]
    OBVIOUS
  <1>4. D \cup {k} = A \cup {k} /\ A \cap {k} = {}
    OBVIOUS
  <1>5. l \in Seq(FileKeys) /\ Range(l) = Range(list) \cup {k}
    BY <1>1, InFrontRange
  <1> HIDE DEF f, A, l
  <1>6. HasSizes(f, A) /\ HasSizes(f, {k})
    BY <1>1, <1>2, <1>3, FS_Singleton DEF HasSizes
  <1>7. SumOver(f, A) = SumOver(rec, A)
    BY <1>3, SumOfSame
  <1>8. SumOver(f, {k}) = size
    BY <1>1, <1>3, SumOfOne
  <1>9. HasSizes(f, A \cup {k}) /\ SumOver(f, A \cup {k}) = SumOver(f, A) + SumOver(f, {k})
    BY <1>4, <1>6, SumOfParts
  <1>10. HasSizes(f, DOMAIN f) /\ SumOver(f, DOMAIN f) = SumOver(rec, A) + size
    BY <1>3, <1>4, <1>7, <1>8, <1>9
  <1>11. Typed(f, sum + size, l)
    BY <1>1, <1>3, <1>5, <1>10 DEF Typed
  <1>12. ASSUME CountedBut(rec, sum, list, k) PROVE Summed(f, sum + size, l)
    <2>1. SumOver(rec, A) <= sum /\ A \subseteq Range(list)
      BY <1>12 DEF CountedBut, A
    <2>2. SumOver(f, DOMAIN f) <= sum + size
      BY <1>1, <1>2, <1>10, <2>1
    <2>3. DOMAIN f \subseteq Range(l)
      BY <1>3, <1>4, <1>5, <2>1
    <2> QED BY <2>2, <2>3 DEF Summed
  <1> QED BY <1>11, <1>12 DEF f, l

FilesInv ==
    Typed(recorded, fileBytes, order) /\ (~unopened => Summed(recorded, fileBytes, order))

LEMMA NothingCounted == Typed(NoSizes, 0, <<>>) /\ Summed(NoSizes, 0, <<>>)
  <1>1. DOMAIN NoSizes = {}
    BY DEF NoSizes
  <1>2. HasSizes(NoSizes, {}) /\ SumOver(NoSizes, {}) = 0
    BY FS_EmptySet, SumOfNone DEF HasSizes
  <1> QED BY <1>1, <1>2 DEF Typed, Summed

LEMMA FilesStay == FilesInv /\ [FileCacheNext]_fileCacheVars => FilesInv'
  <1> SUFFICES ASSUME FilesInv, [FileCacheNext]_fileCacheVars PROVE FilesInv'
    OBVIOUS
  <1>1. Typed(recorded, fileBytes, order) /\ (~unopened => Summed(recorded, fileBytes, order))
    BY DEF FilesInv
  <1>2. ASSUME NEW k \in FileKeys, NEW size \in Sizes, NEW ttl \in BOOLEAN, StorePut(k, size, ttl) PROVE FilesInv'
    <2> DEFINE c == Prepared(k, size)
    <2>1. /\ recorded' = [j \in DOMAIN c.recorded \cup {k} |-> IF j = k THEN size ELSE c.recorded[j]]
          /\ fileBytes' = c.fileBytes + size /\ order' = <<k>> \o c.order /\ unopened' = unopened
      BY <1>2 DEF StorePut
    <2>2. /\ Typed(c.recorded, c.fileBytes, c.order)
          /\ ~unopened => CountedBut(c.recorded, c.fileBytes, c.order, k)
      BY <1>1, PreparedCounts
    <2> HIDE DEF c
    <2>3. Typed(recorded', fileBytes', order') /\ (~unopened => Summed(recorded', fileBytes', order'))
      BY <2>1, <2>2, RecordsCounted
    <2> QED BY <2>1, <2>3 DEF FilesInv
  <1>3. ASSUME NEW k \in FileKeys, NEW size \in Sizes, PutUnopened(k, size) PROVE FilesInv'
    <2> DEFINE c == Prepared(k, size)
    <2>1. recorded' = c.recorded /\ fileBytes' = c.fileBytes /\ order' = c.order /\ unopened' = TRUE
      BY <1>3 DEF PutUnopened
    <2>2. Typed(c.recorded, c.fileBytes, c.order)
      BY <1>1, PreparedCounts
    <2> HIDE DEF c
    <2> QED BY <2>1, <2>2 DEF FilesInv
  <1>4. ASSUME NEW k \in FileKeys, StoreGet(k) PROVE FilesInv'
    <2> DEFINE rest == Only(order, FileKeys \ {k})
    <2>0. fileBytes' = fileBytes /\ unopened' = unopened
      BY <1>4 DEF StoreGet
    <2>1. CASE k \notin held
      <3>1. recorded' = Dropped(recorded, k) /\ order' = rest
        BY <1>4, <2>1 DEF StoreGet
      <3>2. fileBytes \in Int /\ fileBytes >= fileBytes - SizeIn(recorded, k)
        <4>1. fileBytes \in Int
          BY <1>1 DEF Typed
        <4>2. SizeIn(recorded, k) \in Nat
          BY <1>1, SizeOff
        <4> QED BY <4>1, <4>2
      <3> QED BY <1>1, <2>0, <3>1, <3>2, Forgets DEF FilesInv
    <2>2. CASE k \in held
      <3>1. recorded' = recorded /\ (order' = order \/ order' = <<k>> \o rest)
        BY <1>4, <2>2 DEF StoreGet
      <3>2. order \in Seq(FileKeys) /\ DOMAIN recorded \subseteq FileKeys
        BY <1>1 DEF Typed
      <3>3. rest \in Seq(FileKeys) /\ Range(rest) = Range(order) \cap (FileKeys \ {k})
        BY <3>2, OnlyKeeps
      <3> HIDE DEF rest
      <3>4. <<k>> \o rest \in Seq(FileKeys) /\ Range(<<k>> \o rest) = Range(rest) \cup {k}
        BY <3>3, InFrontRange
      <3>5. order' \in Seq(FileKeys) /\ Range(order) \subseteq Range(order')
        <4>1. Range(order) \subseteq FileKeys
          BY <3>2 DEF Range
        <4> QED BY <3>1, <3>2, <3>3, <3>4, <4>1
      <3> QED BY <1>1, <2>0, <3>1, <3>5 DEF FilesInv, Typed, Summed
    <2> QED BY <2>1, <2>2
  <1>5. ASSUME NEW k \in FileKeys, StoreRemove(k) PROVE FilesInv'
    <2>1. /\ fileBytes' = fileBytes - SizeIn(recorded, k) /\ recorded' = Dropped(recorded, k)
          /\ order' = Only(order, FileKeys \ {k}) /\ unopened' = unopened
      BY <1>5 DEF StoreRemove
    <2>2. fileBytes - SizeIn(recorded, k) \in Int
      BY <1>1, SizeOff
    <2>3. fileBytes' \in Int /\ fileBytes' >= fileBytes - SizeIn(recorded, k)
      BY <2>1, <2>2
    <2>4. /\ Typed(Dropped(recorded, k), fileBytes', Only(order, FileKeys \ {k}))
          /\ ~unopened => Summed(Dropped(recorded, k), fileBytes', Only(order, FileKeys \ {k}))
      BY <1>1, <2>3, Forgets
    <2> QED BY <2>1, <2>4 DEF FilesInv
  <1>6. CASE StoreClear
    BY <1>6, NothingCounted DEF StoreClear, FilesInv
  <1>7. CASE Restarted
    BY <1>7, NothingCounted DEF Restarted, FilesInv
  <1>8. CASE UNCHANGED <<recorded, fileBytes, order, unopened>>
    BY <1>8, <1>1 DEF FilesInv
  <1>9. ASSUME NEW k \in FileKeys, Elapse(k) \/ Vanish(k) PROVE FilesInv'
    BY <1>8, <1>9 DEF Elapse, Vanish
  <1>10. CASE UNCHANGED fileCacheVars
    BY <1>8, <1>10 DEF fileCacheVars
  <1> QED BY <1>2, <1>3, <1>4, <1>5, <1>6, <1>7, <1>9, <1>10 DEF FileCacheNext

LEMMA FilesCounted == FilesInv => StoreCounted
  <1> SUFFICES ASSUME FilesInv, ~unopened PROVE RecordedBytes <= fileBytes /\ DOMAIN recorded \subseteq ToSet(order)
    BY DEF StoreCounted
  <1>1. SumOver(recorded, DOMAIN recorded) <= fileBytes /\ DOMAIN recorded \subseteq Range(order)
    BY DEF FilesInv, Summed
  <1>2. DOMAIN recorded \intersect DOMAIN recorded = DOMAIN recorded
    OBVIOUS
  <1>3. RecordedBytes = SumOver(recorded, DOMAIN recorded)
    BY <1>2 DEF RecordedBytes, SizesIn
  <1>4. ToSet(order) = Range(order)
    BY DEF ToSet, Range
  <1> QED BY <1>1, <1>3, <1>4

(* Whatever is put, looked up, evicted, expired, removed, cleared or gone  *)
(* from the disk, the list and the byte count of sc::cache::MemoryCache    *)
(* agree with its entries, and the sum and the list of sc::DiskCache count *)
(* and reach every recorded file, until a put() cannot open its file       *)
(* (memory_cache.h:250, storage/cache.cpp:37).                             *)
THEOREM CachesCorrect == Spec => []CachesSound
  <1> DEFINE I == Fine(mem) /\ FilesInv
  <1>1. Init => I
    BY EmptyFine, NothingCounted DEF Init, MemInit, FileCacheInit, FilesInv
  <1>2. I /\ [Next]_<<subject, partVars>> => I'
    <2> SUFFICES ASSUME I, [Next]_<<subject, partVars>> PROVE I'
      OBVIOUS
    <2>1. [MemNext]_memVars
      BY DEF Next, CacheStep, partVars, cacheVars
    <2>2. [FileCacheNext]_fileCacheVars
      BY DEF Next, StorageStep, partVars, storageVars
    <2> QED BY <2>1, <2>2, FineStays, FilesStay
  <1>3. I => CachesSound
    BY FineAgrees, FilesCounted DEF CachesSound
  <1> QED BY <1>1, <1>2, <1>3, PTL DEF Spec

-----------------------------------------------------------------------------
(* Conditions whose parentheses match: d counts the open ones after each   *)
(* condition.                                                              *)
Conditions == [op : {"compare", "null", "in"}, inValues : Nat, logic : {"AND", "OR"},
               open : Nat, close : Nat]
Levels(w, d) ==
    /\ d \in [0..Len(w) -> Nat] /\ d[0] = 0 /\ d[Len(w)] = 0
    /\ \A i \in 1..Len(w) : d[i] = d[i - 1] + w[i].open - w[i].close
Balanced(w) == w \in Seq(Conditions) /\ \E d : Levels(w, d)

LEMMA NoneBalanced == Balanced(<<>>)
  <1> DEFINE d == [i \in 0..0 |-> 0]
  <1>1. Levels(<<>>, d)
    BY DEF Levels
  <1>2. <<>> \in Seq(Conditions)
    OBVIOUS
  <1> HIDE DEF d
  <1> QED BY <1>1, <1>2 DEF Balanced

LEMMA OneBalanced ==
    ASSUME NEW c \in Conditions, c.open = 0, c.close = 0
    PROVE  Balanced(<<c>>)
  <1> DEFINE d == [i \in 0..1 |-> 0]
             w == <<c>>
  <1>1. w \in Seq(Conditions) /\ Len(w) = 1 /\ w[1] = c
    OBVIOUS
  <1> HIDE DEF w
  <1>2. Levels(w, d)
    BY <1>1 DEF Levels
  <1> HIDE DEF d
  <1>3. Balanced(w)
    BY <1>1, <1>2 DEF Balanced
  <1> QED BY <1>3 DEF w

LEMMA JoinedBalanced ==
    ASSUME NEW v, NEW w, Balanced(v), Balanced(w)
    PROVE  Balanced(v \o w)
  <1>1. PICK c : Levels(v, c)
    BY DEF Balanced
  <1>2. PICK d : Levels(w, d)
    BY DEF Balanced
  <1>3. v \in Seq(Conditions) /\ w \in Seq(Conditions)
    BY DEF Balanced
  <1> DEFINE u == v \o w
             m == Len(v)
             n == Len(w)
             e == [i \in 0..(m + n) |-> IF i <= m THEN c[i] ELSE d[i - m]]
  <1>4. /\ u \in Seq(Conditions) /\ m \in Nat /\ n \in Nat /\ Len(u) = m + n
        /\ \A i \in 1..m : u[i] = v[i]
        /\ \A i \in (m + 1)..(m + n) : u[i] = w[i - m]
    BY <1>3
  <1>5. /\ c \in [0..m -> Nat] /\ c[0] = 0 /\ c[m] = 0
        /\ \A i \in 1..m : c[i] = c[i - 1] + v[i].open - v[i].close
        /\ d \in [0..n -> Nat] /\ d[0] = 0 /\ d[n] = 0
        /\ \A i \in 1..n : d[i] = d[i - 1] + w[i].open - w[i].close
    BY <1>1, <1>2 DEF Levels
  <1> HIDE DEF u, m, n
  <1>6. e \in [0..(m + n) -> Nat]
    BY <1>4, <1>5
  <1>7. e[0] = 0 /\ e[m + n] = 0
    BY <1>4, <1>5
  <1>8. ASSUME NEW i \in 1..(m + n) PROVE e[i] = e[i - 1] + u[i].open - u[i].close
    <2>1. CASE i <= m
      <3>1. i \in 1..m /\ i - 1 \in 0..(m + n) /\ i - 1 <= m /\ i \in 0..(m + n)
        BY <1>4, <2>1
      <3>2. e[i] = c[i] /\ e[i - 1] = c[i - 1]
        BY <3>1
      <3> QED BY <3>1, <3>2, <1>4, <1>5
    <2>2. CASE ~(i <= m)
      <3>1. /\ i - m \in 1..n /\ i \in (m + 1)..(m + n) /\ i \in 0..(m + n)
            /\ i - 1 \in 0..(m + n) /\ (i - m) - 1 = (i - 1) - m
        BY <1>4, <2>2
      <3>2. e[i] = d[i - m]
        BY <3>1, <2>2
      <3>3. e[i - 1] = d[(i - m) - 1]
        <4>1. CASE i - 1 <= m
          <5>1. i - 1 = m /\ (i - m) - 1 = 0
            BY <4>1, <2>2, <1>4
          <5> QED BY <5>1, <3>1, <1>5, <1>4
        <4>2. CASE ~(i - 1 <= m)
          BY <4>2, <3>1
        <4> QED BY <4>1, <4>2
      <3>4. u[i] = w[i - m]
        BY <3>1, <1>4
      <3>5. d[i - m] = d[(i - m) - 1] + w[i - m].open - w[i - m].close
        BY <3>1, <1>5
      <3> HIDE DEF e
      <3> QED BY <3>2, <3>3, <3>4, <3>5
    <2> QED BY <2>1, <2>2
  <1> HIDE DEF e
  <1>9. Levels(u, e)
    BY <1>4, <1>6, <1>7, <1>8 DEF Levels
  <1>10. Balanced(u)
    BY <1>4, <1>9 DEF Balanced
  <1> QED BY <1>10 DEF u

(* Only the logic of conditions may differ.                                *)
LEMMA RelabelledBalanced ==
    ASSUME NEW v, NEW w, Balanced(v), w \in Seq(Conditions), Len(w) = Len(v),
           \A i \in 1..Len(v) : w[i].open = v[i].open /\ w[i].close = v[i].close
    PROVE  Balanced(w)
  <1>1. PICK c : Levels(v, c)
    BY DEF Balanced
  <1>2. Levels(w, c)
    BY <1>1 DEF Levels
  <1> QED BY <1>2 DEF Balanced

LEMMA BracketedBalanced ==
    ASSUME NEW w, Balanced(w)
    PROVE  Balanced(Bracketed(w)) /\ Len(Bracketed(w)) = Len(w)
  <1>1. CASE Len(w) < 2
    BY <1>1 DEF Bracketed
  <1>2. CASE ~(Len(w) < 2)
    <2> DEFINE n == Len(w)
               v == [w EXCEPT ![1].open = @ + 1]
               u == [v EXCEPT ![n].close = @ + 1]
    <2>0. w \in Seq(Conditions) /\ n \in Nat /\ n >= 2 /\ DOMAIN w = 1..n
      BY <1>2 DEF Balanced
    <2>1. Bracketed(w) = u
      BY <1>2 DEF Bracketed
    <2>2. PICK d : Levels(w, d)
      BY DEF Balanced
    <2>3. /\ d \in [0..n -> Nat] /\ d[0] = 0 /\ d[n] = 0
          /\ \A i \in 1..n : d[i] = d[i - 1] + w[i].open - w[i].close
      BY <2>2 DEF Levels
    <2> DEFINE e == [i \in 0..n |-> IF i \in {0, n} THEN 0 ELSE d[i] + 1]
    <2>4. /\ \A i \in 1..n : w[i] \in Conditions
          /\ v = [i \in 1..n |-> IF i = 1 THEN [w[1] EXCEPT !.open = @ + 1] ELSE w[i]]
      <3>1. \A i \in 1..n : w[i] \in Conditions
        BY <2>0
      <3>2. v = [i \in DOMAIN w |-> IF i = 1 THEN [w[1] EXCEPT !.open = @ + 1] ELSE w[i]]
        OBVIOUS
      <3> QED BY <2>0, <3>1, <3>2
    <2> HIDE DEF n
    <2>5. \A c \in Conditions : [c EXCEPT !.open = @ + 1] \in Conditions /\ [c EXCEPT !.close = @ + 1] \in Conditions
      BY DEF Conditions
    <2>6. \A c \in Conditions : /\ [c EXCEPT !.open = @ + 1].open = c.open + 1
                                /\ [c EXCEPT !.open = @ + 1].close = c.close
                                /\ [c EXCEPT !.close = @ + 1].close = c.close + 1
                                /\ [c EXCEPT !.close = @ + 1].open = c.open
                                /\ c.open \in Nat /\ c.close \in Nat
      BY DEF Conditions
    <2>7. /\ \A i \in 1..n : v[i] \in Conditions
          /\ DOMAIN v = 1..n
          /\ \A i \in 1..n : v[i].close = w[i].close /\ v[i].open = w[i].open + (IF i = 1 THEN 1 ELSE 0)
      <3> HIDE DEF v
      <3>1. DOMAIN v = 1..n
        BY <2>4
      <3> SUFFICES ASSUME NEW i \in 1..n
                   PROVE  /\ v[i] \in Conditions
                          /\ v[i].close = w[i].close /\ v[i].open = w[i].open + (IF i = 1 THEN 1 ELSE 0)
        BY <3>1
      <3>2. v[i] = IF i = 1 THEN [w[i] EXCEPT !.open = @ + 1] ELSE w[i]
        BY <2>4
      <3>3. w[i] \in Conditions
        BY <2>4
      <3>4. CASE i = 1
        BY <3>2, <3>3, <3>4, <2>5, <2>6
      <3>5. CASE i # 1
        BY <3>2, <3>3, <3>5, <2>6
      <3> QED BY <3>4, <3>5
    <2>8. u = [i \in 1..n |-> IF i = n THEN [v[n] EXCEPT !.close = @ + 1] ELSE v[i]]
      <3> HIDE DEF v
      <3> QED BY <2>7, <2>0
    <2>9. /\ u \in Seq(Conditions) /\ Len(u) = n
          /\ \A i \in 1..n : /\ u[i].open = w[i].open + (IF i = 1 THEN 1 ELSE 0)
                             /\ u[i].close = w[i].close + (IF i = n THEN 1 ELSE 0)
      <3> HIDE DEF u, v
      <3>1. ASSUME NEW i \in 1..n
            PROVE  /\ u[i] \in Conditions
                   /\ u[i].open = w[i].open + (IF i = 1 THEN 1 ELSE 0)
                   /\ u[i].close = w[i].close + (IF i = n THEN 1 ELSE 0)
        <4>1. u[i] = IF i = n THEN [v[i] EXCEPT !.close = @ + 1] ELSE v[i]
          BY <2>8
        <4>2. /\ v[i] \in Conditions
              /\ v[i].close = w[i].close /\ v[i].open = w[i].open + (IF i = 1 THEN 1 ELSE 0)
          BY <2>7
        <4>3. w[i] \in Conditions
          BY <2>4
        <4>4. CASE i = n
          BY <4>1, <4>2, <4>4, <2>5, <2>6
        <4>5. CASE i # n
          BY <4>1, <4>2, <4>3, <4>5, <2>6
        <4> QED BY <4>4, <4>5
      <3>2. u \in [1..n -> Conditions]
        BY <2>8, <3>1
      <3>3. u \in Seq(Conditions) /\ Len(u) = n
        BY <3>2, <2>0
      <3> QED BY <3>1, <3>3
    <2> HIDE DEF u, v
    <2>10. e \in [0..n -> Nat] /\ e[0] = 0 /\ e[n] = 0
      BY <2>3, <2>0
    <2>11. ASSUME NEW i \in 1..n PROVE e[i] = e[i - 1] + u[i].open - u[i].close
      <3>1. /\ w[i].open \in Nat /\ w[i].close \in Nat
            /\ d[i] = d[i - 1] + w[i].open - w[i].close
            /\ i - 1 \in 0..n /\ i \in 0..n /\ d[i] \in Nat /\ d[i - 1] \in Nat
        BY <2>0, <2>3, <2>4, <2>6
      <3>2. /\ u[i].open = w[i].open + (IF i = 1 THEN 1 ELSE 0)
            /\ u[i].close = w[i].close + (IF i = n THEN 1 ELSE 0)
        BY <2>9
      <3>3. e[i] = d[i] + (IF i = n THEN 0 ELSE 1)
        BY <3>1, <2>3, <2>0
      <3>4. e[i - 1] = d[i - 1] + (IF i = 1 THEN 0 ELSE 1)
        BY <3>1, <2>3, <2>0
      <3> HIDE DEF e
      <3> QED BY <3>1, <3>2, <3>3, <3>4
    <2> HIDE DEF e
    <2>12. Levels(u, e)
      BY <2>9, <2>10, <2>11 DEF Levels
    <2>13. Balanced(u) /\ Len(u) = Len(w)
      BY <2>9, <2>12 DEF Balanced, n
    <2> QED BY <2>1, <2>13
  <1> QED BY <1>1, <1>2

-----------------------------------------------------------------------------
(* The wrappers: the query's own conditions and those of its nested calls  *)
WrapInv ==
    /\ wrappers \in Seq(Seq(Conditions)) /\ Len(wrappers) >= 1
    /\ \A k \in 1..Len(wrappers) : Balanced(wrappers[k])

LEMMA WrapInvInit == WrapperInit => WrapInv
  <1> SUFFICES ASSUME WrapperInit PROVE WrapInv
    OBVIOUS
  <1>1. wrappers = << <<>> >>
    BY DEF WrapperInit
  <1>2. wrappers \in Seq(Seq(Conditions)) /\ Len(wrappers) = 1 /\ wrappers[1] = <<>>
    BY <1>1
  <1> QED BY <1>2, NoneBalanced DEF WrapInv

LEMMA EndNestedKeeps ==
    ASSUME WrapInv, NEW sub, Balanced(sub), EndNested(sub)
    PROVE  WrapInv'
  <1> DEFINE n == Len(wrappers)
             w == wrappers[n - 1] \o sub
             ws == SubSeq(wrappers, 1, n - 2) \o <<w>>
  <1>1. n > 1 /\ wrappers' = ws
    BY DEF EndNested
  <1>2. n \in Nat /\ wrappers \in Seq(Seq(Conditions)) /\ \A k \in 1..n : Balanced(wrappers[k])
    BY DEF WrapInv
  <1>3. Balanced(w)
    BY <1>1, <1>2, JoinedBalanced
  <1>4. w \in Seq(Conditions)
    BY <1>3 DEF Balanced
  <1> HIDE DEF w, n
  <1>5. /\ ws \in Seq(Seq(Conditions)) /\ Len(ws) = n - 1
        /\ \A k \in 1..(n - 2) : ws[k] = wrappers[k]
        /\ ws[n - 1] = w
    <2> DEFINE p == SubSeq(wrappers, 1, n - 2)
    <2>1. /\ p \in Seq(Seq(Conditions)) /\ Len(p) = n - 2
          /\ \A k \in 1..(n - 2) : p[k] = wrappers[k]
      <3>1. n - 2 \in Nat /\ \A k \in 1..(n - 2) : k \in 1..n
        BY <1>1, <1>2
      <3>2. \A k \in 1..n : wrappers[k] \in Seq(Conditions)
        BY <1>2 DEF n
      <3>3. p = [k \in 1..(n - 2) |-> wrappers[k]]
        BY <1>2, <3>1 DEF n
      <3> HIDE DEF p
      <3>4. p \in [1..(n - 2) -> Seq(Conditions)]
        BY <3>1, <3>2, <3>3
      <3> QED BY <3>1, <3>3, <3>4
    <2> HIDE DEF p
    <2>2. /\ p \o <<w>> \in Seq(Seq(Conditions)) /\ Len(p \o <<w>>) = n - 1
          /\ \A k \in 1..(n - 2) : (p \o <<w>>)[k] = p[k]
          /\ (p \o <<w>>)[n - 1] = w
      BY <1>1, <1>2, <1>4, <2>1
    <2> QED BY <2>1, <2>2 DEF p
  <1> HIDE DEF ws
  <1>6. ASSUME NEW k \in 1..(n - 1) PROVE Balanced(ws[k])
    <2>1. CASE k = n - 1
      BY <2>1, <1>3, <1>5
    <2>2. CASE k # n - 1
      <3>1. k \in 1..(n - 2) /\ k \in 1..n
        BY <2>2, <1>1, <1>2
      <3> QED BY <3>1, <1>2, <1>5
    <2> QED BY <2>1, <2>2
  <1> QED BY <1>1, <1>2, <1>5, <1>6 DEF WrapInv

LEMMA AddKeeps ==
    ASSUME WrapInv, NEW op \in {"compare", "null", "in"}, NEW n \in Nat, AddCondition(op, n)
    PROVE  WrapInv'
  <1> DEFINE c == Condition(op, n)
             m == Len(wrappers)
             w == wrappers[m] \o <<c>>
  <1>1. m \in Nat /\ m >= 1 /\ wrappers \in Seq(Seq(Conditions)) /\ \A k \in 1..m : Balanced(wrappers[k])
    BY DEF WrapInv
  <1>2. c \in Conditions /\ c.open = 0 /\ c.close = 0
    BY DEF Condition, Conditions
  <1> HIDE DEF c
  <1>3. wrappers[m] \in Seq(Conditions) /\ Append(wrappers[m], c) = w
    BY <1>1, <1>2
  <1>4. Balanced(w)
    BY <1>1, <1>2, OneBalanced, JoinedBalanced
  <1>5. w \in Seq(Conditions)
    BY <1>4 DEF Balanced
  <1>6. wrappers' = [wrappers EXCEPT ![m] = w]
    BY <1>3 DEF AddCondition, c
  <1> HIDE DEF w
  <1>7. /\ wrappers' \in Seq(Seq(Conditions)) /\ Len(wrappers') = m
        /\ \A k \in 1..m : wrappers'[k] = IF k = m THEN w ELSE wrappers[k]
    BY <1>1, <1>5, <1>6
  <1> HIDE DEF m
  <1> QED BY <1>1, <1>4, <1>7 DEF WrapInv

LEMMA WrapKeeps == WrapInv /\ [WrapperNext \/ PageNext]_<<wrappers, page>> => WrapInv'
  <1> SUFFICES ASSUME WrapInv, [WrapperNext \/ PageNext]_<<wrappers, page>> PROVE WrapInv'
    OBVIOUS
  <1>0. /\ wrappers \in Seq(Seq(Conditions)) /\ Len(wrappers) \in Nat /\ Len(wrappers) >= 1
        /\ \A k \in 1..Len(wrappers) : Balanced(wrappers[k])
    BY DEF WrapInv
  <1>1. Balanced(Inner) /\ Inner \in Seq(Conditions)
    <2>1. Balanced(Inner)
      BY <1>0, BracketedBalanced DEF Inner
    <2> QED BY <2>1 DEF Balanced
  <1>2. ASSUME NEW n \in Nat, NEW op \in {"compare", "null", "in"}, AddCondition(op, n) PROVE WrapInv'
    BY <1>2, AddKeeps
  <1>3. CASE BeginNested
    <2>1. wrappers' = Append(wrappers, <<>>)
      BY <1>3 DEF BeginNested
    <2>2. /\ wrappers' \in Seq(Seq(Conditions)) /\ Len(wrappers') = Len(wrappers) + 1
          /\ \A k \in 1..(Len(wrappers) + 1) :
               wrappers'[k] = IF k = Len(wrappers) + 1 THEN <<>> ELSE wrappers[k]
      <3>1. <<>> \in Seq(Conditions)
        OBVIOUS
      <3>2. \A z \in Seq(Conditions) : /\ Append(wrappers, z) \in Seq(Seq(Conditions))
                                       /\ Len(Append(wrappers, z)) = Len(wrappers) + 1
                                       /\ \A k \in 1..(Len(wrappers) + 1) :
                                            Append(wrappers, z)[k] = IF k = Len(wrappers) + 1 THEN z ELSE wrappers[k]
        BY <1>0
      <3> QED BY <2>1, <3>1, <3>2
    <2>3. ASSUME NEW k \in 1..(Len(wrappers) + 1) PROVE Balanced(wrappers'[k])
      <3>1. k \in 1..Len(wrappers) \/ k = Len(wrappers) + 1
        BY <1>0
      <3>2. Len(wrappers) + 1 \notin 1..Len(wrappers)
        BY <1>0
      <3> QED BY <3>1, <3>2, <2>2, <1>0, NoneBalanced
    <2>4. Len(wrappers') >= 1
      BY <1>0, <2>2
    <2> QED BY <2>2, <2>3, <2>4 DEF WrapInv
  <1>4. CASE And
    <2> DEFINE sub == [i \in DOMAIN Inner |-> [Inner[i] EXCEPT !.logic = "AND"]]
    <2>1. \A c \in Conditions : /\ [c EXCEPT !.logic = "AND"] \in Conditions
                                /\ [c EXCEPT !.logic = "AND"].open = c.open
                                /\ [c EXCEPT !.logic = "AND"].close = c.close
      BY DEF Conditions
    <2>2. sub \in Seq(Conditions) /\ Len(sub) = Len(Inner)
      BY <1>1, <2>1
    <2>3. \A i \in 1..Len(Inner) : sub[i].open = Inner[i].open /\ sub[i].close = Inner[i].close
      BY <1>1, <2>1
    <2>4. EndNested(sub)
      BY <1>4 DEF And
    <2> HIDE DEF sub
    <2>5. Balanced(sub)
      BY <1>1, <2>2, <2>3, RelabelledBalanced
    <2> QED BY <2>4, <2>5, EndNestedKeeps
  <1>5. CASE Or
    <2> DEFINE sub == IF Inner = <<>> THEN <<>> ELSE [Inner EXCEPT ![1].logic = "OR"]
    <2>1. \A c \in Conditions : /\ [c EXCEPT !.logic = "OR"] \in Conditions
                                /\ [c EXCEPT !.logic = "OR"].open = c.open
                                /\ [c EXCEPT !.logic = "OR"].close = c.close
      BY DEF Conditions
    <2>2. sub \in Seq(Conditions) /\ Len(sub) = Len(Inner)
      <3>1. CASE Inner = <<>>
        BY <3>1
      <3>2. CASE Inner # <<>>
        <4>1. 1 \in DOMAIN Inner /\ Inner[1] \in Conditions
          BY <3>2, <1>1
        <4>2. [Inner EXCEPT ![1] = [Inner[1] EXCEPT !.logic = "OR"]] \in Seq(Conditions)
          BY <4>1, <1>1, <2>1
        <4> QED BY <3>2, <4>1, <4>2, <1>1
      <3> QED BY <3>1, <3>2
    <2>3. \A i \in 1..Len(Inner) : sub[i].open = Inner[i].open /\ sub[i].close = Inner[i].close
      BY <1>1, <2>1
    <2>4. EndNested(sub)
      BY <1>5 DEF Or
    <2> HIDE DEF sub
    <2>5. Balanced(sub)
      BY <1>1, <2>2, <2>3, RelabelledBalanced
    <2> QED BY <2>4, <2>5, EndNestedKeeps
  <1>6. CASE UNCHANGED wrappers
    BY <1>6 DEF WrapInv
  <1>7. \A n \in 0..MaxIn : n \in Nat
    OBVIOUS
  <1> QED BY <1>2, <1>3, <1>4, <1>5, <1>6, <1>7 DEF WrapperNext, PageNext

-----------------------------------------------------------------------------
(* Reading a statement token by token, from d open parentheses and q       *)
(* placeholders on.                                                        *)
Tokens == {"live", "WHERE", "AND", "OR", "(", ")", "?"} \X Nat
Turn(token, d, q, e, r) ==
    /\ e = d + (IF token[1] = "(" THEN 1 ELSE 0) - (IF token[1] = ")" THEN 1 ELSE 0)
    /\ r = q + (IF token[1] = "?" THEN 1 ELSE 0)
    /\ token[1] = "?" => token[2] = r
    /\ token[1] = "OR" => e >= 1
Path(t, d, q) ==
    /\ d \in [0..Len(t) -> Nat] /\ q \in [0..Len(t) -> Nat]
    /\ \A i \in 1..Len(t) : Turn(t[i], d[i - 1], q[i - 1], d[i], q[i])
Reads(t, d0, q0, d1, q1) ==
    /\ t \in Seq(Tokens)
    /\ \E d, q : /\ Path(t, d, q)
                 /\ d[0] = d0 /\ q[0] = q0 /\ d[Len(t)] = d1 /\ q[Len(t)] = q1

LEMMA ReadNone ==
    ASSUME NEW d0 \in Nat, NEW q0 \in Nat
    PROVE  Reads(<<>>, d0, q0, d0, q0)
  <1> DEFINE d == [i \in 0..0 |-> d0]
             q == [i \in 0..0 |-> q0]
  <1>1. Path(<<>>, d, q) /\ d[0] = d0 /\ q[0] = q0
    BY DEF Path
  <1>2. <<>> \in Seq(Tokens) /\ Len(<<>>) = 0
    OBVIOUS
  <1> HIDE DEF d, q
  <1> QED BY <1>1, <1>2 DEF Reads

LEMMA ReadJoined ==
    ASSUME NEW s, NEW t, NEW d0, NEW q0, NEW d1, NEW q1, NEW d2, NEW q2,
           Reads(s, d0, q0, d1, q1), Reads(t, d1, q1, d2, q2)
    PROVE  Reads(s \o t, d0, q0, d2, q2)
  <1>1. PICK d, q : Path(s, d, q) /\ d[0] = d0 /\ q[0] = q0 /\ d[Len(s)] = d1 /\ q[Len(s)] = q1
    BY DEF Reads
  <1>2. PICK e, r : Path(t, e, r) /\ e[0] = d1 /\ r[0] = q1 /\ e[Len(t)] = d2 /\ r[Len(t)] = q2
    BY DEF Reads
  <1> DEFINE u == s \o t
             m == Len(s)
             n == Len(t)
             f == [i \in 0..(m + n) |-> IF i <= m THEN d[i] ELSE e[i - m]]
             g == [i \in 0..(m + n) |-> IF i <= m THEN q[i] ELSE r[i - m]]
  <1>3. s \in Seq(Tokens) /\ t \in Seq(Tokens)
    BY DEF Reads
  <1>4. /\ u \in Seq(Tokens) /\ m \in Nat /\ n \in Nat /\ Len(u) = m + n
        /\ \A i \in 1..m : u[i] = s[i]
        /\ \A i \in (m + 1)..(m + n) : u[i] = t[i - m]
    BY <1>3
  <1>5. /\ d \in [0..m -> Nat] /\ q \in [0..m -> Nat] /\ e \in [0..n -> Nat] /\ r \in [0..n -> Nat]
        /\ \A i \in 1..m : Turn(s[i], d[i - 1], q[i - 1], d[i], q[i])
        /\ \A i \in 1..n : Turn(t[i], e[i - 1], r[i - 1], e[i], r[i])
        /\ d[m] = e[0] /\ q[m] = r[0]
    BY <1>1, <1>2 DEF Path
  <1> HIDE DEF u
  <1>6. f \in [0..(m + n) -> Nat] /\ g \in [0..(m + n) -> Nat]
    <2> HIDE DEF m, n
    <2>1. \A i \in 0..(m + n) : i <= m => i \in 0..m
      BY <1>4
    <2>2. \A i \in 0..(m + n) : ~(i <= m) => i - m \in 0..n
      BY <1>4
    <2>3. \A i \in 0..(m + n) : f[i] \in Nat /\ g[i] \in Nat
      BY <1>5, <2>1, <2>2
    <2> QED BY <2>3
  <1>7. \A i \in 0..m : f[i] = d[i] /\ g[i] = q[i]
    <2> HIDE DEF m, n
    <2> QED BY <1>4
  <1>8. \A i \in 0..n : f[m + i] = e[i] /\ g[m + i] = r[i]
    <2> HIDE DEF m, n
    <2> SUFFICES ASSUME NEW i \in 0..n PROVE f[m + i] = e[i] /\ g[m + i] = r[i]
      OBVIOUS
    <2>1. m + i \in 0..(m + n) /\ (m + i) - m = i
      BY <1>4
    <2>2. CASE i = 0
      <3>1. m + i = m /\ m <= m
        BY <2>2, <1>4
      <3> QED BY <2>1, <2>2, <3>1, <1>5
    <2>3. CASE i # 0
      <3>1. ~(m + i <= m)
        BY <2>3, <1>4
      <3> QED BY <2>1, <3>1
    <2> QED BY <2>2, <2>3
  <1>9. f[0] = d0 /\ g[0] = q0 /\ f[m + n] = d2 /\ g[m + n] = q2
    <2>1. 0 \in 0..m /\ n \in 0..n
      BY <1>4
    <2> QED BY <2>1, <1>1, <1>2, <1>7, <1>8
  <1> HIDE DEF f, g
  <1>10. ASSUME NEW i \in 1..(m + n) PROVE Turn(u[i], f[i - 1], g[i - 1], f[i], g[i])
    <2> HIDE DEF m, n
    <2>1. CASE i <= m
      <3>1. i \in 1..m /\ i - 1 \in 0..m /\ i \in 0..m
        BY <2>1, <1>4
      <3> QED BY <3>1, <1>4, <1>5, <1>7
    <2>2. CASE ~(i <= m)
      <3>1. /\ i - m \in 1..n /\ i - m \in 0..n /\ (i - m) - 1 \in 0..n /\ i \in (m + 1)..(m + n)
            /\ m + (i - m) = i /\ m + ((i - m) - 1) = i - 1
        BY <2>2, <1>4
      <3>2. f[i] = e[i - m] /\ g[i] = r[i - m] /\ f[i - 1] = e[(i - m) - 1] /\ g[i - 1] = r[(i - m) - 1]
        BY <3>1, <1>8
      <3>3. u[i] = t[i - m] /\ Turn(t[i - m], e[(i - m) - 1], r[(i - m) - 1], e[i - m], r[i - m])
        BY <3>1, <1>4, <1>5
      <3> QED BY <3>2, <3>3
    <2> QED BY <2>1, <2>2
  <1>11. Path(u, f, g)
    BY <1>4, <1>6, <1>10 DEF Path
  <1>12. Reads(u, d0, q0, d2, q2)
    BY <1>4, <1>9, <1>11 DEF Reads
  <1> QED BY <1>12 DEF u

(* A run of n tokens with the same word.                                   *)
LEMMA ReadRun ==
    ASSUME NEW t, NEW n \in Nat, t \in [1..n -> Tokens], NEW d0 \in Nat, NEW q0 \in Nat, NEW d1 \in Nat,
           \/ d1 = d0 + n /\ \A i \in 1..n : t[i][1] = "("
           \/ d0 = d1 + n /\ \A i \in 1..n : t[i][1] = ")"
    PROVE  Reads(t, d0, q0, d1, q0)
  <1> DEFINE d == [i \in 0..n |-> IF d1 = d0 + n THEN d0 + i ELSE d0 - i]
             q == [i \in 0..n |-> q0]
  <1>1. t \in Seq(Tokens) /\ Len(t) = n
    OBVIOUS
  <1>2. d \in [0..n -> Nat] /\ d[0] = d0 /\ d[n] = d1
    OBVIOUS
  <1>3. q \in [0..n -> Nat] /\ q[0] = q0 /\ q[n] = q0
    OBVIOUS
  <1>4. ASSUME NEW i \in 1..n PROVE Turn(t[i], d[i - 1], q[i - 1], d[i], q[i])
    <2>1. i \in 0..n /\ i - 1 \in 0..n
      OBVIOUS
    <2>2. /\ q[i] = q0 /\ q[i - 1] = q0
          /\ d[i] = IF d1 = d0 + n THEN d0 + i ELSE d0 - i
          /\ d[i - 1] = IF d1 = d0 + n THEN d0 + (i - 1) ELSE d0 - (i - 1)
      BY <2>1
    <2> HIDE DEF d, q
    <2> QED BY <2>2 DEF Turn
  <1> HIDE DEF d, q
  <1>5. Path(t, d, q)
    BY <1>1, <1>2, <1>3, <1>4 DEF Path
  <1> QED BY <1>1, <1>2, <1>3, <1>5 DEF Reads

LEMMA ReadRepeated ==
    ASSUME NEW n \in Nat, NEW d0 \in Nat, NEW q0 \in Nat
    PROVE  /\ Reads(Repeated("(", n), d0, q0, d0 + n, q0)
           /\ Reads(Repeated(")", n), d0 + n, q0, d0, q0)
  <1> DEFINE s == Repeated("(", n)
             t == Repeated(")", n)
  <1>1. s \in [1..n -> Tokens] /\ \A i \in 1..n : s[i][1] = "("
    BY DEF Repeated, Tokens
  <1>2. t \in [1..n -> Tokens] /\ \A i \in 1..n : t[i][1] = ")"
    BY DEF Repeated, Tokens
  <1> HIDE DEF s, t
  <1>3. d0 + n \in Nat
    OBVIOUS
  <1>4. Reads(s, d0, q0, d0 + n, q0)
    BY <1>1, <1>3, ReadRun
  <1>5. Reads(t, d0 + n, q0, d0, q0)
    BY <1>2, <1>3, ReadRun
  <1> QED BY <1>4, <1>5 DEF s, t

LEMMA ReadNumbered ==
    ASSUME NEW n \in Nat, NEW d0 \in Nat, NEW q0 \in Nat
    PROVE  Reads(Numbered(q0 + 1, n), d0, q0, d0, q0 + n)
  <1> DEFINE t == Numbered(q0 + 1, n)
             d == [i \in 0..n |-> d0]
             q == [i \in 0..n |-> q0 + i]
  <1>1. t \in [1..n -> Tokens] /\ \A i \in 1..n : t[i][1] = "?" /\ t[i][2] = q0 + i
    <2>1. t = [i \in 1..n |-> <<"?", q0 + 1 + i - 1>>]
      BY DEF Numbered
    <2>2. \A i \in 1..n : q0 + 1 + i - 1 = q0 + i /\ q0 + i \in Nat
      OBVIOUS
    <2>3. \A k \in Nat : <<"?", k>> \in Tokens
      BY DEF Tokens
    <2> HIDE DEF t
    <2> QED BY <2>1, <2>2, <2>3
  <1> HIDE DEF t
  <1>2. t \in Seq(Tokens) /\ Len(t) = n
    BY <1>1
  <1>3. d \in [0..n -> Nat] /\ q \in [0..n -> Nat] /\ d[0] = d0 /\ q[0] = q0 /\ d[n] = d0 /\ q[n] = q0 + n
    OBVIOUS
  <1>4. ASSUME NEW i \in 1..n PROVE Turn(t[i], d[i - 1], q[i - 1], d[i], q[i])
    <2>1. i \in 0..n /\ i - 1 \in 0..n
      OBVIOUS
    <2>2. q[i] = q0 + i /\ q[i - 1] = q0 + (i - 1) /\ d[i] = d0 /\ d[i - 1] = d0
      BY <2>1
    <2> HIDE DEF d, q
    <2> QED BY <1>1, <2>2 DEF Turn
  <1> HIDE DEF d, q
  <1>5. Path(t, d, q)
    BY <1>2, <1>3, <1>4 DEF Path
  <1>6. Reads(t, d0, q0, d0, q0 + n)
    BY <1>2, <1>3, <1>5 DEF Reads
  <1> QED BY <1>6 DEF t

Words == {"live", "WHERE", "AND", "OR"}

LEMMA ReadWord ==
    ASSUME NEW w \in Words, NEW d0 \in Nat, NEW q0 \in Nat,
           (w # "OR" \/ d0 # 0)
    PROVE  Reads(Word(w), d0, q0, d0, q0)
  <1> DEFINE t == Word(w)
             d == [i \in 0..1 |-> d0]
             q == [i \in 0..1 |-> q0]
  <1>1. t \in Seq(Tokens) /\ Len(t) = 1 /\ t[1][1] = w
    <2>1. <<w, 0>> \in Tokens
      BY DEF Words, Tokens
    <2> QED BY <2>1 DEF Word
  <1> HIDE DEF t
  <1>2. Turn(t[1], d0, q0, d0, q0)
    <2>1. w # "(" /\ w # ")" /\ w # "?"
      BY DEF Words
    <2> QED BY <1>1, <2>1 DEF Turn
  <1>3. Path(t, d, q)
    BY <1>1, <1>2 DEF Path
  <1>4. d[0] = d0 /\ d[1] = d0 /\ q[0] = q0 /\ q[1] = q0
    OBVIOUS
  <1> HIDE DEF d, q
  <1>5. Reads(t, d0, q0, d0, q0)
    BY <1>1, <1>3, <1>4 DEF Reads
  <1> QED BY <1>5 DEF t

(* What is read this way is sound: the counts are those of the path.       *)
LEMMA CountGrows ==
    ASSUME NEW t, NEW w, NEW i \in Nat, i # 0
    PROVE  CountAt(t, w, i - 1) \in Nat /\
           CountAt(t, w, i) = CountAt(t, w, i - 1) + (IF t[i][1] = w THEN 1 ELSE 0)
  <1> DEFINE A == {j \in 1..(i - 1) : t[j][1] = w}
             B == {j \in 1..i : t[j][1] = w}
  <1>1. A \subseteq 1..(i - 1) /\ i \notin A /\ B = IF t[i][1] = w THEN A \cup {i} ELSE A
    OBVIOUS
  <1>2. IsFiniteSet(1..(i - 1))
    BY FS_Interval
  <1> HIDE DEF A, B
  <1>3. IsFiniteSet(A)
    BY <1>1, <1>2, FS_Subset
  <1>4. Cardinality(A) \in Nat /\ Cardinality(A \cup {i}) = Cardinality(A) + 1
    BY <1>1, <1>3, FS_CardinalityType, FS_AddElement
  <1>5. Cardinality(B) = Cardinality(A) + (IF t[i][1] = w THEN 1 ELSE 0)
    BY <1>1, <1>4
  <1> QED BY <1>4, <1>5 DEF CountAt, A, B

LEMMA ReadIsSound ==
    ASSUME NEW t, NEW n \in Nat, Reads(t, 0, 0, 0, n), NEW values, Len(values) = n
    PROVE  Sound(t, values)
  <1>1. PICK d, q : Path(t, d, q) /\ d[0] = 0 /\ q[0] = 0 /\ d[Len(t)] = 0 /\ q[Len(t)] = n
    BY DEF Reads
  <1>2. t \in Seq(Tokens) /\ Len(t) \in Nat /\ DOMAIN t = 1..Len(t)
    BY DEF Reads
  <1> DEFINE m == Len(t)
             T == {i \in 0..m : DepthAt(t, i) = d[i] /\ CountAt(t, "?", i) = q[i]}
  <1>3. /\ d \in [0..m -> Nat] /\ q \in [0..m -> Nat]
        /\ \A i \in 1..m : Turn(t[i], d[i - 1], q[i - 1], d[i], q[i])
    BY <1>1 DEF Path
  <1>4. 0 \in T
    <2>1. \A w : CountAt(t, w, 0) = 0
      <3> SUFFICES ASSUME NEW w PROVE CountAt(t, w, 0) = 0
        OBVIOUS
      <3>1. {j \in 1..0 : t[j][1] = w} = {}
        OBVIOUS
      <3> QED BY <3>1, FS_EmptySet DEF CountAt
    <2>2. DepthAt(t, 0) = 0
      BY <2>1 DEF DepthAt
    <2> QED BY <1>1, <1>2, <2>1, <2>2
  <1>5. ASSUME NEW i \in 0..(m - 1), i \in T PROVE i + 1 \in T
    <2>1. i + 1 \in Nat /\ i + 1 # 0 /\ (i + 1) - 1 = i /\ i + 1 \in 1..m /\ i + 1 \in 0..m
      BY <1>2
    <2>2. DepthAt(t, i) = d[i] /\ CountAt(t, "?", i) = q[i]
      BY <1>5
    <2> HIDE DEF m, T
    <2>3. \A w : CountAt(t, w, i) \in Nat /\ CountAt(t, w, i + 1) = CountAt(t, w, i) + (IF t[i + 1][1] = w THEN 1 ELSE 0)
      <3> SUFFICES ASSUME NEW w
                   PROVE  CountAt(t, w, i) \in Nat /\ CountAt(t, w, i + 1) = CountAt(t, w, i) + (IF t[i + 1][1] = w THEN 1 ELSE 0)
        OBVIOUS
      <3>1. /\ CountAt(t, w, (i + 1) - 1) \in Nat
            /\ CountAt(t, w, i + 1) = CountAt(t, w, (i + 1) - 1) + (IF t[i + 1][1] = w THEN 1 ELSE 0)
        <4> DEFINE j == i + 1
        <4>1. j \in Nat /\ j # 0
          BY <2>1
        <4> HIDE DEF j
        <4>2. CountAt(t, w, j - 1) \in Nat /\ CountAt(t, w, j) = CountAt(t, w, j - 1) + (IF t[j][1] = w THEN 1 ELSE 0)
          BY <4>1, CountGrows
        <4> QED BY <4>2 DEF j
      <3> QED BY <2>1, <3>1
    <2>4. Turn(t[i + 1], d[i], q[i], d[i + 1], q[i + 1])
      BY <2>1, <1>3
    <2>5. d[i] \in Nat /\ q[i] \in Nat
      <3>1. i \in 0..m
        <4>1. i \in Int /\ 0 <= i /\ i + 1 <= m /\ m \in Nat
          BY <2>1, <1>2 DEF m
        <4> QED BY <4>1
      <3> QED BY <1>3, <3>1
    <2>6. CountAt(t, "?", i + 1) = q[i + 1]
      BY <2>2, <2>3, <2>4 DEF Turn
    <2>7. DepthAt(t, i + 1) = d[i + 1]
      <3> DEFINE a == CountAt(t, "(", i)
                 b == CountAt(t, ")", i)
      <3>1. /\ a \in Nat /\ CountAt(t, "(", i + 1) = a + (IF t[i + 1][1] = "(" THEN 1 ELSE 0)
            /\ b \in Nat /\ CountAt(t, ")", i + 1) = b + (IF t[i + 1][1] = ")" THEN 1 ELSE 0)
        BY <2>3
      <3>2. a - b = d[i]
        BY <2>2 DEF DepthAt
      <3> HIDE DEF a, b
      <3> QED BY <3>1, <3>2, <2>4, <2>5 DEF Turn, DepthAt
    <2> QED BY <2>1, <2>6, <2>7 DEF T
  <1>6. \A i \in 0..m : i \in T
    <2> HIDE DEF T
    <2> QED BY <1>2, <1>4, <1>5, InductionUpTo
  <1>7. \A i \in 0..m : DepthAt(t, i) = d[i] /\ CountAt(t, "?", i) = q[i]
    BY <1>6
  <1> HIDE DEF T
  <1>8. ASSUME NEW i \in 1..m
        PROVE  /\ DepthAt(t, i) >= 0 /\ (t[i][1] = "OR" => DepthAt(t, i) > 0)
               /\ t[i][1] = "?" => t[i][2] = CountAt(t, "?", i)
    <2>1. DepthAt(t, i) = d[i] /\ CountAt(t, "?", i) = q[i] /\ d[i] \in Nat
      BY <1>2, <1>3, <1>7
    <2>2. Turn(t[i], d[i - 1], q[i - 1], d[i], q[i])
      BY <1>3
    <2> QED BY <2>1, <2>2 DEF Turn
  <1>9. DepthAt(t, m) = 0 /\ CountAt(t, "?", m) = n
    BY <1>1, <1>2, <1>7
  <1> QED BY <1>2, <1>8, <1>9 DEF Sound

-----------------------------------------------------------------------------
(* One more step of FlattenSeq, whose recursive function exists.           *)
FlattenStep(f, s, i) == IF i = 1 THEN s[i] ELSE f[i - 1] \o s[i]

LEMMA FlattenExists ==
    ASSUME NEW s, NEW n \in Nat
    PROVE  \E f : f = [i \in 1..n |-> FlattenStep(f, s, i)]
  <1> DEFINE Exists(m) == \E f : f = [i \in 1..m |-> FlattenStep(f, s, i)]
             T == {m \in 0..n : Exists(m)}
  <1>1. 0 \in T
    <2> DEFINE f == [i \in 1..0 |-> 0]
    <2>1. f = [i \in 1..0 |-> FlattenStep(f, s, i)]
      OBVIOUS
    <2> HIDE DEF f
    <2>2. Exists(0)
      BY <2>1
    <2> HIDE DEF Exists
    <2> QED BY <2>2
  <1>2. ASSUME NEW m \in 0..(n - 1), m \in T PROVE m + 1 \in T
    <2>1. PICK f : f = [i \in 1..m |-> FlattenStep(f, s, i)]
      BY <1>2
    <2> DEFINE g == [i \in 1..(m + 1) |-> IF i = m + 1 THEN FlattenStep(f, s, i) ELSE f[i]]
    <2>2. \A i \in 1..(m + 1) : g[i] = FlattenStep(g, s, i)
      <3> SUFFICES ASSUME NEW i \in 1..(m + 1) PROVE g[i] = FlattenStep(g, s, i)
        OBVIOUS
      <3>1. i # 1 => i - 1 \in 1..m /\ g[i - 1] = f[i - 1]
        OBVIOUS
      <3>2. FlattenStep(g, s, i) = FlattenStep(f, s, i)
        BY <3>1 DEF FlattenStep
      <3>3. i # m + 1 => f[i] = FlattenStep(f, s, i)
        BY <2>1
      <3>4. g[i] = IF i = m + 1 THEN FlattenStep(f, s, i) ELSE f[i]
        OBVIOUS
      <3> QED BY <3>2, <3>3, <3>4
    <2>3. g = [i \in 1..(m + 1) |-> g[i]]
      OBVIOUS
    <2> HIDE DEF g
    <2>4. g = [i \in 1..(m + 1) |-> FlattenStep(g, s, i)]
      BY <2>2, <2>3
    <2>5. m + 1 \in 0..n
      OBVIOUS
    <2> QED BY <2>4, <2>5
  <1>3. \A m \in 0..n : m \in T
    <2> HIDE DEF T
    <2> QED BY <1>1, <1>2, InductionUpTo
  <1>4. n \in T
    BY <1>3
  <1> QED BY <1>4

LEMMA FlattenIs ==
    ASSUME NEW s, Len(s) \in Nat, Len(s) # 0
    PROVE  \E f : /\ \A i \in 1..Len(s) : f[i] = FlattenStep(f, s, i)
                  /\ FlattenSeq(s) = f[Len(s)]
  <1> DEFINE f == CHOOSE f : f = [i \in 1..Len(s) |-> FlattenStep(f, s, i)]
  <1>1. f = [i \in 1..Len(s) |-> FlattenStep(f, s, i)]
    <2>1. \E h : h = [i \in 1..Len(s) |-> FlattenStep(h, s, i)]
      BY FlattenExists
    <2> QED BY <2>1
  <1>2. FlattenSeq(s) = f[Len(s)]
    BY DEF FlattenSeq, FlattenStep
  <1> HIDE DEF f
  <1>3. \A i \in 1..Len(s) : f[i] = FlattenStep(f, s, i)
    BY <1>1
  <1> QED BY <1>2, <1>3

-----------------------------------------------------------------------------
LEMMA ConditionFacts ==
    ASSUME NEW c \in Conditions
    PROVE  /\ Placeholders(c) \in Nat /\ Len(ValuesBound(c)) = Placeholders(c)
           /\ ValuesBound(c) \in Seq({"in", "value"})
           /\ c.open \in Nat /\ c.close \in Nat /\ c.logic \in {"AND", "OR"}
  <1>1. c.inValues \in Nat /\ c.open \in Nat /\ c.close \in Nat /\ c.logic \in {"AND", "OR"}
    BY DEF Conditions
  <1>2. c.op \in {"compare", "null", "in"}
    BY DEF Conditions
  <1>3. CASE c.op = "null"
    <2>1. Placeholders(c) = 0 /\ ValuesBound(c) = <<>>
      BY <1>3 DEF Placeholders, ValuesBound
    <2> QED BY <1>1, <2>1
  <1>4. CASE c.op = "in" /\ c.inValues # 0
    <2>1. Placeholders(c) = c.inValues /\ ValuesBound(c) = [k \in 1..c.inValues |-> "in"]
      BY <1>1, <1>4 DEF Placeholders, ValuesBound
    <2>2. [k \in 1..c.inValues |-> "in"] \in Seq({"in", "value"}) /\ Len([k \in 1..c.inValues |-> "in"]) = c.inValues
      BY <1>1
    <2> QED BY <1>1, <2>1, <2>2
  <1>5. CASE c.op = "compare" \/ (c.op = "in" /\ c.inValues = 0)
    <2>1. Placeholders(c) = 1
      BY <1>5 DEF Placeholders
    <2>2. ValuesBound(c) = <<"value">>
      BY <1>5 DEF ValuesBound
    <2> QED BY <1>1, <2>1, <2>2
  <1> QED BY <1>2, <1>3, <1>4, <1>5

LEMMA BeforeFirst == \A conds : Before(conds, 1) = 0
  <1> SUFFICES ASSUME NEW conds PROVE Before(conds, 1) = 0
    OBVIOUS
  <1>1. 1..(1 - 1) = {}
    OBVIOUS
  <1> QED BY <1>1, SumOfNone DEF Before

LEMMA BeforeNext ==
    ASSUME NEW conds \in Seq(Conditions), NEW i \in 1..Len(conds)
    PROVE  /\ Before(conds, i) \in Nat
           /\ Before(conds, i + 1) = Before(conds, i) + Placeholders(conds[i])
  <1> DEFINE n == Len(conds)
             f == [j \in DOMAIN conds |-> Placeholders(conds[j])]
             A == 1..(i - 1)
  <1>1. n \in Nat /\ DOMAIN conds = 1..n /\ \A j \in 1..n : conds[j] \in Conditions
    OBVIOUS
  <1>2. \A j \in 1..n : f[j] \in Nat /\ f[j] = Placeholders(conds[j])
    BY <1>1, ConditionFacts
  <1> HIDE DEF f, n
  <1>3. i \in 1..n
    BY DEF n
  <1>4. A \subseteq 1..n /\ i \notin A /\ 1..((i + 1) - 1) = A \cup {i}
    BY <1>1, <1>3
  <1>5. IsFiniteSet(A) /\ IsFiniteSet({i})
    <2>1. 1 \in Int /\ i - 1 \in Int
      BY <1>1, <1>3
    <2> QED BY <2>1, FS_Interval, FS_Singleton
  <1> HIDE DEF A
  <1>6. HasSizes(f, A) /\ HasSizes(f, {i})
    BY <1>2, <1>3, <1>4, <1>5 DEF HasSizes
  <1>7. A \cap {i} = {}
    BY <1>4
  <1>8. SumOver(f, A) \in Nat /\ SumOver(f, A \cup {i}) = SumOver(f, A) + SumOver(f, {i})
    BY <1>6, <1>7, SumOfParts
  <1>9. SumOver(f, {i}) = Placeholders(conds[i])
    BY <1>2, <1>3, SumOfOne
  <1> QED BY <1>4, <1>8, <1>9 DEF Before, f, A

LEMMA BindLength ==
    ASSUME NEW conds \in Seq(Conditions)
    PROVE  /\ BindValues(conds) \in Seq({"in", "value"})
           /\ Len(BindValues(conds)) = Before(conds, Len(conds) + 1)
           /\ Before(conds, Len(conds) + 1) \in Nat
  <1> DEFINE n == Len(conds)
             s == [i \in DOMAIN conds |-> ValuesBound(conds[i])]
             V == {"in", "value"}
  <1>1. n \in Nat /\ DOMAIN conds = 1..n /\ \A j \in 1..n : conds[j] \in Conditions
    OBVIOUS
  <1>2. Len(s) = n /\ \A i \in 1..n : s[i] = ValuesBound(conds[i])
    BY <1>1
  <1>3. BindValues(conds) = FlattenSeq(s)
    BY DEF BindValues
  <1>4. \A i \in 1..n : s[i] \in Seq(V) /\ Len(s[i]) = Placeholders(conds[i])
    <2> SUFFICES ASSUME NEW i \in 1..n PROVE s[i] \in Seq(V) /\ Len(s[i]) = Placeholders(conds[i])
      OBVIOUS
    <2>1. conds[i] \in Conditions /\ s[i] = ValuesBound(conds[i])
      BY <1>1, <1>2
    <2> HIDE DEF s
    <2> QED BY <2>1, ConditionFacts
  <1>5. CASE n = 0
    <2>1. s = <<>>
      BY <1>1, <1>5
    <2> HIDE DEF s
    <2>2. FlattenSeq(s) = <<>>
      BY <2>1, <1>2, <1>5 DEF FlattenSeq
    <2>3. n + 1 = 1
      BY <1>5
    <2> QED BY <1>3, <2>2, <2>3, BeforeFirst
  <1>6. CASE n # 0
    <2> HIDE DEF s, n
    <2>1. PICK f : /\ \A i \in 1..Len(s) : f[i] = FlattenStep(f, s, i)
                   /\ FlattenSeq(s) = f[Len(s)]
      BY <1>1, <1>2, <1>6, FlattenIs
    <2> DEFINE T == {i \in 0..n : i # 0 => f[i] \in Seq(V) /\ Len(f[i]) = Before(conds, i + 1)}
    <2>2. 0 \in T
      BY <1>1
    <2>3. ASSUME NEW i \in 0..(n - 1), i \in T PROVE i + 1 \in T
      <3> DEFINE j == i + 1
      <3>0. j \in 1..n /\ j \in 0..n /\ j - 1 = i
        BY <1>1
      <3>1. f[j] = FlattenStep(f, s, j) /\ s[j] \in Seq(V) /\ Len(s[j]) = Placeholders(conds[j])
        BY <3>0, <2>1, <1>2, <1>4
      <3>2. Before(conds, j) \in Nat /\ Before(conds, j + 1) = Before(conds, j) + Placeholders(conds[j])
        BY <3>0, BeforeNext DEF n
      <3>3. CASE i = 0
        <4>1. f[j] = s[j] /\ Before(conds, j) = 0
          BY <3>1, <3>3, BeforeFirst DEF FlattenStep
        <4>2. Placeholders(conds[j]) \in Nat
          BY <3>0, <1>1, ConditionFacts
        <4> QED BY <3>0, <3>1, <3>2, <4>1, <4>2
      <3>4. CASE i # 0
        <4>1. f[i] \in Seq(V) /\ Len(f[i]) = Before(conds, j)
          BY <2>3, <3>4
        <4> HIDE DEF V, j, T
        <4>2. f[j] = f[i] \o s[j]
          <5>1. j # 1
            BY <3>0, <3>4
          <5> QED BY <3>0, <3>1, <5>1 DEF FlattenStep
        <4>3. f[j] \in Seq(V) /\ Len(f[j]) = Len(f[i]) + Len(s[j])
          <5>1. \A x, y \in Seq(V) : x \o y \in Seq(V) /\ Len(x \o y) = Len(x) + Len(y)
            OBVIOUS
          <5> QED BY <3>1, <4>1, <4>2, <5>1
        <4>4. f[j] \in Seq(V) /\ Len(f[j]) = Before(conds, j + 1)
          BY <3>1, <3>2, <4>1, <4>3
        <4> QED BY <3>0, <4>4 DEF j, T
      <3> QED BY <3>3, <3>4
    <2>4. \A i \in 0..n : i \in T
      <3> HIDE DEF T
      <3> QED BY <1>1, <2>2, <2>3, InductionUpTo
    <2>5. f[n] \in Seq(V) /\ Len(f[n]) = Before(conds, n + 1)
      <3>1. n \in T
        BY <1>1, <2>4
      <3> QED BY <3>1, <1>6
    <2>6. Len(f[n]) \in Nat
      BY <2>5
    <2> QED BY <1>2, <1>3, <2>1, <2>5, <2>6 DEF n
  <1> QED BY <1>5, <1>6

-----------------------------------------------------------------------------
(* The text of one condition, within `around` parentheses.                 *)
LEMMA ReadCondition ==
    ASSUME NEW conds \in Seq(Conditions), NEW d, Levels(conds, d), NEW i \in 1..Len(conds),
           NEW around \in Nat, HasOr(conds) => around # 0, NEW q0 \in Nat
    PROVE  Reads(ConditionText(conds, q0 + 1, i),
                 around + d[i - 1], q0 + Before(conds, i), around + d[i], q0 + Before(conds, i + 1))
  <1> DEFINE c == conds[i]
             p == Placeholders(c)
             b == q0 + Before(conds, i)
             a == around + d[i - 1]
             e == around + d[i]
             W == IF i = 1 THEN <<>> ELSE Word(c.logic)
  <1>1. Len(conds) \in Nat /\ c \in Conditions
    OBVIOUS
  <1>2. d[i - 1] \in Nat /\ d[i] \in Nat /\ d[i] = d[i - 1] + c.open - c.close
    <2>1. i - 1 \in 0..Len(conds) /\ i \in 0..Len(conds)
      BY <1>1
    <2> QED BY <2>1 DEF Levels
  <1>3. p \in Nat /\ c.open \in Nat /\ c.close \in Nat /\ c.logic \in {"AND", "OR"}
    BY <1>1, ConditionFacts
  <1>4. b \in Nat /\ q0 + Before(conds, i + 1) = b + p /\ q0 + 1 + Before(conds, i) = b + 1
    BY <1>3, BeforeNext
  <1>5. c.logic = "OR" => around # 0
    <2>1. i \in DOMAIN conds
      OBVIOUS
    <2> QED BY <2>1 DEF HasOr
  <1>6. ConditionText(conds, q0 + 1, i)
          = ((W \o Repeated("(", c.open)) \o Numbered(b + 1, p)) \o Repeated(")", c.close)
    BY <1>4 DEF ConditionText
  <1> HIDE DEF c, p
  <1>7. a \in Nat /\ e \in Nat /\ a + c.open = e + c.close /\ a + c.open \in Nat /\ b + p \in Nat
    <2>1. a \in Nat /\ e \in Nat
      BY <1>2
    <2>2. a + c.open = e + c.close
      BY <1>2, <1>3
    <2> HIDE DEF a, b, e
    <2> QED BY <1>3, <1>4, <2>1, <2>2
  <1>8. c.logic = "OR" => a # 0
    BY <1>2, <1>5
  <1> HIDE DEF a, b, e
  <1>9. Reads(W, a, b, a, b)
    <2>1. c.logic \in Words
      BY <1>3 DEF Words
    <2>2. Reads(<<>>, a, b, a, b)
      BY <1>4, <1>7, ReadNone
    <2>3. Reads(Word(c.logic), a, b, a, b)
      BY <2>1, <1>4, <1>7, <1>8, ReadWord
    <2> QED BY <2>2, <2>3
  <1> HIDE DEF W
  <1>10. Reads(Repeated("(", c.open), a, b, a + c.open, b)
    BY <1>3, <1>4, <1>7, ReadRepeated
  <1>11. Reads(Numbered(b + 1, p), a + c.open, b, a + c.open, b + p)
    BY <1>3, <1>4, <1>7, ReadNumbered
  <1>12. Reads(Repeated(")", c.close), a + c.open, b + p, e, b + p)
    BY <1>3, <1>4, <1>7, ReadRepeated
  <1>13. Reads(W \o Repeated("(", c.open), a, b, a + c.open, b)
    BY <1>9, <1>10, ReadJoined
  <1>14. Reads((W \o Repeated("(", c.open)) \o Numbered(b + 1, p), a, b, a + c.open, b + p)
    BY <1>11, <1>13, ReadJoined
  <1>15. Reads(((W \o Repeated("(", c.open)) \o Numbered(b + 1, p)) \o Repeated(")", c.close), a, b, e, b + p)
    BY <1>12, <1>14, ReadJoined
  <1> QED BY <1>4, <1>6, <1>15 DEF a, b, e

LEMMA ReadChain ==
    ASSUME NEW conds \in Seq(Conditions), Balanced(conds), conds # <<>>,
           NEW around \in Nat, HasOr(conds) => around # 0, NEW q0 \in Nat
    PROVE  Reads(Chain(conds, q0 + 1), around, q0, around, q0 + Before(conds, Len(conds) + 1))
  <1> DEFINE n == Len(conds)
             s == [i \in DOMAIN conds |-> ConditionText(conds, q0 + 1, i)]
  <1>1. n \in Nat /\ DOMAIN conds = 1..n /\ n # 0
    OBVIOUS
  <1>2. Len(s) = n /\ \A i \in 1..n : s[i] = ConditionText(conds, q0 + 1, i)
    BY <1>1
  <1>3. PICK d : Levels(conds, d)
    BY DEF Balanced
  <1>4. Chain(conds, q0 + 1) = FlattenSeq(s)
    BY DEF Chain
  <1>5. \A i \in 1..n : Reads(s[i], around + d[i - 1], q0 + Before(conds, i),
                              around + d[i], q0 + Before(conds, i + 1))
    <2> SUFFICES ASSUME NEW i \in 1..n
                 PROVE  Reads(s[i], around + d[i - 1], q0 + Before(conds, i),
                              around + d[i], q0 + Before(conds, i + 1))
      OBVIOUS
    <2>1. s[i] = ConditionText(conds, q0 + 1, i)
      BY <1>2
    <2> HIDE DEF s
    <2>2. Reads(ConditionText(conds, q0 + 1, i), around + d[i - 1], q0 + Before(conds, i),
                around + d[i], q0 + Before(conds, i + 1))
      BY <1>3, ReadCondition
    <2> QED BY <2>1, <2>2
  <1> HIDE DEF s
  <1>6. d[0] = 0 /\ d[n] = 0
    BY <1>3 DEF Levels
  <1> HIDE DEF n
  <1>7. PICK f : /\ \A i \in 1..Len(s) : f[i] = FlattenStep(f, s, i)
                 /\ FlattenSeq(s) = f[Len(s)]
    BY <1>1, <1>2, FlattenIs
  <1> DEFINE T == {i \in 0..n : i # 0 => Reads(f[i], around, q0, around + d[i], q0 + Before(conds, i + 1))}
  <1>8. 0 \in T
    BY <1>1
  <1>9. ASSUME NEW i \in 0..(n - 1), i \in T PROVE i + 1 \in T
    <2> DEFINE j == i + 1
    <2>0. j \in 1..n /\ j \in 0..n /\ j - 1 = i
      BY <1>1
    <2>1. f[j] = FlattenStep(f, s, j)
      BY <2>0, <1>2, <1>7
    <2>2. Reads(s[j], around + d[i], q0 + Before(conds, j), around + d[j], q0 + Before(conds, j + 1))
      BY <2>0, <1>5
    <2>3. CASE i = 0
      <3>1. f[j] = s[j] /\ Before(conds, j) = 0 /\ d[i] = 0
        BY <2>1, <2>3, <1>6, BeforeFirst DEF FlattenStep
      <3>2. around + d[i] = around /\ q0 + Before(conds, j) = q0
        BY <3>1
      <3>3. Reads(f[j], around, q0, around + d[j], q0 + Before(conds, j + 1))
        BY <2>2, <3>1, <3>2
      <3> QED BY <2>0, <3>3
    <2>4. CASE i # 0
      <3>1. Reads(f[i], around, q0, around + d[i], q0 + Before(conds, j))
        BY <1>9, <2>4
      <3> HIDE DEF j, T
      <3>2. f[j] = f[i] \o s[j]
        <4>1. j # 1
          BY <2>0, <2>4
        <4> QED BY <2>0, <2>1, <4>1 DEF FlattenStep
      <3>3. Reads(f[j], around, q0, around + d[j], q0 + Before(conds, j + 1))
        BY <2>2, <3>1, <3>2, ReadJoined
      <3> QED BY <2>0, <3>3 DEF j, T
    <2> QED BY <2>3, <2>4
  <1>10. \A i \in 0..n : i \in T
    <2> HIDE DEF T
    <2> QED BY <1>1, <1>8, <1>9, InductionUpTo
  <1>11. Reads(f[n], around, q0, around + d[n], q0 + Before(conds, n + 1))
    <2>1. n \in T
      BY <1>1, <1>10
    <2> QED BY <2>1, <1>1
  <1>12. around + d[n] = around
    BY <1>6
  <1> QED BY <1>2, <1>4, <1>7, <1>11, <1>12 DEF n

LEMMA ReadAppended ==
    ASSUME NEW conds \in Seq(Conditions), Balanced(conds), NEW q0 \in Nat
    PROVE  Reads(AppendConditions(conds, q0 + 1, TRUE), 0, q0, 0, q0 + Before(conds, Len(conds) + 1))
  <1> DEFINE q1 == q0 + Before(conds, Len(conds) + 1)
             around == IF HasOr(conds) THEN 1 ELSE 0
             chained == Chain(conds, q0 + 1)
  <1>1. around \in Nat /\ (HasOr(conds) => around # 0)
    OBVIOUS
  <1>2. q1 \in Nat
    BY BindLength
  <1>3. CASE conds = <<>>
    <2>1. AppendConditions(conds, q0 + 1, TRUE) = <<>>
      BY <1>3 DEF AppendConditions
    <2>2. Len(conds) + 1 = 1
      BY <1>3
    <2>3. q1 = q0
      BY <2>2, BeforeFirst
    <2>4. Reads(<<>>, 0, q0, 0, q0)
      BY ReadNone
    <2> QED BY <2>1, <2>3, <2>4
  <1>4. CASE conds # <<>>
    <2>1. AppendConditions(conds, q0 + 1, TRUE)
            = ((Word("AND") \o Repeated("(", around)) \o chained) \o Repeated(")", around)
      BY <1>4 DEF AppendConditions
    <2> HIDE DEF around
    <2>2. Reads(chained, around, q0, around, q1)
      BY <1>1, <1>4, ReadChain
    <2> HIDE DEF chained, q1
    <2>3. "AND" \in Words /\ "AND" # "OR"
      BY DEF Words
    <2>4. Reads(Word("AND"), 0, q0, 0, q0)
      BY <2>3, ReadWord
    <2>5. 0 + around = around
      BY <1>1
    <2>6. Reads(Repeated("(", around), 0, q0, around, q0)
      BY <1>1, <2>5, ReadRepeated
    <2>7. Reads(Repeated(")", around), around, q1, 0, q1)
      BY <1>1, <1>2, <2>5, ReadRepeated
    <2>8. Reads(Word("AND") \o Repeated("(", around), 0, q0, around, q0)
      BY <2>4, <2>6, ReadJoined
    <2>9. Reads((Word("AND") \o Repeated("(", around)) \o chained, 0, q0, around, q1)
      BY <2>2, <2>8, ReadJoined
    <2>10. Reads(((Word("AND") \o Repeated("(", around)) \o chained) \o Repeated(")", around), 0, q0, 0, q1)
      BY <2>7, <2>9, ReadJoined
    <2> QED BY <2>1, <2>10 DEF q1
  <1> QED BY <1>3, <1>4

LEMMA SelectIsSound ==
    ASSUME NEW conds \in Seq(Conditions), Balanced(conds)
    PROVE  Sound(SelectSql(conds), BindValues(conds))
  <1> DEFINE n == Before(conds, Len(conds) + 1)
  <1>1. n \in Nat /\ Len(BindValues(conds)) = n
    BY BindLength
  <1> HIDE DEF n
  <1>2. 0 + 1 = 1 /\ 0 + n = n
    BY <1>1
  <1>3. Reads(AppendConditions(conds, 1, TRUE), 0, 0, 0, n)
    BY <1>2, ReadAppended DEF n
  <1>4. "live" \in Words /\ "live" # "OR"
    BY DEF Words
  <1>5. Reads(Word("live"), 0, 0, 0, 0)
    BY <1>4, ReadWord
  <1>6. Reads(SelectSql(conds), 0, 0, 0, n)
    BY <1>3, <1>5, ReadJoined DEF SelectSql
  <1> QED BY <1>1, <1>6, ReadIsSound

LEMMA UpdateIsSound ==
    ASSUME NEW conds \in Seq(Conditions), Balanced(conds), NEW u \in Nat
    PROVE  Sound(UpdateSql(conds, u), UpdateBindValues(conds, u))
  <1> DEFINE n == Before(conds, Len(conds) + 1)
             k == u + 1
  <1>1. n \in Nat /\ Len(BindValues(conds)) = n /\ BindValues(conds) \in Seq({"in", "value"})
    BY BindLength
  <1>2. k \in Nat /\ k + 1 = u + 2 /\ 0 + 1 = 1 /\ 0 + k = k
    OBVIOUS
  <1>3. UpdateSql(conds, u) = (Numbered(1, k) \o Word("live")) \o AppendConditions(conds, k + 1, TRUE)
    BY <1>2 DEF UpdateSql
  <1>4. Len(UpdateBindValues(conds, u)) = k + n
    <2> DEFINE a == [j \in 1..k |-> "set"]
               b == BindValues(conds)
               S == {"set", "in", "value"}
    <2>1. a \in Seq(S) /\ Len(a) = k
      BY <1>2
    <2>2. b \in Seq(S) /\ Len(b) = n
      BY <1>1
    <2>3. UpdateBindValues(conds, u) = a \o b
      BY DEF UpdateBindValues
    <2>4. \A x, y \in Seq(S) : Len(x \o y) = Len(x) + Len(y)
      OBVIOUS
    <2> HIDE DEF a, b, S, n, k
    <2> QED BY <2>1, <2>2, <2>3, <2>4
  <1> HIDE DEF n, k
  <1>5. Reads(AppendConditions(conds, k + 1, TRUE), 0, k, 0, k + n)
    BY <1>2, ReadAppended DEF n
  <1>6. "live" \in Words /\ "live" # "OR"
    BY DEF Words
  <1>7. Reads(Word("live"), 0, k, 0, k)
    BY <1>2, <1>6, ReadWord
  <1>8. Reads(Numbered(0 + 1, k), 0, 0, 0, 0 + k)
    BY <1>2, ReadNumbered
  <1>9. Reads(Numbered(1, k) \o Word("live"), 0, 0, 0, k)
    BY <1>2, <1>7, <1>8, ReadJoined
  <1>10. Reads(UpdateSql(conds, u), 0, 0, 0, k + n)
    BY <1>3, <1>5, <1>9, ReadJoined
  <1>11. k + n \in Nat
    BY <1>1, <1>2
  <1> QED BY <1>4, <1>10, <1>11, ReadIsSound

LEMMA RefusalIsRight ==
    ASSUME NEW conds \in Seq(Conditions), Balanced(conds)
    PROVE  DeleteRefused(conds, FALSE) <=> conds = <<>>
  <1>1. CASE conds = <<>>
    BY <1>1 DEF DeleteRefused, AppendConditions
  <1>2. CASE conds # <<>>
    <2> DEFINE around == IF HasOr(conds) THEN 1 ELSE 0
               R == Repeated("(", around)
               chained == Chain(conds, 1)
               E == Repeated(")", around)
    <2>1. around \in Nat /\ (HasOr(conds) => around # 0) /\ 0 + 1 = 1
      OBVIOUS
    <2>2. AppendConditions(conds, 1, FALSE) = ((Word("WHERE") \o R) \o chained) \o E
      BY <1>2 DEF AppendConditions
    <2> HIDE DEF around
    <2>3. chained \in Seq(Tokens)
      <3>1. Reads(Chain(conds, 0 + 1), around, 0, around, 0 + Before(conds, Len(conds) + 1))
        BY <1>2, <2>1, ReadChain
      <3> QED BY <2>1, <3>1 DEF Reads
    <2>4. R \in Seq(Tokens) /\ E \in Seq(Tokens)
      BY <2>1, ReadRepeated DEF Reads
    <2>5. Word("WHERE") \in Seq(Tokens) /\ Len(Word("WHERE")) = 1
      <3>1. <<"WHERE", 0>> \in Tokens
        BY DEF Tokens
      <3> QED BY <3>1 DEF Word
    <2> DEFINE w == Word("WHERE")
    <2> HIDE DEF R, chained, E, w
    <2>6. \A a, b \in Seq(Tokens) : a \o b \in Seq(Tokens) /\ Len(a \o b) = Len(a) + Len(b) /\ Len(a) \in Nat
      OBVIOUS
    <2>7. w \o R \in Seq(Tokens) /\ Len(w \o R) >= 1
      BY <2>4, <2>5, <2>6 DEF w
    <2>8. (w \o R) \o chained \in Seq(Tokens) /\ Len((w \o R) \o chained) >= 1
      BY <2>3, <2>6, <2>7
    <2>9. Len(((w \o R) \o chained) \o E) >= 1
      BY <2>4, <2>6, <2>8
    <2>10. ((w \o R) \o chained) \o E # <<>>
      BY <2>9
    <2> QED BY <1>2, <2>2, <2>10 DEF DeleteRefused, w
  <1> QED BY <1>1, <1>2

LEMMA StatementsAreSound == WrapInv => StatementIsSound
  <1> SUFFICES ASSUME WrapInv, Len(wrappers) = 1 PROVE
          /\ Sound(SelectSql(wrappers[1]), BindValues(wrappers[1]))
          /\ \A u \in 1..2 : Sound(UpdateSql(wrappers[1], u), UpdateBindValues(wrappers[1], u))
          /\ DeleteRefused(wrappers[1], FALSE) <=> wrappers[1] = <<>>
    BY DEF StatementIsSound
  <1>1. Balanced(wrappers[1])
    BY DEF WrapInv
  <1>2. wrappers[1] \in Seq(Conditions)
    BY <1>1 DEF Balanced
  <1>3. \A u \in 1..2 : u \in Nat
    OBVIOUS
  <1> QED BY <1>1, <1>2, <1>3, SelectIsSound, UpdateIsSound, RefusalIsRight

-----------------------------------------------------------------------------
PageInv == page \in [limit : 0..MaxRows, offset : 0..MaxRows, grouped : BOOLEAN, ordered : BOOLEAN]

LEMMA PageKeeps == PageInv /\ [WrapperNext \/ PageNext]_<<wrappers, page>> => PageInv'
  <1> SUFFICES ASSUME PageInv, [WrapperNext \/ PageNext]_<<wrappers, page>> PROVE PageInv'
    OBVIOUS
  <1>1. ASSUME NEW n \in 0..MaxRows, page' = [page EXCEPT !.limit = n] PROVE PageInv'
    BY <1>1 DEF PageInv
  <1>2. ASSUME NEW n \in 0..MaxRows, page' = [page EXCEPT !.offset = n] PROVE PageInv'
    BY <1>2 DEF PageInv
  <1>3. CASE page' = [page EXCEPT !.grouped = TRUE]
    BY <1>3 DEF PageInv
  <1>4. CASE page' = [page EXCEPT !.ordered = TRUE]
    BY <1>4 DEF PageInv
  <1>5. CASE page' = page
    BY <1>5 DEF PageInv
  <1> QED BY <1>1, <1>2, <1>3, <1>4, <1>5 DEF WrapperNext, PageNext

LEMMA WordsJoined ==
    ASSUME NEW S, NEW x \in S, NEW y \in S, NEW z \in S
    PROVE  <<x>> \o <<y>> = <<x, y>> /\ <<x, y>> \o <<z>> = <<x, y, z>>
  <1> DEFINE u == <<x>> \o <<y>>
             v == <<x, y>> \o <<z>>
  <1>1. u \in Seq(S) /\ Len(u) = 2 /\ u[1] = x /\ u[2] = y
    OBVIOUS
  <1>2. v \in Seq(S) /\ Len(v) = 3 /\ v[1] = x /\ v[2] = y /\ v[3] = z
    OBVIOUS
  <1> HIDE DEF u, v
  <1>3. u = <<x, y>>
    BY <1>1
  <1>4. v = <<x, y, z>>
    BY <1>2
  <1> QED BY <1>3, <1>4 DEF u, v

LEMMA PagesAreWindows == PageInv => PageIsWindow
  <1> SUFFICES ASSUME PageInv PROVE PageIsWindow
    OBVIOUS
  <1> DEFINE l == page.limit
             o == page.offset
             sqlite == SqliteLimitOffset(l, o)
             mysql == MySqlLimitOffset(l, o)
             postgres == PostgreSqlLimitOffset(l, o)
             wanted == {r \in 1..MaxRows : o < r /\ r <= o + l}
  <1>1. l \in Nat /\ o \in Nat
    BY QueryAssumption DEF PageInv
  <1>2. ASSUME l > 0
        PROVE  Shown("SQLite", sqlite) = wanted /\ Shown("MySQL", mysql) = wanted /\ Shown("PostgreSQL", postgres) = wanted
    <2>1. CASE o > 0
      <3>1. sqlite = Clause("LimitOffset", l, o) /\ postgres = Clause("LimitOffset", l, o)
        BY <1>1, <1>2, <2>1 DEF SqliteLimitOffset, PostgreSqlLimitOffset
      <3>2. mysql = Clause("OffsetLimit", o, l)
        BY <1>1, <1>2, <2>1 DEF MySqlLimitOffset
      <3> HIDE DEF sqlite, mysql, postgres, l, o
      <3>3. Shown("SQLite", sqlite) = wanted
        BY <3>1 DEF Shown, Clause
      <3>4. Shown("PostgreSQL", postgres) = wanted
        BY <3>1 DEF Shown, Clause
      <3>5. Shown("MySQL", mysql) = wanted
        BY <3>2 DEF Shown, Clause
      <3> QED BY <3>3, <3>4, <3>5
    <2>2. CASE o = 0
      <3>1. sqlite = Clause("Limit", l, 0) /\ postgres = Clause("Limit", l, 0)
        BY <1>1, <1>2, <2>2 DEF SqliteLimitOffset, PostgreSqlLimitOffset
      <3>2. mysql = Clause("Limit", l, 0)
        BY <1>1, <1>2, <2>2 DEF MySqlLimitOffset
      <3> HIDE DEF sqlite, mysql, postgres, l, o
      <3>3. Shown("SQLite", sqlite) = wanted
        BY <3>1, <2>2 DEF Shown, Clause
      <3>4. Shown("PostgreSQL", postgres) = wanted
        BY <3>1, <2>2 DEF Shown, Clause
      <3>5. Shown("MySQL", mysql) = wanted
        BY <3>2, <2>2 DEF Shown, Clause
      <3> QED BY <3>3, <3>4, <3>5
    <2> QED BY <1>1, <2>1, <2>2
  <1>3. ASSUME l = 0, o > 0
        PROVE  Shown("SQLite", sqlite) = {0} /\ Shown("MySQL", mysql) = 1..MaxRows
    <2>1. sqlite = Clause("Offset", o, 0)
      BY <1>1, <1>3 DEF SqliteLimitOffset
    <2>2. mysql = Clause("", 0, 0)
      BY <1>1, <1>3 DEF MySqlLimitOffset, NoClause
    <2> HIDE DEF sqlite, mysql, l, o
    <2>3. Shown("SQLite", sqlite) = {0}
      BY <2>1 DEF Shown, Clause
    <2>4. Shown("MySQL", mysql) = 1..MaxRows
      BY <2>2 DEF Shown, Clause
    <2> QED BY <2>3, <2>4
  <1>4. ASSUME NEW c, NEW j \in DOMAIN SelectTail(c), NEW k \in DOMAIN SelectTail(c), j < k
        PROVE  Place[SelectTail(c)[j]] < Place[SelectTail(c)[k]]
    <2>1. Place["GROUP_BY"] = 1 /\ Place["ORDER_BY"] = 2 /\ Place["LIMIT"] = 3
      BY DEF Place
    <2> DEFINE t == SelectTail(c)
               G == IF page.grouped THEN <<"GROUP_BY">> ELSE <<>>
               O == IF page.ordered THEN <<"ORDER_BY">> ELSE <<>>
               L == IF c = NoClause THEN <<>> ELSE <<"LIMIT">>
    <2>2. t = (G \o O) \o L
      BY DEF SelectTail
    <2>3. /\ G = <<>> \/ G = <<"GROUP_BY">>
          /\ O = <<>> \/ O = <<"ORDER_BY">>
          /\ L = <<>> \/ L = <<"LIMIT">>
      OBVIOUS
    <2> HIDE DEF t, G, O, L
    <2>0. /\ <<"GROUP_BY">> \o <<"ORDER_BY">> = <<"GROUP_BY", "ORDER_BY">>
          /\ <<"GROUP_BY">> \o <<"LIMIT">> = <<"GROUP_BY", "LIMIT">>
          /\ <<"ORDER_BY">> \o <<"LIMIT">> = <<"ORDER_BY", "LIMIT">>
          /\ <<"GROUP_BY", "ORDER_BY">> \o <<"LIMIT">> = <<"GROUP_BY", "ORDER_BY", "LIMIT">>
      <3> DEFINE S == {"GROUP_BY", "ORDER_BY", "LIMIT"}
      <3>1. \A x, y, z \in S : <<x>> \o <<y>> = <<x, y>> /\ <<x, y>> \o <<z>> = <<x, y, z>>
        <4> HIDE DEF S
        <4> QED BY WordsJoined
      <3> QED BY <3>1
    <2>4. G \o O \in {<<>>, <<"GROUP_BY">>, <<"ORDER_BY">>, <<"GROUP_BY", "ORDER_BY">>}
      <3>1. CASE G = <<>>
        <4>1. G \o O = O
          BY <2>3, <3>1
        <4> QED BY <2>3, <4>1
      <3>2. CASE O = <<>>
        <4>1. G \o O = G
          BY <2>3, <3>2
        <4> QED BY <2>3, <4>1
      <3>3. CASE G = <<"GROUP_BY">> /\ O = <<"ORDER_BY">>
        <4>1. G \o O = <<"GROUP_BY", "ORDER_BY">>
          BY <2>0, <3>3
        <4> QED BY <4>1
      <3> QED BY <2>3, <3>1, <3>2, <3>3
    <2> DEFINE H == G \o O
    <2>5. H \in {<<>>, <<"GROUP_BY">>, <<"ORDER_BY">>, <<"GROUP_BY", "ORDER_BY">>} /\ t = H \o L
      BY <2>2, <2>4
    <2> HIDE DEF H
    <2>6. CASE L = <<>>
      <3>1. t = H
        BY <2>5, <2>6
      <3>2. CASE Len(H) < 2
        BY <1>4, <2>5, <3>1, <3>2 DEF t
      <3>3. CASE H = <<"GROUP_BY", "ORDER_BY">>
        BY <1>4, <2>1, <3>1, <3>3 DEF t
      <3> QED BY <2>5, <3>2, <3>3
    <2>7. CASE L = <<"LIMIT">>
      <3>1. CASE H = <<>>
        <4>1. t = <<"LIMIT">>
          BY <2>5, <2>7, <3>1
        <4> QED BY <1>4, <4>1 DEF t
      <3>2. CASE H = <<"GROUP_BY">>
        <4>1. t = <<"GROUP_BY", "LIMIT">>
          BY <2>0, <2>5, <2>7, <3>2
        <4> QED BY <1>4, <2>1, <4>1 DEF t
      <3>3. CASE H = <<"ORDER_BY">>
        <4>1. t = <<"ORDER_BY", "LIMIT">>
          BY <2>0, <2>5, <2>7, <3>3
        <4> QED BY <1>4, <2>1, <4>1 DEF t
      <3>4. CASE H = <<"GROUP_BY", "ORDER_BY">>
        <4>1. t = <<"GROUP_BY", "ORDER_BY", "LIMIT">>
          BY <2>0, <2>5, <2>7, <3>4
        <4> QED BY <1>4, <2>1, <4>1 DEF t
      <3> QED BY <2>5, <3>1, <3>2, <3>3, <3>4
    <2> QED BY <2>3, <2>6, <2>7
  <1> HIDE DEF sqlite, mysql, postgres, wanted
  <1> QED BY <1>2, <1>3, <1>4 DEF PageIsWindow, sqlite, mysql, postgres, wanted

-----------------------------------------------------------------------------
(* A sequence with n entries, of any kind.                                 *)
OfLength(s, n) == s = [k \in 1..n |-> s[k]]
Joins(u, s, t) == u = s \o t

LEMMA EntriesOf ==
    ASSUME NEW s, NEW n \in Nat, OfLength(s, n)
    PROVE  s \in Seq({s[k] : k \in 1..n}) /\ Len(s) = n /\ DOMAIN s = 1..n
  <1> DEFINE S == {s[k] : k \in 1..n}
  <1>1. \A k \in 1..n : s[k] \in S
    OBVIOUS
  <1> HIDE DEF S
  <1>2. s \in [1..n -> S]
    BY <1>1 DEF OfLength
  <1>3. s \in Seq(S) /\ Len(s) = n /\ DOMAIN s = 1..n
    BY <1>2
  <1> QED BY <1>3 DEF S

LEMMA JoinedEntries ==
    ASSUME NEW s, NEW t, NEW m \in Nat, NEW n \in Nat, OfLength(s, m), OfLength(t, n), NEW u, Joins(u, s, t)
    PROVE  /\ OfLength(u, m + n)
           /\ \A k \in 1..m : u[k] = s[k]
           /\ \A k \in 1..n : u[m + k] = t[k]
  <1> DEFINE S == {s[k] : k \in 1..m} \cup {t[k] : k \in 1..n}
  <1>1. s \in Seq(S) /\ Len(s) = m /\ t \in Seq(S) /\ Len(t) = n
    <2>1. \A k \in 1..m : s[k] \in S
      OBVIOUS
    <2>2. \A k \in 1..n : t[k] \in S
      OBVIOUS
    <2> HIDE DEF S
    <2>3. s \in [1..m -> S] /\ t \in [1..n -> S]
      BY <2>1, <2>2 DEF OfLength
    <2> QED BY <2>3
  <1> HIDE DEF S
  <1> DEFINE v == s \o t
  <1>2. /\ v \in Seq(S) /\ Len(v) = m + n
        /\ \A k \in 1..m : v[k] = s[k]
        /\ \A k \in (m + 1)..(m + n) : v[k] = t[k - m]
    BY <1>1
  <1>0. u = v
    BY DEF Joins
  <1> HIDE DEF v
  <1>3. u = [k \in 1..(m + n) |-> u[k]]
    BY <1>0, <1>2
  <1>4. ASSUME NEW k \in 1..n PROVE u[m + k] = t[k]
    <2>1. m + k \in (m + 1)..(m + n) /\ (m + k) - m = k
      OBVIOUS
    <2> QED BY <1>0, <1>2, <2>1
  <1> QED BY <1>0, <1>2, <1>3, <1>4 DEF OfLength

LEMMA LastAndFront ==
    ASSUME NEW s, NEW n \in Nat, OfLength(s, n + 1)
    PROVE  /\ Last(s) = s[n + 1]
           /\ OfLength(Front(s), n) /\ \A k \in 1..n : Front(s)[k] = s[k]
  <1> DEFINE S == {s[k] : k \in 1..(n + 1)}
             t == SubSeq(s, 1, n)
  <1>1. s \in Seq(S) /\ Len(s) = n + 1
    BY EntriesOf
  <1> HIDE DEF S
  <1>2. Len(s) - 1 = n
    BY <1>1
  <1>3. t = [k \in 1..n |-> s[k]]
    BY <1>1
  <1>4. Front(s) = t
    BY <1>2 DEF Front
  <1> HIDE DEF t
  <1>5. \A k \in 1..n : t[k] = s[k]
    BY <1>3
  <1>6. t = [k \in 1..n |-> t[k]]
    BY <1>3
  <1> QED BY <1>1, <1>4, <1>5, <1>6 DEF Last, OfLength

-----------------------------------------------------------------------------
(* The parameters a driver binds.                                          *)
LEMMA BoundInTurn ==
    ASSUME NEW terms, NEW n \in Nat, OfLength(terms, n), NEW params, NEW k \in 1..n,
           \A j \in 1..k : terms[j] = Anonymous
    PROVE  Bound(terms, params)[k] = params[k]
  <1>1. {j \in 1..k : terms[j] = Anonymous} = 1..k
    OBVIOUS
  <1>2. Cardinality(1..k) = k
    BY FS_Interval
  <1>3. Anonymous # Literal
    BY DEF Anonymous, Literal
  <1>4. k \in DOMAIN terms /\ terms[k] = Anonymous
    <2>1. DOMAIN terms = 1..n
      BY DEF OfLength
    <2>2. k \in 1..k
      OBVIOUS
    <2> QED BY <2>1, <2>2
  <1> QED BY <1>1, <1>2, <1>3, <1>4 DEF Bound

LEMMA BoundInRow ==
    ASSUME NEW terms, NEW n \in Nat, OfLength(terms, n), NEW params, NEW k \in 1..n,
           \A j \in 1..k : terms[j] = ConvertPlaceholder(j)
    PROVE  Bound(terms, params)[k] = params[k]
  <1>1. CASE dialect # "postgresql"
    <2>1. \A j \in 1..k : terms[j] = Anonymous
      BY <1>1 DEF ConvertPlaceholder
    <2> QED BY <2>1, BoundInTurn
  <1>2. CASE dialect = "postgresql"
    <2>1. k \in 1..k /\ k \in DOMAIN terms
      BY DEF OfLength
    <2>2. terms[k] = <<"$", k>>
      BY <1>2, <2>1 DEF ConvertPlaceholder
    <2>3. <<"$", k>> # Literal /\ <<"$", k>> # Anonymous /\ <<"$", k>>[2] = k
      BY DEF Literal, Anonymous
    <2> QED BY <2>1, <2>2, <2>3 DEF Bound
  <1> QED BY <1>1, <1>2

LEMMA BoundLength ==
    ASSUME NEW terms, NEW n \in Nat, OfLength(terms, n), NEW params
    PROVE  OfLength(Bound(terms, params), n)
  <1> DEFINE b == Bound(terms, params)
  <1>1. DOMAIN terms = 1..n
    BY DEF OfLength
  <1>2. b = [k \in DOMAIN terms |-> b[k]]
    BY DEF Bound
  <1> HIDE DEF b
  <1>3. b = [k \in 1..n |-> b[k]]
    BY <1>1, <1>2
  <1> QED BY <1>3 DEF OfLength, b

LEMMA RowOfPlaceholders ==
    ASSUME NEW n \in Nat
    PROVE  OfLength(PlaceholderRow(n), n) /\ \A k \in 1..n : PlaceholderRow(n)[k] = ConvertPlaceholder(k)
  BY DEF PlaceholderRow, OfLength

-----------------------------------------------------------------------------
(* A row with the columns of every field, and what a statement that names  *)
(* the columns of the fields F writes of entity e.                         *)
Columns == {ColumnOf[f] : f \in AllFields}

LEMMA ColumnFacts ==
    /\ \A f, g \in AllFields : ColumnOf[f] = ColumnOf[g] => f = g
    /\ \A f \in AllFields : ColumnOf[f] \in Columns
    /\ ColumnOf["id"] = "id" /\ ColumnOf["deleted"] = "deleted"
    /\ ColumnOf["createTime"] = "create_time" /\ ColumnOf["updateTime"] = "update_time"
    /\ {"id", "deleted", "createTime", "updateTime"} \subseteq AllFields
    /\ BaseFields = {"createTime", "updateTime", "deleted"}
    /\ PlainFields \cap {"id", "deleted", "createTime", "updateTime"} = {}
    /\ AllFields = PlainFields \cup {"id", "deleted", "createTime", "updateTime"}
  BY EntityAssumption DEF IsInjective, Columns, AllFields, BaseFields

Names(n, F, columns, values, e) ==
    /\ OfLength(columns, n)
    /\ \A k \in 1..n : F[k] \in AllFields
    /\ \A j, k \in 1..n : F[j] = F[k] => j = k
    /\ \A k \in 1..n : columns[k] = ColumnOf[F[k]]
    /\ \A k \in 1..n : values[k] = e[F[k]]

LEMMA WritesFields ==
    ASSUME NEW n, NEW F, NEW columns, NEW values, NEW e, Names(n, F, columns, values, e),
           NEW row, DOMAIN row = Columns
    PROVE  /\ DOMAIN Assigned(row, columns, values) = Columns
           /\ \A k \in 1..n : Assigned(row, columns, values)[ColumnOf[F[k]]] = e[F[k]]
           /\ \A f \in AllFields : (\A k \in 1..n : F[k] # f) =>
                Assigned(row, columns, values)[ColumnOf[f]] = row[ColumnOf[f]]
  <1> DEFINE At(c) == CHOOSE k \in DOMAIN columns : columns[k] = c
             r == Assigned(row, columns, values)
  <1>0. /\ OfLength(columns, n)
        /\ \A k \in 1..n : F[k] \in AllFields
        /\ \A j, k \in 1..n : F[j] = F[k] => j = k
        /\ \A k \in 1..n : columns[k] = ColumnOf[F[k]]
        /\ \A k \in 1..n : values[k] = e[F[k]]
    BY DEF Names
  <1>1. DOMAIN columns = 1..n
    BY <1>0 DEF OfLength
  <1>2. DOMAIN r = Columns
    BY DEF Assigned
  <1>3. \A c \in Columns : r[c] = IF \E k \in DOMAIN columns : columns[k] = c THEN values[At(c)] ELSE row[c]
    BY DEF Assigned
  <1> HIDE DEF r
  <1>4. ASSUME NEW k \in 1..n PROVE r[ColumnOf[F[k]]] = e[F[k]]
    <2> DEFINE c == ColumnOf[F[k]]
    <2>1. c \in Columns /\ columns[k] = c
      BY <1>0, ColumnFacts
    <2>2. At(c) \in 1..n /\ columns[At(c)] = c
      BY <1>1, <2>1
    <2> HIDE DEF At
    <2>3. F[At(c)] = F[k]
      BY <1>0, <2>1, <2>2, ColumnFacts
    <2>4. At(c) = k
      BY <1>0, <2>2, <2>3
    <2>5. r[c] = values[At(c)]
      BY <1>1, <1>3, <2>1
    <2> QED BY <1>0, <2>4, <2>5
  <1> HIDE DEF At
  <1>5. ASSUME NEW f \in AllFields, \A k \in 1..n : F[k] # f PROVE r[ColumnOf[f]] = row[ColumnOf[f]]
    <2>1. ColumnOf[f] \in Columns
      BY ColumnFacts
    <2>2. \A k \in 1..n : columns[k] # ColumnOf[f]
      BY <1>0, <1>5, ColumnFacts
    <2> QED BY <1>1, <1>3, <2>1, <2>2
  <1> QED BY <1>2, <1>4, <1>5 DEF r

LEMMA FieldFacts ==
    ASSUME fields \in FieldLists
    PROVE  /\ IsListOf(fields, ToSet(fields)) /\ ToSet(fields) \subseteq AllFields
           /\ IsListOf(Written, ToSet(fields) \cap PlainFields)
           /\ IsListOf(SetFields, ToSet(fields) \ {"id"})
  <1>1. fields \in Seq(AllFields) /\ IsInjective(fields)
    BY EntityAssumption
  <1>2. ToSet(fields) \subseteq AllFields /\ ToSet(fields) = Range(fields)
    BY <1>1 DEF ToSet, Range
  <1>3. IsListOf(fields, ToSet(fields))
    <2>1. fields \in Seq(ToSet(fields))
      <3>1. Len(fields) \in Nat /\ DOMAIN fields = 1..Len(fields) /\ fields = [k \in 1..Len(fields) |-> fields[k]]
        BY <1>1
      <3>2. \A k \in 1..Len(fields) : fields[k] \in ToSet(fields)
        BY <3>1 DEF ToSet
      <3>3. fields \in [1..Len(fields) -> ToSet(fields)]
        BY <3>1, <3>2
      <3> QED BY <3>1, <3>3
    <2> QED BY <1>1, <1>2, <2>1 DEF IsListOf
  <1>4. ToSet(fields) \cap (AllFields \ (BaseFields \union {"id"})) = ToSet(fields) \cap PlainFields
    BY <1>2, ColumnFacts
  <1>5. ToSet(fields) \cap (AllFields \ {"id"}) = ToSet(fields) \ {"id"}
    BY <1>2
  <1> QED BY <1>2, <1>3, <1>4, <1>5, OnlyLists DEF Written, SetFields

LEMMA FewEntries ==
    ASSUME NEW x, NEW y, NEW z
    PROVE  /\ OfLength(<<x>>, 1) /\ OfLength(<<x, y>>, 2) /\ OfLength(<<x, y, z>>, 3)
           /\ <<x>>[1] = x /\ <<x, y>>[1] = x /\ <<x, y>>[2] = y
           /\ <<x, y, z>>[1] = x /\ <<x, y, z>>[2] = y /\ <<x, y, z>>[3] = z
  BY DEF OfLength

LEMMA ListEntries ==
    ASSUME NEW s, NEW D, IsListOf(s, D)
    PROVE  Len(s) \in Nat /\ OfLength(s, Len(s))
  <1>1. s \in Seq(D) /\ Len(s) \in Nat
    BY ListFacts
  <1> QED BY <1>1 DEF OfLength

Appends(u, s, x) == u = Append(s, x)

LEMMA AppendedEntries ==
    ASSUME NEW s, NEW m \in Nat, OfLength(s, m), NEW x, NEW u, Appends(u, s, x)
    PROVE  OfLength(u, m + 1) /\ u[m + 1] = x /\ \A k \in 1..m : u[k] = s[k]
  <1> DEFINE S == {s[k] : k \in 1..m} \cup {x}
  <1>1. s \in Seq(S) /\ Len(s) = m
    <2>1. \A k \in 1..m : s[k] \in S
      OBVIOUS
    <2> HIDE DEF S
    <2>2. s \in [1..m -> S]
      BY <2>1 DEF OfLength
    <2> QED BY <2>2
  <1>2. x \in S
    OBVIOUS
  <1> HIDE DEF S
  <1> DEFINE v == Append(s, x)
  <1>3. v \in Seq(S) /\ Len(v) = m + 1 /\ v[m + 1] = x /\ \A k \in 1..m : v[k] = s[k]
    BY <1>1, <1>2
  <1>4. u = v
    BY DEF Appends
  <1> HIDE DEF v
  <1>5. u = [k \in 1..(m + 1) |-> u[k]]
    BY <1>3, <1>4
  <1> QED BY <1>3, <1>4, <1>5 DEF OfLength

LEMMA EntriesOfLists ==
    ASSUME NEW s, NEW m \in Nat, OfLength(s, m), NEW e
    PROVE  /\ OfLength(ColumnsOf(s), m) /\ \A k \in 1..m : ColumnsOf(s)[k] = ColumnOf[s[k]]
           /\ OfLength(ValuesOf(e, s), m) /\ \A k \in 1..m : ValuesOf(e, s)[k] = e[s[k]]
  <1>1. DOMAIN s = 1..m
    BY DEF OfLength
  <1>2. ColumnsOf(s) = [k \in 1..m |-> ColumnOf[s[k]]] /\ ValuesOf(e, s) = [k \in 1..m |-> e[s[k]]]
    BY <1>1 DEF ColumnsOf, ValuesOf
  <1> QED BY <1>2 DEF OfLength

(* An INSERT writes every field it is given and the base ones.             *)
LEMMA InsertWrites ==
    ASSUME fields \in FieldLists, NEW e, e["deleted"] = 0
    PROVE  LET r == Assigned(EmptyRow, InsertColumns, Bound(InsertTerms, InsertParams(e)))
           IN  /\ DOMAIN r = Columns
               /\ \A f \in ToSet(fields) \cup BaseFields \cup {"id"} : r[ColumnOf[f]] = e[f]
  <1> DEFINE W == Written
             m == Len(W)
             n == m + 4
             F0 == <<"id">> \o W
             F1 == Append(F0, "createTime")
             F2 == Append(F1, "updateTime")
             F == Append(F2, "deleted")
             D == ToSet(fields) \cap PlainFields
             values == Bound(InsertTerms, InsertParams(e))
             r == Assigned(EmptyRow, InsertColumns, values)
  <1>0. IsListOf(W, D) /\ ToSet(fields) \subseteq AllFields
    BY FieldFacts
  <1>1. m \in Nat /\ OfLength(W, m)
    BY <1>0, ListEntries
  <1>2. "id" \notin D
    BY ColumnFacts
  <1>3. IsListOf(F0, D \cup {"id"})
    BY <1>0, <1>2, PrependLists
  <1>4. "createTime" \notin D \cup {"id"}
    BY ColumnFacts
  <1>5. IsListOf(F1, (D \cup {"id"}) \cup {"createTime"})
    <2> HIDE DEF F0, D
    <2> QED BY <1>3, <1>4, AppendLists
  <1>6. "updateTime" \notin (D \cup {"id"}) \cup {"createTime"}
    BY ColumnFacts
  <1>7. IsListOf(F2, ((D \cup {"id"}) \cup {"createTime"}) \cup {"updateTime"})
    <2> HIDE DEF F0, F1, D
    <2> QED BY <1>5, <1>6, AppendLists
  <1>8. "deleted" \notin ((D \cup {"id"}) \cup {"createTime"}) \cup {"updateTime"}
    BY ColumnFacts
  <1> DEFINE E == (((D \cup {"id"}) \cup {"createTime"}) \cup {"updateTime"}) \cup {"deleted"}
  <1>9. IsListOf(F, E)
    <2> HIDE DEF F0, F1, F2, D
    <2> QED BY <1>7, <1>8, AppendLists
  <1>10. /\ ToSet(fields) \cup BaseFields \cup {"id"} = E /\ E \subseteq AllFields
    BY <1>0, ColumnFacts
  <1> HIDE DEF W, m
  <1>11. OfLength(F0, 1 + m) /\ F0[1] = "id" /\ \A k \in 1..m : F0[1 + k] = W[k]
    <2>1. OfLength(<<"id">>, 1) /\ <<"id">>[1] = "id"
      BY FewEntries
    <2> DEFINE i == <<"id">>
    <2>0. Joins(F0, i, W)
      BY DEF Joins
    <2> HIDE DEF i, F0
    <2>2. OfLength(i, 1) /\ i[1] = "id"
      BY <2>1 DEF i
    <2>3. 1 \in 1..1 /\ 1 \in Nat
      OBVIOUS
    <2>4. OfLength(F0, 1 + m) /\ (\A k \in 1..1 : F0[k] = i[k]) /\ \A k \in 1..m : F0[1 + k] = W[k]
      BY <1>1, <2>0, <2>2, <2>3, JoinedEntries
    <2> QED BY <2>2, <2>3, <2>4
  <1>12. /\ OfLength(F, n) /\ F[1] = "id" /\ \A k \in 1..m : F[1 + k] = W[k]
         /\ F[m + 2] = "createTime" /\ F[m + 3] = "updateTime" /\ F[m + 4] = "deleted"
    <2>0. 1 + m \in Nat /\ (1 + m) + 1 = m + 2 /\ m + 2 \in Nat /\ (m + 2) + 1 = m + 3 /\ m + 3 \in Nat /\ (m + 3) + 1 = m + 4
      BY <1>1
    <2>a. Appends(F1, F0, "createTime") /\ Appends(F2, F1, "updateTime") /\ Appends(F, F2, "deleted")
      BY DEF Appends
    <2> HIDE DEF F0, F1, F2, F
    <2>1. OfLength(F1, m + 2) /\ F1[m + 2] = "createTime" /\ \A k \in 1..(1 + m) : F1[k] = F0[k]
      <3>1. OfLength(F1, (1 + m) + 1) /\ F1[(1 + m) + 1] = "createTime" /\ \A k \in 1..(1 + m) : F1[k] = F0[k]
        BY <1>11, <2>a, <2>0, AppendedEntries
      <3> QED BY <3>1, <2>0
    <2>2. OfLength(F2, m + 3) /\ F2[m + 3] = "updateTime" /\ \A k \in 1..(m + 2) : F2[k] = F1[k]
      <3>1. OfLength(F2, (m + 2) + 1) /\ F2[(m + 2) + 1] = "updateTime" /\ \A k \in 1..(m + 2) : F2[k] = F1[k]
        BY <2>a, <2>0, <2>1, AppendedEntries
      <3> QED BY <3>1, <2>0
    <2>3. OfLength(F, m + 4) /\ F[m + 4] = "deleted" /\ \A k \in 1..(m + 3) : F[k] = F2[k]
      <3>1. OfLength(F, (m + 3) + 1) /\ F[(m + 3) + 1] = "deleted" /\ \A k \in 1..(m + 3) : F[k] = F2[k]
        BY <2>a, <2>0, <2>2, AppendedEntries
      <3> QED BY <3>1, <2>0
    <2>4. \A k \in 1..(1 + m) : k \in 1..(m + 2) /\ k \in 1..(m + 3)
      BY <1>1
    <2>5. \A k \in 1..(1 + m) : F[k] = F0[k]
      BY <2>1, <2>2, <2>3, <2>4
    <2>6. 1 \in 1..(1 + m) /\ \A k \in 1..m : 1 + k \in 1..(1 + m)
      BY <1>1
    <2>7. m + 2 \in 1..(m + 2) /\ m + 2 \in 1..(m + 3) /\ m + 3 \in 1..(m + 3)
      BY <1>1
    <2> QED BY <1>11, <2>1, <2>2, <2>3, <2>5, <2>6, <2>7
  <1> HIDE DEF F0, F1, F2, F
  <1>13. /\ OfLength(InsertColumns, n) /\ InsertColumns[1] = "id"
         /\ \A k \in 1..m : InsertColumns[1 + k] = ColumnOf[W[k]]
         /\ InsertColumns[m + 2] = "create_time" /\ InsertColumns[m + 3] = "update_time"
         /\ InsertColumns[m + 4] = "deleted"
    <2> DEFINE i == <<"id">>
               c == ColumnsOf(W)
               t == <<"create_time", "update_time", "deleted">>
               j == i \o c
    <2>1. /\ OfLength(i, 1) /\ i[1] = "id"
          /\ OfLength(t, 3) /\ t[1] = "create_time" /\ t[2] = "update_time" /\ t[3] = "deleted"
      BY FewEntries
    <2>2. OfLength(c, m) /\ \A k \in 1..m : c[k] = ColumnOf[W[k]]
      BY <1>1, EntriesOfLists
    <2>3. InsertColumns = j \o t
      BY DEF InsertColumns, W
    <2>a. Joins(j, i, c)
      BY DEF Joins
    <2> HIDE DEF i, c, t, j
    <2>4. 1 \in Nat /\ 3 \in Nat /\ 1 \in 1..1 /\ 1 + m \in Nat /\ (1 + m) + 3 = n
      BY <1>1
    <2>5. OfLength(j, 1 + m) /\ (\A k \in 1..1 : j[k] = i[k]) /\ \A k \in 1..m : j[1 + k] = c[k]
      <3>1. OfLength(i, 1) /\ OfLength(c, m) /\ 1 \in Nat /\ m \in Nat
        BY <1>1, <2>1, <2>2
      <3> QED BY <2>a, <3>1, JoinedEntries
    <2> DEFINE u == InsertColumns
    <2> HIDE DEF u
    <2>b. Joins(u, j, t)
      BY <2>3 DEF u, Joins
    <2>6. /\ OfLength(u, (1 + m) + 3) /\ (\A k \in 1..(1 + m) : u[k] = j[k])
          /\ \A k \in 1..3 : u[(1 + m) + k] = t[k]
      BY <2>b, <2>1, <2>4, <2>5, JoinedEntries
    <2>7. 1 \in 1..(1 + m) /\ \A k \in 1..m : 1 + k \in 1..(1 + m)
      BY <1>1
    <2>8. (1 + m) + 1 = m + 2 /\ (1 + m) + 2 = m + 3 /\ (1 + m) + 3 = m + 4 /\ 1 \in 1..3 /\ 2 \in 1..3 /\ 3 \in 1..3
      BY <1>1
    <2>9. u[m + 2] = t[1] /\ u[m + 3] = t[2] /\ u[m + 4] = t[3]
      BY <2>6, <2>8
    <2>10. u[1] = i[1] /\ \A k \in 1..m : u[1 + k] = c[k]
      BY <2>4, <2>5, <2>6, <2>7
    <2> QED BY <2>1, <2>2, <2>4, <2>6, <2>9, <2>10 DEF u
  <1> DEFINE P == InsertParams(e)
  <1>14. /\ P[1] = e["id"] /\ \A k \in 1..m : P[1 + k] = e[W[k]]
         /\ P[m + 2] = e["createTime"] /\ P[m + 3] = e["updateTime"]
    <2> DEFINE i == <<e["id"]>>
               c == ValuesOf(e, W)
               t == <<e["createTime"], e["updateTime"]>>
               j == i \o c
    <2>1. OfLength(i, 1) /\ i[1] = e["id"] /\ OfLength(t, 2) /\ t[1] = e["createTime"] /\ t[2] = e["updateTime"]
      BY FewEntries
    <2>2. OfLength(c, m) /\ \A k \in 1..m : c[k] = e[W[k]]
      BY <1>1, EntriesOfLists
    <2>3. P = j \o t
      BY DEF InsertParams, W
    <2>a. Joins(j, i, c)
      BY DEF Joins
    <2> HIDE DEF i, c, t, j
    <2>4. 1 \in Nat /\ 2 \in Nat /\ 1 \in 1..1 /\ 1 + m \in Nat
      BY <1>1
    <2>5. OfLength(j, 1 + m) /\ (\A k \in 1..1 : j[k] = i[k]) /\ \A k \in 1..m : j[1 + k] = c[k]
      <3>1. OfLength(i, 1) /\ OfLength(c, m) /\ 1 \in Nat /\ m \in Nat
        BY <1>1, <2>1, <2>2
      <3> QED BY <2>a, <3>1, JoinedEntries
    <2> DEFINE u == P
    <2> HIDE DEF u
    <2>b. Joins(u, j, t)
      BY <2>3 DEF u, Joins
    <2>6. /\ \A k \in 1..(1 + m) : u[k] = j[k]
          /\ \A k \in 1..2 : u[(1 + m) + k] = t[k]
      BY <2>b, <2>1, <2>4, <2>5, JoinedEntries
    <2>7. 1 \in 1..(1 + m) /\ \A k \in 1..m : 1 + k \in 1..(1 + m)
      BY <1>1
    <2>8. (1 + m) + 1 = m + 2 /\ (1 + m) + 2 = m + 3 /\ 1 \in 1..2 /\ 2 \in 1..2
      BY <1>1
    <2>9. u[m + 2] = t[1] /\ u[m + 3] = t[2]
      BY <2>6, <2>8
    <2>10. u[1] = i[1] /\ \A k \in 1..m : u[1 + k] = c[k]
      BY <2>4, <2>5, <2>6, <2>7
    <2> QED BY <2>1, <2>2, <2>9, <2>10 DEF u
  <1>15. /\ OfLength(InsertTerms, n) /\ InsertTerms[n] = Literal
         /\ \A k \in 1..(m + 3) : InsertTerms[k] = ConvertPlaceholder(k)
    <2> DEFINE i == PlaceholderRow(m + 3)
               t == <<Literal>>
    <2>1. OfLength(t, 1) /\ t[1] = Literal
      BY FewEntries
    <2>2. m + 3 \in Nat /\ (m + 3) + 1 = n /\ 1 \in Nat /\ 1 \in 1..1
      BY <1>1
    <2>3. OfLength(i, m + 3) /\ \A k \in 1..(m + 3) : i[k] = ConvertPlaceholder(k)
      BY <2>2, RowOfPlaceholders
    <2>4. InsertTerms = i \o t
      BY DEF InsertTerms, W, m
    <2> DEFINE u == InsertTerms
    <2> HIDE DEF i, t, u
    <2>b. Joins(u, i, t)
      BY <2>4 DEF u, Joins
    <2>5. /\ OfLength(u, (m + 3) + 1) /\ (\A k \in 1..(m + 3) : u[k] = i[k])
          /\ \A k \in 1..1 : u[(m + 3) + k] = t[k]
      BY <2>b, <2>1, <2>2, <2>3, JoinedEntries
    <2> QED BY <2>1, <2>2, <2>3, <2>5 DEF u
  <1> HIDE DEF P
  <1>16. n \in Nat /\ n \in 1..n /\ \A k \in 1..(m + 3) : k \in 1..n
    BY <1>1
  <1>17. /\ \A k \in 1..(m + 3) : values[k] = P[k]
         /\ values[n] = 0
    <2>1. \A k \in 1..(m + 3) : \A j \in 1..k : j \in 1..(m + 3)
      BY <1>1
    <2>2. ASSUME NEW k \in 1..(m + 3) PROVE Bound(InsertTerms, P)[k] = P[k]
      BY <1>15, <1>16, <2>1, BoundInRow
    <2>3. Bound(InsertTerms, P)[n] = 0
      <3>1. n \in DOMAIN InsertTerms
        BY <1>15, <1>16 DEF OfLength
      <3> QED BY <3>1, <1>15 DEF Bound
    <2> QED BY <2>2, <2>3 DEF P
  <1> HIDE DEF values
  <1>18. ASSUME NEW k \in 1..n PROVE InsertColumns[k] = ColumnOf[F[k]] /\ values[k] = e[F[k]]
    <2>1. CASE k = 1
      <3>1. k \in 1..(m + 3)
        BY <1>1, <2>1
      <3> QED BY <2>1, <3>1, <1>12, <1>13, <1>14, <1>17, ColumnFacts
    <2>2. CASE k \in 2..(m + 1)
      <3>1. k - 1 \in 1..m /\ 1 + (k - 1) = k /\ k \in 1..(m + 3)
        BY <1>1, <2>2
      <3>2. F[k] = W[k - 1] /\ InsertColumns[k] = ColumnOf[W[k - 1]] /\ P[k] = e[W[k - 1]]
        BY <3>1, <1>12, <1>13, <1>14
      <3> QED BY <3>1, <3>2, <1>17
    <2>3. CASE k = m + 2
      <3>1. k \in 1..(m + 3)
        BY <1>1, <2>3
      <3> QED BY <2>3, <3>1, <1>12, <1>13, <1>14, <1>17, ColumnFacts
    <2>4. CASE k = m + 3
      <3>1. k \in 1..(m + 3)
        BY <1>1, <2>4
      <3> QED BY <2>4, <3>1, <1>12, <1>13, <1>14, <1>17, ColumnFacts
    <2>5. CASE k = m + 4
      BY <2>5, <1>12, <1>13, <1>17, ColumnFacts
    <2>6. k = 1 \/ k \in 2..(m + 1) \/ k = m + 2 \/ k = m + 3 \/ k = m + 4
      BY <1>1
    <2> QED BY <2>1, <2>2, <2>3, <2>4, <2>5, <2>6
  <1>19. Len(F) = n
    BY <1>12, <1>16, EntriesOf
  <1>20. /\ \A k \in 1..n : F[k] \in E
         /\ \A f \in E : \E k \in 1..n : F[k] = f
         /\ \A j, k \in 1..n : F[j] = F[k] => j = k
    <2> HIDE DEF E
    <2> QED BY <1>9, <1>19, ListFacts
  <1>21. DOMAIN EmptyRow = Columns
    BY DEF EmptyRow, Columns
  <1> HIDE DEF E, n
  <1>22. DOMAIN r = Columns /\ \A k \in 1..n : r[ColumnOf[F[k]]] = e[F[k]]
    <2>1. \A k \in 1..n : F[k] \in AllFields
      BY <1>10, <1>20
    <2>2. Names(n, F, InsertColumns, values, e)
      BY <1>13, <1>18, <1>20, <2>1 DEF Names
    <2> QED BY <1>21, <2>2, WritesFields
  <1> HIDE DEF r
  <1>23. \A f \in E : r[ColumnOf[f]] = e[f]
    BY <1>20, <1>22
  <1> QED BY <1>10, <1>22, <1>23 DEF r, values

(* An UPDATE names the id last and leaves the other base columns alone.    *)
LEMMA UpdateWrites ==
    ASSUME fields \in FieldLists, NEW e, NEW row, DOMAIN row = Columns
    PROVE  LET values == Bound(UpdateTerms, UpdateParams(e))
               r == Assigned(row, UpdateColumns, Front(values))
           IN  /\ Last(values) = e["id"] /\ DOMAIN r = Columns
               /\ \A f \in (ToSet(fields) \cap PlainFields) \cup {"updateTime"} : r[ColumnOf[f]] = e[f]
               /\ \A f \in {"id", "createTime", "deleted"} : r[ColumnOf[f]] = row[ColumnOf[f]]
  <1> DEFINE W == Written
             m == Len(W)
             n == m + 1
             D == ToSet(fields) \cap PlainFields
             E == D \cup {"updateTime"}
             F == Append(W, "updateTime")
             P == UpdateParams(e)
             values == Bound(UpdateTerms, P)
             front == Front(values)
             r == Assigned(row, UpdateColumns, front)
  <1>1. IsListOf(W, D) /\ ToSet(fields) \subseteq AllFields
    BY FieldFacts
  <1>2. m \in Nat /\ OfLength(W, m)
    BY <1>1, ListEntries
  <1>3. "updateTime" \notin D
    BY ColumnFacts
  <1>4. IsListOf(F, E)
    <2> HIDE DEF D
    <2> QED BY <1>1, <1>3, AppendLists
  <1>5. E \subseteq AllFields /\ \A f \in {"id", "createTime", "deleted"} : f \in AllFields /\ f \notin E
    BY ColumnFacts
  <1>6. Appends(F, W, "updateTime")
    BY DEF Appends
  <1>a. UpdateColumns = ColumnsOf(W) \o <<"update_time">> /\ UpdateTerms = PlaceholderRow(m + 2)
    BY DEF UpdateColumns, UpdateTerms
  <1>b. P = ValuesOf(e, W) \o <<e["updateTime"], e["id"]>>
    BY DEF UpdateParams
  <1> HIDE DEF W, m, F, D, P
  <1>7. OfLength(F, n) /\ F[n] = "updateTime" /\ \A k \in 1..m : F[k] = W[k]
    BY <1>2, <1>6, AppendedEntries
  <1>8. OfLength(UpdateColumns, n) /\ UpdateColumns[n] = "update_time" /\ \A k \in 1..m : UpdateColumns[k] = ColumnOf[W[k]]
    <2> DEFINE c == ColumnsOf(W)
               t == <<"update_time">>
               u == UpdateColumns
    <2>1. OfLength(t, 1) /\ t[1] = "update_time"
      BY FewEntries
    <2>2. OfLength(c, m) /\ \A k \in 1..m : c[k] = ColumnOf[W[k]]
      BY <1>2, EntriesOfLists
    <2>3. Joins(u, c, t)
      BY <1>a DEF Joins
    <2> HIDE DEF c, t, u
    <2>4. OfLength(c, m) /\ OfLength(t, 1) /\ 1 \in Nat /\ m \in Nat /\ 1 \in 1..1
      BY <1>2, <2>1, <2>2
    <2>5. OfLength(u, m + 1) /\ (\A k \in 1..m : u[k] = c[k]) /\ \A k \in 1..1 : u[m + k] = t[k]
      BY <2>3, <2>4, JoinedEntries
    <2> QED BY <2>1, <2>2, <2>4, <2>5 DEF u
  <1>9. P[m + 1] = e["updateTime"] /\ P[m + 2] = e["id"] /\ \A k \in 1..m : P[k] = e[W[k]]
    <2> DEFINE c == ValuesOf(e, W)
               t == <<e["updateTime"], e["id"]>>
    <2>1. OfLength(t, 2) /\ t[1] = e["updateTime"] /\ t[2] = e["id"]
      BY FewEntries
    <2>2. OfLength(c, m) /\ \A k \in 1..m : c[k] = e[W[k]]
      BY <1>2, EntriesOfLists
    <2>3. Joins(P, c, t)
      BY <1>b DEF Joins
    <2> HIDE DEF c, t
    <2>4. OfLength(c, m) /\ OfLength(t, 2) /\ 2 \in Nat /\ m \in Nat /\ 1 \in 1..2 /\ 2 \in 1..2
      BY <1>2, <2>1, <2>2
    <2>5. (\A k \in 1..m : P[k] = c[k]) /\ \A k \in 1..2 : P[m + k] = t[k]
      BY <2>3, <2>4, JoinedEntries
    <2> QED BY <2>1, <2>2, <2>4, <2>5
  <1>10. OfLength(values, n + 1) /\ values[n + 1] = e["id"] /\ \A k \in 1..n : values[k] = P[k]
    <2>1. m + 2 \in Nat /\ n + 1 = m + 2 /\ m + 2 \in 1..(m + 2) /\ \A k \in 1..n : k \in 1..(m + 2)
      BY <1>2
    <2>2. OfLength(UpdateTerms, m + 2) /\ \A k \in 1..(m + 2) : UpdateTerms[k] = ConvertPlaceholder(k)
      BY <1>a, <2>1, RowOfPlaceholders
    <2>3. OfLength(values, m + 2)
      BY <2>1, <2>2, BoundLength
    <2>4. ASSUME NEW k \in 1..(m + 2) PROVE values[k] = P[k]
      <3>1. \A j \in 1..k : j \in 1..(m + 2)
        BY <1>2
      <3>2. \A j \in 1..k : UpdateTerms[j] = ConvertPlaceholder(j)
        BY <2>2, <3>1
      <3> QED BY <2>1, <2>2, <3>2, BoundInRow
    <2> HIDE DEF values
    <2> QED BY <1>9, <2>1, <2>3, <2>4
  <1> HIDE DEF values
  <1>11. n \in Nat
    BY <1>2
  <1>12. Last(values) = e["id"] /\ OfLength(front, n) /\ \A k \in 1..n : front[k] = values[k]
    <2> HIDE DEF n
    <2> QED BY <1>10, <1>11, LastAndFront
  <1> HIDE DEF front
  <1>13. ASSUME NEW k \in 1..n PROVE UpdateColumns[k] = ColumnOf[F[k]] /\ front[k] = e[F[k]]
    <2>1. CASE k = n
      BY <2>1, <1>7, <1>8, <1>9, <1>10, <1>12, ColumnFacts
    <2>2. CASE k # n
      <3>1. k \in 1..m
        BY <1>2, <2>2
      <3>2. F[k] = W[k] /\ UpdateColumns[k] = ColumnOf[W[k]] /\ P[k] = e[W[k]]
        BY <3>1, <1>7, <1>8, <1>9
      <3> QED BY <3>2, <1>10, <1>12
    <2> QED BY <2>1, <2>2
  <1>14. Len(F) = n
    BY <1>7, <1>11, EntriesOf
  <1>15. /\ \A k \in 1..n : F[k] \in E
         /\ \A f \in E : \E k \in 1..n : F[k] = f
         /\ \A j, k \in 1..n : F[j] = F[k] => j = k
    <2> HIDE DEF E
    <2> QED BY <1>4, <1>14, ListFacts
  <1> HIDE DEF E, n
  <1>16. /\ DOMAIN r = Columns /\ \A k \in 1..n : r[ColumnOf[F[k]]] = e[F[k]]
         /\ \A f \in AllFields : (\A k \in 1..n : F[k] # f) => r[ColumnOf[f]] = row[ColumnOf[f]]
    <2>1. \A k \in 1..n : F[k] \in AllFields
      BY <1>5, <1>15
    <2>2. Names(n, F, UpdateColumns, front, e)
      BY <1>8, <1>13, <1>15, <2>1 DEF Names
    <2> QED BY <2>2, WritesFields
  <1> HIDE DEF r
  <1>17. \A f \in E : r[ColumnOf[f]] = e[f]
    BY <1>15, <1>16
  <1>18. \A f \in {"id", "createTime", "deleted"} : r[ColumnOf[f]] = row[ColumnOf[f]]
    BY <1>5, <1>15, <1>16
  <1> QED BY <1>12, <1>16, <1>17, <1>18 DEF r, front, values, P, E, D

(* INSERT OR REPLACE writes the reflected fields.                          *)
LEMMA ReplaceWrites ==
    ASSUME fields \in FieldLists, NEW e
    PROVE  LET r == Assigned(EmptyRow, ColumnsOf(fields),
                             Bound([k \in DOMAIN fields |-> Anonymous], ValuesOf(e, fields)))
           IN  DOMAIN r = Columns /\ \A f \in ToSet(fields) : r[ColumnOf[f]] = e[f]
  <1> DEFINE n == Len(fields)
             terms == [k \in DOMAIN fields |-> Anonymous]
             P == ValuesOf(e, fields)
             values == Bound(terms, P)
             columns == ColumnsOf(fields)
             r == Assigned(EmptyRow, columns, values)
             E == ToSet(fields)
  <1>1. IsListOf(fields, E) /\ E \subseteq AllFields
    BY FieldFacts
  <1>2. n \in Nat /\ OfLength(fields, n)
    BY <1>1, ListEntries
  <1>3. DOMAIN fields = 1..n
    BY <1>2 DEF OfLength
  <1> HIDE DEF E
  <1>4. /\ \A k \in 1..n : fields[k] \in E
        /\ \A f \in E : \E k \in 1..n : fields[k] = f
        /\ \A j, k \in 1..n : fields[j] = fields[k] => j = k
    BY <1>1, ListFacts
  <1> HIDE DEF n
  <1>5. OfLength(columns, n) /\ (\A k \in 1..n : columns[k] = ColumnOf[fields[k]]) /\ \A k \in 1..n : P[k] = e[fields[k]]
    BY <1>2, EntriesOfLists
  <1>6. OfLength(terms, n) /\ \A k \in 1..n : terms[k] = Anonymous
    BY <1>3 DEF OfLength
  <1> HIDE DEF terms, P, columns
  <1>7. ASSUME NEW k \in 1..n PROVE values[k] = e[fields[k]]
    <2>1. \A j \in 1..k : j \in 1..n
      BY <1>2
    <2>2. \A j \in 1..k : terms[j] = Anonymous
      BY <1>6, <2>1
    <2>3. values[k] = P[k]
      BY <1>2, <1>6, <2>2, BoundInTurn
    <2> QED BY <1>5, <2>3
  <1> HIDE DEF values
  <1>8. DOMAIN EmptyRow = Columns
    BY DEF EmptyRow, Columns
  <1>9. DOMAIN r = Columns /\ \A k \in 1..n : r[ColumnOf[fields[k]]] = e[fields[k]]
    <2>1. \A k \in 1..n : fields[k] \in AllFields
      BY <1>1, <1>4
    <2>2. Names(n, fields, columns, values, e)
      BY <1>4, <1>5, <1>7, <2>1 DEF Names
    <2> QED BY <1>8, <2>2, WritesFields
  <1> HIDE DEF r
  <1>10. \A f \in E : r[ColumnOf[f]] = e[f]
    BY <1>4, <1>9
  <1> QED BY <1>9, <1>10 DEF r, values, columns, P, terms, E

(* update() of the reflected fields: all but the id, which comes last.     *)
LEMMA SetWrites ==
    ASSUME fields \in FieldLists, NEW e, NEW row, DOMAIN row = Columns
    PROVE  LET values == Bound([k \in 1..(Len(SetFields) + 1) |-> Anonymous], ValuesOf(e, SetFields) \o <<e.id>>)
               r == Assigned(row, ColumnsOf(SetFields), Front(values))
           IN  /\ Last(values) = e["id"] /\ DOMAIN r = Columns
               /\ \A f \in ToSet(fields) \ {"id"} : r[ColumnOf[f]] = e[f]
               /\ r["id"] = row["id"]
  <1> DEFINE F == SetFields
             n == Len(F)
             E == ToSet(fields) \ {"id"}
             terms == [k \in 1..(n + 1) |-> Anonymous]
             P == ValuesOf(e, F) \o <<e.id>>
             values == Bound(terms, P)
             columns == ColumnsOf(F)
             front == Front(values)
             r == Assigned(row, columns, front)
  <1>1. IsListOf(F, E) /\ E \subseteq AllFields
    BY FieldFacts
  <1>2. n \in Nat /\ OfLength(F, n) /\ n + 1 \in Nat
    BY <1>1, ListEntries
  <1>3. "id" \notin E /\ "id" \in AllFields /\ ColumnOf["id"] = "id"
    BY ColumnFacts
  <1> HIDE DEF E, F
  <1>4. /\ \A k \in 1..n : F[k] \in E
        /\ \A f \in E : \E k \in 1..n : F[k] = f
        /\ \A j, k \in 1..n : F[j] = F[k] => j = k
    BY <1>1, ListFacts
  <1> HIDE DEF n
  <1>5. OfLength(columns, n) /\ \A k \in 1..n : columns[k] = ColumnOf[F[k]]
    BY <1>2, EntriesOfLists
  <1>6. OfLength(terms, n + 1) /\ \A k \in 1..(n + 1) : terms[k] = Anonymous
    BY DEF OfLength
  <1>7. P[n + 1] = e["id"] /\ \A k \in 1..n : P[k] = e[F[k]]
    <2> DEFINE c == ValuesOf(e, F)
               t == <<e.id>>
    <2>1. OfLength(t, 1) /\ t[1] = e["id"]
      BY FewEntries
    <2>2. OfLength(c, n) /\ \A k \in 1..n : c[k] = e[F[k]]
      BY <1>2, EntriesOfLists
    <2>3. Joins(P, c, t)
      BY DEF Joins
    <2> HIDE DEF c, t, P
    <2>4. OfLength(c, n) /\ OfLength(t, 1) /\ 1 \in Nat /\ n \in Nat /\ 1 \in 1..1
      BY <1>2, <2>1, <2>2
    <2>5. (\A k \in 1..n : P[k] = c[k]) /\ \A k \in 1..1 : P[n + k] = t[k]
      BY <2>3, <2>4, JoinedEntries
    <2> QED BY <2>1, <2>2, <2>4, <2>5
  <1> HIDE DEF terms, P, columns
  <1>8. OfLength(values, n + 1) /\ \A k \in 1..(n + 1) : values[k] = P[k]
    <2>1. OfLength(values, n + 1)
      BY <1>2, <1>6, BoundLength
    <2>2. ASSUME NEW k \in 1..(n + 1) PROVE values[k] = P[k]
      <3>1. \A j \in 1..k : j \in 1..(n + 1)
        BY <1>2
      <3>2. \A j \in 1..k : terms[j] = Anonymous
        BY <1>6, <3>1
      <3> QED BY <1>2, <1>6, <3>2, BoundInTurn
    <2> QED BY <2>1, <2>2
  <1> HIDE DEF values
  <1>9. n + 1 \in 1..(n + 1) /\ \A k \in 1..n : k \in 1..(n + 1)
    BY <1>2
  <1>10. Last(values) = values[n + 1] /\ \A k \in 1..n : front[k] = values[k]
    BY <1>2, <1>8, LastAndFront
  <1> HIDE DEF front
  <1>11. Last(values) = e["id"] /\ \A k \in 1..n : front[k] = e[F[k]]
    BY <1>7, <1>8, <1>9, <1>10
  <1>12. /\ DOMAIN r = Columns /\ \A k \in 1..n : r[ColumnOf[F[k]]] = e[F[k]]
         /\ \A f \in AllFields : (\A k \in 1..n : F[k] # f) => r[ColumnOf[f]] = row[ColumnOf[f]]
    <2>1. \A k \in 1..n : F[k] \in AllFields
      BY <1>1, <1>4
    <2>2. Names(n, F, columns, front, e)
      BY <1>4, <1>5, <1>11, <2>1 DEF Names
    <2> QED BY <2>2, WritesFields
  <1> HIDE DEF r
  <1>13. \A f \in E : r[ColumnOf[f]] = e[f]
    BY <1>4, <1>12
  <1>14. r["id"] = row["id"]
    BY <1>3, <1>4, <1>12
  <1> QED BY <1>11, <1>12, <1>13, <1>14 DEF r, front, values, columns, P, terms, E, F, n

-----------------------------------------------------------------------------
(* A row and the entity last saved as i agree in the fields that are read. *)
Shared == ToSet(fields) \union (IF manner = "mapped" THEN BaseFields ELSE {})
Holding(r, e, i) ==
    /\ DOMAIN r = Columns /\ DOMAIN e = AllFields /\ r["id"] = i
    /\ \A f \in Shared : r[ColumnOf[f]] = e[f]
EntityInv ==
    /\ manner \in {"mapped", "reflected"} /\ fields \in FieldLists
    /\ IsFiniteSet(DOMAIN rows) /\ DOMAIN kept = DOMAIN rows
    /\ \A i \in DOMAIN rows : Holding(rows[i], kept[i], i)

LEMMA SharedFacts ==
    ASSUME fields \in FieldLists
    PROVE  /\ Shared \subseteq AllFields
           /\ Shared \subseteq ToSet(fields) \cup BaseFields \cup {"id"}
           /\ manner = "reflected" => Shared = ToSet(fields)
  <1>1. ToSet(fields) \subseteq AllFields /\ BaseFields \subseteq AllFields
    BY FieldFacts, ColumnFacts
  <1> QED BY <1>1 DEF Shared

LEMMA EntityInvInit == EntityInit => EntityInv
  <1> SUFFICES ASSUME EntityInit PROVE EntityInv
    OBVIOUS
  <1>1. manner \in {"mapped", "reflected"} /\ fields \in FieldLists /\ rows = << >> /\ kept = << >>
    BY DEF EntityInit
  <1>2. DOMAIN rows = {} /\ DOMAIN kept = {}
    BY <1>1
  <1> QED BY <1>1, <1>2, FS_EmptySet DEF EntityInv

(* One row and one entity more, or in the place of others.                 *)
LEMMA HoldingWith ==
    ASSUME EntityInv, NEW i, NEW r, NEW e, Holding(r, e, i),
           rows' = With(rows, i, r), kept' = With(kept, i, e), UNCHANGED <<manner, fields>>
    PROVE  EntityInv'
  <1>1. /\ DOMAIN rows' = DOMAIN rows \cup {i} /\ DOMAIN kept' = DOMAIN rows \cup {i}
        /\ \A j \in DOMAIN rows \cup {i} : rows'[j] = (IF j = i THEN r ELSE rows[j]) /\ kept'[j] = (IF j = i THEN e ELSE kept[j])
    BY DEF With, EntityInv
  <1>2. IsFiniteSet(DOMAIN rows \cup {i})
    BY FS_AddElement DEF EntityInv
  <1>3. Shared' = Shared
    BY DEF Shared
  <1>4. ASSUME NEW j \in DOMAIN rows \cup {i} PROVE Holding(rows'[j], kept'[j], j)
    BY <1>1 DEF EntityInv
  <1> QED BY <1>1, <1>2, <1>3, <1>4 DEF EntityInv, Holding

LEMMA HoldingSame ==
    ASSUME EntityInv, DOMAIN rows' = DOMAIN rows, DOMAIN kept' = DOMAIN kept, UNCHANGED <<manner, fields>>,
           \A j \in DOMAIN rows : Holding(rows'[j], kept'[j], j)
    PROVE  EntityInv'
  <1>1. Shared' = Shared
    BY DEF Shared
  <1> QED BY <1>1 DEF EntityInv, Holding

LEMMA InsertKeeps ==
    ASSUME EntityInv, NEW i, NEW own, InsertEntity(i, own)
    PROVE  EntityInv'
  <1> DEFINE e == [f \in AllFields |->
                     IF f = "id" THEN i ELSE IF f \in {"createTime", "updateTime"} THEN stamp + 1
                     ELSE IF f \in PlainFields THEN own[f] ELSE 0]
             r == Assigned(EmptyRow, InsertColumns, Bound(InsertTerms, InsertParams(e)))
  <1>1. rows' = With(rows, i, r) /\ kept' = With(kept, i, e) /\ UNCHANGED <<manner, fields>>
    BY DEF InsertEntity
  <1>2. e["deleted"] = 0 /\ e["id"] = i /\ DOMAIN e = AllFields
    BY ColumnFacts
  <1> HIDE DEF e
  <1>3. fields \in FieldLists
    BY DEF EntityInv
  <1>4. DOMAIN r = Columns /\ \A f \in ToSet(fields) \cup BaseFields \cup {"id"} : r[ColumnOf[f]] = e[f]
    BY <1>2, <1>3, InsertWrites
  <1> HIDE DEF r
  <1>5. r["id"] = i
    BY <1>2, <1>4, ColumnFacts
  <1>6. \A f \in Shared : r[ColumnOf[f]] = e[f]
    BY <1>3, <1>4, SharedFacts
  <1>7. Holding(r, e, i)
    BY <1>2, <1>4, <1>5, <1>6 DEF Holding
  <1> QED BY <1>1, <1>7, HoldingWith

LEMMA ReplaceKeeps ==
    ASSUME EntityInv, NEW i, NEW own, ReplaceEntity(i, own)
    PROVE  EntityInv'
  <1> DEFINE e == [f \in AllFields |-> IF f = "id" THEN i ELSE IF f \in PlainFields THEN own[f] ELSE 0]
             terms == [k \in DOMAIN fields |-> Anonymous]
             r == Assigned(EmptyRow, ColumnsOf(fields), Bound(terms, ValuesOf(e, fields)))
  <1>1. /\ rows' = With(rows, i, r) /\ kept' = With(kept, i, e) /\ UNCHANGED <<manner, fields>>
        /\ manner = "reflected" /\ "id" \in ToSet(fields)
    BY DEF ReplaceEntity
  <1>2. e["id"] = i /\ DOMAIN e = AllFields
    BY ColumnFacts
  <1> HIDE DEF e
  <1>3. fields \in FieldLists
    BY DEF EntityInv
  <1>4. DOMAIN r = Columns /\ \A f \in ToSet(fields) : r[ColumnOf[f]] = e[f]
    BY <1>3, ReplaceWrites
  <1> HIDE DEF r
  <1>5. r["id"] = i
    BY <1>1, <1>2, <1>4, ColumnFacts
  <1>6. Holding(r, e, i)
    BY <1>1, <1>2, <1>3, <1>4, <1>5, SharedFacts DEF Holding
  <1> QED BY <1>1, <1>6, HoldingWith

LEMMA UpdateKeeps ==
    ASSUME EntityInv, NEW i, NEW own, NEW created, UpdateEntity(i, own, created)
    PROVE  EntityInv'
  <1> DEFINE e == [f \in AllFields |->
                     IF f = "id" THEN i ELSE IF f = "createTime" THEN created
                     ELSE IF f = "updateTime" THEN stamp + 1
                     ELSE IF f \in PlainFields THEN own[f] ELSE 0]
             values == Bound(UpdateTerms, UpdateParams(e))
             R(j) == Assigned(rows[j], UpdateColumns, Front(values))
             K == [f \in AllFields |-> IF f \in PlainFields \union {"updateTime"} THEN e[f] ELSE kept[i][f]]
  <1>1. /\ i \in DOMAIN rows /\ UNCHANGED <<manner, fields>>
        /\ rows' = [j \in DOMAIN rows |-> IF j \in {h \in DOMAIN rows : rows[h]["id"] = Last(values)} THEN R(j) ELSE rows[j]]
        /\ kept' = [kept EXCEPT ![i] = K]
    BY DEF UpdateEntity
  <1>2. e["id"] = i
    BY ColumnFacts
  <1>3. /\ fields \in FieldLists /\ DOMAIN kept = DOMAIN rows
        /\ \A j \in DOMAIN rows : Holding(rows[j], kept[j], j)
    BY DEF EntityInv
  <1>4. \A j \in DOMAIN rows : DOMAIN rows[j] = Columns /\ rows[j]["id"] = j
    BY <1>3 DEF Holding
  <1>5. \A f \in AllFields : K[f] = IF f \in PlainFields \union {"updateTime"} THEN e[f] ELSE kept[i][f]
    OBVIOUS
  <1>6. DOMAIN K = AllFields
    OBVIOUS
  <1> HIDE DEF e, K
  <1>7. /\ Last(values) = i /\ DOMAIN R(i) = Columns
        /\ \A f \in (ToSet(fields) \cap PlainFields) \cup {"updateTime"} : R(i)[ColumnOf[f]] = e[f]
        /\ \A f \in {"id", "createTime", "deleted"} : R(i)[ColumnOf[f]] = rows[i][ColumnOf[f]]
    <2> DEFINE row == rows[i]
    <2>1. DOMAIN row = Columns
      BY <1>1, <1>4
    <2> HIDE DEF row
    <2>2. /\ Last(values) = e["id"] /\ DOMAIN Assigned(row, UpdateColumns, Front(values)) = Columns
          /\ \A f \in (ToSet(fields) \cap PlainFields) \cup {"updateTime"} :
               Assigned(row, UpdateColumns, Front(values))[ColumnOf[f]] = e[f]
          /\ \A f \in {"id", "createTime", "deleted"} :
               Assigned(row, UpdateColumns, Front(values))[ColumnOf[f]] = row[ColumnOf[f]]
      BY <1>3, <2>1, UpdateWrites
    <2> HIDE DEF values
    <2> QED BY <1>2, <2>2 DEF row
  <1> HIDE DEF values, R
  <1>8. Holding(R(i), K, i)
    <2>1. R(i)["id"] = i
      BY <1>1, <1>4, <1>7, ColumnFacts
    <2>2. ASSUME NEW f \in Shared PROVE R(i)[ColumnOf[f]] = K[f]
      <3>1. rows[i][ColumnOf[f]] = kept[i][f]
        BY <1>1, <1>3 DEF Holding
      <3>2. f \in AllFields /\ (f \in ToSet(fields) \/ f \in BaseFields)
        BY <1>3, SharedFacts DEF Shared
      <3>3. CASE f \in PlainFields
        <4>1. f \in ToSet(fields) \cap PlainFields
          BY <3>2, <3>3, ColumnFacts
        <4> QED BY <4>1, <3>2, <1>5, <1>7
      <3>4. CASE f = "updateTime"
        BY <3>2, <3>4, <1>5, <1>7
      <3>5. CASE f \in {"id", "createTime", "deleted"}
        <4>1. f \notin PlainFields /\ f # "updateTime"
          BY <3>5, ColumnFacts
        <4> QED BY <3>1, <3>2, <3>5, <4>1, <1>5, <1>7
      <3> QED BY <3>2, <3>3, <3>4, <3>5, ColumnFacts
    <2> QED BY <1>6, <1>7, <2>1, <2>2 DEF Holding
  <1>9. rows'[i] = R(i) /\ kept'[i] = K
    BY <1>1, <1>3, <1>4, <1>7
  <1>10. ASSUME NEW j \in DOMAIN rows PROVE Holding(rows'[j], kept'[j], j)
    <2>1. CASE j = i
      BY <2>1, <1>8, <1>9
    <2>2. CASE j # i
      <3>1. rows'[j] = rows[j]
        BY <2>2, <1>1, <1>4, <1>7
      <3>2. kept'[j] = kept[j]
        BY <2>2, <1>1, <1>3
      <3> QED BY <3>1, <3>2, <1>3
    <2> QED BY <2>1, <2>2
  <1>11. DOMAIN rows' = DOMAIN rows /\ DOMAIN kept' = DOMAIN kept
    BY <1>1
  <1> QED BY <1>1, <1>10, <1>11, HoldingSame

LEMMA UpdateReflectedKeeps ==
    ASSUME EntityInv, NEW i, NEW own, UpdateReflected(i, own)
    PROVE  EntityInv'
  <1> DEFINE e == [f \in AllFields |-> IF f = "id" THEN i ELSE IF f \in PlainFields THEN own[f] ELSE 0]
             values == Bound([k \in 1..(Len(SetFields) + 1) |-> Anonymous], ValuesOf(e, SetFields) \o <<e.id>>)
             R(j) == Assigned(rows[j], ColumnsOf(SetFields), Front(values))
  <1>1. /\ UNCHANGED <<manner, fields>> /\ manner = "reflected"
        /\ rows' = [j \in DOMAIN rows |-> IF j \in {h \in DOMAIN rows : rows[h]["id"] = Last(values)} THEN R(j) ELSE rows[j]]
        /\ kept' = IF i \in DOMAIN kept THEN [kept EXCEPT ![i] = e] ELSE kept
    BY DEF UpdateReflected
  <1>2. e["id"] = i /\ DOMAIN e = AllFields
    BY ColumnFacts
  <1>3. /\ fields \in FieldLists /\ DOMAIN kept = DOMAIN rows
        /\ \A j \in DOMAIN rows : Holding(rows[j], kept[j], j)
    BY DEF EntityInv
  <1>4. \A j \in DOMAIN rows : DOMAIN rows[j] = Columns /\ rows[j]["id"] = j
    BY <1>3 DEF Holding
  <1> HIDE DEF e
  <1>5. ASSUME NEW j \in DOMAIN rows
        PROVE  /\ Last(values) = i /\ DOMAIN R(j) = Columns
               /\ \A f \in ToSet(fields) \ {"id"} : R(j)[ColumnOf[f]] = e[f]
               /\ R(j)["id"] = j
    <2> DEFINE row == rows[j]
    <2>1. DOMAIN row = Columns /\ row["id"] = j
      BY <1>4
    <2> HIDE DEF row
    <2>2. /\ Last(values) = e["id"] /\ DOMAIN Assigned(row, ColumnsOf(SetFields), Front(values)) = Columns
          /\ \A f \in ToSet(fields) \ {"id"} :
               Assigned(row, ColumnsOf(SetFields), Front(values))[ColumnOf[f]] = e[f]
          /\ Assigned(row, ColumnsOf(SetFields), Front(values))["id"] = row["id"]
      BY <1>3, <2>1, SetWrites
    <2> HIDE DEF values
    <2> QED BY <1>2, <2>1, <2>2 DEF row
  <1> HIDE DEF values, R
  <1>6. ASSUME NEW j \in DOMAIN rows PROVE Holding(rows'[j], kept'[j], j)
    <2>1. CASE j = i
      <3>1. rows'[j] = R(j) /\ kept'[j] = e
        BY <2>1, <1>1, <1>3, <1>4, <1>5
      <3>2. ASSUME NEW f \in Shared PROVE R(j)[ColumnOf[f]] = e[f]
        <4>1. f \in ToSet(fields)
          BY <1>1, <1>3, SharedFacts
        <4>2. CASE f = "id"
          BY <2>1, <4>2, <1>2, <1>5, ColumnFacts
        <4>3. CASE f # "id"
          BY <4>1, <4>3, <1>5
        <4> QED BY <4>2, <4>3
      <3> QED BY <3>1, <3>2, <1>2, <1>5 DEF Holding
    <2>2. CASE j # i
      <3>1. rows'[j] = rows[j]
        BY <2>2, <1>1, <1>4, <1>5
      <3>2. kept'[j] = kept[j]
        BY <2>2, <1>1, <1>3
      <3> QED BY <3>1, <3>2, <1>3
    <2> QED BY <2>1, <2>2
  <1>7. DOMAIN rows' = DOMAIN rows /\ DOMAIN kept' = DOMAIN kept
    BY <1>1
  <1> QED BY <1>1, <1>6, <1>7, HoldingSame

LEMMA MarkKeeps ==
    ASSUME EntityInv, NEW i, MarkEntity(i)
    PROVE  EntityInv'
  <1>1. /\ i \in DOMAIN rows /\ UNCHANGED <<manner, fields>>
        /\ rows' = [rows EXCEPT ![i] = [rows[i] EXCEPT !["deleted"] = 1]]
        /\ kept' = [kept EXCEPT ![i] = [kept[i] EXCEPT !["deleted"] = 1]]
    BY DEF MarkEntity
  <1>2. /\ fields \in FieldLists /\ DOMAIN kept = DOMAIN rows
        /\ \A j \in DOMAIN rows : Holding(rows[j], kept[j], j)
    BY DEF EntityInv
  <1> DEFINE r == [rows[i] EXCEPT !["deleted"] = 1]
             e == [kept[i] EXCEPT !["deleted"] = 1]
  <1>3. /\ DOMAIN rows[i] = Columns /\ DOMAIN kept[i] = AllFields /\ rows[i]["id"] = i
        /\ \A f \in Shared : rows[i][ColumnOf[f]] = kept[i][f]
    BY <1>1, <1>2 DEF Holding
  <1>4. /\ DOMAIN r = Columns /\ DOMAIN e = AllFields
        /\ \A c \in Columns : r[c] = IF c = "deleted" THEN 1 ELSE rows[i][c]
        /\ \A f \in AllFields : e[f] = IF f = "deleted" THEN 1 ELSE kept[i][f]
    BY <1>3
  <1>5. rows'[i] = r /\ kept'[i] = e
    BY <1>1, <1>2
  <1> HIDE DEF r, e
  <1>6. ASSUME NEW f \in Shared PROVE r[ColumnOf[f]] = e[f]
    <2>1. f \in AllFields /\ ColumnOf[f] \in Columns
      BY <1>2, SharedFacts, ColumnFacts
    <2>2. f = "deleted" <=> ColumnOf[f] = "deleted"
      BY <2>1, ColumnFacts
    <2> QED BY <2>1, <2>2, <1>3, <1>4
  <1>7. r["id"] = i
    BY <1>3, <1>4, ColumnFacts
  <1>8. ASSUME NEW j \in DOMAIN rows PROVE Holding(rows'[j], kept'[j], j)
    <2>1. CASE j = i
      BY <2>1, <1>4, <1>5, <1>6, <1>7 DEF Holding
    <2>2. CASE j # i
      <3>1. rows'[j] = rows[j] /\ kept'[j] = kept[j]
        BY <2>2, <1>1, <1>2
      <3> QED BY <3>1, <1>2
    <2> QED BY <2>1, <2>2
  <1>9. DOMAIN rows' = DOMAIN rows /\ DOMAIN kept' = DOMAIN kept
    BY <1>1
  <1> QED BY <1>1, <1>8, <1>9, HoldingSame

LEMMA DeleteKeeps ==
    ASSUME EntityInv, NEW i, DeleteEntity(i)
    PROVE  EntityInv'
  <1> DEFINE D == DOMAIN rows \ {i}
  <1>1. /\ rows' = [j \in D |-> rows[j]] /\ kept' = [j \in D |-> kept[j]] /\ UNCHANGED <<manner, fields>>
    BY DEF DeleteEntity
  <1>2. IsFiniteSet(DOMAIN rows) /\ D \subseteq DOMAIN rows
    BY DEF EntityInv
  <1>3. IsFiniteSet(D)
    BY <1>2, FS_Subset
  <1>4. Shared' = Shared
    BY <1>1 DEF Shared
  <1>5. \A j \in D : Holding(rows[j], kept[j], j)
    BY DEF EntityInv
  <1> QED BY <1>1, <1>3, <1>4, <1>5 DEF EntityInv, Holding

LEMMA EntityKeeps == EntityInv /\ [EntityNext]_entityVars => EntityInv'
  <1> SUFFICES ASSUME EntityInv, [EntityNext]_entityVars PROVE EntityInv'
    OBVIOUS
  <1>1. CASE UNCHANGED entityVars
    BY <1>1 DEF entityVars, EntityInv, Holding, Shared
  <1> QED BY <1>1, InsertKeeps, ReplaceKeeps, UpdateKeeps, UpdateReflectedKeeps, MarkKeeps, DeleteKeeps DEF EntityNext

-----------------------------------------------------------------------------
(* The rows of a table in a sequence, and what a page shows of it.         *)
LEMMA AllInSequence ==
    ASSUME NEW S, IsFiniteSet(S)
    PROVE  SetToSeq(S) \in Seq(S) /\ IsInjective(SetToSeq(S))
  <1>1. PICK n \in Nat : ExistsBijection(1..n, S)
    BY FS_NatBijection
  <1>2. Cardinality(S) = n
    BY <1>1, FS_CountingElements
  <1>3. \E f \in [1..n -> S] : IsInjective(f)
    BY <1>1 DEF ExistsBijection, Bijection, Injection
  <1>4. SetToSeq(S) \in [1..n -> S] /\ IsInjective(SetToSeq(S))
    BY <1>2, <1>3 DEF SetToSeq
  <1> QED BY <1>4

LEMMA LeastOfTwo ==
    ASSUME NEW a \in Int, NEW b \in Int
    PROVE  Min({a, b}) = IF a <= b THEN a ELSE b
  <1> DEFINE T == {a, b}
             m == IF a <= b THEN a ELSE b
  <1>1. m \in T /\ \A y \in T : m =< y
    OBVIOUS
  <1>2. T \subseteq Int
    OBVIOUS
  <1> HIDE DEF T
  <1>3. Min(T) \in T /\ \A y \in T : Min(T) =< y
    BY <1>1 DEF Min
  <1>4. Min(T) <= m /\ m <= Min(T) /\ m \in Int /\ Min(T) \in Int
    BY <1>1, <1>2, <1>3
  <1>5. Min(T) = m
    BY <1>4
  <1> QED BY <1>5 DEF T

(* `size` rows from row o + 1 on, or what there is of them *)
IsPage(t, s, o, size) ==
    /\ DOMAIN t = 1..Len(t) /\ Len(t) \in Nat
    /\ \A k \in Nat : k \in 1..Len(t) <=> k >= 1 /\ k <= size /\ o + k <= Len(s)
    /\ \A k \in 1..Len(t) : t[k] = s[o + k]

LEMMA PartIsPage ==
    ASSUME NEW S, NEW s \in Seq(S), NEW o \in Nat, NEW size \in Nat
    PROVE  IsPage(SubSeq(s, o + 1, Min({o + size, Len(s)})), s, o, size)
  <1> DEFINE n == Len(s)
             e == Min({o + size, n})
             m == IF o + 1 <= e THEN (e - o) ELSE 0
             t == SubSeq(s, o + 1, e)
  <1>1. n \in Nat
    OBVIOUS
  <1>2. e \in Nat /\ e <= o + size /\ e <= n /\ (e = o + size \/ e = n)
    BY <1>1, LeastOfTwo
  <1> HIDE DEF e
  <1>3. m \in Nat
    BY <1>2
  <1>4. t = [k \in 1..m |-> s[o + k]]
    <2>1. t = [k \in 1..(1 + e - (o + 1)) |-> s[k + (o + 1) - 1]]
      BY <1>1, <1>2
    <2>2. 1..(1 + e - (o + 1)) = 1..m
      BY <1>2
    <2>3. \A k \in 1..m : k + (o + 1) - 1 = o + k
      OBVIOUS
    <2> QED BY <2>1, <2>2, <2>3
  <1> HIDE DEF t
  <1>5. \A k \in Nat : k \in 1..m <=> k >= 1 /\ k <= size /\ o + k <= n
    BY <1>1, <1>2
  <1> HIDE DEF m, n
  <1>6. DOMAIN t = 1..m /\ Len(t) = m /\ \A k \in 1..m : t[k] = s[o + k]
    BY <1>3, <1>4
  <1>7. IsPage(t, s, o, size)
    BY <1>3, <1>5, <1>6 DEF IsPage, n
  <1> QED BY <1>7 DEF t, e, n

LEMMA PageShows ==
    ASSUME NEW S, NEW s \in Seq(S), NEW x \in Nat, NEW size \in Nat \ {0}
    PROVE  IsPage(PageQuery(s, x + 1, size), s, x * size, size)
  <1> DEFINE o == x * size
             t == PageQuery(s, x + 1, size)
             c == LimitClause(size, o)
             u == SubSeq(s, o + 1, Min({o + size, Len(s)}))
  <1>1. o \in Nat /\ ((x + 1) - 1) * size = o /\ size > 0
    OBVIOUS
  <1>2. t = Selected(s, c)
    BY <1>1 DEF PageQuery
  <1> HIDE DEF o, t
  <1>3. ASSUME o = 0 PROVE Selected(s, c) = u
    <2>1. c = <<"LIMIT", size>>
      BY <1>1, <1>3 DEF LimitClause
    <2>2. Len(c) = 2 /\ c[2] = size
      BY <2>1
    <2> HIDE DEF c
    <2>3. Selected(s, c) = SubSeq(s, 0 + 1, Min({0 + size, Len(s)}))
      BY <2>2 DEF Selected
    <2> QED BY <1>3, <2>3
  <1>4. ASSUME o > 0 PROVE Selected(s, c) = u
    <2>1. \/ Len(c) = 4 /\ c[3] = "COMMA" /\ c[2] = o /\ c[4] = size
          \/ Len(c) = 4 /\ c[3] # "COMMA" /\ c[2] = size /\ c[4] = o
      <3>1. CASE dialect = "mysql"
        <4>1. c = <<"LIMIT", o, "COMMA", size>>
          BY <1>1, <1>4, <3>1 DEF LimitClause
        <4> QED BY <4>1
      <3>2. CASE dialect # "mysql"
        <4>1. c = <<"LIMIT", size, "OFFSET", o>>
          BY <1>1, <1>4, <3>2 DEF LimitClause
        <4> QED BY <4>1
      <3> QED BY <3>1, <3>2
    <2> HIDE DEF c
    <2> DEFINE limit == IF Len(c) = 0 THEN Len(s)
                        ELSE IF Len(c) = 4 /\ c[3] = "COMMA" THEN c[4] ELSE c[2]
               offset == IF Len(c) < 4 THEN 0 ELSE IF c[3] = "COMMA" THEN c[2] ELSE c[4]
    <2>2. Selected(s, c) = SubSeq(s, offset + 1, Min({offset + limit, Len(s)}))
      BY DEF Selected
    <2>3. limit = size
      BY <2>1
    <2>4. offset = o
      BY <2>1
    <2> HIDE DEF limit, offset
    <2> QED BY <2>2, <2>3, <2>4
  <1> HIDE DEF c, u
  <1>5. t = u
    BY <1>1, <1>2, <1>3, <1>4
  <1>6. IsPage(u, s, o, size)
    BY <1>1, PartIsPage DEF u
  <1>7. IsPage(t, s, o, size)
    BY <1>5, <1>6
  <1> QED BY <1>7 DEF o, t

(* Every row is on one page, at one place.                                 *)
LEMMA PagesApart ==
    ASSUME NEW x \in Nat, NEW y \in Nat, NEW size \in Nat, x < y
    PROVE  y * size >= x * size + size
  <1>1. PICK d \in Nat : y = x + 1 + d
    <2>1. y - x - 1 \in Nat /\ y = x + 1 + (y - x - 1)
      OBVIOUS
    <2> QED BY <2>1
  <1>2. y * size = x * size + size + d * size
    BY <1>1
  <1>3. d * size \in Nat /\ x * size \in Nat
    OBVIOUS
  <1> QED BY <1>2, <1>3

LEMMA OnePage ==
    ASSUME NEW r \in Nat \ {0}, NEW size \in Nat \ {0}
    PROVE  \E x \in 0..(r - 1) : x * size < r /\ r <= x * size + size
  <1> DEFINE T == {x \in 0..(r - 1) : x * size < r}
  <1>1. T \subseteq 0..(r - 1) /\ r - 1 \in Nat
    OBVIOUS
  <1>2. 0 \in T
    OBVIOUS
  <1> HIDE DEF T
  <1>3. PICK x \in T : \A y \in T : y <= x
    BY <1>1, <1>2, Greatest
  <1>4. x \in 0..(r - 1) /\ x * size < r
    BY <1>3 DEF T
  <1>5. x * size \in Nat /\ (x + 1) * size = x * size + size
    BY <1>4
  <1>6. ~(x + 1 \in T)
    BY <1>3, <1>4
  <1>7. x <= x * size
    BY <1>4
  <1>8. CASE x * size + size < r
    <2>1. x + 1 \in 0..(r - 1)
      BY <1>4, <1>5, <1>7, <1>8
    <2>2. x + 1 \in T
      BY <2>1, <1>5, <1>8 DEF T
    <2> QED BY <2>2, <1>6
  <1> QED BY <1>4, <1>5, <1>8

FoundOn(s, r, size) ==
    {at \in (1..Len(s)) \X (1..size) : /\ at[2] \in DOMAIN PageQuery(s, at[1], size)
                                      /\ PageQuery(s, at[1], size)[at[2]] = s[r]}

LEMMA RowsOnPages ==
    ASSUME NEW S, NEW s \in Seq(S), IsInjective(s), NEW size \in Nat \ {0}, NEW r \in 1..Len(s)
    PROVE  Cardinality(FoundOn(s, r, size)) = 1
  <1> DEFINE P(p) == PageQuery(s, p, size)
             F == {at \in (1..Len(s)) \X (1..size) : at[2] \in DOMAIN P(at[1]) /\ P(at[1])[at[2]] = s[r]}
  <1>1. Len(s) \in Nat /\ DOMAIN s = 1..Len(s)
    OBVIOUS
  <1>2. \A x \in Nat : IsPage(P(x + 1), s, x * size, size)
    BY PageShows
  <1> HIDE DEF P
  <1>0. r \in Nat \ {0}
    BY <1>1
  <1>3. PICK x \in 0..(r - 1) : x * size < r /\ r <= x * size + size
    BY <1>0, OnePage
  <1> DEFINE o == x * size
             k == r - o
  <1>4. o \in Nat /\ k \in 1..size /\ x + 1 \in 1..Len(s) /\ o + k = r /\ o < r
    <2>1. o \in Nat
      OBVIOUS
    <2>2. o < r /\ r <= o + size
      BY <1>3
    <2> HIDE DEF o
    <2> QED BY <2>1, <2>2, <1>1
  <1>5. IsPage(P(x + 1), s, o, size)
    BY <1>2, <1>3
  <1> HIDE DEF o, k
  <1>6. k \in DOMAIN P(x + 1) /\ P(x + 1)[k] = s[r]
    <2>1. k \in 1..Len(P(x + 1))
      BY <1>1, <1>4, <1>5 DEF IsPage
    <2> QED BY <2>1, <1>4, <1>5 DEF IsPage
  <1>7. <<x + 1, k>> \in F
    BY <1>4, <1>6
  <1>8. ASSUME NEW at \in F PROVE at = <<x + 1, k>>
    <2>1. PICK p \in 1..Len(s), h \in 1..size : at = <<p, h>>
      OBVIOUS
    <2>2. h \in DOMAIN P(p) /\ P(p)[h] = s[r]
      BY <2>1
    <2> DEFINE y == p - 1
               q == y * size
    <2>3. y \in Nat /\ p = y + 1
      BY <1>1
    <2> HIDE DEF y
    <2>4. q \in Nat
      BY <2>3
    <2>5. IsPage(P(p), s, q, size)
      BY <1>2, <2>3
    <2>6. x < y => q >= o + size
      BY <2>3, PagesApart DEF o
    <2>7. y < x => o >= q + size
      BY <2>3, PagesApart DEF o
    <2> HIDE DEF q
    <2>8. q + h \in 1..Len(s) /\ s[q + h] = s[r]
      <3>1. h \in 1..Len(P(p))
        BY <2>2, <2>5 DEF IsPage
      <3>2. h \in Nat /\ h >= 1 /\ q + h <= Len(s)
        BY <2>5, <3>1 DEF IsPage
      <3>3. s[q + h] = s[r]
        BY <2>2, <2>5, <3>1 DEF IsPage
      <3> QED BY <1>1, <2>4, <3>2, <3>3
    <2>9. q + h = r
      BY <1>1, <2>8 DEF IsInjective
    <2>10. x = y
      BY <1>4, <2>3, <2>4, <2>6, <2>7, <2>9
    <2>11. q = o
      BY <2>10 DEF q, o
    <2>12. h = k
      BY <1>4, <2>4, <2>9, <2>11
    <2> QED BY <2>1, <2>3, <2>10, <2>12
  <1> HIDE DEF F
  <1>9. F = {<<x + 1, k>>}
    BY <1>7, <1>8
  <1>10. Cardinality(F) = 1
    BY <1>9, FS_Singleton
  <1> QED BY <1>10 DEF F, P, FoundOn

LEMMA PageFits ==
    ASSUME NEW S, NEW s \in Seq(S), NEW size \in Nat \ {0}, NEW p \in Nat \ {0}
    PROVE  Len(PageQuery(s, p, size)) <= size /\ ToSet(PageQuery(s, p, size)) \subseteq S
  <1> DEFINE x == p - 1
             o == x * size
             t == PageQuery(s, p, size)
  <1>1. x \in Nat /\ x + 1 = p
    OBVIOUS
  <1> HIDE DEF x
  <1>2. o \in Nat
    BY <1>1
  <1>3. IsPage(PageQuery(s, x + 1, size), s, o, size)
    BY <1>1, PageShows
  <1>4. IsPage(t, s, o, size)
    BY <1>1, <1>3
  <1> HIDE DEF o, t
  <1>5. Len(t) <= size
    <2>1. CASE Len(t) = 0
      BY <2>1
    <2>2. CASE Len(t) # 0
      <3>1. Len(t) \in Nat /\ Len(t) \in 1..Len(t)
        BY <1>4, <2>2 DEF IsPage
      <3> QED BY <1>4, <3>1 DEF IsPage
    <2> QED BY <2>1, <2>2
  <1>6. ASSUME NEW k \in DOMAIN t PROVE t[k] \in S
    <2>1. k \in 1..Len(t) /\ Len(t) \in Nat
      BY <1>4, <1>6 DEF IsPage
    <2>2. o + k <= Len(s) /\ t[k] = s[o + k] /\ k >= 1 /\ k \in Nat
      BY <1>4, <2>1 DEF IsPage
    <2>3. o + k \in 1..Len(s)
      BY <1>2, <2>2
    <2> QED BY <2>2, <2>3
  <1>7. ToSet(t) \subseteq S
    BY <1>6 DEF ToSet
  <1> QED BY <1>5, <1>7 DEF t

LEMMA EntitiesAreRead == EntityInv => EntitiesReadBack
  <1> SUFFICES ASSUME EntityInv PROVE EntitiesReadBack
    OBVIOUS
  <1> DEFINE all == SetToSeq(DOMAIN rows)
  <1>1. DOMAIN rows = DOMAIN kept
    BY DEF EntityInv
  <1>2. ASSUME NEW i \in DOMAIN rows,
               NEW f \in ToSet(fields) \union (IF manner = "mapped" THEN BaseFields ELSE {})
        PROVE  Entity(rows[i])[f] = kept[i][f]
    <2>1. f \in Shared
      BY DEF Shared
    <2>2. fields \in FieldLists /\ manner \in {"mapped", "reflected"} /\ Holding(rows[i], kept[i], i)
      BY DEF EntityInv
    <2>3. f \in AllFields /\ rows[i][ColumnOf[f]] = kept[i][f]
      BY <2>1, <2>2, SharedFacts DEF Holding
    <2>4. CASE manner = "mapped"
      <3>1. f \in BaseFields \union {"id"} \union ToSet(fields)
        BY <2>4, <1>2
      <3>2. Entity(rows[i]) = FromQueryResult(rows[i])
        BY <2>4 DEF Entity
      <3>3. FromQueryResult(rows[i])[f] = rows[i][ColumnOf[f]]
        BY <2>3, <3>1 DEF FromQueryResult
      <3> QED BY <2>3, <3>2, <3>3
    <2>5. CASE manner = "reflected"
      <3>1. f \in ToSet(fields)
        BY <2>5, <1>2
      <3>2. Entity(rows[i]) = MapRow(rows[i])
        BY <2>5 DEF Entity
      <3>3. MapRow(rows[i])[f] = rows[i][ColumnOf[f]]
        BY <2>3, <3>1 DEF MapRow
      <3> QED BY <2>3, <3>2, <3>3
    <2> QED BY <2>2, <2>4, <2>5
  <1>3. all \in Seq(DOMAIN rows) /\ IsInjective(all)
    BY AllInSequence DEF EntityInv
  <1> HIDE DEF all
  <1>4. Len(all) \in Nat
    BY <1>3
  <1>5. ASSUME NEW size \in 1..(Len(all) + 1), NEW r \in 1..Len(all)
        PROVE  Cardinality(FoundOn(all, r, size)) = 1
    <2>1. size \in Nat \ {0}
      BY <1>4
    <2> QED BY <1>3, <2>1, RowsOnPages
  <1>6. ASSUME NEW size \in 1..(Len(all) + 1), NEW p \in 1..Len(all)
        PROVE  Len(PageQuery(all, p, size)) <= size /\ ToSet(PageQuery(all, p, size)) \subseteq DOMAIN rows
    <2>1. size \in Nat \ {0} /\ p \in Nat \ {0}
      BY <1>4
    <2> QED BY <1>3, <2>1, PageFits
  <1> QED BY <1>1, <1>2, <1>5, <1>6 DEF EntitiesReadBack, FoundOn, all

-----------------------------------------------------------------------------
(* However conditions are chained and nested, a statement's parentheses    *)
(* match, no OR stands beside the filter for deleted rows and placeholders *)
(* pair with bound values (query_wrapper.cpp:98-362); a page is the same   *)
(* window of rows in every dialect (sql_dialect.cpp:16-83); what is read   *)
(* back of an entity is what was saved last, since the lists of columns,   *)
(* placeholders and parameters agree (sqlite_repository.h:274-395,         *)
(* repository_factory.h:121-316), and every row is on one page.            *)
THEOREM RowsCorrect == Spec => []RowsSound
  <1> DEFINE I == WrapInv /\ PageInv /\ EntityInv
  <1>1. Init => I
    <2> SUFFICES ASSUME Init PROVE I
      OBVIOUS
    <2>1. WrapperInit /\ EntityInit
      BY DEF Init
    <2>2. PageInv
      BY <2>1, QueryAssumption DEF WrapperInit, PageInv
    <2> QED BY <2>1, <2>2, WrapInvInit, EntityInvInit
  <1>2. I /\ [Next]_<<subject, partVars>> => I'
    <2> SUFFICES ASSUME I, [Next]_<<subject, partVars>> PROVE I'
      OBVIOUS
    <2>1. [WrapperNext \/ PageNext]_<<wrappers, page>>
      BY DEF Next, TableStep, partVars, tableVars
    <2>2. [EntityNext]_entityVars
      BY DEF Next, TableStep, partVars, tableVars
    <2> QED BY <2>1, <2>2, WrapKeeps, PageKeeps, EntityKeeps
  <1>3. I => RowsSound
    BY EntitiesAreRead, StatementsAreSound, PagesAreWindows DEF RowsSound
  <1> QED BY <1>1, <1>2, <1>3, PTL DEF Spec

=============================================================================
