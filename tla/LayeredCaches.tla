--------------------------- MODULE LayeredCaches ----------------------------
(***************************************************************************)
(* Caches in front of something else: levels above levels, a repository,   *)
(* the results of queries.  The parts share no state.                      *)
(***************************************************************************)
EXTENDS Integers, Sequences, FiniteSets, SequencesExt

(***************************************************************************)
(* sc::cache::MultiLevelCache (multi_level_cache.h): levels asked in order,*)
(* the hit of a lower one written back to the ones above it.               *)
(*                                                                         *)
(* A level locks itself, the composition locks nothing: the calls of       *)
(* several threads meet between two levels.  A level may lose an entry     *)
(* (its limits, a time to live) and may fail a call.                       *)
(***************************************************************************)
CONSTANTS
    Callers,            \* threads
    CacheKeys,
    CacheValues,
    Absent,             \* an empty std::optional<V>
    Depth               \* m_levels.size()

ASSUME TieredAssumption == Depth \in Nat \ {0} /\ Absent \notin CacheValues

VARIABLES
    level,     \* m_levels: what each holds per key
    job,       \* the call a thread is in
    latest,    \* history: what the last write left, per key
    disturbed  \* history: keys whose last write met another call or failed

tieredVars == <<level, job, latest, disturbed>>

NoHits == [k \in {} |-> Absent]
Idle == [op |-> "idle", keys |-> {}, rest |-> {}, value |-> Absent, at |-> 0,
         fill |-> 0, hits |-> NoHits]

TieredInit ==
    /\ level = [i \in 1..Depth |-> [k \in CacheKeys |-> Absent]]
    /\ job = [t \in Callers |-> Idle]
    /\ latest = [k \in CacheKeys |-> Absent] /\ disturbed = {}

IsWrite(op) == op \in {"put", "remove", "clear"}
WrittenOver(lv, ks, v) == [k \in CacheKeys |-> IF k \in ks THEN v ELSE lv[k]]

Goto(t, i) == job' = [job EXCEPT ![t] = [@ EXCEPT !.at = i, !.fill = 0]]

-----------------------------------------------------------------------------
(* A call begins.  The history marks the keys of two overlapping calls of  *)
(* which one writes; a write that meets nobody starts afresh.              *)
BeginCall(t, op, ks, v) ==
    LET Meets(u) == /\ u # t /\ "contains" \notin {op, job[u].op}
                    /\ IsWrite(op) \/ IsWrite(job[u].op)
        met == UNION {job[u].keys \intersect ks : u \in {u \in Callers : Meets(u)}}
    IN  /\ job[t].op = "idle"
        /\ job' = [job EXCEPT ![t] = [op |-> op, keys |-> ks, rest |-> ks, value |-> v, at |-> 1,
                                       fill |-> 0, hits |-> NoHits]]
        /\ disturbed' = (IF IsWrite(op) THEN disturbed \ ks ELSE disturbed) \union met
        /\ UNCHANGED <<level, latest>>

(* A lookup in call j after level i had the entries found: those of a      *)
(* lower level are filled in above before the next is asked                *)
Answered(j, i, found) ==
    LET fills == i > 1 /\ DOMAIN found # {}
    IN  [op |-> j.op, keys |-> j.keys, rest |-> j.rest \ DOMAIN found, value |-> j.value,
         at |-> IF fills THEN i ELSE i + 1, fill |-> IF fills THEN 1 ELSE 0, hits |-> found]

(* get() and getMany() at a level: a failing one is skipped *)
AskLevel(t) ==
    LET i == job[t].at
        hits == {k \in job[t].rest : level[i][k] # Absent}
    IN  /\ job[t].op = "get" /\ job[t].fill = 0 /\ i <= Depth /\ job[t].rest # {}
        /\ \/ Goto(t, i + 1)
           \/ job' = [job EXCEPT ![t] = Answered(@, i, [k \in hits |-> level[i][k]])]
        /\ UNCHANGED <<level, latest, disturbed>>

(* backfillUpper() and backfillUpperMany(): the result is not looked at *)
BackfillUpper(t) ==
    LET j == job[t].fill
        hits == job[t].hits
    IN  /\ j > 0
        /\ \/ UNCHANGED level
           \/ level' = [level EXCEPT ![j] =
                [k \in CacheKeys |-> IF k \in DOMAIN hits THEN hits[k] ELSE @[k]]]
        /\ IF j + 1 < job[t].at THEN job' = [job EXCEPT ![t].fill = j + 1] ELSE Goto(t, job[t].at + 1)
        /\ UNCHANGED <<latest, disturbed>>

(* contains() stops at the first level that has the key *)
ContainsLevel(t) ==
    /\ job[t].op = "contains" /\ job[t].at <= Depth
    /\ \/ Goto(t, job[t].at + 1)
       \/ (\E k \in job[t].keys : level[job[t].at][k] # Absent) /\ Goto(t, Depth + 1)
    /\ UNCHANGED <<level, latest, disturbed>>

(* put(), putMany() and clear() go on when a level fails *)
WriteLevel(t) ==
    LET i == job[t].at
    IN  /\ job[t].op \in {"put", "clear"} /\ i <= Depth
        /\ \/ /\ level' = [level EXCEPT ![i] = WrittenOver(@, job[t].keys, job[t].value)]
              /\ UNCHANGED disturbed
           \/ UNCHANGED level /\ disturbed' = disturbed \union job[t].keys
        /\ Goto(t, i + 1) /\ UNCHANGED latest

(* A mistaken RemoveLevel: a level without the key ends the call *)
RemoveUntilMissing(t) ==
    LET i == job[t].at
        there == \E k \in job[t].keys : level[i][k] # Absent
    IN  /\ job[t].op = "remove" /\ i <= Depth
        /\ level' = [level EXCEPT ![i] = WrittenOver(@, job[t].keys, Absent)]
        /\ Goto(t, IF there THEN i + 1 ELSE Depth + 1)
        /\ UNCHANGED <<latest, disturbed>>

(* remove(): a level without the key counts as done, one that fails ends   *)
(* the call                                                                *)
RemoveLevel(t) ==
    LET i == job[t].at
    IN  /\ job[t].op = "remove" /\ i <= Depth
        /\ \/ /\ level' = [level EXCEPT ![i] = WrittenOver(@, job[t].keys, Absent)]
              /\ Goto(t, i + 1) /\ UNCHANGED disturbed
           \/ /\ UNCHANGED level /\ disturbed' = disturbed \union job[t].keys
              /\ Goto(t, Depth + 1)
        /\ UNCHANGED latest

(* The call returns; the history records a write. *)
ReturnCall(t) ==
    LET j == job[t]
    IN  /\ j.op # "idle" /\ j.fill = 0
        /\ j.at > Depth \/ (j.op = "get" /\ j.rest = {})
        /\ job' = [job EXCEPT ![t] = Idle]
        /\ latest' = IF IsWrite(j.op) THEN WrittenOver(latest, j.keys, j.value) ELSE latest
        /\ UNCHANGED <<level, disturbed>>

(* A level drops an entry *)
LoseEntry(i, k) ==
    /\ level[i][k] # Absent /\ level' = [level EXCEPT ![i][k] = Absent]
    /\ UNCHANGED <<job, latest, disturbed>>

(* The calls: get() and put() are getMany() and putMany() of one key *)
GetCall(t, ks) == BeginCall(t, "get", ks, Absent)
PutCall(t, ks, v) == BeginCall(t, "put", ks, v)
ClearCall(t) == BeginCall(t, "clear", CacheKeys, Absent)

TieredNext ==
    \/ \E t \in Callers :
         \/ \E k \in CacheKeys : \/ BeginCall(t, "remove", {k}, Absent)
                                 \/ BeginCall(t, "contains", {k}, Absent)
         \/ \E ks \in SUBSET CacheKeys \ {{}} :
              GetCall(t, ks) \/ \E v \in CacheValues : PutCall(t, ks, v)
         \/ ClearCall(t)
         \/ AskLevel(t) \/ BackfillUpper(t) \/ ContainsLevel(t)
         \/ WriteLevel(t) \/ RemoveLevel(t) \/ ReturnCall(t)
    \/ \E i \in 1..Depth, k \in CacheKeys : LoseEntry(i, k)

TieredSpec == TieredInit /\ [][TieredNext]_tieredVars

-----------------------------------------------------------------------------
(* After a write of a key that met no other call on it and failed at no    *)
(* level, every level has what it wrote or nothing, whatever the calls     *)
(* before it left behind and whatever is lost or back-filled since: a      *)
(* removed key is not brought back by a lower level (multi_level_cache.h:  *)
(* 75, 94-107).  After a write that did meet one the levels may differ     *)
(* until the next: back-filling takes no lock, against the class comment   *)
(* (multi_level_cache.h:37), and a get() that read a lower level before    *)
(* remove() or put() came by writes the old value back above it.           *)
NoStaleLevel ==
    \A k \in CacheKeys \ disturbed :
      (\A t \in Callers : k \in job[t].keys => ~IsWrite(job[t].op)) =>
        \A i \in 1..Depth : level[i][k] \in {latest[k], Absent}

-----------------------------------------------------------------------------
(***************************************************************************)
(* sc::orm::CachedRepository (cached_repository.h): a cache in front of a  *)
(* repository.                                                             *)
(*                                                                         *)
(* The delegate and the cache lock themselves; CachedRepository locks      *)
(* nothing, so the calls of several threads meet between the two.  The     *)
(* cache may refuse an entry, and drops it when its time to live is over.  *)
(***************************************************************************)
CONSTANTS
    Clients,      \* threads
    Ids,          \* entities
    Versions,     \* the states an entity is saved in
    Gone,         \* no entity, no entry
    Extractors,   \* subset of BOOLEAN: is an idExtractor given?
    MaxWrites     \* bound on the writes

ASSUME RepositoryAssumption == Gone \notin Versions /\ MaxWrites \in Nat

VARIABLES
    stored,     \* the delegate
    copy,       \* m_cache: a version and whether the entry expires
    extractor,  \* m_idExtractor
    doing,      \* the call a thread is in
    writes      \* writes so far

repoVars == <<stored, copy, extractor, doing, writes>>

NoCopy == [value |-> Gone, ttl |-> FALSE]
Resting == [op |-> "none", id |-> Gone, value |-> Gone]

RepoInit ==
    /\ stored = [i \in Ids |-> Gone] /\ copy = [i \in Ids |-> NoCopy]
    /\ extractor \in Extractors
    /\ doing = [c \in Clients |-> Resting] /\ writes = 0

-----------------------------------------------------------------------------
(* findById(): the cache answers, or it has no entry or fails and the      *)
(* delegate is asked                                                       *)
FindInCache(c, i) ==
    /\ doing[c] = Resting
    /\ doing' = [doing EXCEPT ![c] = [op |-> "find", id |-> i, value |-> Gone]]
    /\ UNCHANGED <<stored, copy, extractor, writes>>

FindInDelegate(c) ==
    LET i == doing[c].id
    IN  /\ doing[c].op = "find"
        /\ doing' = [doing EXCEPT ![c] = IF stored[i] = Gone THEN Resting
                                         ELSE [op |-> "put", id |-> i, value |-> stored[i]]]
        /\ UNCHANGED <<stored, copy, extractor, writes>>

(* A mistaken PutInCache: the entry never expires *)
PutForever(c) ==
    /\ doing[c].op = "put"
    /\ copy' = [copy EXCEPT ![doing[c].id] = [value |-> doing[c].value, ttl |-> FALSE]]
    /\ doing' = [doing EXCEPT ![c] = Resting]
    /\ UNCHANGED <<stored, extractor, writes>>

(* m_cache->put(), whose result nobody looks at *)
PutInCache(c) ==
    /\ doing[c].op = "put"
    /\ \/ copy' = [copy EXCEPT ![doing[c].id] = [value |-> doing[c].value, ttl |-> TRUE]]
       \/ UNCHANGED copy
    /\ doing' = [doing EXCEPT ![c] = Resting]
    /\ UNCHANGED <<stored, extractor, writes>>

(* save(): without an extractor the cache keeps what it has *)
Save(c, i, v) ==
    /\ doing[c] = Resting /\ writes < MaxWrites /\ writes' = writes + 1
    /\ stored' = [stored EXCEPT ![i] = v]
    /\ doing' = [doing EXCEPT ![c] = IF extractor THEN [op |-> "put", id |-> i, value |-> v] ELSE @]
    /\ UNCHANGED <<copy, extractor>>

(* saveBatch() passes the cache by *)
SaveBatch(c, S, v) ==
    /\ doing[c] = Resting /\ writes < MaxWrites /\ writes' = writes + 1
    /\ stored' = [i \in Ids |-> IF i \in S THEN v ELSE stored[i]]
    /\ UNCHANGED <<copy, extractor, doing>>

(* removeById() and removeBatch(): the entities, then their entries *)
RemoveEntities(c, S) ==
    /\ doing[c] = Resting /\ writes < MaxWrites /\ writes' = writes + 1
    /\ stored' = [i \in Ids |-> IF i \in S THEN Gone ELSE stored[i]]
    /\ doing' = [doing EXCEPT ![c] = [op |-> "drop", id |-> S, value |-> Gone]]
    /\ UNCHANGED <<copy, extractor>>

DropFromCache(c) ==
    /\ doing[c].op = "drop"
    /\ \E i \in doing[c].id :
         /\ copy' \in {copy, [copy EXCEPT ![i] = NoCopy]}
         /\ doing' = [doing EXCEPT ![c] = IF @.id = {i} THEN Resting ELSE [@ EXCEPT !.id = @ \ {i}]]
    /\ UNCHANGED <<stored, extractor, writes>>

InvalidateCache ==
    /\ copy' = [i \in Ids |-> NoCopy] /\ UNCHANGED <<stored, extractor, doing, writes>>

(* The cache drops an entry whose time is over *)
Expire(i) ==
    /\ copy[i].ttl /\ copy' = [copy EXCEPT ![i] = NoCopy]
    /\ UNCHANGED <<stored, extractor, doing, writes>>

ClientStep(c) == FindInDelegate(c) \/ PutInCache(c) \/ DropFromCache(c)

RepoNext ==
    \/ \E c \in Clients :
         \/ ClientStep(c)
         \/ \E i \in Ids : FindInCache(c, i) \/ \E v \in Versions : Save(c, i, v)
         \/ \E S \in SUBSET Ids \ {{}} :
              RemoveEntities(c, S) \/ \E v \in Versions : SaveBatch(c, S, v)
    \/ InvalidateCache
    \/ \E i \in Ids : Expire(i)

(* Calls return, and entries put with m_ttl expire. *)
RepoFairness ==
    /\ \A c \in Clients : WF_repoVars(ClientStep(c))
    /\ \A i \in Ids : WF_repoVars(Expire(i))

RepoSpec == RepoInit /\ [][RepoNext]_repoVars /\ RepoFairness

(* A stale entry does not outlive the writes for ever: whatever reads and  *)
(* writes raced, and though saveBatch() leaves the cache alone, an entry   *)
(* that differs from the delegate goes (cached_repository.h:94-102, 144).  *)
FreshInTheEnd ==
    \A i \in Ids : (writes = MaxWrites) ~> [](copy[i].value \in {stored[i], Gone})

-----------------------------------------------------------------------------
(***************************************************************************)
(* sc::orm::QueryResultCache (query_result_cache.h): results of queries    *)
(* under keys "table:query", thrown away one by one or for a table.        *)
(*                                                                         *)
(* Every call holds m_mutex.                                               *)
(***************************************************************************)
CONSTANTS
    Queries,     \* keys
    Tables,
    TableOf,     \* extractTableName(): the part before ':' or NoTable
    NoTable,
    MaxListed    \* bound on the keys remembered for a table

ASSUME QueryCacheAssumption == TableOf \in [Queries -> Tables \union {NoTable}] /\ MaxListed \in Nat

VARIABLES
    results,     \* m_cache: the keys, and which of them have expired
    tableKeys    \* m_tableKeys

queryVars == <<results, tableKeys>>

QueryInit ==
    /\ results = [q \in {} |-> "live"]
    /\ tableKeys = [t \in {} |-> <<>>]

Without(f, S) == [x \in DOMAIN f \ S |-> f[x]]
Listed(t) == IF t \in DOMAIN tableKeys THEN tableKeys[t] ELSE <<>>

-----------------------------------------------------------------------------
(* put(): the key is listed once more even if it is listed already *)
PutResult(q) ==
    LET t == TableOf[q]
    IN  /\ Len(Listed(t)) < MaxListed
        /\ results' = [x \in DOMAIN results \union {q} |-> IF x = q THEN "live" ELSE results[x]]
        /\ tableKeys' = IF t = NoTable THEN tableKeys
                        ELSE [x \in DOMAIN tableKeys \union {t} |->
                                IF x = t THEN Append(Listed(t), q) ELSE tableKeys[x]]

GetResult(q) == q \in DOMAIN results /\ results[q] = "live"

ResultExpires(q) ==
    /\ GetResult(q)
    /\ results' = [results EXCEPT ![q] = "expired"] /\ UNCHANGED tableKeys

(* A mistaken Invalidate: the list of the table goes with the key *)
InvalidateWithList(q) ==
    results' = Without(results, {q}) /\ tableKeys' = Without(tableKeys, {TableOf[q]})

(* invalidate() leaves the key in the list of its table *)
Invalidate(q) == results' = Without(results, {q}) /\ UNCHANGED tableKeys

InvalidateTable(t) ==
    /\ t \in DOMAIN tableKeys
    /\ results' = Without(results, ToSet(tableKeys[t]))
    /\ tableKeys' = Without(tableKeys, {t})

ClearResults == results' = Without(results, Queries) /\ tableKeys' = Without(tableKeys, Tables)

EvictExpired ==
    /\ results' = Without(results, {q \in DOMAIN results : results[q] = "expired"})
    /\ UNCHANGED tableKeys

QueryNext ==
    \/ \E q \in Queries : PutResult(q) \/ ResultExpires(q) \/ Invalidate(q)
    \/ \E t \in Tables : InvalidateTable(t)
    \/ ClearResults \/ EvictExpired

QuerySpec == QueryInit /\ [][QueryNext]_queryVars

(* No result of a table survives invalidateTable(): every cached key that  *)
(* names a table is listed for it, whatever was invalidated or evicted in  *)
(* between (query_result_cache.h:78-84, 106-123).                          *)
TableKeysCover ==
    \A q \in DOMAIN results : TableOf[q] # NoTable => Contains(Listed(TableOf[q]), q)

(* What is removed or overwritten while no other thread uses the key is    *)
(* not answered again: no lower level brings it back, and no result of a   *)
(* table is overlooked when the table changes (multi_level_cache.h,        *)
(* query_result_cache.h).  A get() that overlaps the removal may bring the *)
(* value back until the next undisturbed write of the key.                 *)
LevelsSound == NoStaleLevel /\ TableKeysCover
=============================================================================
