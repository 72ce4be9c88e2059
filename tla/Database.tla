------------------------------ MODULE Database ------------------------------
(***************************************************************************)
(* The pool of database connections with those it lends to, and one driver *)
(* with the database behind it.                                            *)
(***************************************************************************)
EXTENDS Integers, Sequences, FiniteSets

(***************************************************************************)
(* sc::data::DefaultDbConnectionPool (connection_pool.h) with the drivers  *)
(* it opens (database_driver.cpp) and the transactions run on them         *)
(* (transaction.h, transaction.cpp).                                       *)
(*                                                                         *)
(* A call holds m_mutex up to the wait of acquire(), which gives it up     *)
(* once more before it starts over.  A driver is told apart by             *)
(* isConnected() and its open transaction.                                 *)
(***************************************************************************)
CONSTANTS
    Borrowers,      \* threads
    MinSize, MaxSize,
    MaxTimes    \* bound on the length of m_lastUsedTimes

ASSUME DbPoolAssumption ==
    /\ IsFiniteSet(Borrowers)
    /\ {MinSize, MaxSize, MaxTimes} \subseteq Nat /\ MinSize <= MaxSize

VARIABLES
    idle,       \* m_idleConnections
    times,      \* m_lastUsedTimes: TRUE once older than m_idleTimeoutMs
    total,      \* m_totalCount
    active,     \* m_activeCount
    user,       \* where a thread is
    lease,      \* the driver it has
    poolMishap, \* history: {"close"} once closeAll() was called with a driver in use
    missed      \* history: the woken threads that could not open their driver
                \* since one last found the pool exhausted

poolVars == <<idle, times, total, active, user, lease, poolMishap, missed>>

Driver == [up |-> TRUE, tx |-> FALSE, failed |-> FALSE]   \* failed: history, a commit or rollback did
NoDriver == [Driver EXCEPT !.up = FALSE]

DbPoolInit ==
    /\ idle = <<>> /\ times = <<>> /\ total = 0 /\ active = 0
    /\ user = [u \in Borrowers |-> "out"] /\ lease = [u \in Borrowers |-> NoDriver]
    /\ poolMishap = {} /\ missed = 0

(* m_totalCount and m_activeCount are not taken below 0 *)
Less(n, k) == IF n > k THEN n - k ELSE 0
Holders == {u \in Borrowers : user[u] \in {"has", "scope", "with"}}
Available == idle # <<>> \/ total < MaxSize
Waiters == {u \in Borrowers : user[u] \in {"waiting", "timed"}}
Awake == {u \in Borrowers : user[u] \in {"notified", "alerted", "again"}}
Openings == Len(idle) + (MaxSize - total)   \* drivers acquire() can still hand out or open
Alerted(w) == IF w = "waiting" THEN "notified" ELSE "alerted"

(* The last idle driver that is connected: pop_back() passes over those    *)
(* after it                                                                *)
LastUp(n) == idle[n].up /\ \A i \in (n + 1)..Len(idle) : ~idle[i].up
NoneUp == \A i \in DOMAIN idle : ~idle[i].up

-----------------------------------------------------------------------------
(* initialize(): as many as open, up to m_minSize *)
Initialize ==
    \E n \in 0..(MinSize - total) :
      /\ total < MinSize /\ Len(times) + n <= MaxTimes
      /\ idle' = idle \o [i \in 1..n |-> Driver] /\ times' = times \o [i \in 1..n |-> FALSE]
      /\ total' = total + n
      /\ UNCHANGED <<active, user, lease, poolMishap, missed>>

(* A mistaken AcquireIdle: the drivers passed over still count *)
AcquireIdleOnly(u) ==
    /\ user[u] \in {"out", "again"}
    /\ \E n \in DOMAIN idle :
         /\ LastUp(n) /\ lease' = [lease EXCEPT ![u] = idle[n]]
         /\ idle' = SubSeq(idle, 1, n - 1)
    /\ user' = [user EXCEPT ![u] = "has"]
    /\ active' = active + 1 /\ UNCHANGED <<times, total, poolMishap, missed>>

(* acquire(): an idle driver that is connected; those that are not go. *)
AcquireIdle(u) ==
    /\ user[u] \in {"out", "again"}
    /\ \E n \in DOMAIN idle :
         /\ LastUp(n) /\ lease' = [lease EXCEPT ![u] = idle[n]]
         /\ idle' = SubSeq(idle, 1, n - 1)
         /\ total' = Less(total, Len(idle) - n)
    /\ user' = [user EXCEPT ![u] = "has"]
    /\ active' = active + 1 /\ UNCHANGED <<times, poolMishap, missed>>

(* What is left of m_totalCount when no idle driver is connected *)
Pruned == Less(total, Len(idle))

(* ... a new driver, DatabaseDriverFactory::create() and open() *)
AcquireNew(u) ==
    /\ user[u] \in {"out", "again"} /\ NoneUp /\ Pruned < MaxSize
    /\ idle' = <<>>
    /\ \/ /\ lease' = [lease EXCEPT ![u] = Driver] /\ user' = [user EXCEPT ![u] = "has"]
          /\ total' = Pruned + 1 /\ active' = active + 1 /\ UNCHANGED missed
       \/ /\ user' = [user EXCEPT ![u] = "out"]
          /\ missed' = IF user[u] = "again" THEN missed + 1 ELSE missed
          /\ total' = Pruned /\ UNCHANGED <<lease, active>>
    /\ UNCHANGED <<times, poolMishap>>

(* ... or wait: for ever, until a deadline, or (a negative time-out) not   *)
(* at all.  The second call of acquire() always waits for ever.            *)
AcquireWaits(u) ==
    /\ user[u] \in {"out", "again"} /\ NoneUp /\ Pruned >= MaxSize
    /\ idle' = <<>> /\ total' = Pruned /\ missed' = 0
    /\ \E w \in {"waiting"} \union IF user[u] = "out" THEN {"timed", "out"} ELSE {} :
         user' = [user EXCEPT ![u] = w]
    /\ UNCHANGED <<times, active, lease, poolMishap>>

(* wait() returns after a notification when its predicate holds *)
Woken(u) ==
    /\ user[u] \in {"notified", "alerted"}
    /\ user' = [user EXCEPT ![u] = IF Available THEN "again"
                                   ELSE IF user[u] = "notified" THEN "waiting" ELSE "timed"]
    /\ UNCHANGED <<idle, times, total, active, lease, poolMishap, missed>>

Deadline(u) ==
    /\ user[u] = "timed"
    /\ user' = [user EXCEPT ![u] = IF Available THEN "again" ELSE "out"]
    /\ UNCHANGED <<idle, times, total, active, lease, poolMishap, missed>>

(* A mistaken Release: a driver that broke wakes nobody *)
ReleaseQuietly(u) ==
    /\ user[u] = "has" /\ active' = Less(active, 1)
    /\ IF lease[u].up
       THEN /\ idle' = Append(idle, lease[u]) /\ times' = Append(times, FALSE)
            /\ UNCHANGED total
            /\ \E w \in IF Waiters = {} THEN {u} ELSE Waiters :
                 user' = [v \in Borrowers |-> IF v = u THEN "out" ELSE IF v = w THEN Alerted(user[v]) ELSE user[v]]
       ELSE /\ total' = Less(total, 1) /\ UNCHANGED <<idle, times>>
            /\ user' = [user EXCEPT ![u] = "out"]
    /\ lease' = [lease EXCEPT ![u] = NoDriver] /\ UNCHANGED <<poolMishap, missed>>

(* release(), from the destructor of ConnectionGuard; notify_one() *)
Release(u) ==
    /\ user[u] = "has" /\ active' = Less(active, 1)
    /\ IF lease[u].up
       THEN /\ Len(times) < MaxTimes
            /\ idle' = Append(idle, lease[u]) /\ times' = Append(times, FALSE)
            /\ UNCHANGED total
       ELSE total' = Less(total, 1) /\ UNCHANGED <<idle, times>>
    /\ \E w \in IF Waiters = {} THEN {u} ELSE Waiters :
         user' = [v \in Borrowers |-> IF v = u THEN "out" ELSE IF v = w THEN Alerted(user[v]) ELSE user[v]]
    /\ lease' = [lease EXCEPT ![u] = NoDriver] /\ UNCHANGED <<poolMishap, missed>>

(* closeAll() counts the drivers in use as gone *)
ClosePool ==
    /\ idle' = <<>> /\ times' = <<>> /\ total' = 0 /\ active' = 0
    /\ user' = [u \in Borrowers |-> IF u \in Waiters THEN Alerted(user[u]) ELSE user[u]]
    /\ poolMishap' = IF Holders = {} THEN poolMishap ELSE poolMishap \union {"close"}
    /\ UNCHANGED <<lease, missed>>

(* A set of indexes from the least to the greatest *)
InOrder(S) ==
    {f \in [1..Cardinality(S) -> S] : \A m, n \in 1..Cardinality(S) : m < n => f[m] < f[n]}

(* healthCheck(): the i-th time stands for the i-th driver, whichever it   *)
(* is by now; drivers that are not connected or old go.  New ones are      *)
(* listed even if they do not open, and nobody is notified.                *)
HealthCheck ==
    LET old(i) == i <= Len(times) /\ times[i]
        down == {i \in DOMAIN idle : ~idle[i].up}
        \* scanned in order, an old one goes while the total is above the minimum
        spared == {i \in DOMAIN idle \ down :
                     LET before == {j \in 1..(i - 1) : j \in down \/ old(j)}
                     IN  ~old(i) \/ total - Cardinality(before) <= MinSize}
        timesLeft == spared \union (Len(idle) + 1)..Len(times)
        remaining == Less(total, Len(idle) - Cardinality(spared))
        missing == IF MinSize > remaining THEN MinSize - remaining ELSE 0
    IN  /\ Cardinality(timesLeft) + missing <= MaxTimes
        /\ \E f \in InOrder(spared), g \in InOrder(timesLeft), opened \in [1..missing -> {Driver, NoDriver}] :
             /\ idle' = [n \in DOMAIN f |-> idle[f[n]]] \o opened
             /\ times' = [n \in DOMAIN g |-> times[g[n]]] \o [n \in 1..missing |-> FALSE]
        /\ total' = remaining + missing
        /\ UNCHANGED <<active, user, lease, poolMishap, missed>>

IdleTimePasses == times' = [i \in DOMAIN times |-> TRUE] /\ UNCHANGED <<idle, total, active, user, lease, poolMishap, missed>>

(* A driver's connection is closed under it *)
Breaks ==
    /\ \/ \E i \in DOMAIN idle : idle' = [idle EXCEPT ![i].up = FALSE] /\ UNCHANGED lease
       \/ \E u \in Holders : lease' = [lease EXCEPT ![u].up = FALSE] /\ UNCHANGED idle
    /\ UNCHANGED <<times, total, active, user, poolMishap, missed>>

-----------------------------------------------------------------------------
(* beginTransaction() for a TransactionScope or for withTransaction() *)
BeginTransaction(u) ==
    /\ user[u] = "has" /\ lease[u].up /\ ~lease[u].tx
    /\ user' \in {[user EXCEPT ![u] = "scope"], [user EXCEPT ![u] = "with"]}
    /\ lease' = [lease EXCEPT ![u].tx = TRUE]
    /\ UNCHANGED <<idle, times, total, active, poolMishap, missed>>

(* rollback() may fail and leave the transaction open *)
RolledBack(u) ==
    \/ lease[u].up /\ lease' = [lease EXCEPT ![u].tx = FALSE]
    \/ lease' = [lease EXCEPT ![u].failed = TRUE]

(* The operation succeeds and commit() does; when it fails the destructor  *)
(* of TransactionScope still rolls back, withTransaction() does not.       *)
Commit(u) ==
    /\ user[u] \in {"scope", "with"} /\ user' = [user EXCEPT ![u] = "has"]
    /\ \/ lease[u].up /\ lease' = [lease EXCEPT ![u].tx = FALSE]
       \/ user[u] = "scope" /\ RolledBack(u)
       \/ user[u] = "with" /\ lease' = [lease EXCEPT ![u].failed = TRUE]
    /\ UNCHANGED <<idle, times, total, active, poolMishap, missed>>

(* A mistaken Rollback: the scope forgets the transaction *)
ScopeForgets(u) ==
    /\ user[u] \in {"scope", "with"} /\ user' = [user EXCEPT ![u] = "has"]
    /\ UNCHANGED <<idle, times, total, active, lease, poolMishap, missed>>

(* The operation fails: ~TransactionScope() or withTransaction() rolls     *)
(* back and does not look at the result                                    *)
Rollback(u) ==
    /\ user[u] \in {"scope", "with"} /\ user' = [user EXCEPT ![u] = "has"]
    /\ RolledBack(u)
    /\ UNCHANGED <<idle, times, total, active, poolMishap, missed>>

DbPoolNext ==
    \/ \E u \in Borrowers :
         \/ AcquireIdle(u) \/ AcquireNew(u) \/ AcquireWaits(u)
         \/ Woken(u) \/ Deadline(u) \/ Release(u)
         \/ BeginTransaction(u) \/ Commit(u) \/ Rollback(u)
    \/ Initialize \/ ClosePool \/ HealthCheck \/ IdleTimePasses \/ Breaks

DbPoolSpec == DbPoolInit /\ [][DbPoolNext]_poolVars

-----------------------------------------------------------------------------
(* The count never passes m_maxSize, and healthCheck() never moves past    *)
(* the times it erases (connection_pool.h:91, 104, 153, 203).  The counts  *)
(* are the drivers there are until closeAll() is called with a driver in   *)
(* use, which counts it as gone though it comes back (:162-169).           *)
PoolCounts ==
    /\ Len(times) >= Len(idle) /\ total <= MaxSize
    /\ "close" \notin poolMishap =>
         total = Len(idle) + Cardinality(Holders) /\ active = Cardinality(Holders)

(* While a thread waits in acquire(), every driver that could be handed    *)
(* out or opened has a woken thread on its way to it, through broken       *)
(* drivers, deadlines, closeAll() and healthCheck(); but for one for each  *)
(* woken thread that could not open its driver: it returns the error with  *)
(* the notification spent, and those that wait stay asleep next to a place *)
(* that is free until the next release() (connection_pool.h:95-119, 157).  *)
WaiterIsServed == Waiters # {} => Openings <= Cardinality(Awake) + missed

(* A driver goes back to the pool with an open transaction only if a       *)
(* rollback of it failed, or the commit of withTransaction(), which does   *)
(* not roll back then; a TransactionScope whose commit fails does          *)
(* (transaction.cpp:23-27, transaction.h:144-154).                         *)
IdleIsClean == \A i \in DOMAIN idle : idle[i].tx => idle[i].failed

-----------------------------------------------------------------------------
(***************************************************************************)
(* The database drivers of data/database_driver.cpp: BaseSqlDriver with    *)
(* SqliteDriver, MySqlDriver and PostgreSqlDriver.  A driver keeps a flag  *)
(* for the transaction it is in and a connection name in Qt's register;    *)
(* what the database makes of BEGIN and COMMIT differs, and is external.   *)
(* DatabaseDriverBase (data/database_driver_base.h) has the same calls for *)
(* drivers to come.                                                        *)
(***************************************************************************)
CONSTANTS
    MaxOpens,    \* bound on the calls of open()
    MaxUpdates   \* bound on the updates executed

ASSUME DriverAssumption == {MaxOpens, MaxUpdates} \subseteq Nat

VARIABLES
    dbType,    \* which driver it is
    driverOpen,    \* m_db.isOpen()
    names,     \* connection names registered with Qt
    name,      \* m_connectionId
    flag,      \* m_inTransaction
    lost,      \* the server has ended the session: every statement fails
    tx,        \* the database has a transaction open for the connection
    pending,   \* updates in it
    committed,      \* updates that are committed
    refused,   \* history: the names open() failed for
    blurred    \* history: a transaction ended without commit() or rollback(), and
               \* none has begun, been committed or rolled back since

driverVars == <<dbType, driverOpen, names, name, flag, lost, tx, pending, committed, refused, blurred>>

(* DatabaseDriverFactory::create(): the others have no driver *)
Types == {"SQLite", "MySQL", "PostgreSQL"}

DriverInit ==
    /\ dbType \in Types
    /\ driverOpen = FALSE /\ names = {} /\ name = 0
    /\ flag = FALSE /\ lost = FALSE /\ tx = FALSE /\ pending = 0 /\ committed = 0
    /\ refused = {} /\ blurred = FALSE

-----------------------------------------------------------------------------
(* What the connection leaves behind: its transaction is rolled back by    *)
(* the database, m_inTransaction stays.                                    *)
Abandon == tx' = FALSE /\ pending' = 0 /\ blurred' = (blurred \/ tx)

(* close() removes the name of a connection that is open, and so never the *)
(* one of a connection that could not be opened.                           *)
CloseDriver ==
    /\ driverOpen /\ driverOpen' = FALSE
    /\ names' = names \ {name} /\ lost' = FALSE /\ Abandon
    /\ UNCHANGED <<dbType, name, flag, committed, refused>>

(* generateConnectionId() and addDatabase(), after a close() *)
Reopen(ok) ==
    /\ name < MaxOpens /\ name' = name + 1
    /\ names' = (IF driverOpen THEN names \ {name} ELSE names) \cup {name'}
    /\ driverOpen' = ok /\ lost' = FALSE /\ Abandon
    /\ refused' = IF ok THEN refused ELSE refused \cup {name'}
    /\ UNCHANGED <<dbType, flag, committed>>

OpenSqlite(ok) == dbType = "SQLite" /\ Reopen(ok)
OpenMySql(ok) == dbType = "MySQL" /\ Reopen(ok)
OpenPostgreSql(ok) == dbType = "PostgreSQL" /\ Reopen(ok)

(* BEGIN in a transaction: SQLite refuses it, MySQL commits the one there  *)
(* is, PostgreSQL goes on with it.                                         *)
BeginDriver ==
    /\ driverOpen /\ ~lost
    /\ tx => dbType # "SQLite"
    /\ tx' = TRUE /\ flag' = TRUE
    /\ IF tx /\ dbType = "MySQL" THEN committed' = committed + pending /\ pending' = 0
                                 ELSE UNCHANGED <<committed, pending>>
    /\ blurred' = FALSE /\ UNCHANGED <<dbType, driverOpen, names, name, lost, refused>>

(* commit() that succeeds, one that fails changes nothing; outside a       *)
(* transaction only SQLite refuses it                                      *)
CommitDriver ==
    /\ driverOpen /\ ~lost
    /\ ~tx => dbType # "SQLite"
    /\ tx' = FALSE /\ flag' = FALSE
    /\ committed' = committed + pending /\ pending' = 0
    /\ blurred' = FALSE /\ UNCHANGED <<dbType, driverOpen, names, name, lost, refused>>

(* A mistaken RollbackDriver: the flag is cleared before the result is seen *)
RollbackBlindly(ok) ==
    /\ driverOpen /\ ~lost
    /\ ~tx => dbType # "SQLite"
    /\ flag' = FALSE /\ tx' = (IF ok THEN FALSE ELSE tx)
    /\ pending' = IF ok THEN 0 ELSE pending
    /\ blurred' = (blurred /\ ~ok) /\ UNCHANGED <<dbType, driverOpen, names, name, lost, committed, refused>>

RollbackDriver(ok) ==
    /\ driverOpen /\ ~lost
    /\ ~tx => dbType # "SQLite"
    /\ IF ok THEN tx' = FALSE /\ flag' = FALSE /\ pending' = 0
             ELSE UNCHANGED <<tx, flag, pending>>
    /\ blurred' = (blurred /\ ~ok) /\ UNCHANGED <<dbType, driverOpen, names, name, lost, committed, refused>>

(* executeUpdate(): within the transaction, or committed by itself *)
ExecuteUpdate ==
    /\ driverOpen /\ ~lost /\ committed + pending < MaxUpdates
    /\ IF tx THEN pending' = pending + 1 /\ UNCHANGED committed
             ELSE committed' = committed + 1 /\ UNCHANGED pending
    /\ UNCHANGED <<dbType, driverOpen, names, name, flag, lost, tx, refused, blurred>>

(* The server ends the session; Qt goes on saying that it is open *)
SessionLost ==
    /\ driverOpen /\ ~lost /\ dbType # "SQLite"
    /\ lost' = TRUE /\ Abandon
    /\ UNCHANGED <<dbType, driverOpen, names, name, flag, committed, refused>>

DriverNext ==
    \/ CloseDriver \/ BeginDriver \/ CommitDriver \/ ExecuteUpdate \/ SessionLost
    \/ \E ok \in BOOLEAN :
          OpenSqlite(ok) \/ OpenMySql(ok) \/ OpenPostgreSql(ok) \/ RollbackDriver(ok)

DriverSpec == DriverInit /\ [][DriverNext]_driverVars

-----------------------------------------------------------------------------
(* An open transaction is always flagged, and holds what is uncommitted.   *)
(* isInTransaction() is wrong only after a transaction the connection was  *)
(* closed or lost in: close() and open() leave the flag, which says so     *)
(* until the next transaction begins or is ended.  An open connection has  *)
(* its name registered, and every other name left is one that could not be *)
(* opened (database_driver.cpp:16-23, 130-142).                            *)
DriverSound ==
    /\ tx => flag /\ driverOpen
    /\ flag /\ ~tx => blurred
    /\ pending > 0 => tx
    /\ names = refused \cup (IF driverOpen THEN {name} ELSE {})

(* The pool's counts, its waiters and the transactions of what it lends,   *)
(* and a driver's flag, each with the exception its own property names: a  *)
(* closeAll() with drivers in use, a woken thread that cannot open its     *)
(* driver, a rollback or a withTransaction() commit that fails, and a      *)
(* connection that is closed or lost inside a transaction.                 *)
ConnectionsSound == PoolCounts /\ IdleIsClean /\ WaiterIsServed /\ DriverSound
=============================================================================
