-------------------------- MODULE ConnectionPool --------------------------
(***************************************************************************)
(* sc::network::ConnectionPool (connection_pool.h, connection_pool.cpp):   *)
(* connections to several URLs under one limit.  acquire() reserves a      *)
(* placeholder entry, drops m_mutex while it connects, and looks its pool  *)
(* up again afterwards, because closeAll() may have cleared everything.    *)
(*                                                                         *)
(* A step is one critical section of m_mutex.  Placeholders are anonymous  *)
(* in the code; here each bears the name of the client that reserved it,   *)
(* and a client that comes back takes its own or, if that is gone, another *)
(* of the same URL.  The order of the entries of a URL, which only decides *)
(* which idle connection is handed out, and the time stamps, which only    *)
(* decide which idle ones cleanupIdleConnections() removes, are left open. *)
(***************************************************************************)
EXTENDS Naturals, FiniteSets

CONSTANTS
    Clients,   \* threads
    Urls,      \* keys of m_pools
    Conns,     \* identities of INetwork objects
    Limits,    \* values of Config::maxConnections
    NoConn       \* nullptr

ASSUME FiniteAssumption == IsFiniteSet(Clients) /\ IsFiniteSet(Conns)
ASSUME LimitsAssumption == Limits \subseteq Nat
ASSUME NoneAssumption == NoConn \notin Conns

VARIABLES
    present,     \* the keys of m_pools
    cached,      \* connections of the entries of each URL
    busy,        \* those whose entry says inUse
    slots,       \* placeholders, by the client that reserved them
    maxConn,     \* m_config.maxConnections
    connected,   \* connections for which isConnected() holds
    clientPc,          \* where each client is
    url,         \* the argument of its acquire()
    held,        \* the connection it uses
    detached     \* taken out of a ConnectionGuard with release()

poolVars == <<present, cached, busy, slots>>
userVars == <<clientPc, url, held, detached>>
connectionVars == <<poolVars, maxConn, connected, userVars>>

ClientPc == {"idle", "waiting", "woken", "connecting", "using"}

(* The members of ConnectionPool and the locals of acquire().              *)
PoolTypeOK ==
    /\ present \in SUBSET Urls
    /\ cached \in [Urls -> SUBSET Conns]
    /\ busy \in SUBSET Conns
    /\ slots \in SUBSET Clients
    /\ maxConn \in Nat
    /\ connected \in SUBSET Conns
    /\ clientPc \in [Clients -> ClientPc]
    /\ url \in [Clients -> Urls]
    /\ held \in [Clients -> Conns \cup {NoConn}]
    /\ detached \in SUBSET Conns

PoolInit ==
    /\ present = {}
    /\ cached = [u \in Urls |-> {}]
    /\ busy = {}
    /\ slots = {}
    /\ maxConn \in Limits
    /\ connected = {}
    /\ clientPc = [c \in Clients |-> "idle"]
    /\ url \in [Clients -> Urls]
    /\ held = [c \in Clients |-> NoConn]
    /\ detached = {}

Cached == UNION {cached[u] : u \in Urls}
Total == Cardinality(Cached) + Cardinality(slots)
Idle(u) == {k \in cached[u] : k \notin busy /\ k \in connected}
Waiting == {c \in Clients : clientPc[c] = "waiting"}
Outside == detached \cup {held[c] : c \in Clients}
Fresh == Conns \ (Cached \cup Outside)
SlotsOf(u) == {c \in slots : url[c] = u}

Goto(c, p) == clientPc' = [clientPc EXCEPT ![c] = p]

(* A client moves on and m_cond.notify_one() wakes a waiter, if any.       *)
GotoAndNotify(c, p) ==
    \/ \E w \in Waiting : clientPc' = [clientPc EXCEPT ![c] = p, ![w] = "woken"]
    \/ Waiting = {} /\ Goto(c, p)

-----------------------------------------------------------------------------
(* acquire(url): the first critical section                                *)

(* Fault: the entry found is not marked inUse.                             *)
AcquireUnmarked(c, u) ==
    /\ clientPc[c] = "idle"
    /\ \E k \in Idle(u) : held' = [held EXCEPT ![c] = k]
    /\ url' = [url EXCEPT ![c] = u]
    /\ Goto(c, "using")
    /\ UNCHANGED <<poolVars, maxConn, connected, detached>>

AcquireIdle(c, u) ==
    /\ clientPc[c] = "idle"
    /\ \E k \in Idle(u) : /\ busy' = busy \cup {k}
                          /\ held' = [held EXCEPT ![c] = k]
    /\ url' = [url EXCEPT ![c] = u]
    /\ Goto(c, "using")
    /\ UNCHANGED <<present, cached, slots, maxConn, connected, detached>>

(* At capacity: wait for a release.                                        *)
AcquireWait(c, u) ==
    /\ clientPc[c] = "idle" /\ Idle(u) = {}
    /\ Total >= maxConn
    /\ present' = present \cup {u}
    /\ url' = [url EXCEPT ![c] = u]
    /\ Goto(c, "waiting")
    /\ UNCHANGED <<cached, busy, slots, maxConn, connected, held, detached>>

(* Fault: the limit is compared with the connections only.                 *)
AcquireUncounted(c, u) ==
    /\ clientPc[c] = "idle" /\ Idle(u) = {}
    /\ Cardinality(Cached) < maxConn
    /\ present' = present \cup {u}
    /\ slots' = slots \cup {c}
    /\ url' = [url EXCEPT ![c] = u]
    /\ Goto(c, "connecting")
    /\ UNCHANGED <<cached, busy, maxConn, connected, held, detached>>

(* Below capacity: push the placeholder and unlock.                        *)
AcquireReserve(c, u) ==
    /\ clientPc[c] = "idle" /\ Idle(u) = {}
    /\ Total < maxConn
    /\ present' = present \cup {u}
    /\ slots' = slots \cup {c}
    /\ url' = [url EXCEPT ![c] = u]
    /\ Goto(c, "connecting")
    /\ UNCHANGED <<cached, busy, maxConn, connected, held, detached>>

-----------------------------------------------------------------------------
(* acquire(url): wait_for returns                                          *)

WaitTimeout(c) ==
    /\ clientPc[c] = "waiting"
    /\ Goto(c, "idle")
    /\ UNCHANGED <<poolVars, maxConn, connected, url, held, detached>>

SpuriousWakeup(c) ==
    /\ clientPc[c] = "waiting"
    /\ Goto(c, "woken")
    /\ UNCHANGED <<poolVars, maxConn, connected, url, held, detached>>

(* Woken up: look for an idle entry once, and give up.                     *)
RetryIdle(c) ==
    /\ clientPc[c] = "woken"
    /\ \E k \in Idle(url[c]) : /\ busy' = busy \cup {k}
                               /\ held' = [held EXCEPT ![c] = k]
    /\ Goto(c, "using")
    /\ UNCHANGED <<present, cached, slots, maxConn, connected, url, detached>>

RetryFail(c) ==
    /\ clientPc[c] = "woken" /\ Idle(url[c]) = {}
    /\ Goto(c, "idle")
    /\ UNCHANGED <<poolVars, maxConn, connected, url, held, detached>>

-----------------------------------------------------------------------------
(* acquire(url): the connection was made, or not, and the mutex retaken    *)

(* find_if: a placeholder of the URL, if there is one.                     *)
TakeSlot(c) ==
    \/ c \in slots /\ slots' = slots \ {c}
    \/ c \notin slots /\ \E d \in SlotsOf(url[c]) : slots' = slots \ {d}
    \/ SlotsOf(url[c]) = {} /\ UNCHANGED slots

(* The pool is still there: the placeholder becomes the entry, or a new    *)
(* entry is added.                                                         *)
ConnectCached(c, k) ==
    /\ clientPc[c] = "connecting" /\ url[c] \in present
    /\ TakeSlot(c)
    /\ cached' = [cached EXCEPT ![url[c]] = @ \cup {k}]
    /\ busy' = busy \cup {k}
    /\ held' = [held EXCEPT ![c] = k]
    /\ connected' \in {connected, connected \cup {k}}
    /\ Goto(c, "using")
    /\ UNCHANGED <<present, maxConn, url, detached>>

(* closeAll() removed the pool: the connection is returned uncached.       *)
ConnectUncached(c, k) ==
    /\ clientPc[c] = "connecting" /\ url[c] \notin present
    /\ held' = [held EXCEPT ![c] = k]
    /\ connected' \in {connected, connected \cup {k}}
    /\ Goto(c, "using")
    /\ UNCHANGED <<poolVars, maxConn, url, detached>>

(* Fault: the placeholder of a failed connection stays.                    *)
ConnectFailKeep(c) ==
    /\ clientPc[c] = "connecting"
    /\ GotoAndNotify(c, "idle")
    /\ UNCHANGED <<poolVars, maxConn, connected, url, held, detached>>

(* Fault: the placeholder of a failed connection is filled with nullptr.   *)
ConnectFailFill(c) ==
    /\ clientPc[c] = "connecting"
    /\ IF url[c] \in present THEN TakeSlot(c) ELSE UNCHANGED slots
    /\ cached' = [cached EXCEPT ![url[c]] = @ \cup {NoConn}]
    /\ GotoAndNotify(c, "idle")
    /\ UNCHANGED <<present, busy, maxConn, connected, url, held, detached>>

ConnectFail(c) ==
    /\ clientPc[c] = "connecting"
    /\ IF url[c] \in present THEN TakeSlot(c) ELSE UNCHANGED slots
    /\ GotoAndNotify(c, "idle")
    /\ UNCHANGED <<present, cached, busy, maxConn, connected, url, held, detached>>

-----------------------------------------------------------------------------
(* release(), which ~ConnectionGuard calls, and ConnectionGuard::release() *)

(* Fault: a connection the pool does not know is put back.                 *)
ReleaseAny(c) ==
    /\ clientPc[c] = "using"
    /\ cached' = [cached EXCEPT ![url[c]] = @ \cup {held[c]}]
    /\ busy' = busy \ {held[c]}
    /\ held' = [held EXCEPT ![c] = NoConn]
    /\ GotoAndNotify(c, "idle")
    /\ UNCHANGED <<present, slots, maxConn, connected, url, detached>>

Release(c) ==
    /\ clientPc[c] = "using"
    /\ IF held[c] \in Cached
       THEN busy' = busy \ {held[c]} /\ GotoAndNotify(c, "idle")
       ELSE Goto(c, "idle") /\ UNCHANGED busy
    /\ held' = [held EXCEPT ![c] = NoConn]
    /\ UNCHANGED <<present, cached, slots, maxConn, connected, url, detached>>

GuardRelease(c) ==
    /\ clientPc[c] = "using"
    /\ detached' = detached \cup {held[c]}
    /\ held' = [held EXCEPT ![c] = NoConn]
    /\ Goto(c, "idle")
    /\ UNCHANGED <<poolVars, maxConn, connected, url>>

-----------------------------------------------------------------------------
CloseAll(c) ==
    /\ clientPc[c] = "idle"
    /\ connected' = connected \ Cached
    /\ present' = {}
    /\ cached' = [u \in Urls |-> {}]
    /\ busy' = {}
    /\ slots' = {}
    /\ clientPc' = [d \in Clients |-> IF d \in Waiting THEN "woken" ELSE clientPc[d]]
    /\ UNCHANGED <<maxConn, url, held, detached>>

(* The entries idle for longer than idleTimeoutMs go; nobody is notified.  *)
CleanupIdleConnections ==
    \E old \in SUBSET (Cached \ busy) :
        /\ cached' = [u \in Urls |-> cached[u] \ old]
        /\ connected' = connected \ old
        /\ UNCHANGED <<present, busy, slots, maxConn, userVars>>

SetConfig(m) ==
    /\ maxConn' = m
    /\ UNCHANGED <<poolVars, connected, userVars>>

(* connectTo() completes later, and a peer may drop a connection.          *)
LinkUp(k) ==
    /\ k \in Cached \cup Outside /\ k # NoConn /\ k \notin connected
    /\ connected' = connected \cup {k}
    /\ UNCHANGED <<poolVars, maxConn, userVars>>

LinkDown(k) ==
    /\ k \in connected
    /\ connected' = connected \ {k}
    /\ UNCHANGED <<poolVars, maxConn, userVars>>

-----------------------------------------------------------------------------
(* The rest of an acquire() that waits or connects.                        *)
AcquireStep(c) ==
    \/ WaitTimeout(c) \/ RetryIdle(c) \/ RetryFail(c) \/ ConnectFail(c)
    \/ \E k \in Fresh : ConnectCached(c, k) \/ ConnectUncached(c, k)

PoolNext ==
    \/ \E c \in Clients, u \in Urls :
          AcquireIdle(c, u) \/ AcquireWait(c, u) \/ AcquireReserve(c, u)
    \/ \E c \in Clients :
          AcquireStep(c) \/ SpuriousWakeup(c) \/ Release(c) \/ GuardRelease(c) \/ CloseAll(c)
    \/ CleanupIdleConnections
    \/ \E m \in Limits : SetConfig(m)
    \/ \E k \in Conns : LinkUp(k) \/ LinkDown(k)

PoolSpec == PoolInit /\ [][PoolNext]_connectionVars

-----------------------------------------------------------------------------
(* Nobody shares a connection: two users never hold the same one, nor one  *)
(* that was taken out of a guard, although acquire() hands out entries in  *)
(* three places and fills placeholders that may be another thread's.       *)
ExclusiveUse ==
    \A c \in Clients :
        held[c] # NoConn =>
            /\ held[c] \notin detached
            /\ \A d \in Clients : held[d] = held[c] => d = c

(* No entry is lost: every placeholder belongs to a thread that is still   *)
(* connecting, and every entry marked inUse is a connection somebody has,  *)
(* so a failed connect or a closeAll() in between leaks no capacity.       *)
NoLeakedEntry ==
    /\ \A c \in slots : clientPc[c] = "connecting"
    /\ busy \subseteq Cached \cap Outside
    /\ Cached \cap Outside \subseteq busy

(* A connection that is outside the pool (made for a pool that closeAll()  *)
(* cleared, or disconnected by it while in use) never gets into it again.  *)
NeverResurrected ==
    [][\A k \in Conns : k \in Outside \ Cached => k \notin Cached']_connectionVars

(* The pool outgrows maxConnections only when a thread comes back whose    *)
(* placeholder was discarded while it connected.                           *)
PoolGrowsWithinLimit ==
    [][\/ Total' <= Total
       \/ Total' <= maxConn
       \/ \E c \in Clients \ slots : clientPc[c] = "connecting" /\ clientPc'[c] = "using"]_connectionVars

(* The members have their types, nobody shares a connection and no entry   *)
(* is lost, whatever acquire(), release(), closeAll() and failing connects *)
(* do at the same time; no call brings back a connection that left the     *)
(* pool, or takes it beyond its limit but for a thread whose placeholder   *)
(* closeAll() discarded.                                                   *)
PoolSound ==
    /\ [](PoolTypeOK /\ ExclusiveUse /\ NoLeakedEntry)
    /\ NeverResurrected
    /\ PoolGrowsWithinLimit

-----------------------------------------------------------------------------
(* What makes these properties inductive                                   *)

(* A client has a connection exactly while it uses one, a placeholder is   *)
(* in a pool that exists, and a connection has at most one entry.          *)
HeldInv == \A c \in Clients : held[c] # NoConn <=> clientPc[c] = "using"
SlotsPresent == \A c \in slots : url[c] \in present
OneEntry == \A u, v \in Urls : u # v => cached[u] \cap cached[v] = {}
=============================================================================
