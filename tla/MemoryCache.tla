---------------------------- MODULE MemoryCache ----------------------------
(***************************************************************************)
(* sc::cache::MemoryCache (memory_cache.h): a map and a list in order of   *)
(* last use, bounded in entries and bytes, with times to live.             *)
(*                                                                         *)
(* Every call holds m_mutex, so a call is a step.  A value is told apart   *)
(* by its size only.                                                       *)
(***************************************************************************)
EXTENDS Integers, SequencesExt, Lists

CONSTANTS
    Keys, NoValue,
    Values,      \* sizes of the values that are put
    MaxEntries,  \* Config::maxEntries
    MaxBytes,    \* Config::maxBytes, 0 for no limit
    Ttls,        \* times to live, 0 for none
    MaxNow       \* bound on the time

ASSUME MemoryCacheAssumption ==
    /\ Values \subseteq Nat /\ Ttls \subseteq Nat /\ NoValue \notin Values
    /\ {MaxEntries, MaxBytes, MaxNow} \subseteq Nat

VARIABLES
    mem,    \* m_entries, m_lruList (front first) and m_stats.totalBytes
    now,    \* std::chrono::steady_clock
    found   \* what the last call was given to put or returned, per key

memVars == <<mem, now, found>>

EmptyCache == [entries |-> [k \in {} |-> [value |-> 0, expire |-> 0]], lru |-> <<>>, bytes |-> 0]

MemInit ==
    /\ mem = EmptyCache
    /\ now = 0 /\ found = [k \in {} |-> NoValue]

-----------------------------------------------------------------------------
Has(c, k) == k \in DOMAIN c.entries

(* computeExpireTime(): 0 stands for time_point::max() *)
ComputeExpireTime(ttl) == IF ttl = 0 THEN 0 ELSE now + ttl

IsExpired(c, k) == c.entries[k].expire # 0 /\ now > c.entries[k].expire

(* touchUnlocked() *)
Touched(c, k) == [c EXCEPT !.lru = <<k>> \o Only(c.lru, Keys \ {k})]

(* evictEntryUnlocked() *)
Evicted(c, k) ==
    [entries |-> [j \in DOMAIN c.entries \ {k} |-> c.entries[j]],
     lru     |-> Only(c.lru, Keys \ {k}),
     bytes   |-> c.bytes - c.entries[k].value]

BytesOf(c, S) == SumOver([k \in S |-> c.entries[k].value], S)

(* A mistaken FittedTo: the entry at the front goes *)
FittedFromFront(c, size) ==
    IF Len(c.lru) < MaxEntries THEN c
    ELSE [entries |-> [k \in DOMAIN c.entries \ {c.lru[1]} |-> c.entries[k]],
          lru     |-> SubSeq(c.lru, 1, Len(c.lru) - 1),
          bytes   |-> c.bytes - c.entries[c.lru[1]].value]

(* evictToFitUnlocked(): entries go from the back of the list until the    *)
(* limits allow one more, or none are left.                                *)
FittedTo(c, size) ==
    LET Dropped(n) == {c.lru[i] : i \in (n + 1)..Len(c.lru)}
        Fits(n) == \/ n = 0
                   \/ /\ n < MaxEntries
                      /\ MaxBytes > 0 => c.bytes - BytesOf(c, Dropped(n)) + size <= MaxBytes
        kept == Max({n \in 0..Len(c.lru) : Fits(n)})
    IN  [entries |-> [k \in DOMAIN c.entries \ Dropped(kept) |-> c.entries[k]],
         lru     |-> SubSeq(c.lru, 1, kept),
         bytes   |-> c.bytes - BytesOf(c, Dropped(kept))]

(* A mistaken Updated: a new time to live for the old value *)
UpdatedOldValue(c, k, v, expire) == Touched([c EXCEPT !.entries[k].expire = expire], k)

(* The update of put() for a key that is there makes no room *)
Updated(c, k, v, expire) ==
    [entries |-> [c.entries EXCEPT ![k] = [value |-> v, expire |-> expire]],
     lru     |-> Touched(c, k).lru,
     bytes   |-> c.bytes - c.entries[k].value + v]

Inserted(c, k, v, expire) ==
    LET d == FittedTo(c, v)
    IN  [entries |-> [j \in DOMAIN d.entries \union {k} |->
                        IF j = k THEN [value |-> v, expire |-> expire] ELSE d.entries[j]],
         lru     |-> <<k>> \o d.lru,
         bytes   |-> d.bytes + v]

Stored(c, k, v, expire) == IF Has(c, k) THEN Updated(c, k, v, expire) ELSE Inserted(c, k, v, expire)

(* The lookup of get(): an expired entry goes, another is the latest used  *)
LookedUp(c, k) ==
    IF ~Has(c, k) THEN c ELSE IF IsExpired(c, k) THEN Evicted(c, k) ELSE Touched(c, k)

HeldBy(c) == [k \in Keys |-> IF Has(c, k) THEN c.entries[k].value ELSE NoValue]

Tick == now < MaxNow /\ now' = now + 1 /\ UNCHANGED <<mem, found>>

-----------------------------------------------------------------------------
Put(k, v, ttl) ==
    /\ mem' = Stored(mem, k, v, ComputeExpireTime(ttl))
    /\ found' = [j \in {k} |-> v] /\ UNCHANGED now

(* putMany() and getMany() take one key after the other, here j and then   *)
(* k; get() is getMany() of one key twice, and the second time finds what  *)
(* the first one left.                                                     *)
PutMany(j, k, v, ttl) ==
    /\ mem' = Stored(Stored(mem, j, v, ComputeExpireTime(ttl)), k, v, ComputeExpireTime(ttl))
    /\ found' = [i \in {j, k} |-> v] /\ UNCHANGED now

Get(j, k) ==
    /\ mem' = LookedUp(LookedUp(mem, j), k)
    /\ found' = [i \in {j, k} |-> HeldBy(mem')[i]]
    /\ UNCHANGED now

(* contains() drops what is expired and leaves the order alone *)
ContainsKey(k) ==
    /\ mem' = IF Has(mem, k) /\ IsExpired(mem, k) THEN Evicted(mem, k) ELSE mem
    /\ found' = [j \in {k} |-> HeldBy(mem')[k]]
    /\ UNCHANGED now

RemoveKey(k) ==
    /\ Has(mem, k) /\ mem' = Evicted(mem, k)
    /\ found' = [j \in {} |-> NoValue] /\ UNCHANGED now

Clear ==
    /\ mem' = EmptyCache
    /\ found' = [j \in {} |-> NoValue] /\ UNCHANGED now

MemNext ==
    \/ Tick \/ Clear
    \/ \E k \in Keys : ContainsKey(k) \/ RemoveKey(k)
    \/ \E k \in Keys, v \in Values, ttl \in Ttls : Put(k, v, ttl)
    \/ \E j, k \in Keys : Get(j, k) \/ \E v \in Values, ttl \in Ttls : PutMany(j, k, v, ttl)

MemSpec == MemInit /\ [][MemNext]_memVars

-----------------------------------------------------------------------------
(* The list, the map and the byte count of the statistics agree whatever   *)
(* is updated, evicted, expired or cleared (memory_cache.h:250-287), and   *)
(* the entries stay within maxEntries, but for a single one when that is 0.*)
LruAgrees ==
    /\ ToSet(mem.lru) = DOMAIN mem.entries /\ IsInjective(mem.lru)
    /\ mem.bytes = BytesOf(mem, DOMAIN mem.entries)
    /\ Len(mem.lru) <= MaxEntries \/ Len(mem.lru) = 1

C == INSTANCE CacheSpec WITH cached <- HeldBy(mem), answer <- found

(* MemoryCache implements ICache's contract: no call of put, putMany, get, *)
(* getMany, contains, remove or clear shows a value that was not put last. *)
MemoryCacheIsCache == C!CacheContract

=============================================================================
