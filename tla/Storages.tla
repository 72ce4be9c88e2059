------------------------------ MODULE Storages ------------------------------
(***************************************************************************)
(* The classes of soul/storage: the two caches, and the two key-value      *)
(* storages.  The parts share no state.                                    *)
(***************************************************************************)
EXTENDS Integers, SequencesExt, Lists

(***************************************************************************)
(* sc::DiskCache of the storage library (storage/cache.cpp): a file per    *)
(* key, a file with the time of expiry next to it, and in memory the sizes *)
(* that were recorded, their sum and the keys in order of use.             *)
(*                                                                         *)
(* Every call holds m_mutex, so a call is a step; the mutex is not         *)
(* recursive, and get() of an expired key calls remove() while it holds it:*)
(* that call never returns, and neither does any later one.  The program   *)
(* may be started again on the same directory, and files may disappear.    *)
(***************************************************************************)
CONSTANTS
    FileKeys,
    Sizes,       \* sizes of the values that are put
    SizeBound,   \* m_maxSize, 0 for no limit
    MaxFaults    \* bound on the files that cannot be opened or that disappear

ASSUME FileCacheAssumption == Sizes \subseteq Nat /\ SizeBound \in Nat /\ MaxFaults \in Nat

VARIABLES
    held,        \* the keys that have a file
    expiry,      \* the .ttl files: whether that time has come
    recorded,    \* m_entrySizes
    fileBytes,       \* m_currentSize
    order,       \* m_lruList, front first
    stuck,       \* a call waits for the mutex it holds
    unopened,    \* a put() could not open its file
    faults       \* faults so far

fileCacheVars == <<held, expiry, recorded, fileBytes, order, stuck, unopened, faults>>

NoTimes == [k \in {} |-> FALSE]
NoSizes == [k \in {} |-> 0]

FileCacheInit ==
    /\ held = {} /\ expiry = NoTimes /\ recorded = NoSizes /\ fileBytes = 0 /\ order = <<>>
    /\ stuck = FALSE /\ unopened = FALSE /\ faults = 0

-----------------------------------------------------------------------------
Dropped(f, k) == [j \in DOMAIN f \ {k} |-> f[j]]
Including(f, k, v) == [j \in DOMAIN f \union {k} |-> IF j = k THEN v ELSE f[j]]
SizeIn(f, k) == IF k \in DOMAIN f THEN f[k] ELSE 0
SizesIn(f, K) == SumOver(f, K \intersect DOMAIN f)
RecordedBytes == SizesIn(recorded, DOMAIN recorded)

(* A mistaken FileEvicted: the sizes of the evicted keys stay recorded *)
FileEvictedKeepingSizes(c) ==
    [c EXCEPT !.order = <<>>, !.held = @ \ ToSet(c.order),
              !.fileBytes = @ - SizesIn(c.recorded, ToSet(c.order))]

(* isExpired() looks at the .ttl file only *)
HasExpired(times, k) == k \in DOMAIN times /\ times[k]

(* evict(): keys go from the back of the list up to the first one that had *)
(* expired, or all of them.                                                *)
FileEvicted(c) ==
    LET marks == {i \in DOMAIN c.order : HasExpired(c.expiry, c.order[i])}
        keep  == IF marks = {} THEN 0 ELSE Max(marks) - 1
        gone  == ToSet(SubSeq(c.order, keep + 1, Len(c.order)))
    IN [held      |-> c.held \ gone,
        expiry    |-> [j \in DOMAIN c.expiry \ gone |-> c.expiry[j]],
        recorded  |-> [j \in DOMAIN c.recorded \ gone |-> c.recorded[j]],
        fileBytes |-> c.fileBytes - SizesIn(c.recorded, gone),
        order     |-> SubSeq(c.order, 1, keep)]

(* The sum is a size_t: below zero it is larger than any limit *)
Exceeds(sum) == sum > SizeBound \/ sum < 0

(* put() after its directory was made: what was recorded of the key is     *)
(* taken off the sum and the list, though not off m_entrySizes, and room   *)
(* is made.                                                                *)
Prepared(k, size) ==
    LET c == [held |-> held, expiry |-> expiry, recorded |-> recorded, fileBytes |-> fileBytes - SizeIn(recorded, k),
              order |-> IF k \in DOMAIN recorded
                        THEN Only(order, FileKeys \ {k}) ELSE order]
    IN IF Exceeds(c.fileBytes + size) /\ SizeBound > 0 THEN FileEvicted(c) ELSE c

(* put(): without a time to live, or when the .ttl file cannot be opened,  *)
(* an old .ttl file is left in place                                       *)
StorePut(k, size, ttl) ==
    LET c == Prepared(k, size)
    IN /\ ~ stuck
       /\ held' = c.held \union {k}
       /\ expiry' = IF ttl THEN Including(c.expiry, k, FALSE) ELSE c.expiry
       /\ recorded' = [j \in DOMAIN c.recorded \cup {k} |->
                          IF j = k THEN size ELSE c.recorded[j]]
       /\ fileBytes' = c.fileBytes + size /\ order' = <<k>> \o c.order
       /\ UNCHANGED <<stuck, unopened, faults>>

(* put() of a file that cannot be opened for writing *)
PutUnopened(k, size) ==
    LET c == Prepared(k, size)
    IN /\ ~ stuck /\ faults < MaxFaults /\ faults' = faults + 1
       /\ held' = c.held /\ expiry' = c.expiry
       /\ recorded' = c.recorded /\ fileBytes' = c.fileBytes /\ order' = c.order
       /\ unopened' = TRUE /\ UNCHANGED stuck

(* get(): a key without a file is forgotten, though its size stays in the  *)
(* sum; a file found is listed first, whether it is recorded or not.       *)
StoreGet(k) ==
    LET here == k \in held
        rest == Only(order, FileKeys \ {k})
    IN /\ ~ stuck
       /\ stuck' = (here /\ HasExpired(expiry, k))
       /\ recorded' = IF here THEN recorded ELSE Dropped(recorded, k)
       /\ order' = IF stuck' THEN order ELSE IF here THEN <<k>> \o rest ELSE rest
       /\ UNCHANGED <<held, expiry, fileBytes, unopened, faults>>

StoreRemove(k) ==
    /\ ~ stuck
    /\ fileBytes' = fileBytes - SizeIn(recorded, k) /\ recorded' = Dropped(recorded, k)
    /\ order' = Only(order, FileKeys \ {k})
    /\ held' = held \ {k} /\ expiry' = Dropped(expiry, k)
    /\ UNCHANGED <<stuck, unopened, faults>>

(* clear(): only files directly in the directory are removed, and the      *)
(* values are in directories below it, where get() goes on finding them.   *)
StoreClear ==
    /\ ~ stuck
    /\ recorded' = NoSizes /\ order' = <<>> /\ fileBytes' = 0
    /\ UNCHANGED <<held, expiry, stuck, unopened, faults>>

-----------------------------------------------------------------------------
(* The time of expiry of a key passes *)
Elapse(k) ==
    /\ k \in DOMAIN expiry /\ ~ expiry[k]
    /\ expiry' = [expiry EXCEPT ![k] = TRUE]
    /\ UNCHANGED <<held, recorded, fileBytes, order, stuck, unopened, faults>>

(* Another program removes the file of a value; the .ttl file stays *)
Vanish(k) ==
    /\ faults < MaxFaults /\ faults' = faults + 1 /\ k \in held
    /\ held' = held \ {k} /\ UNCHANGED <<expiry, recorded, fileBytes, order, stuck, unopened>>

(* The constructor of another start: the memory is empty, the files stay *)
Restarted ==
    /\ faults < MaxFaults /\ faults' = faults + 1
    /\ recorded' = NoSizes /\ fileBytes' = 0 /\ order' = <<>> /\ stuck' = FALSE
    /\ unopened' = FALSE /\ UNCHANGED <<held, expiry>>

FileCacheNext ==
    \/ \E k \in FileKeys :
          \/ \E s \in Sizes : (\E t \in BOOLEAN : StorePut(k, s, t)) \/ PutUnopened(k, s)
          \/ StoreGet(k) \/ StoreRemove(k) \/ Elapse(k) \/ Vanish(k)
    \/ StoreClear \/ Restarted

-----------------------------------------------------------------------------
(* Whatever files disappear or expire and however often the program is     *)
(* started again, the sum that put() compares with the limit counts at     *)
(* least the sizes that are recorded, and eviction can reach every recorded*)
(* key.  A put() that could not open its file ends this: it takes the size *)
(* of a key that stays recorded off the sum, a second time at the next     *)
(* put() (cache.cpp:37, 46).                                               *)
StoreCounted ==
    ~ unopened => /\ RecordedBytes <= fileBytes
                  /\ DOMAIN recorded \subseteq ToSet(order)

-----------------------------------------------------------------------------
(***************************************************************************)
(* sc::MemoryCache of storage/cache.h, the cache without a byte limit: a   *)
(* map from keys to entries and a list of keys, most recent first.  Every  *)
(* call runs under one mutex.  An entry is whether it expires, and whether *)
(* that time has come.                                                     *)
(***************************************************************************)
CONSTANTS
    LruKeys,
    MaxHeld     \* m_maxSize; 0 is no limit

ASSUME LruMemoryAssumption == MaxHeld \in Nat

VARIABLES
    lruMap,     \* m_cache: key -> entry
    recent,     \* m_list
    pushed      \* history: the keys an eviction removed in the last call

lruMemoryVars == <<lruMap, recent, pushed>>

LruMemoryInit == lruMap = << >> /\ recent = <<>> /\ pushed = {}

Erased(f, K) == [k \in DOMAIN f \ K |-> f[k]]
(* m_list.erase(listIt): an entry knows the place of its key *)
Delisted(list, k) == RemoveAt(list, CHOOSE i \in DOMAIN list : list[i] = k)

(* A mistaken LruEvicted: the entry goes, its place in the list stays *)
LruEvictedFromMap(m, list) ==
    IF MaxHeld = 0 \/ Cardinality(DOMAIN m) < MaxHeld \/ list = <<>> THEN [map |-> m, list |-> list, out |-> {}]
    ELSE [map |-> Erased(m, {Last(list)}), list |-> list, out |-> {Last(list)}]

(* evict(): the key at the end of the list, expired or not *)
LruEvicted(m, list) ==
    IF MaxHeld = 0 \/ Cardinality(DOMAIN m) < MaxHeld \/ list = <<>> THEN [map |-> m, list |-> list, out |-> {}]
    ELSE [map |-> Erased(m, {Last(list)}), list |-> Front(list), out |-> {Last(list)}]

(* put(): an entry of the key goes before room is made *)
LruPut(k, ttl) ==
    LET rest == IF k \in DOMAIN lruMap THEN Delisted(recent, k) ELSE recent
        room == LruEvicted(Erased(lruMap, {k}), rest)
    IN  /\ lruMap' = [j \in DOMAIN room.map \union {k} |->
             IF j = k THEN [ttl |-> ttl, expired |-> FALSE] ELSE room.map[j]]
        /\ recent' = <<k>> \o room.list /\ pushed' = room.out

(* get(): an expired entry goes, another one becomes the most recent *)
LruGet(k) ==
    /\ k \in DOMAIN lruMap /\ pushed' = {}
    /\ IF lruMap[k].expired
       THEN lruMap' = Erased(lruMap, {k}) /\ recent' = Delisted(recent, k)
       ELSE lruMap' = lruMap /\ recent' = <<k>> \o Delisted(recent, k)

LruRemove(k) ==
    /\ k \in DOMAIN lruMap /\ pushed' = {}
    /\ lruMap' = Erased(lruMap, {k}) /\ recent' = Delisted(recent, k)

LruClear == lruMap' = << >> /\ recent' = <<>> /\ pushed' = {}

(* The clock passes the time of an entry *)
LruExpires(k) ==
    /\ k \in DOMAIN lruMap /\ lruMap[k].ttl /\ ~ lruMap[k].expired
    /\ lruMap' = [lruMap EXCEPT ![k].expired = TRUE] /\ pushed' = {} /\ UNCHANGED recent

LruMemoryNext ==
    \/ LruClear
    \/ \E k \in LruKeys :
         \/ LruGet(k) \/ LruRemove(k) \/ LruExpires(k)
         \/ \E ttl \in BOOLEAN : LruPut(k, ttl)

LruMemorySpec == LruMemoryInit /\ [][LruMemoryNext]_lruMemoryVars

-----------------------------------------------------------------------------
(* The list holds every key of the map once and no other, so that evict()  *)
(* always finds the entry it erases; there are never more than allowed     *)
(* (cache.h:53-70, 83-91, 139-155).                                        *)
ListIsMap ==
    /\ IsInjective(recent) /\ ToSet(recent) = DOMAIN lruMap
    /\ MaxHeld > 0 => Len(recent) <= MaxHeld
    /\ pushed \intersect DOMAIN lruMap = {}

-----------------------------------------------------------------------------
(***************************************************************************)
(* The two implementations of sc::IStorage, FileStorage and MemoryStorage, *)
(* under the same calls.  FileStorage keeps a file per key, named by a     *)
(* hash of the key and shared by put() and putBytes(); MemoryStorage keeps *)
(* text and bytes in maps of their own, and remove(), contains(), keys()   *)
(* and count() know the text only.  A caller may use put() and putBytes()  *)
(* with the same key.                                                      *)
(*                                                                         *)
(* A write is not checked: on a full disk the file is cut and the call     *)
(* succeeds.  "cut" stands for such contents.                              *)
(***************************************************************************)
CONSTANTS
    StorageKeys,
    Contents,           \* what callers store
    MaxMishaps          \* bound on failures of the disk and restarts

ASSUME StoragesAssumption ==
    "cut" \notin Contents /\ MaxMishaps \in Nat /\ IsFiniteSet(StorageKeys)

VARIABLES
    storageOpen,        \* m_isOpen of both
    fileOf,             \* FileStorage: key -> contents of its file
    textData, bytesData,\* m_stringData, m_bytesData
    given,              \* history: what was stored last under a key, and how
    damaged,            \* history: keys whose last write to the disk failed
    forgotten,          \* history: keys MemoryStorage lost in a restart
    mishaps

storagesVars == <<storageOpen, fileOf, textData, bytesData, given, damaged, forgotten, mishaps>>

NoData == [k \in {} |-> "cut"]
Excluding(f, k) == [j \in DOMAIN f \ {k} |-> f[j]]
Nothing == [as |-> "nothing", what |-> "none"]
AllGone == [k \in StorageKeys |-> Nothing]

StoragesInit ==
    /\ storageOpen = FALSE /\ fileOf = NoData /\ textData = NoData /\ bytesData = NoData
    /\ given = AllGone /\ damaged = {} /\ forgotten = {} /\ mishaps = 0

OpenStorage ==
    /\ ~ storageOpen /\ storageOpen' = TRUE
    /\ UNCHANGED <<fileOf, textData, bytesData, given, damaged, forgotten, mishaps>>

(* close() keeps what is in the maps *)
CloseStorage ==
    /\ storageOpen /\ storageOpen' = FALSE
    /\ UNCHANGED <<fileOf, textData, bytesData, given, damaged, forgotten, mishaps>>

(* The file is written, cut by a full disk, or cannot be opened, which     *)
(* FileStorage alone reports                                               *)
WriteFile(k, v) ==
    \/ /\ fileOf' = Including(fileOf, k, v) /\ damaged' = damaged \ {k}
       /\ UNCHANGED mishaps
    \/ /\ mishaps < MaxMishaps /\ mishaps' = mishaps + 1
       /\ fileOf' \in {Including(fileOf, k, "cut"), fileOf}
       /\ damaged' = damaged \union {k}

PutText(k, v) ==
    /\ storageOpen /\ WriteFile(k, v)
    /\ textData' = Including(textData, k, v) /\ forgotten' = forgotten \ {k}
    /\ given' = [given EXCEPT ![k] = [as |-> "text", what |-> v]]
    /\ UNCHANGED <<storageOpen, bytesData>>

PutBytes(k, v) ==
    /\ storageOpen /\ WriteFile(k, v)
    /\ bytesData' = Including(bytesData, k, v) /\ forgotten' = forgotten \ {k}
    /\ given' = [given EXCEPT ![k] = [as |-> "bytes", what |-> v]]
    /\ UNCHANGED <<storageOpen, textData>>

(* A mistaken RemoveStored: the map keeps the text *)
RemoveFileOnly(k) ==
    /\ storageOpen /\ fileOf' = Excluding(fileOf, k) /\ given' = [given EXCEPT ![k] = Nothing]
    /\ damaged' = damaged \ {k} /\ forgotten' = forgotten \ {k}
    /\ UNCHANGED <<storageOpen, textData, bytesData, mishaps>>

(* remove(): without a file, or when it cannot be removed, FileStorage     *)
(* reports an error and MemoryStorage does not; bytes stay in memory       *)
RemoveStored(k) ==
    /\ storageOpen
    /\ \/ /\ fileOf' = Excluding(fileOf, k) /\ damaged' = damaged \ {k}
          /\ UNCHANGED mishaps
       \/ /\ k \in DOMAIN fileOf /\ mishaps < MaxMishaps /\ mishaps' = mishaps + 1
          /\ fileOf' = fileOf /\ damaged' = damaged \union {k}
    /\ textData' = Excluding(textData, k) /\ forgotten' = forgotten \ {k}
    /\ given' = [given EXCEPT ![k] = Nothing]
    /\ UNCHANGED <<storageOpen, bytesData>>

(* clear(): a file that cannot be removed stays, and nobody is told *)
ClearAll ==
    /\ storageOpen
    /\ \E left \in SUBSET DOMAIN fileOf :
         /\ left # {} => mishaps < MaxMishaps
         /\ mishaps' = IF left # {} THEN mishaps + 1 ELSE mishaps
         /\ fileOf' = [k \in left |-> fileOf[k]] /\ damaged' = left
    /\ textData' = NoData /\ bytesData' = NoData
    /\ given' = AllGone /\ forgotten' = {} /\ UNCHANGED storageOpen

(* The process dies, and starts again with a new object *)
RestartStorage ==
    /\ mishaps < MaxMishaps /\ mishaps' = mishaps + 1
    /\ storageOpen' = FALSE /\ textData' = NoData /\ bytesData' = NoData
    /\ forgotten' = StorageKeys /\ UNCHANGED <<fileOf, given, damaged>>

StoragesNext ==
    \/ OpenStorage \/ CloseStorage \/ ClearAll \/ RestartStorage
    \/ \E k \in StorageKeys :
         RemoveStored(k) \/ \E v \in Contents : PutText(k, v) \/ PutBytes(k, v)

StoragesSpec == StoragesInit /\ [][StoragesNext]_storagesVars

-----------------------------------------------------------------------------
(* get() and getBytes() of an open storage, "none" for the error *)
FileGet(k) == IF k \in DOMAIN fileOf THEN fileOf[k] ELSE "none"
MemoryGet(k) == IF k \in DOMAIN textData THEN textData[k] ELSE "none"
MemoryGetBytes(k) == IF k \in DOMAIN bytesData THEN bytesData[k] ELSE "none"

(* keys() and count() *)
FileCount == Cardinality(DOMAIN fileOf)
MemoryCount == Cardinality(DOMAIN textData)

(* FileStorage answers with what was stored last under a key, also after a *)
(* restart, unless its last write or removal of the key failed.            *)
(* MemoryStorage answers get() with text that was stored last and          *)
(* getBytes() with bytes that were, until a restart; of a key whose last   *)
(* put() was of the other kind, and of removed bytes, it may still answer  *)
(* with what it had (memory_storage.cpp:40-47).  count() of the two        *)
(* differs only by damaged and forgotten keys and by keys of bytes, which  *)
(* MemoryStorage does not count (file_storage.cpp:37-122,                  *)
(* memory_storage.cpp:23-90).                                              *)
StoragesAgree ==
    /\ \A k \in StorageKeys \ damaged : FileGet(k) = given[k].what
    /\ \A k \in StorageKeys \ forgotten :
         IF given[k].as = "bytes" THEN MemoryGetBytes(k) = given[k].what ELSE MemoryGet(k) = given[k].what
    /\ MemoryCount <= FileCount + Cardinality(damaged)
    /\ FileCount <= MemoryCount + Cardinality(
         {k \in DOMAIN fileOf : given[k].as = "bytes" \/ k \in forgotten \union damaged})

(* What either storage is asked for is what it was given last, with the    *)
(* exceptions of StoragesAgree, and sc::MemoryCache drops a key from its   *)
(* list and its map alike (cache.h, file_storage.cpp, memory_storage.cpp). *)
StoresSound == ListIsMap /\ StoragesAgree
=============================================================================
