------------------------------ MODULE DiskCache ------------------------------
(***************************************************************************)
(* The L2 cache on disk (cache/disk_cache.cpp).  An entry is a data file   *)
(* and, if it expires, a file with its time of expiry; in memory there are *)
(* the number of bytes stored and an index of the files by last access.    *)
(* Every call holds m_mutex from beginning to end, so there is one call at *)
(* a time; a step is what happens between two changes of the disk, since   *)
(* the process may die between them and a new one finds what is there.     *)
(* Contents are reduced to their size, paths to their key; a .tmp file is  *)
(* never looked at again and is left out.                                  *)
(***************************************************************************)
EXTENDS Integers, SequencesExt, Lists

CONSTANTS
    Keys,
    Sizes,           \* sizes of the values that are stored
    MaxBytes,        \* Config::maxBytes, 0 for no limit
    TTLs,            \* effective times to live, 0 for none
    MaxTime,         \* bound on the clock
    Removes,         \* what QFile::remove may return
    RenameReplaces,  \* does QFile::rename take the place of an existing file
    None,
    Garbage          \* a .ttl file that holds no number

ASSUME DiskCacheAssumption ==
    /\ Sizes \subseteq Nat /\ TTLs \subseteq Nat
    /\ MaxBytes \in Nat /\ MaxTime \in Nat
    /\ TRUE \in Removes /\ Removes \subseteq BOOLEAN
    /\ RenameReplaces \in BOOLEAN
    /\ None \notin Nat /\ Garbage # None

(* Keys are interchangeable for TLC *)
Symmetry == Permutations(Keys)

VARIABLES
    dat,      \* size of each key's data file, None if there is no file
    ttl,      \* content of each key's .ttl file, None if there is no file
    written,  \* keys of the data files, by modification time
    now,      \* the wall clock
    total,    \* m_stats.totalBytes
    lru,      \* m_lruIndex, least recently used first
    pc,       \* where the call in progress is
    todo,     \* entries put() or putMany() has still to store: key -> size
    life,     \* their time to live
    cur,      \* the entry being stored, with the size on disk before
    victim,   \* the key whose .ttl file is to be removed
    due,      \* when each stored value should expire, None for never
    torn,     \* keys with data but without the .ttl file it was, or was to be, stored with
    stuck,    \* keys whose data file outlived its removal and is in no index
    drifted   \* total was corrected by bytes that did not leave the disk then

diskVars == <<dat, ttl, written>>
memVars == <<total, lru>>
callVars == <<todo, life, cur, victim>>
ghostVars == <<due, torn, stuck, drifted>>
vars == <<diskVars, now, memVars, pc, callVars, ghostVars>>

Files == {k \in Keys : dat[k] # None}
Bytes == SumOver(dat, Files)
Timed == {k \in Keys : due[k] # None}
NoEntry == [key |-> None, size |-> 0, old |-> 0]
Nothing == [k \in {} |-> 0]

(* The files and the members of DiskCache: the LRU index holds a key once, *)
(* and the unsigned totalBytes never wraps (disk_cache.cpp).               *)
TypeOK ==
    /\ dat \in [Keys -> Sizes \cup {None}]
    /\ \A k \in Keys : ttl[k] \in {None, Garbage} \/ ttl[k] \in Nat
    /\ \A k \in Keys : due[k] = None \/ due[k] \in Nat
    /\ Range(written) = Files /\ Len(written) = Cardinality(Files)
    /\ now \in 0..MaxTime
    /\ total \in Nat
    /\ Range(lru) \subseteq Keys /\ Len(lru) = Cardinality(Range(lru))
    /\ pc \in {"idle", "begin", "evict", "drop", "ttl", "expiry", "down"}
    /\ DOMAIN todo \subseteq Keys /\ Range(todo) \subseteq Sizes
    /\ life \in TTLs \cup {0}
    /\ cur \in [key : Keys \cup {None}, size : Sizes \cup {0}, old : Sizes \cup {0}]
    /\ victim \in Keys \cup {None}
    /\ torn \subseteq Keys /\ stuck \subseteq Keys /\ drifted \in BOOLEAN

(* An empty directory and a new cache. *)
Init ==
    /\ dat = [k \in Keys |-> None] /\ ttl = [k \in Keys |-> None]
    /\ written = <<>> /\ now = 0
    /\ total = 0 /\ lru = <<>>
    /\ pc = "idle"
    /\ todo = Nothing /\ life = 0 /\ cur = NoEntry /\ victim = None
    /\ due = [k \in Keys |-> None] /\ torn = {} /\ stuck = {} /\ drifted = FALSE

-----------------------------------------------------------------------------
(* Helpers. *)

IsExpiredLenient(k) == ttl[k] \in Nat /\ now > ttl[k]
IsExpired(k) ==
    /\ ttl[k] # None
    /\ ttl[k] # Garbage => now > ttl[k]

(* Fits(n): evictToFitUnlocked() has nothing (more) to evict for n bytes. *)
Fits(n) == MaxBytes = 0 \/ total + n <= MaxBytes
TooLarge(n) == MaxBytes # 0 /\ n > MaxBytes

(* The subtraction from totalBytes that never goes below zero. *)
Less(n) == IF total >= n THEN total - n ELSE total

Without(s, k) == Only(s, Keys \ {k})
Touch(k) == Append(Without(lru, k), k)

(* The data file of k goes away; if ok is FALSE QFile::remove fails. *)
RemoveData(k, ok) ==
    /\ dat' = IF ok THEN [dat EXCEPT ![k] = None] ELSE dat
    /\ written' = IF ok THEN Without(written, k) ELSE written
    /\ due' = IF ok THEN [due EXCEPT ![k] = None] ELSE due
    /\ torn' = IF ok THEN torn \ {k} ELSE torn
    /\ stuck' = IF ok THEN stuck \ {k} ELSE stuck \cup {k}

(* The call is over, or the loop of putMany() goes on. *)
Return ==
    /\ pc' = "idle"
    /\ todo' = Nothing /\ life' = 0 /\ cur' = NoEntry /\ victim' = None
NextEntry ==
    /\ pc' = IF todo = Nothing THEN "idle" ELSE "begin"
    /\ life' = IF todo = Nothing THEN 0 ELSE life
    /\ cur' = NoEntry
    /\ UNCHANGED <<todo, victim>>

-----------------------------------------------------------------------------
(* put() and putMany(). *)

(* The call: put() is putMany() of one entry.  A value that would expire   *)
(* after MaxTime is like one that never does, and is left out.             *)
PutMany(entries, t) ==
    /\ pc = "idle" /\ (t = 0 \/ now + t < MaxTime)
    /\ pc' = "begin" /\ todo' = entries /\ life' = t
    /\ UNCHANGED <<diskVars, now, memVars, cur, victim, ghostVars>>

(* The next entry, in the arbitrary order of an unordered_map: its size on *)
(* disk is read and nothing is changed.                                    *)
BeginEarly(k) ==
    LET old == IF dat[k] = None THEN 0 ELSE dat[k] IN
    /\ pc = "begin" /\ k \in DOMAIN todo
    /\ pc' = "evict"
    /\ cur' = [key |-> k, size |-> todo[k], old |-> 0]
    /\ todo' = [j \in DOMAIN todo \ {k} |-> todo[j]]
    /\ total' = Less(old)
    /\ UNCHANGED <<diskVars, now, lru, life, victim, ghostVars>>
Begin(k) ==
    LET old == IF dat[k] = None THEN 0 ELSE dat[k] IN
    /\ pc = "begin" /\ k \in DOMAIN todo
    /\ pc' = "evict"
    /\ cur' = [key |-> k, size |-> todo[k], old |-> old]
    /\ todo' = [j \in DOMAIN todo \ {k} |-> todo[j]]
    /\ UNCHANGED <<diskVars, now, memVars, life, victim, ghostVars>>

(* evictLruUnlocked(): the data file and the index entry, then the .ttl    *)
(* file.  A file that cannot be removed stays counted.                     *)
EvictLru(ok) ==
    LET k == Head(lru) IN
    /\ pc = "evict" /\ ~TooLarge(cur.size) /\ ~Fits(cur.size) /\ lru # <<>>
    /\ RemoveData(k, ok)
    /\ total' = IF ok THEN Less(dat[k]) ELSE total
    /\ lru' = Without(lru, k)
    /\ victim' = k /\ pc' = "drop"
    /\ UNCHANGED <<ttl, now, todo, life, cur, drifted>>

(* The value is too large, or nothing is left to evict: put() fails. *)
Refuse ==
    /\ pc = "evict"
    /\ TooLarge(cur.size) \/ (~Fits(cur.size) /\ lru = <<>>)
    /\ Return
    /\ UNCHANGED <<diskVars, now, memVars, ghostVars>>

(* There is room: writeAtomically() is called. *)
CanWriteAlways == pc = "evict"
CanWrite == pc = "evict" /\ ~TooLarge(cur.size) /\ Fits(cur.size)

(* mkpath() or writeAtomically() fails: nothing has changed. *)
PutFails ==
    /\ pc = "begin" \/ CanWrite
    /\ Return
    /\ UNCHANGED <<diskVars, now, memVars, ghostVars>>

(* The rename puts the new data in place; then totalBytes and the index.   *)
(* The size read by Begin is subtracted even if the old data file has been *)
(* evicted, and subtracted, in the meantime.                               *)
WriteUnguarded ==
    LET k == cur.key IN
    /\ CanWrite /\ (RenameReplaces \/ dat[k] = None)
    /\ dat' = [dat EXCEPT ![k] = cur.size]
    /\ written' = Append(Without(written, k), k)
    /\ total' = (total - cur.old) + cur.size
    /\ lru' = Touch(k)
    /\ due' = [due EXCEPT ![k] = IF life = 0 THEN None ELSE now + life]
    /\ torn' = IF life = 0 THEN torn \ {k} ELSE torn \cup {k}
    /\ stuck' = stuck \ {k}
    /\ drifted' = (drifted \/ (cur.old > 0 /\ dat[k] # cur.old))
    /\ pc' = "ttl"
    /\ UNCHANGED <<ttl, now, callVars>>
Write ==
    LET k == cur.key IN
    /\ CanWrite /\ (RenameReplaces \/ dat[k] = None)
    /\ dat' = [dat EXCEPT ![k] = cur.size]
    /\ written' = Append(Without(written, k), k)
    /\ total' = Less(cur.old) + cur.size
    /\ lru' = Touch(k)
    /\ due' = [due EXCEPT ![k] = IF life = 0 THEN None ELSE now + life]
    /\ torn' = IF life = 0 THEN torn \ {k} ELSE torn \cup {k}
    /\ stuck' = stuck \ {k}
    /\ drifted' = (drifted \/ (cur.old > 0 /\ dat[k] # cur.old))
    /\ pc' = "ttl"
    /\ UNCHANGED <<ttl, now, callVars>>

(* No time to live: an old .ttl file is removed. *)
WriteNoTtl(ok) ==
    /\ pc = "ttl" /\ life = 0
    /\ ttl' = IF ok THEN [ttl EXCEPT ![cur.key] = None] ELSE ttl
    /\ NextEntry
    /\ UNCHANGED <<dat, written, now, memVars, ghostVars>>

(* writeExpiryMSecs(): the file is opened, which empties it ... *)
OpenTtl ==
    /\ pc = "ttl" /\ life # 0
    /\ ttl' = [ttl EXCEPT ![cur.key] = Garbage]
    /\ due' = [due EXCEPT ![cur.key] = now + life]
    /\ torn' = torn \ {cur.key}
    /\ pc' = "expiry"
    /\ UNCHANGED <<dat, written, now, memVars, callVars, stuck, drifted>>

(* ... or cannot be opened, which is only a warning ... *)
OpenTtlFails ==
    /\ pc = "ttl" /\ life # 0
    /\ NextEntry
    /\ UNCHANGED <<diskVars, now, memVars, ghostVars>>

(* ... and the time is written, or is not: the result is not looked at. *)
WriteTtl(ok) ==
    /\ pc = "expiry"
    /\ ttl' = IF ok THEN [ttl EXCEPT ![cur.key] = due[cur.key]] ELSE ttl
    /\ NextEntry
    /\ UNCHANGED <<dat, written, now, memVars, ghostVars>>

-----------------------------------------------------------------------------
(* get(), contains() and getMany(), remove(), clear(). *)

Hit(k) ==
    /\ pc = "idle" /\ k \in Files /\ ~IsExpired(k)
    /\ lru' = Touch(k) /\ stuck' = stuck \ {k}
    /\ UNCHANGED <<diskVars, now, total, pc, callVars, due, torn, drifted>>

(* An expired entry is removed by the call that finds it.  The result of   *)
(* the removal is not looked at.                                           *)
Expire(k, ok) ==
    /\ pc = "idle" /\ k \in Files /\ IsExpired(k)
    /\ RemoveData(k, ok)
    /\ total' = Less(dat[k])
    /\ lru' = Without(lru, k)
    /\ drifted' = (drifted \/ ~ok)
    /\ victim' = k /\ pc' = "drop"
    /\ UNCHANGED <<ttl, now, todo, life, cur>>

RemoveKey(k, ok) ==
    /\ pc = "idle"
    /\ IF k \in Files
       THEN /\ RemoveData(k, ok)
            /\ total' = IF ok THEN Less(dat[k]) ELSE total
       ELSE UNCHANGED <<dat, written, due, torn, stuck, total>>
    /\ lru' = Without(lru, k)
    /\ victim' = k /\ pc' = "drop"
    /\ UNCHANGED <<ttl, now, todo, life, cur, drifted>>

(* The .ttl file of a removed entry; an eviction goes on after it. *)
DropTtl(ok) ==
    /\ pc = "drop"
    /\ ttl' = IF ok THEN [ttl EXCEPT ![victim] = None] ELSE ttl
    /\ victim' = None
    /\ pc' = IF cur = NoEntry THEN "idle" ELSE "evict"
    /\ torn' = IF ok THEN torn \cup ({victim} \cap Timed) ELSE torn
    /\ UNCHANGED <<dat, written, now, memVars, todo, life, cur, due, stuck, drifted>>

(* removeRecursively() of every subdirectory: the data files in D and the  *)
(* .ttl files in T cannot be removed, or have not been when the process    *)
(* dies.                                                                   *)
Wipe(D, T) ==
    /\ dat' = [k \in Keys |-> IF k \in D THEN dat[k] ELSE None]
    /\ ttl' = [k \in Keys |-> IF k \in T THEN ttl[k] ELSE None]
    /\ written' = Only(written, D)
    /\ due' = [k \in Keys |-> IF k \in D THEN due[k] ELSE None]
    /\ torn' = (torn \cup (Timed \ T)) \cap D

Clear(D, T) ==
    /\ pc = "idle"
    /\ D \cup T = {} \/ FALSE \in Removes
    /\ Wipe(D, T)
    /\ total' = 0 /\ lru' = <<>>
    /\ stuck' = D /\ drifted' = (D # {})
    /\ UNCHANGED <<now, pc, callVars>>

-----------------------------------------------------------------------------
(* The process and its clock. *)

(* The process ends, in a call or not, and loses its memory. *)
Die ==
    /\ pc' = "down"
    /\ total' = 0 /\ lru' = <<>>
    /\ todo' = Nothing /\ life' = 0 /\ cur' = NoEntry /\ victim' = None
    /\ stuck' = {} /\ drifted' = FALSE
    /\ UNCHANGED now

Crash ==
    /\ pc # "down"
    /\ Die
    /\ UNCHANGED <<diskVars, due, torn>>

CrashInClear(D, T) ==
    /\ pc = "idle"
    /\ Die
    /\ Wipe(D, T)

(* The constructor: recoverFromDiskUnlocked() counts the data files and    *)
(* indexes them by modification time.                                      *)
RestartCounting ==
    /\ pc = "down"
    /\ pc' = "idle" /\ total' = Bytes
    /\ UNCHANGED <<diskVars, now, lru, callVars, ghostVars>>
Restart ==
    /\ pc = "down"
    /\ pc' = "idle"
    /\ total' = Bytes /\ lru' = written
    /\ UNCHANGED <<diskVars, now, callVars, ghostVars>>

Tick ==
    /\ now < MaxTime
    /\ now' = now + 1
    /\ UNCHANGED <<diskVars, memVars, pc, callVars, ghostVars>>

-----------------------------------------------------------------------------
Next ==
    \/ \E S \in (SUBSET Keys) \ {{}}, t \in TTLs :
          \E entries \in [S -> Sizes] : PutMany(entries, t)
    \/ Refuse
    \/ PutFails
    \/ Write
    \/ OpenTtl
    \/ OpenTtlFails
    \/ \E k \in Keys : Begin(k) \/ Hit(k)
    \/ \E ok \in Removes : EvictLru(ok) \/ WriteNoTtl(ok) \/ DropTtl(ok)
    \/ \E ok \in BOOLEAN : WriteTtl(ok)
    \/ \E k \in Keys, ok \in Removes : Expire(k, ok) \/ RemoveKey(k, ok)
    \/ \E D \in SUBSET Files, T \in SUBSET {k \in Keys : ttl[k] # None} :
          Clear(D, T) \/ CrashInClear(D, T)
    \/ Crash
    \/ Restart
    \/ Tick

Spec == Init /\ [][Next]_vars

-----------------------------------------------------------------------------
(* Accounting: totalBytes is the number of bytes of the data files,        *)
(* whatever was evicted, failed, removed or found after a restart, unless  *)
(* a removal that failed was taken for one that did not or the entry being *)
(* overwritten was evicted to make room for itself (disk_cache.cpp:301).   *)
Accounting == pc = "down" \/ drifted \/ total = Bytes

(* IndexAgrees: the index of last accesses, from which evictions choose,   *)
(* holds exactly the data files, but for files whose removal failed.       *)
IndexAgrees ==
    pc # "down" => Range(lru) \cap stuck = {} /\ Range(lru) \cup stuck = Files

(* NoResurrection: a value past its time to live is taken for expired by   *)
(* every later call, also after a crash while put() was writing the .ttl   *)
(* file and beside .ttl files of earlier values ("rather miss than revive  *)
(* expired data", disk_cache.cpp:88).  Excepted are values whose put()     *)
(* never got to open the .ttl file, or whose removal stopped after it.     *)
NoResurrection ==
    \A k \in Files \ torn : due[k] # None /\ now > due[k] => IsExpired(k)

(* GrowsWithinLimit: data is added only while all of it stays within       *)
(* maxBytes, after a restart or a failed call as well, as long as          *)
(* totalBytes has not drifted (disk_cache.cpp:148-151, 285).               *)
GrowsWithinLimit ==
    [][Bytes' > Bytes /\ MaxBytes # 0 => drifted' \/ Bytes' <= MaxBytes]_vars

(* FilesSound: the members of the cache agree with its files, across       *)
(* evictions, failures, crashes and restarts.                              *)
FilesSound == TypeOK /\ Accounting /\ IndexAgrees
=============================================================================
