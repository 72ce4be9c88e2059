-------------------------- MODULE DiskCacheProofs --------------------------
(***************************************************************************)
(* Proofs about DiskCache for any keys, sizes, limit and times to live,    *)
(* whatever QFile::remove and QFile::rename do: a value past its time to   *)
(* live is not revived by a crash, and the members of the cache, the       *)
(* number of bytes and the index of last accesses, agree with the files.   *)
(***************************************************************************)
EXTENDS DiskCache, FiniteSetTheorems, TLAPS

(* The types of the files, the clock and the call in progress.             *)
FileInv ==
    /\ dat \in [Keys -> Sizes \cup {None}]
    /\ ttl \in [Keys -> Nat \cup {None, Garbage}]
    /\ due \in [Keys -> Nat \cup {None}]
    /\ now \in Nat
    /\ life \in Nat

(* What put() is about to store has a key and a size.                      *)
CallInv ==
    /\ \A k \in DOMAIN todo : k \in Keys /\ todo[k] \in Sizes
    /\ cur # NoEntry \/ pc \in {"evict", "ttl", "expiry"} => cur.key \in Keys /\ cur.size \in Sizes

(* The .ttl file beside a value that expires holds its time or nothing;    *)
(* this is what a put() under way relies on and restores.                  *)
ExpiryInv ==
    /\ \A k \in Keys : (dat[k] # None /\ k \notin torn /\ due[k] # None)
                         => ttl[k] \in {Garbage, due[k]}
    /\ pc = "ttl" => IF life = 0 THEN due[cur.key] = None ELSE cur.key \in torn
    /\ pc = "expiry" => ttl[cur.key] = Garbage

Inv == FileInv /\ CallInv /\ ExpiryInv

USE DEF diskVars, memVars, callVars, ghostVars

LEMMA InvInit == Init => Inv
  <1> SUFFICES ASSUME Init PROVE Inv
    OBVIOUS
  <1>1. FileInv
    BY DEF Init, FileInv
  <1>2. CallInv
    BY DEF Init, CallInv, Nothing
  <1>3. ExpiryInv
    BY DEF Init, ExpiryInv
  <1> QED BY <1>1, <1>2, <1>3 DEF Inv

(* Removing a data file, or failing to, keeps the files' invariant.        *)
LEMMA RemoveKeeps ==
    ASSUME FileInv, ExpiryInv, NEW k, NEW ok \in BOOLEAN, RemoveData(k, ok),
           UNCHANGED ttl, pc' = "drop"
    PROVE  /\ dat' \in [Keys -> Sizes \cup {None}]
           /\ due' \in [Keys -> Nat \cup {None}]
           /\ ExpiryInv'
  <1>1. CASE ok
    <2>1. /\ dat' = [dat EXCEPT ![k] = None]
          /\ due' = [due EXCEPT ![k] = None]
          /\ torn' = torn \ {k}
      BY <1>1 DEF RemoveData
    <2>2. dat' \in [Keys -> Sizes \cup {None}] /\ due' \in [Keys -> Nat \cup {None}]
      BY <2>1 DEF FileInv
    <2>3. ASSUME NEW j \in Keys, dat'[j] # None, j \notin torn', due'[j] # None
          PROVE  ttl'[j] \in {Garbage, due'[j]}
      BY <2>1, <2>3 DEF FileInv, ExpiryInv
    <2> QED BY <2>2, <2>3 DEF ExpiryInv
  <1>2. CASE ~ok
    BY <1>2 DEF RemoveData, FileInv, ExpiryInv
  <1> QED BY <1>1, <1>2

(* The steps of put() and putMany().                                       *)
LEMMA PutKeeps ==
    ASSUME Inv,
           \/ \E S \in (SUBSET Keys) \ {{}}, t \in TTLs :
                 \E entries \in [S -> Sizes] : PutMany(entries, t)
           \/ \E k \in Keys : Begin(k)
           \/ Refuse \/ PutFails \/ Write \/ OpenTtl \/ OpenTtlFails
           \/ \E ok \in BOOLEAN : WriteNoTtl(ok) \/ WriteTtl(ok)
    PROVE  Inv'
  <1> USE DEF Inv
  <1>1. ASSUME NEW S \in (SUBSET Keys) \ {{}}, NEW t \in TTLs, NEW entries \in [S -> Sizes],
               PutMany(entries, t)
        PROVE  Inv'
    <2>1. FileInv'
      BY <1>1, DiskCacheAssumption DEF FileInv, PutMany
    <2>2. CallInv'
      BY <1>1 DEF CallInv, PutMany
    <2>3. ExpiryInv'
      BY <1>1 DEF ExpiryInv, PutMany
    <2> QED BY <2>1, <2>2, <2>3
  <1>2. ASSUME NEW k \in Keys, Begin(k)
        PROVE  Inv'
    <2>1. FileInv'
      BY <1>2 DEF FileInv, Begin
    <2>2. CallInv'
      BY <1>2 DEF CallInv, Begin
    <2>3. ExpiryInv'
      BY <1>2 DEF ExpiryInv, Begin
    <2> QED BY <2>1, <2>2, <2>3
  <1>3. CASE Refuse \/ PutFails
    <2>0. Return /\ UNCHANGED <<diskVars, now, memVars, ghostVars>>
      BY <1>3 DEF Refuse, PutFails
    <2>1. FileInv'
      BY <2>0 DEF FileInv, Return
    <2>2. CallInv'
      BY <2>0 DEF CallInv, Return, Nothing
    <2>3. ExpiryInv'
      BY <2>0 DEF ExpiryInv, Return
    <2> QED BY <2>1, <2>2, <2>3
  <1>4. CASE Write
    <2> DEFINE k == cur.key
    <2>0. /\ k \in Keys /\ cur.size \in Sizes
          /\ dat' = [dat EXCEPT ![k] = cur.size]
          /\ due' = [due EXCEPT ![k] = IF life = 0 THEN None ELSE now + life]
          /\ torn' = IF life = 0 THEN torn \ {k} ELSE torn \cup {k}
          /\ pc' = "ttl"
          /\ UNCHANGED <<ttl, now, callVars>>
      BY <1>4 DEF Write, CanWrite, CallInv
    <2> HIDE DEF k
    <2>1. FileInv'
      BY <2>0 DEF FileInv
    <2>2. CallInv'
      BY <2>0 DEF CallInv, k
    <2>3. due'[k] = IF life = 0 THEN None ELSE now + life
      BY <2>0 DEF FileInv
    <2>4. IF life' = 0 THEN due'[cur'.key] = None ELSE cur'.key \in torn'
      BY <2>0, <2>3 DEF k
    <2>5. ASSUME NEW j \in Keys, dat'[j] # None, j \notin torn', due'[j] # None
          PROVE  ttl'[j] \in {Garbage, due'[j]}
      <3>1. j # k
        BY <2>0, <2>3, <2>5
      <3>2. dat'[j] = dat[j] /\ due'[j] = due[j] /\ j \notin torn
        BY <2>0, <2>5, <3>1 DEF FileInv
      <3> QED BY <2>0, <2>5, <3>2 DEF ExpiryInv
    <2> QED BY <2>0, <2>1, <2>2, <2>4, <2>5 DEF ExpiryInv
  <1>5. ASSUME NEW ok \in BOOLEAN, WriteNoTtl(ok)
        PROVE  Inv'
    <2>1. FileInv'
      BY <1>5 DEF FileInv, WriteNoTtl, NextEntry
    <2>2. CallInv'
      BY <1>5 DEF CallInv, WriteNoTtl, NextEntry
    <2>3. ExpiryInv'
      BY <1>5 DEF ExpiryInv, FileInv, CallInv, WriteNoTtl, NextEntry
    <2> QED BY <2>1, <2>2, <2>3
  <1>6. CASE OpenTtl
    <2>0. now + life \in Nat
      BY DEF FileInv
    <2>1. FileInv'
      BY <1>6, <2>0 DEF FileInv, OpenTtl
    <2>2. CallInv'
      BY <1>6 DEF CallInv, OpenTtl
    <2>3. cur.key \in Keys /\ ttl'[cur.key] = Garbage
      BY <1>6 DEF FileInv, CallInv, OpenTtl
    <2>4. ASSUME NEW j \in Keys, dat'[j] # None, j \notin torn', due'[j] # None
          PROVE  ttl'[j] \in {Garbage, due'[j]}
      <3>1. CASE j = cur.key
        BY <2>3, <3>1
      <3>2. CASE j # cur.key
        <4>1. ttl'[j] = ttl[j] /\ due'[j] = due[j] /\ dat' = dat /\ j \notin torn
          BY <1>6, <2>4, <3>2 DEF FileInv, OpenTtl
        <4> QED BY <2>4, <4>1 DEF ExpiryInv
      <3> QED BY <3>1, <3>2
    <2>5. pc' = "expiry" /\ cur' = cur
      BY <1>6 DEF OpenTtl
    <2>6. ExpiryInv'
      BY <2>3, <2>4, <2>5 DEF ExpiryInv
    <2> QED BY <2>1, <2>2, <2>6
  <1>7. CASE OpenTtlFails
    <2>1. FileInv'
      BY <1>7 DEF FileInv, OpenTtlFails, NextEntry
    <2>2. CallInv'
      BY <1>7 DEF CallInv, OpenTtlFails, NextEntry
    <2>3. ExpiryInv'
      BY <1>7 DEF ExpiryInv, OpenTtlFails, NextEntry
    <2> QED BY <2>1, <2>2, <2>3
  <1>8. ASSUME NEW ok \in BOOLEAN, WriteTtl(ok)
        PROVE  Inv'
    <2>1. FileInv'
      BY <1>8 DEF FileInv, CallInv, WriteTtl, NextEntry
    <2>2. CallInv'
      BY <1>8 DEF CallInv, WriteTtl, NextEntry
    <2>3. ExpiryInv'
      BY <1>8 DEF ExpiryInv, FileInv, CallInv, WriteTtl, NextEntry
    <2> QED BY <2>1, <2>2, <2>3
  <1> QED BY <1>1, <1>2, <1>3, <1>4, <1>5, <1>6, <1>7, <1>8

(* The steps that remove files.                                            *)
LEMMA RemovalsKeep ==
    ASSUME Inv,
           \/ \E ok \in BOOLEAN : EvictLru(ok) \/ DropTtl(ok)
           \/ \E k \in Keys, ok \in BOOLEAN : Expire(k, ok) \/ RemoveKey(k, ok)
           \/ \E D \in SUBSET Files, T \in SUBSET {k \in Keys : ttl[k] # None} :
                 Clear(D, T) \/ CrashInClear(D, T)
    PROVE  Inv'
  <1> USE DEF Inv
  <1>1. ASSUME NEW ok \in BOOLEAN, EvictLru(ok)
        PROVE  Inv'
    <2>1. RemoveData(Head(lru), ok) /\ UNCHANGED <<ttl, now, todo, life, cur>> /\ pc' = "drop"
      BY <1>1 DEF EvictLru
    <2>2. CallInv'
      BY <1>1, <2>1 DEF CallInv, EvictLru
    <2> QED BY <2>1, <2>2, RemoveKeeps DEF FileInv
  <1>2. ASSUME NEW ok \in BOOLEAN, DropTtl(ok)
        PROVE  Inv'
    <2>1. FileInv'
      BY <1>2 DEF FileInv, DropTtl
    <2>2. CallInv'
      BY <1>2 DEF CallInv, DropTtl
    <2>3. ASSUME NEW j \in Keys, dat'[j] # None, j \notin torn', due'[j] # None
          PROVE  ttl'[j] \in {Garbage, due'[j]}
      BY <1>2, <2>3 DEF FileInv, ExpiryInv, DropTtl, Timed
    <2> QED BY <1>2, <2>1, <2>2, <2>3 DEF ExpiryInv, DropTtl
  <1>3. ASSUME NEW k \in Keys, NEW ok \in BOOLEAN, Expire(k, ok)
        PROVE  Inv'
    <2>1. RemoveData(k, ok) /\ UNCHANGED <<ttl, now, todo, life, cur>> /\ pc' = "drop"
      BY <1>3 DEF Expire
    <2>2. CallInv'
      BY <2>1 DEF CallInv
    <2> QED BY <2>1, <2>2, RemoveKeeps DEF FileInv
  <1>4. ASSUME NEW k \in Keys, NEW ok \in BOOLEAN, RemoveKey(k, ok)
        PROVE  Inv'
    <2>1. UNCHANGED <<ttl, now, todo, life, cur>> /\ pc' = "drop"
      BY <1>4 DEF RemoveKey
    <2>2. CallInv'
      BY <2>1 DEF CallInv
    <2>3. CASE k \in Files
      <3>1. RemoveData(k, ok)
        BY <1>4, <2>3 DEF RemoveKey
      <3> QED BY <2>1, <2>2, <3>1, RemoveKeeps DEF FileInv
    <2>4. CASE k \notin Files
      <3>1. UNCHANGED <<dat, due, torn>>
        BY <1>4, <2>4 DEF RemoveKey
      <3> QED BY <2>1, <2>2, <3>1 DEF FileInv, ExpiryInv
    <2> QED BY <2>3, <2>4
  <1>5. ASSUME NEW D \in SUBSET Files, NEW T \in SUBSET {k \in Keys : ttl[k] # None},
               Clear(D, T) \/ CrashInClear(D, T)
        PROVE  Inv'
    <2>1. Wipe(D, T) /\ now' = now /\ pc' \notin {"ttl", "expiry"}
      BY <1>5 DEF Clear, CrashInClear, Die
    <2>2. /\ dat' \in [Keys -> Sizes \cup {None}]
          /\ ttl' \in [Keys -> Nat \cup {None, Garbage}]
          /\ due' \in [Keys -> Nat \cup {None}]
      BY <2>1 DEF Wipe, FileInv
    <2>3. life' \in Nat /\ CallInv'
      <3>1. CASE Clear(D, T)
        BY <3>1 DEF Clear, CallInv, FileInv
      <3>2. CASE CrashInClear(D, T)
        BY <3>2 DEF CrashInClear, Die, CallInv, Nothing
      <3> QED BY <1>5, <3>1, <3>2
    <2>4. ASSUME NEW j \in Keys, dat'[j] # None, j \notin torn', due'[j] # None
          PROVE  ttl'[j] \in {Garbage, due'[j]}
      <3>1. j \in D /\ dat[j] # None /\ due[j] # None /\ due'[j] = due[j]
        BY <2>1, <2>4 DEF Wipe
      <3>2. j \in T /\ j \notin torn
        BY <2>1, <2>4, <3>1 DEF Wipe, Timed
      <3> QED BY <2>1, <3>1, <3>2 DEF Wipe, ExpiryInv
    <2> QED BY <2>1, <2>2, <2>3, <2>4 DEF FileInv, ExpiryInv
  <1> QED BY <1>1, <1>2, <1>3, <1>4, <1>5

LEMMA InvStep == Inv /\ [Next]_vars => Inv'
  <1> SUFFICES ASSUME Inv, [Next]_vars PROVE Inv'
    OBVIOUS
  <1> USE DEF Inv
  <1>1. CASE UNCHANGED vars
    BY <1>1 DEF vars, FileInv, CallInv, ExpiryInv
  <1>2. ASSUME NEW k \in Keys, Hit(k)
        PROVE  Inv'
    BY <1>2 DEF Hit, FileInv, CallInv, ExpiryInv
  <1>3. CASE Crash
    <2>1. FileInv'
      BY <1>3 DEF Crash, Die, FileInv
    <2>2. CallInv'
      BY <1>3 DEF Crash, Die, CallInv, Nothing
    <2>3. ExpiryInv'
      BY <1>3 DEF Crash, Die, ExpiryInv
    <2> QED BY <2>1, <2>2, <2>3
  <1>4. CASE Restart
    BY <1>4 DEF Restart, FileInv, CallInv, ExpiryInv
  <1>5. CASE Tick
    BY <1>5 DEF Tick, FileInv, CallInv, ExpiryInv
  <1>6. CASE \/ \E S \in (SUBSET Keys) \ {{}}, t \in TTLs :
                   \E entries \in [S -> Sizes] : PutMany(entries, t)
             \/ \E k \in Keys : Begin(k)
             \/ Refuse \/ PutFails \/ Write \/ OpenTtl \/ OpenTtlFails
             \/ \E ok \in BOOLEAN : WriteNoTtl(ok) \/ WriteTtl(ok)
    BY <1>6, PutKeeps
  <1>7. CASE \/ \E ok \in BOOLEAN : EvictLru(ok) \/ DropTtl(ok)
             \/ \E k \in Keys, ok \in BOOLEAN : Expire(k, ok) \/ RemoveKey(k, ok)
             \/ \E D \in SUBSET Files, T \in SUBSET {k \in Keys : ttl[k] # None} :
                   Clear(D, T) \/ CrashInClear(D, T)
    BY <1>7, RemovalsKeep
  <1> QED BY <1>1, <1>2, <1>3, <1>4, <1>5, <1>6, <1>7, DiskCacheAssumption DEF Next

(* A value past its time to live is taken for expired by every later call, *)
(* wherever in put(), eviction, remove() or clear() the process died       *)
(* before: isExpired() (disk_cache.cpp:80) and the order in which put()    *)
(* and writeExpiryMSecs() change the files.                                *)
THEOREM NothingRevived == Spec => []NoResurrection
  <1>1. Inv => NoResurrection
    <2> SUFFICES ASSUME Inv, NEW k \in Files \ torn, due[k] # None, now > due[k]
                 PROVE  IsExpired(k)
      BY DEF NoResurrection
    <2>1. k \in Keys /\ dat[k] # None
      BY DEF Files
    <2>2. ttl[k] \in {Garbage, due[k]}
      BY <2>1 DEF Inv, ExpiryInv
    <2> QED BY <2>2, DiskCacheAssumption DEF IsExpired
  <1> QED BY <1>1, InvInit, InvStep, PTL DEF Spec

-----------------------------------------------------------------------------
(* Lists of keys, as written and lru are.                                  *)
Lists(s, D) == IsListOf(s, D) /\ D \subseteq Keys

LEMMA KeptLists ==
    ASSUME NEW s, NEW D, NEW E, Lists(s, E)
    PROVE  Lists(Only(s, D), E \cap D)
  BY OnlyLists DEF Lists

(* Without() and Touch() on such a list.                                   *)
LEMMA WithoutKey ==
    ASSUME NEW s, NEW D, Lists(s, D), NEW k \in Keys
    PROVE  /\ Lists(Without(s, k), D \ {k})
           /\ Lists(Append(Without(s, k), k), D \cup {k})
  <1>1. IsListOf(s, D) /\ D \subseteq Keys
    BY DEF Lists
  <1>2. /\ IsListOf(Only(s, Keys \ {k}), D \ {k})
        /\ IsListOf(Append(Only(s, Keys \ {k}), k), D \cup {k})
    BY <1>1, WithoutLists
  <1> QED BY <1>1, <1>2 DEF Lists, Without

-----------------------------------------------------------------------------
(* The bytes on disk, for any sizes of the files.                          *)
Present(d) == {k \in Keys : d[k] # None}
Volume(d) == SumOver(d, Present(d))

LEMMA PresentSizes ==
    ASSUME NEW d \in [Keys -> Nat \cup {None}], IsFiniteSet(Present(d))
    PROVE  HasSizes(d, Present(d)) /\ Volume(d) \in Nat
  <1>1. HasSizes(d, Present(d))
    BY DEF HasSizes, Present
  <1> QED BY <1>1, UnitsFinite DEF Volume

(* The file of k has d[k] of the bytes.                                    *)
LEMMA StoredWithout ==
    ASSUME NEW d \in [Keys -> Nat \cup {None}], IsFiniteSet(Present(d)), NEW k \in Present(d),
           NEW e, e = [d EXCEPT ![k] = None]
    PROVE  /\ Present(e) = Present(d) \ {k}
           /\ Volume(e) \in Nat /\ d[k] \in Nat
           /\ Volume(d) = Volume(e) + d[k]
  <1>1. Present(e) = Present(d) \ {k} /\ \A j \in Present(e) : e[j] = d[j]
    BY DEF Present
  <1>2. HasSizes(d, Present(d))
    BY PresentSizes
  <1>3. /\ d[k] \in Nat /\ SumOver(d, Present(d) \ {k}) \in Nat
        /\ SumOver(d, Present(d)) = SumOver(d, Present(d) \ {k}) + d[k]
    BY <1>2, SumWithout
  <1>4. SumOver(e, Present(e)) = SumOver(d, Present(e))
    <2> DEFINE P == Present(e)
    <2>1. \A j \in P : e[j] = d[j]
      BY <1>1
    <2> HIDE DEF P
    <2>2. \A f, g : (\A j \in P : f[j] = g[j]) => SumOver(f, P) = SumOver(g, P)
      BY SumOfSame
    <2>3. SumOver(e, P) = SumOver(d, P)
      BY <2>1, <2>2, Zenon
    <2> QED BY <2>3 DEF P
  <1> QED BY <1>1, <1>3, <1>4 DEF Volume

(* A file of n bytes takes the place of the file of k, if there is one.    *)
Replaced(d, e, k, n) ==
    /\ Present(e) = Present(d) \cup {k}
    /\ Volume(e) \in Nat /\ Volume(d) \in Nat
    /\ d[k] = None => Volume(e) = Volume(d) + n
    /\ d[k] # None => /\ d[k] \in Nat /\ d[k] <= Volume(d)
                      /\ Volume(e) = Volume(d) - d[k] + n

LEMMA StoredWith ==
    ASSUME NEW d \in [Keys -> Nat \cup {None}], IsFiniteSet(Present(d)), None \notin Nat,
           NEW k \in Keys, NEW n \in Nat
    PROVE  Replaced(d, [d EXCEPT ![k] = n], k, n)
  <1> DEFINE e == [d EXCEPT ![k] = n]
  <1> DEFINE c == [d EXCEPT ![k] = None]
  <1>1. e \in [Keys -> Nat \cup {None}] /\ c \in [Keys -> Nat \cup {None}] /\ e[k] = n
    OBVIOUS
  <1>2. Present(e) = Present(d) \cup {k} /\ k \in Present(e)
    BY DEF Present
  <1>3. IsFiniteSet(Present(e))
    <2>1. IsFiniteSet(Present(d) \cup {k})
      BY FS_AddElement
    <2> QED BY <1>2, <2>1
  <1>4. c = [e EXCEPT ![k] = None]
    OBVIOUS
  <1> HIDE DEF c
  <1>5. /\ Volume(c) \in Nat
        /\ Volume(e) = Volume(c) + n
    BY <1>1, <1>2, <1>3, <1>4, StoredWithout
  <1>6. d[k] = None => c = d
    BY DEF c
  <1>7. d[k] # None => /\ d[k] \in Nat
                       /\ Volume(d) = Volume(c) + d[k]
    BY StoredWithout DEF c, Present
  <1>8. Volume(d) \in Nat
    BY PresentSizes
  <1> DEFINE x == Volume(c)
             y == Volume(d)
             z == Volume(e)
             m == d[k]
  <1>9. /\ x \in Nat /\ y \in Nat /\ z = x + n
        /\ m = None => x = y
        /\ m # None => m \in Nat /\ y = x + m
    BY <1>5, <1>6, <1>7, <1>8
  <1> HIDE DEF x, y, z, m
  <1>10. /\ z \in Nat /\ y \in Nat
         /\ m = None => z = y + n
         /\ m # None => m \in Nat /\ m <= y /\ z = y - m + n
    BY <1>9
  <1>11. Present(e) = Present(d) \cup {k}
    BY <1>2
  <1> HIDE DEF e
  <1>12. Replaced(d, e, k, n)
    BY <1>10, <1>11 DEF x, y, z, m, Replaced
  <1> QED BY <1>12 DEF e

-----------------------------------------------------------------------------
(* The members of the cache agree with its files. *)

LEMMA BytesAreVolume == Bytes = Volume(dat) /\ Bytes' = Volume(dat')
  BY DEF Bytes, Volume, Files, Present

LEMMA FilesArePresent == Files = Present(dat) /\ Files' = Present(dat')
  BY DEF Files, Present

(* The types of what FileInv does not speak about.                         *)
MemberTypes ==
    /\ now \in 0..MaxTime /\ total \in Nat
    /\ pc \in {"idle", "begin", "evict", "drop", "ttl", "expiry", "down"}
    /\ DOMAIN todo \subseteq Keys /\ Range(todo) \subseteq Sizes
    /\ life \in TTLs \cup {0}
    /\ cur \in [key : Keys \cup {None}, size : Sizes \cup {0}, old : Sizes \cup {0}]
    /\ victim \in Keys \cup {None}
    /\ torn \subseteq Keys /\ stuck \subseteq Keys /\ drifted \in BOOLEAN

(* Both lists hold a key once, and written holds the files.                *)
ListInv == Lists(written, Files) /\ Lists(lru, Range(lru))

(* What a call under way knows: while put() makes room, the data file of   *)
(* its key is as it was read, or has been evicted.                         *)
PlaceInv ==
    /\ pc \in {"idle", "begin", "down"} => cur = NoEntry
    /\ pc = "evict" \/ (pc = "drop" /\ cur # NoEntry) => dat[cur.key] \in {None, cur.old}
    /\ pc = "down" => stuck = {}
    /\ pc = "drop" => victim \in Keys

SoundInv == MemberTypes /\ ListInv /\ PlaceInv /\ Accounting /\ IndexAgrees

LEMMA BytesType == Inv /\ ListInv => Bytes \in Nat /\ IsFiniteSet(Present(dat)) /\ dat \in [Keys -> Nat \cup {None}]
  <1> SUFFICES ASSUME Inv, ListInv
               PROVE  Bytes \in Nat /\ IsFiniteSet(Present(dat)) /\ dat \in [Keys -> Nat \cup {None}]
    OBVIOUS
  <1>1. dat \in [Keys -> Nat \cup {None}]
    BY DiskCacheAssumption DEF Inv, FileInv
  <1>2. IsFiniteSet(Present(dat))
    BY ListCounts, FilesArePresent DEF ListInv, Lists
  <1> QED BY <1>1, <1>2, PresentSizes, BytesAreVolume

LEMMA SoundInit == Init => SoundInv
  <1> SUFFICES ASSUME Init PROVE SoundInv
    OBVIOUS
  <1>1. MemberTypes
    <2>1. DOMAIN Nothing = {} /\ Range(Nothing) = {}
      BY DEF Nothing, Range
    <2>2. now \in 0..MaxTime
      BY DiskCacheAssumption DEF Init
    <2>3. cur \in [key : Keys \cup {None}, size : Sizes \cup {0}, old : Sizes \cup {0}]
      BY DEF Init, NoEntry
    <2> QED BY <2>1, <2>2, <2>3 DEF Init, MemberTypes
  <1>2. Files = {} /\ Bytes = 0
    <2>1. Files = {}
      BY DEF Init, Files
    <2> QED BY <2>1, SumOfNone DEF Bytes
  <1>3. Range(<<>>) = {}
    BY DEF Range
  <1>4. ListInv
    BY <1>2, <1>3, NothingListed DEF Init, ListInv, Lists
  <1>5. PlaceInv
    BY DEF Init, PlaceInv
  <1>6. Accounting
    BY <1>2, FS_EmptySet DEF Init, Accounting, Bytes
  <1>7. IndexAgrees
    BY <1>2, <1>3 DEF Init, IndexAgrees
  <1> QED BY <1>1, <1>4, <1>5, <1>6, <1>7 DEF SoundInv

(* What a removal, or its failure, does to the files.                      *)
LEMMA RemovalFacts ==
    ASSUME Inv, ListInv, NEW k \in Files, NEW ok \in BOOLEAN, RemoveData(k, ok)
    PROVE  /\ Files' = IF ok THEN Files \ {k} ELSE Files
           /\ Lists(written', Files')
           /\ Bytes \in Nat /\ dat[k] \in Nat /\ dat[k] <= Bytes
           /\ Bytes' = IF ok THEN Bytes - dat[k] ELSE Bytes
           /\ \A j \in Keys : dat'[j] \in {None, dat[j]}
  <1>1. IsFiniteSet(Present(dat)) /\ dat \in [Keys -> Nat \cup {None}] /\ k \in Present(dat) /\ k \in Keys
    BY BytesType, FilesArePresent DEF Files
  <1> DEFINE e == [dat EXCEPT ![k] = None]
  <1>2. /\ Present(e) = Present(dat) \ {k}
        /\ Volume(e) \in Nat /\ dat[k] \in Nat
        /\ Volume(dat) = Volume(e) + dat[k]
    <2> HIDE DEF e
    <2>1. e = [dat EXCEPT ![k] = None]
      BY DEF e
    <2> QED BY <1>1, <2>1, StoredWithout DEF Volume
  <1>3. CASE ok
    <2>1. dat' = e /\ written' = Without(written, k)
      BY <1>3 DEF RemoveData
    <2>2. \A j \in Keys : dat'[j] \in {None, dat[j]}
      BY <1>1, <2>1
    <2> HIDE DEF e
    <2>3. Files' = Files \ {k}
      BY <1>2, <2>1, FilesArePresent
    <2>4. Lists(written', Files \ {k})
      BY <1>1, <2>1, WithoutKey DEF ListInv
    <2>5. Bytes' = Volume(e) /\ Bytes = Volume(dat)
      BY <2>1, BytesAreVolume
    <2> QED BY <1>2, <1>3, <2>2, <2>3, <2>4, <2>5
  <1>4. CASE ~ok
    <2>1. dat' = dat /\ written' = written
      BY <1>4 DEF RemoveData
    <2>2. Files' = Files /\ Bytes' = Bytes /\ Bytes = Volume(dat)
      BY <2>1, FilesArePresent, BytesAreVolume
    <2> HIDE DEF e
    <2> QED BY <1>2, <1>4, <2>1, <2>2 DEF ListInv
  <1> QED BY <1>3, <1>4

(* Steps that leave the data files, the members and the flags alone.       *)
LEMMA SameFiles ==
    ASSUME Inv, SoundInv, UNCHANGED <<dat, written, memVars, stuck, drifted>>,
           pc # "down", pc' # "down"
    PROVE  ListInv' /\ Accounting' /\ IndexAgrees'
  <1>1. Files' = Files /\ Bytes' = Bytes
    BY FilesArePresent, BytesAreVolume
  <1> QED BY <1>1 DEF SoundInv, ListInv, Accounting, IndexAgrees

(* The steps of put() that change no data file.                            *)
LEMMA CallsSound ==
    ASSUME Inv, SoundInv,
           \/ \E S \in (SUBSET Keys) \ {{}}, t \in TTLs :
                 \E entries \in [S -> Sizes] : PutMany(entries, t)
           \/ \E k \in Keys : Begin(k)
           \/ Refuse \/ PutFails \/ OpenTtl \/ OpenTtlFails
           \/ \E ok \in BOOLEAN : WriteNoTtl(ok) \/ WriteTtl(ok) \/ DropTtl(ok)
    PROVE  SoundInv'
  <1> USE DEF SoundInv
  <1>1. ASSUME NEW S \in (SUBSET Keys) \ {{}}, NEW t \in TTLs, NEW entries \in [S -> Sizes],
               PutMany(entries, t)
        PROVE  SoundInv'
    <2>1. MemberTypes'
      BY <1>1 DEF MemberTypes, PutMany, Range
    <2>2. PlaceInv'
      BY <1>1 DEF PlaceInv, PutMany
    <2>3. ListInv' /\ Accounting' /\ IndexAgrees'
      BY <1>1, SameFiles DEF PutMany
    <2> QED BY <2>1, <2>2, <2>3
  <1>2. ASSUME NEW k \in Keys, Begin(k)
        PROVE  SoundInv'
    <2>1. MemberTypes'
      <3>1. todo[k] \in Sizes /\ (dat[k] = None \/ dat[k] \in Sizes)
        BY <1>2 DEF Inv, CallInv, FileInv, Begin
      <3>2. DOMAIN todo' \subseteq Keys /\ Range(todo') \subseteq Sizes
        BY <1>2 DEF MemberTypes, Begin, Range
      <3>3. cur' \in [key : Keys \cup {None}, size : Sizes \cup {0}, old : Sizes \cup {0}]
        BY <1>2, <3>1 DEF Begin
      <3> QED BY <1>2, <3>2, <3>3 DEF MemberTypes, Begin
    <2>2. PlaceInv'
      BY <1>2 DEF PlaceInv, Begin
    <2>3. ListInv' /\ Accounting' /\ IndexAgrees'
      BY <1>2, SameFiles DEF Begin
    <2> QED BY <2>1, <2>2, <2>3
  <1>3. CASE Refuse \/ PutFails
    <2>0. Return /\ UNCHANGED <<diskVars, now, memVars, ghostVars>> /\ pc # "down"
      BY <1>3 DEF Refuse, PutFails, CanWrite
    <2>1. MemberTypes'
      BY <2>0 DEF MemberTypes, Return, Nothing, NoEntry, Range
    <2>2. PlaceInv'
      BY <2>0 DEF PlaceInv, Return
    <2>3. ListInv' /\ Accounting' /\ IndexAgrees'
      BY <2>0, SameFiles DEF Return
    <2> QED BY <2>1, <2>2, <2>3
  <1>4. CASE OpenTtl
    <2>1. MemberTypes'
      BY <1>4 DEF MemberTypes, OpenTtl
    <2>2. PlaceInv'
      BY <1>4 DEF PlaceInv, OpenTtl
    <2>3. ListInv' /\ Accounting' /\ IndexAgrees'
      BY <1>4, SameFiles DEF OpenTtl
    <2> QED BY <2>1, <2>2, <2>3
  <1>5. CASE OpenTtlFails \/ \E ok \in BOOLEAN : WriteNoTtl(ok) \/ WriteTtl(ok)
    <2>0. /\ NextEntry /\ UNCHANGED <<dat, written, now, memVars, ghostVars>>
          /\ pc \in {"ttl", "expiry"}
      BY <1>5 DEF OpenTtlFails, WriteNoTtl, WriteTtl
    <2>1. MemberTypes'
      BY <2>0 DEF MemberTypes, NextEntry, NoEntry
    <2>2. PlaceInv'
      BY <2>0 DEF PlaceInv, NextEntry
    <2>3. pc' # "down"
      BY <2>0 DEF NextEntry
    <2>4. ListInv' /\ Accounting' /\ IndexAgrees'
      BY <2>0, <2>3, SameFiles
    <2> QED BY <2>1, <2>2, <2>4
  <1>6. ASSUME NEW ok \in BOOLEAN, DropTtl(ok)
        PROVE  SoundInv'
    <2>1. MemberTypes'
      BY <1>6 DEF MemberTypes, DropTtl, Timed
    <2>2. PlaceInv'
      BY <1>6 DEF PlaceInv, DropTtl
    <2>3. ListInv' /\ Accounting' /\ IndexAgrees'
      BY <1>6, SameFiles DEF DropTtl
    <2> QED BY <2>1, <2>2, <2>3
  <1> QED BY <1>1, <1>2, <1>3, <1>4, <1>5, <1>6

(* The rename of put(): the new data file takes the place of the old one.  *)
LEMMA WriteFacts ==
    ASSUME Inv, SoundInv, Write
    PROVE  /\ SoundInv'
           /\ MaxBytes # 0 => drifted' \/ Bytes' <= MaxBytes
  <1> USE DEF SoundInv
  <1> DEFINE k == cur.key
             n == cur.size
  <1>1. /\ pc = "evict" /\ ~TooLarge(n) /\ Fits(n)
        /\ dat' = [dat EXCEPT ![k] = n]
        /\ written' = Append(Without(written, k), k)
        /\ total' = Less(cur.old) + n
        /\ lru' = Touch(k)
        /\ torn' = IF life = 0 THEN torn \ {k} ELSE torn \cup {k}
        /\ stuck' = stuck \ {k}
        /\ drifted' = (drifted \/ (cur.old > 0 /\ dat[k] # cur.old))
        /\ pc' = "ttl"
        /\ UNCHANGED <<ttl, now, callVars>>
    BY DEF Write, CanWrite
  <1>2. k \in Keys /\ n \in Sizes /\ n \in Nat /\ cur.old \in Nat /\ total \in Nat /\ dat[k] \in {None, cur.old}
    <2>1. k \in Keys /\ n \in Sizes
      BY <1>1 DEF Inv, CallInv
    <2>2. cur.old \in Sizes \cup {0} /\ total \in Nat
      BY DEF MemberTypes
    <2>3. dat[k] \in {None, cur.old}
      BY <1>1 DEF PlaceInv
    <2>4. \A x \in Sizes \cup {0} : x \in Nat
      BY DiskCacheAssumption
    <2> HIDE DEF k, n
    <2>5. n \in Nat
      BY <2>1, <2>4
    <2>6. cur.old \in Nat
      BY <2>2, <2>4, Zenon
    <2> QED BY <2>1, <2>2, <2>3, <2>5, <2>6
  <1>3. IsFiniteSet(Present(dat)) /\ dat \in [Keys -> Nat \cup {None}] /\ Bytes \in Nat
    BY BytesType
  <1> HIDE DEF k, n
  <1>4. /\ Present(dat') = Present(dat) \cup {k}
        /\ Volume(dat') \in Nat /\ Volume(dat) \in Nat
        /\ dat[k] = None => Volume(dat') = Volume(dat) + n
        /\ dat[k] # None => /\ dat[k] \in Nat /\ dat[k] <= Volume(dat)
                            /\ Volume(dat') = Volume(dat) - dat[k] + n
    <2>1. None \notin Nat
      BY DiskCacheAssumption
    <2>2. Replaced(dat, [dat EXCEPT ![k] = n], k, n)
      BY <1>2, <1>3, <2>1, StoredWith
    <2>3. Replaced(dat, dat', k, n)
      BY <1>1, <2>2
    <2> QED BY <2>3 DEF Replaced, Volume
  <1>5. Files' = Files \cup {k} /\ Bytes = Volume(dat) /\ Bytes' = Volume(dat')
    BY <1>4, FilesArePresent, BytesAreVolume
  <1>6. total' \in Nat
    BY <1>1, <1>2 DEF Less
  <1>7. ~drifted' => ~drifted /\ Bytes' = total' /\ (MaxBytes # 0 => Bytes' <= MaxBytes)
    <2> SUFFICES ASSUME ~drifted' PROVE ~drifted /\ Bytes' = total' /\ (MaxBytes # 0 => Bytes' <= MaxBytes)
      OBVIOUS
    <2>1. ~drifted /\ (cur.old > 0 => dat[k] = cur.old)
      BY <1>1
    <2>2. total = Bytes
      BY <1>1, <2>1 DEF Accounting
    <2>3. MaxBytes # 0 => total + n <= MaxBytes
      BY <1>1 DEF Fits
    <2>4. CASE dat[k] = None
      <3>1. cur.old = 0
        BY <1>2, <2>1, <2>4, DiskCacheAssumption
      <3>2. Less(cur.old) = total
        BY <1>2, <3>1 DEF Less
      <3> QED BY <1>1, <1>2, <1>4, <1>5, <2>1, <2>2, <2>3, <2>4, <3>2, DiskCacheAssumption
    <2>5. CASE dat[k] # None
      <3>1. cur.old = dat[k] /\ dat[k] <= total
        BY <1>2, <1>4, <1>5, <2>2, <2>5
      <3>2. Less(cur.old) = total - dat[k]
        BY <1>2, <3>1 DEF Less
      <3>3. Bytes' = total - dat[k] + n /\ dat[k] \in Nat
        BY <1>4, <1>5, <2>2, <2>5
      <3> QED BY <1>1, <1>2, <2>1, <2>2, <2>3, <3>2, <3>3, DiskCacheAssumption
    <2> QED BY <2>4, <2>5
  <1>8. MemberTypes'
    BY <1>1, <1>2, <1>6 DEF MemberTypes
  <1>9. Range(lru') = Range(lru) \cup {k} /\ ListInv'
    <2>1. Lists(lru', Range(lru) \cup {k}) /\ Lists(written', Files \cup {k})
      BY <1>1, <1>2, WithoutKey DEF ListInv, Touch
    <2>2. Range(lru') = Range(lru) \cup {k}
      BY <2>1 DEF Lists, IsListOf
    <2> QED BY <1>5, <2>1, <2>2 DEF ListInv
  <1>10. PlaceInv'
    BY <1>1 DEF PlaceInv
  <1>11. Accounting'
    BY <1>7 DEF Accounting
  <1>12. IndexAgrees'
    BY <1>1, <1>5, <1>9 DEF IndexAgrees
  <1> QED BY <1>7, <1>8, <1>9, <1>10, <1>11, <1>12

(* A removal of an indexed or a stuck file, in an eviction or in a call.   *)
Removal(k, ok) ==
    /\ RemoveData(k, ok)
    /\ pc # "down" /\ pc' = "drop" /\ victim' = k /\ lru' = Without(lru, k)
    /\ pc = "evict" \/ cur = NoEntry
    /\ drifted' \in BOOLEAN /\ (drifted => drifted')
    /\ IF ok \/ total' # total THEN (ok \/ drifted') /\ total' = Less(dat[k]) ELSE TRUE
    /\ UNCHANGED <<now, todo, life, cur>>

LEMMA RemovalSound ==
    ASSUME Inv, SoundInv, NEW k \in Files, NEW ok \in BOOLEAN, Removal(k, ok)
    PROVE  SoundInv'
  <1> USE DEF SoundInv, Removal
  <1>1. /\ Files' = IF ok THEN Files \ {k} ELSE Files
        /\ Lists(written', Files')
        /\ Bytes \in Nat /\ dat[k] \in Nat /\ dat[k] <= Bytes
        /\ Bytes' = IF ok THEN Bytes - dat[k] ELSE Bytes
        /\ \A j \in Keys : dat'[j] \in {None, dat[j]}
    BY RemovalFacts
  <1>2. k \in Keys
    BY DEF Files
  <1>3. total' \in Nat
    BY <1>1 DEF MemberTypes, Less
  <1>4. MemberTypes'
    <2>1. torn' \subseteq Keys /\ stuck' \subseteq Keys
      BY <1>2 DEF RemoveData, MemberTypes
    <2> QED BY <1>2, <1>3, <2>1 DEF MemberTypes
  <1>5. Range(lru') = Range(lru) \ {k} /\ ListInv'
    <2>1. Lists(lru', Range(lru) \ {k})
      BY <1>2, WithoutKey DEF ListInv
    <2>2. Range(lru') = Range(lru) \ {k}
      BY <2>1 DEF Lists, IsListOf
    <2> QED BY <1>1, <2>1, <2>2 DEF ListInv
  <1>6. PlaceInv'
    <2>1. pc = "evict" => cur.key \in Keys
      BY DEF Inv, CallInv
    <2>2. pc = "evict" => dat'[cur.key] \in {None, cur.old}
      BY <1>1, <2>1 DEF PlaceInv
    <2> QED BY <1>2, <2>2 DEF PlaceInv
  <1>7. Accounting'
    <2> SUFFICES ASSUME ~drifted' PROVE total' = Bytes'
      BY DEF Accounting
    <2>1. total = Bytes
      BY DEF Accounting
    <2>2. CASE ok
      BY <1>1, <2>1, <2>2 DEF Less
    <2>3. CASE ~ok
      BY <1>1, <2>1, <2>3
    <2> QED BY <2>2, <2>3
  <1>8. IndexAgrees'
    <2>1. stuck' = IF ok THEN stuck \ {k} ELSE stuck \cup {k}
      BY DEF RemoveData
    <2> QED BY <1>1, <1>5, <2>1 DEF IndexAgrees
  <1> QED BY <1>4, <1>5, <1>6, <1>7, <1>8

(* The steps that remove files.                                            *)
LEMMA RemovalsSound ==
    ASSUME Inv, SoundInv,
           \/ \E ok \in BOOLEAN : EvictLru(ok)
           \/ \E k \in Keys, ok \in BOOLEAN : Expire(k, ok) \/ RemoveKey(k, ok)
    PROVE  SoundInv' /\ Bytes \in Nat /\ Bytes' \in Nat /\ Bytes' <= Bytes
  <1> USE DEF SoundInv
  <1>1. ASSUME NEW ok \in BOOLEAN, EvictLru(ok)
        PROVE  SoundInv' /\ Bytes \in Nat /\ Bytes' \in Nat /\ Bytes' <= Bytes
    <2> DEFINE k == Head(lru)
    <2>1. k \in Range(lru) /\ pc = "evict"
      BY <1>1 DEF EvictLru, ListInv, Lists, Range
    <2>2. k \in Files
      BY <2>1 DEF IndexAgrees
    <2>3. /\ RemoveData(k, ok) /\ pc' = "drop" /\ victim' = k /\ lru' = Without(lru, k)
          /\ UNCHANGED <<now, todo, life, cur>> /\ drifted' = drifted
          /\ total' = IF ok THEN Less(dat[k]) ELSE total
      BY <1>1 DEF EvictLru
    <2> HIDE DEF k
    <2>4. Removal(k, ok)
      BY <2>1, <2>3 DEF MemberTypes, Removal
    <2>5. SoundInv'
      BY <2>2, <2>4, RemovalSound
    <2> QED BY <2>2, <2>3, <2>5, RemovalFacts
  <1>2. ASSUME NEW k \in Keys, NEW ok \in BOOLEAN, Expire(k, ok)
        PROVE  SoundInv' /\ Bytes \in Nat /\ Bytes' \in Nat /\ Bytes' <= Bytes
    <2>1. /\ k \in Files /\ pc = "idle" /\ cur = NoEntry
          /\ RemoveData(k, ok) /\ pc' = "drop" /\ victim' = k /\ lru' = Without(lru, k)
          /\ UNCHANGED <<now, todo, life, cur>> /\ drifted' = (drifted \/ ~ok)
          /\ total' = Less(dat[k])
      BY <1>2 DEF Expire, PlaceInv
    <2>2. Removal(k, ok)
      BY <2>1 DEF MemberTypes, Removal
    <2>3. SoundInv'
      BY <2>1, <2>2, RemovalSound
    <2> QED BY <2>1, <2>3, RemovalFacts
  <1>3. ASSUME NEW k \in Keys, NEW ok \in BOOLEAN, RemoveKey(k, ok)
        PROVE  SoundInv' /\ Bytes \in Nat /\ Bytes' \in Nat /\ Bytes' <= Bytes
    <2>1. /\ pc = "idle" /\ cur = NoEntry
          /\ pc' = "drop" /\ victim' = k /\ lru' = Without(lru, k)
          /\ UNCHANGED <<now, todo, life, cur, drifted>>
      BY <1>3 DEF RemoveKey, PlaceInv
    <2>2. CASE k \in Files
      <3>1. RemoveData(k, ok) /\ total' = IF ok THEN Less(dat[k]) ELSE total
        BY <1>3, <2>2 DEF RemoveKey
      <3>2. Removal(k, ok)
        BY <2>1, <3>1 DEF MemberTypes, Removal
      <3>3. SoundInv'
        BY <2>2, <3>2, RemovalSound
      <3> QED BY <2>2, <3>1, <3>3, RemovalFacts
    <2>3. CASE k \notin Files
      <3>1. UNCHANGED <<dat, written, due, torn, stuck, total>>
        BY <1>3, <2>3 DEF RemoveKey
      <3>2. Files' = Files /\ Bytes' = Bytes /\ Bytes \in Nat
        BY <3>1, FilesArePresent, BytesAreVolume, BytesType
      <3>3. Lists(lru', Range(lru) \ {k}) /\ Range(lru) \ {k} = Range(lru)
        BY <2>1, <2>3, WithoutKey DEF ListInv, IndexAgrees
      <3>4. Range(lru') = Range(lru)
        BY <3>3 DEF Lists, IsListOf
      <3>5. MemberTypes' /\ PlaceInv'
        BY <2>1, <3>1 DEF MemberTypes, PlaceInv
      <3>6. ListInv' /\ Accounting' /\ IndexAgrees'
        BY <2>1, <3>1, <3>2, <3>3, <3>4 DEF ListInv, Accounting, IndexAgrees
      <3> QED BY <3>2, <3>5, <3>6
    <2> QED BY <2>2, <2>3
  <1> QED BY <1>1, <1>2, <1>3

(* The rest: hits, clear(), the end of the process and its restart.        *)
LEMMA OtherStepsSound ==
    ASSUME Inv, SoundInv,
           \/ \E k \in Keys : Hit(k)
           \/ \E D \in SUBSET Files, T \in SUBSET {k \in Keys : ttl[k] # None} :
                 Clear(D, T) \/ CrashInClear(D, T)
           \/ Crash \/ Restart \/ Tick \/ UNCHANGED vars
    PROVE  SoundInv' /\ Bytes \in Nat /\ Bytes' \in Nat /\ Bytes' <= Bytes
  <1> USE DEF SoundInv
  <1>0. Bytes \in Nat
    BY BytesType
  <1>1. ASSUME UNCHANGED <<dat, written>>
        PROVE  Files' = Files /\ Bytes' = Bytes /\ Lists(written', Files')
    BY <1>1, FilesArePresent, BytesAreVolume DEF ListInv
  <1>2. ASSUME NEW k \in Keys, Hit(k)
        PROVE  SoundInv' /\ Bytes' = Bytes
    <2>1. Lists(lru', Range(lru) \cup {k})
      BY <1>2, WithoutKey DEF Hit, ListInv, Touch
    <2>2. Range(lru') = Range(lru) \cup {k}
      BY <2>1 DEF Lists, IsListOf
    <2>3. Files' = Files /\ Bytes' = Bytes /\ Lists(written', Files')
      BY <1>1, <1>2 DEF Hit
    <2>4. MemberTypes' /\ PlaceInv'
      BY <1>2 DEF Hit, MemberTypes, PlaceInv
    <2>5. ListInv'
      BY <2>1, <2>2, <2>3 DEF ListInv
    <2>6. Accounting'
      BY <1>2, <2>3 DEF Hit, Accounting
    <2>7. IndexAgrees'
      BY <1>2, <2>2, <2>3 DEF Hit, IndexAgrees
    <2> QED BY <2>3, <2>4, <2>5, <2>6, <2>7
  <1>3. ASSUME NEW D \in SUBSET Files, NEW T, Wipe(D, T)
        PROVE  /\ Lists(written', Files') /\ Files' = D
               /\ Bytes' \in Nat /\ Bytes' <= Bytes
               /\ torn' \subseteq Keys
    <2>1. dat \in [Keys -> Nat \cup {None}] /\ IsFiniteSet(Present(dat)) /\ D \subseteq Keys
      BY BytesType DEF Files
    <2>2. dat' = [k \in Keys |-> IF k \in D THEN dat[k] ELSE None] /\ written' = Only(written, D)
      BY <1>3 DEF Wipe
    <2>3. Files' = D
      BY <2>1, <2>2 DEF Files
    <2>4. Lists(written', Files \cap D) /\ Files \cap D = D
      BY <2>2, KeptLists DEF ListInv
    <2>5. Bytes' \in Nat /\ Bytes' <= Bytes
      <3>1. Present(dat') \subseteq Present(dat) /\ \A k \in Present(dat') : dat'[k] = dat[k]
        BY <2>1, <2>2 DEF Present
      <3> DEFINE P == Present(dat')
                 f == dat
      <3>2. SumOver(dat', P) = SumOver(f, P)
        BY <3>1, SumOfSame
      <3>3. HasSizes(f, Present(dat)) /\ P \subseteq Present(dat)
        BY <2>1, <3>1, PresentSizes
      <3> HIDE DEF P, f
      <3>4. /\ SumOver(f, P) \in Nat /\ SumOver(f, Present(dat) \ P) \in Nat
            /\ SumOver(f, Present(dat)) = SumOver(f, Present(dat) \ P) + SumOver(f, P)
        BY <3>3, SumOfRest
      <3>5. Volume(dat') \in Nat /\ Volume(dat') <= Volume(dat)
        BY <3>2, <3>4 DEF Volume, P, f
      <3> QED BY <3>5, BytesAreVolume
    <2>6. torn' \subseteq Keys
      BY <1>3, <2>1 DEF Wipe
    <2> QED BY <2>3, <2>4, <2>5, <2>6
  <1>4. Lists(<<>>, {}) /\ Range(<<>>) = {}
    BY NothingListed DEF Lists, IsListOf
  <1>5. ASSUME Die, Lists(written', Files'), torn' \subseteq Keys
        PROVE  SoundInv'
    <2>1. MemberTypes'
      <3>1. DOMAIN Nothing = {} /\ Range(Nothing) = {}
        BY DEF Nothing, Range
      <3>2. NoEntry \in [key : Keys \cup {None}, size : Sizes \cup {0}, old : Sizes \cup {0}]
        BY DEF NoEntry
      <3> QED BY <1>5, <3>1, <3>2 DEF Die, MemberTypes
    <2>2. ListInv'
      BY <1>4, <1>5 DEF Die, ListInv
    <2>3. PlaceInv' /\ Accounting' /\ IndexAgrees'
      BY <1>5 DEF Die, PlaceInv, Accounting, IndexAgrees
    <2> QED BY <2>1, <2>2, <2>3
  <1>6. ASSUME NEW D \in SUBSET Files, NEW T \in SUBSET {k \in Keys : ttl[k] # None}, Clear(D, T)
        PROVE  SoundInv' /\ Bytes' \in Nat /\ Bytes' <= Bytes
    <2>1. /\ Lists(written', Files') /\ Files' = D
          /\ Bytes' \in Nat /\ Bytes' <= Bytes
          /\ torn' \subseteq Keys
      BY <1>3, <1>6 DEF Clear
    <2>2. /\ pc = "idle" /\ total' = 0 /\ lru' = <<>> /\ stuck' = D /\ drifted' = (D # {})
          /\ UNCHANGED <<now, pc, callVars>>
      BY <1>6 DEF Clear
    <2>3. D \subseteq Keys
      BY DEF Files
    <2>4. MemberTypes'
      BY <2>1, <2>2, <2>3 DEF MemberTypes
    <2>5. ListInv'
      BY <1>4, <2>1, <2>2 DEF ListInv
    <2>6. PlaceInv'
      BY <2>2 DEF PlaceInv
    <2>7. IndexAgrees'
      BY <1>4, <2>1, <2>2 DEF IndexAgrees
    <2>8. Accounting'
      <3> SUFFICES ASSUME D = {} PROVE Bytes' = 0
        BY <2>2 DEF Accounting
      <3>1. Present(dat') = {}
        BY <2>1, FilesArePresent
      <3> QED BY <3>1, SumOfNone, BytesAreVolume DEF Volume
    <2> QED BY <2>1, <2>4, <2>5, <2>6, <2>7, <2>8
  <1>7. ASSUME NEW D \in SUBSET Files, NEW T \in SUBSET {k \in Keys : ttl[k] # None}, CrashInClear(D, T)
        PROVE  SoundInv' /\ Bytes' \in Nat /\ Bytes' <= Bytes
    BY <1>3, <1>5, <1>7 DEF CrashInClear
  <1>8. CASE Crash
    <2>1. Die /\ UNCHANGED <<dat, written, torn>>
      BY <1>8 DEF Crash
    <2>2. torn' \subseteq Keys
      BY <2>1 DEF MemberTypes
    <2> QED BY <1>0, <1>1, <1>5, <2>1, <2>2
  <1>9. CASE Restart
    <2>1. /\ pc = "down" /\ pc' = "idle" /\ total' = Bytes /\ lru' = written
          /\ UNCHANGED <<diskVars, now, callVars, ghostVars>>
      BY <1>9 DEF Restart
    <2>2. Files' = Files /\ Bytes' = Bytes /\ Lists(written', Files')
      BY <1>1, <2>1
    <2>3. Lists(lru', Files') /\ Range(lru') = Files'
      BY <2>1, <2>2 DEF Lists, IsListOf
    <2>4. MemberTypes' /\ PlaceInv'
      BY <1>0, <2>1 DEF MemberTypes, PlaceInv
    <2>5. ListInv' /\ Accounting'
      BY <2>1, <2>2, <2>3 DEF ListInv, Accounting
    <2>6. IndexAgrees'
      BY <2>1, <2>3 DEF IndexAgrees, PlaceInv
    <2> QED BY <1>0, <2>2, <2>4, <2>5, <2>6
  <1>10. CASE Tick \/ UNCHANGED vars
    <2>1. UNCHANGED <<diskVars, memVars, pc, callVars, ghostVars>> /\ now' \in 0..MaxTime
      BY <1>10, DiskCacheAssumption DEF Tick, vars, MemberTypes
    <2>2. Files' = Files /\ Bytes' = Bytes /\ Lists(written', Files')
      BY <1>1, <2>1
    <2>3. MemberTypes' /\ PlaceInv'
      BY <2>1 DEF MemberTypes, PlaceInv
    <2>4. ListInv' /\ Accounting' /\ IndexAgrees'
      BY <2>1, <2>2 DEF ListInv, Accounting, IndexAgrees
    <2> QED BY <1>0, <2>2, <2>3, <2>4
  <1> QED BY <1>0, <1>2, <1>6, <1>7, <1>8, <1>9, <1>10

(* Only the rename of put() adds bytes, and only if there is room.         *)
Grows == Bytes' > Bytes /\ MaxBytes # 0 => drifted' \/ Bytes' <= MaxBytes

LEMMA SoundStep == Inv /\ SoundInv /\ [Next]_vars => SoundInv' /\ Grows
  <1> SUFFICES ASSUME Inv, SoundInv, [Next]_vars PROVE SoundInv' /\ Grows
    OBVIOUS
  <1>0. ASSUME dat' = dat PROVE Grows
    <2>1. Bytes' = Bytes /\ Bytes \in Nat
      BY <1>0, BytesAreVolume, BytesType DEF SoundInv
    <2> QED BY <2>1 DEF Grows
  <1>1. CASE \/ \E S \in (SUBSET Keys) \ {{}}, t \in TTLs :
                   \E entries \in [S -> Sizes] : PutMany(entries, t)
             \/ \E k \in Keys : Begin(k)
             \/ Refuse \/ PutFails \/ OpenTtl \/ OpenTtlFails
             \/ \E ok \in BOOLEAN : WriteNoTtl(ok) \/ WriteTtl(ok) \/ DropTtl(ok)
    <2>1. dat' = dat
      BY <1>1 DEF PutMany, Begin, Refuse, PutFails, OpenTtl, OpenTtlFails, WriteNoTtl, WriteTtl, DropTtl
    <2> QED BY <1>0, <1>1, <2>1, CallsSound
  <1>2. CASE Write
    BY <1>2, WriteFacts DEF Grows
  <1>3. CASE \/ \E ok \in BOOLEAN : EvictLru(ok)
             \/ \E k \in Keys, ok \in BOOLEAN : Expire(k, ok) \/ RemoveKey(k, ok)
    <2>1. SoundInv' /\ Bytes \in Nat /\ Bytes' \in Nat /\ Bytes' <= Bytes
      BY <1>3, RemovalsSound
    <2> QED BY <2>1 DEF Grows
  <1>4. CASE \/ \E k \in Keys : Hit(k)
             \/ \E D \in SUBSET Files, T \in SUBSET {k \in Keys : ttl[k] # None} :
                   Clear(D, T) \/ CrashInClear(D, T)
             \/ Crash \/ Restart \/ Tick \/ UNCHANGED vars
    <2>1. SoundInv' /\ Bytes \in Nat /\ Bytes' \in Nat /\ Bytes' <= Bytes
      BY <1>4, OtherStepsSound
    <2> QED BY <2>1 DEF Grows
  <1> QED BY <1>1, <1>2, <1>3, <1>4, DiskCacheAssumption DEF Next

(* totalBytes is the number of bytes on disk and the index lists exactly   *)
(* the files, each once, after any evictions, failed removals, crashes and *)
(* restarts; what failed removals and self-evictions leave behind is known *)
(* (disk_cache.cpp:103-170, 280-330).                                      *)
THEOREM FilesCorrect == Spec => []FilesSound
  <1>1. Inv /\ SoundInv => FilesSound
    <2> SUFFICES ASSUME Inv, SoundInv PROVE TypeOK
      BY DEF FilesSound, SoundInv
    <2>1. Range(written) = Files /\ Len(written) = Cardinality(Files)
      BY ListCounts DEF SoundInv, ListInv, Lists, IsListOf
    <2>2. Range(lru) \subseteq Keys /\ Len(lru) = Cardinality(Range(lru))
      <3>1. Len(lru) = Cardinality(Range(lru))
        BY ListCounts DEF SoundInv, ListInv, Lists
      <3>2. Range(lru) \subseteq Keys
        BY DEF SoundInv, ListInv, Lists, IsListOf, Range
      <3> QED BY <3>1, <3>2
    <2>3. /\ dat \in [Keys -> Sizes \cup {None}]
          /\ \A k \in Keys : ttl[k] \in {None, Garbage} \/ ttl[k] \in Nat
          /\ \A k \in Keys : due[k] = None \/ due[k] \in Nat
      BY DEF Inv, FileInv
    <2> QED BY <2>1, <2>2, <2>3 DEF SoundInv, MemberTypes, TypeOK
  <1>2. Spec => [](Inv /\ SoundInv)
    <2>1. Inv /\ SoundInv /\ [Next]_vars => (Inv /\ SoundInv)'
      BY InvStep, SoundStep
    <2> QED BY <2>1, InvInit, SoundInit, PTL DEF Spec
  <1> QED BY <1>1, <1>2, PTL

(* Data is added only within maxBytes, whatever came before, as long as    *)
(* totalBytes has not drifted: put() makes room before it renames          *)
(* (disk_cache.cpp:148-151, 285).                                          *)
THEOREM GrowthLimited == Spec => GrowsWithinLimit
  <1>1. Inv /\ SoundInv /\ [Next]_vars => [Grows]_vars
    BY SoundStep
  <1>2. Spec => [](Inv /\ SoundInv)
    <2>1. Inv /\ SoundInv /\ [Next]_vars => (Inv /\ SoundInv)'
      BY InvStep, SoundStep
    <2> QED BY <2>1, InvInit, SoundInit, PTL DEF Spec
  <1>3. [Grows]_vars <=> [Bytes' > Bytes /\ MaxBytes # 0 => drifted' \/ Bytes' <= MaxBytes]_vars
    BY DEF Grows
  <1> QED BY <1>1, <1>2, <1>3, PTL DEF Spec, GrowsWithinLimit
=============================================================================
