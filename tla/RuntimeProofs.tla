--------------------------- MODULE RuntimeProofs ---------------------------
(***************************************************************************)
(* Proofs about the run-time services, for any number of objects, plug-ins,*)
(* threads, signals and callbacks: what the container and the plug-in      *)
(* manager hand out is alive, and how a process ends.  Each part has an    *)
(* invariant of its own; the parts share no state, so that the invariant   *)
(* of the whole is their conjunction.  The event buses, the scheduler with *)
(* its cron search and the pool tasks follow in the same way, and so do    *)
(* collector, metrics, log files and spans, and the user interface.  For   *)
(* metrics and log files, what a recursive function computes is compared   *)
(* step by step with an explicit solution.                                 *)
(*                                                                         *)
(* The thread pool is last, for any number of clients, workers and tasks:  *)
(* types together with what a thread carries and the active count; the     *)
(* phases of init() and shutdown() together with the mutex; and from these *)
(* the two properties about tasks and wakeups.                             *)
(***************************************************************************)
EXTENDS MCRuntime, ThreadPool, SequenceTheorems, FiniteSetTheorems, TLAPS

-----------------------------------------------------------------------------
(* The container: an object has one owner at a time, and is alive there.   *)
Inst(k) == regs[k].inst
InScope(s, t) == scopes[s][t]
Lives(f, o) == o \in 1..Len(f) /\ f[o] = 0

RegRecord == [lifetime : {"none", "transient", "singleton", "scoped"}, inst : Nat, owned : BOOLEAN, lent : BOOLEAN]
FrameRecord == [key : DiKeys, lifetime : {"none", "transient", "singleton", "scoped"}, gone : BOOLEAN]

DiTypeOK ==
    /\ regs \in [DiKeys -> RegRecord] /\ resolved \in [Types -> Nat]
    /\ freed \in Seq(Nat) /\ made \in Seq({"none", "closure"}) /\ Len(made) = Len(freed)
    /\ frames \in Seq(FrameRecord)

ScopesOK ==
    /\ nextScope \in Nat \ {0} /\ DOMAIN scopes \subseteq 1..(nextScope - 1)
    /\ scopes = [s \in DOMAIN scopes |-> scopes[s]]
    /\ \A s \in DOMAIN scopes : scopes[s] \in [Types -> Nat]
    /\ scope \in DOMAIN scopes \cup {0}

ScopesApart ==
    \A s, r \in DOMAIN scopes : \A t, u \in Types :
        InScope(s, t) # 0 /\ InScope(s, t) = InScope(r, u) => s = r /\ t = u

OwnersInv ==
    /\ \A k, j \in DiKeys : Inst(k) # 0 /\ Inst(k) = Inst(j) => k = j
    /\ ScopesApart
    /\ \A k \in DiKeys, s \in DOMAIN scopes, t \in Types : Inst(k) # 0 => Inst(k) # InScope(s, t)
    /\ \A k \in DiKeys : Inst(k) \notin clients
    /\ \A s \in DOMAIN scopes, t \in Types : InScope(s, t) \notin clients

AliveInv ==
    /\ \A o \in 1..Len(freed) : freed[o] <= Deletions(o)
    /\ \A k \in DiKeys : Inst(k) # 0 => Lives(freed, Inst(k))
    /\ \A s \in DOMAIN scopes, t \in Types : InScope(s, t) # 0 => Lives(freed, InScope(s, t))
    /\ \A o \in clients : Lives(freed, o)

(* What a creator returned to a registration that was gone is nobody's.    *)
Loose(o) ==
    /\ Lives(freed, o) /\ o \notin clients
    /\ \A k \in DiKeys : Inst(k) # o
    /\ \A s \in DOMAIN scopes, t \in Types : InScope(s, t) # o

ResolvedInv ==
    \A t \in Types : resolved[t] = 0 \/ resolved[t] = Inst(<<t, NoName>>) \/ Loose(resolved[t])

DiInv == DiTypeOK /\ ScopesOK /\ OwnersInv /\ AliveInv /\ ResolvedInv

LEMMA AliveIsHeld == DiInv => HeldIsAlive
  <1> SUFFICES ASSUME DiInv PROVE HeldIsAlive
    OBVIOUS
  <1>1. DOMAIN freed = 1..Len(freed)
    BY DEF DiInv, DiTypeOK
  <1>2. \A o \in DOMAIN freed : freed[o] <= Deletions(o)
    BY <1>1 DEF DiInv, AliveInv
  <1>3. ASSUME NEW k \in DiKeys, regs[k].inst # 0 PROVE freed[regs[k].inst] = 0
    BY <1>3 DEF DiInv, AliveInv, Inst, Lives
  <1>4. ASSUME NEW s \in DOMAIN scopes, NEW t \in Types, scopes[s][t] # 0 PROVE freed[scopes[s][t]] = 0
    BY <1>4 DEF DiInv, AliveInv, InScope, Lives
  <1>5. ASSUME NEW t \in Types, resolved[t] # 0 PROVE freed[resolved[t]] = 0
    <2>1. <<t, NoName>> \in DiKeys
      BY DEF DiKeys
    <2> QED BY <1>3, <1>5, <2>1 DEF DiInv, ResolvedInv, Inst, Loose, Lives
  <1> QED BY <1>2, <1>3, <1>4, <1>5 DEF HeldIsAlive

LEMMA KeyParts ==
    ASSUME NEW k \in DiKeys
    PROVE  k[1] \in Types /\ k[2] \in Names \cup {NoName} /\ k = <<k[1], k[2]>>
  BY DEF DiKeys

LEMMA RegIs == NoReg \in RegRecord /\ NoReg.inst = 0
  BY DEF NoReg, RegRecord

(* The objects in S are freed, and what is still held was held before, in  *)
(* the same place, and is not among them.                                  *)
Kept(S) ==
    /\ \A k \in DiKeys : Inst(k)' = 0 \/ (Inst(k)' = Inst(k) /\ Inst(k) \notin S)
    /\ \A s \in DOMAIN scopes', t \in Types :
           InScope(s, t)' = 0 \/ (s \in DOMAIN scopes /\ InScope(s, t)' = InScope(s, t) /\ InScope(s, t) \notin S)
    /\ clients' \subseteq clients /\ \A o \in clients' : o \notin S

Frees(S) ==
    /\ Len(freed') = Len(freed)
    /\ \A o \in 1..Len(freed) : freed'[o] = IF o \in S THEN freed[o] + Deletions(o) ELSE freed[o]

LEMMA DeletionsAre == \A o : Deletions(o) \in {1, 2}
  BY DEF Deletions

(* Nothing loose is freed and nothing loose is taken up again.             *)
LEMMA LooseStays ==
    ASSUME DiInv, NEW S, \A o \in S : ~ Loose(o), Frees(S), Kept(S), NEW o, Loose(o)
    PROVE  Loose(o)'
  <1>1. Lives(freed, o) /\ o \notin S
    BY DEF Loose
  <1>2. Lives(freed', o) /\ o # 0
    BY <1>1 DEF Lives, Frees
  <1>3. DiKeys' = DiKeys
    BY DEF DiKeys
  <1>4. o \notin clients' /\ \A k \in DiKeys : Inst(k)' # o
    BY <1>2 DEF Loose, Kept
  <1>5. \A s \in DOMAIN scopes', t \in Types : InScope(s, t)' # o
    BY <1>2 DEF Loose, Kept
  <1> QED BY <1>2, <1>3, <1>4, <1>5 DEF Loose

LEMMA FreesOnce ==
    ASSUME DiInv, NEW S, \A o \in S : Lives(freed, o), Frees(S), Kept(S), UNCHANGED made
    PROVE  OwnersInv' /\ AliveInv'
  <1>0. OwnersInv /\ AliveInv
    BY DEF DiInv
  <1>t. Len(freed) \in Nat /\ \A o \in 1..Len(freed) : freed[o] \in Nat
    BY DEF DiInv, DiTypeOK
  <1>1. ASSUME NEW o, Lives(freed, o), o \notin S PROVE Lives(freed', o)
    BY <1>1 DEF Lives, Frees
  <1>n. ~ Lives(freed, 0)
    BY DEF Lives
  <1>z. 0 \notin clients
    BY <1>0, <1>n DEF AliveInv
  <1>2. OwnersInv'
    <2>1. \A k, j \in DiKeys : Inst(k)' # 0 /\ Inst(k)' = Inst(j)' => k = j
      BY <1>0 DEF OwnersInv, Kept
    <2>2. \A s, r \in DOMAIN scopes' : \A t, u \in Types :
             InScope(s, t)' # 0 /\ InScope(s, t)' = InScope(r, u)' => s = r /\ t = u
      <3>1. ScopesApart
        BY <1>0 DEF OwnersInv
      <3> QED BY <3>1 DEF ScopesApart, Kept
    <2>3. \A k \in DiKeys, s \in DOMAIN scopes', t \in Types : Inst(k)' # 0 => Inst(k)' # InScope(s, t)'
      BY <1>0 DEF OwnersInv, Kept
    <2>4. \A k \in DiKeys : Inst(k)' \notin clients'
      BY <1>0, <1>z DEF OwnersInv, Kept
    <2>5. \A s \in DOMAIN scopes', t \in Types : InScope(s, t)' \notin clients'
      BY <1>0, <1>z DEF OwnersInv, Kept
    <2>6. DiKeys' = DiKeys
      BY DEF DiKeys
    <2> QED BY <2>1, <2>2, <2>3, <2>4, <2>5, <2>6 DEF OwnersInv, ScopesApart
  <1>3. AliveInv'
    <2>1. \A o \in 1..Len(freed') : freed'[o] <= Deletions(o)'
      <3> SUFFICES ASSUME NEW o \in 1..Len(freed) PROVE freed'[o] <= Deletions(o)'
        BY DEF Frees
      <3>1. freed[o] <= Deletions(o) /\ (o \in S => freed[o] = 0) /\ Deletions(o)' = Deletions(o)
        BY <1>0 DEF AliveInv, Lives, Deletions
      <3> QED BY <1>t, <3>1, DeletionsAre DEF Frees
    <2>2. \A k \in DiKeys : Inst(k)' # 0 => Lives(freed', Inst(k)')
      BY <1>0, <1>1 DEF AliveInv, Kept
    <2>3. \A s \in DOMAIN scopes', t \in Types : InScope(s, t)' # 0 => Lives(freed', InScope(s, t)')
      BY <1>0, <1>1 DEF AliveInv, Kept
    <2>4. \A o \in clients' : Lives(freed', o)
      BY <1>0, <1>1 DEF AliveInv, Kept
    <2>6. DiKeys' = DiKeys
      BY DEF DiKeys
    <2> QED BY <2>1, <2>2, <2>3, <2>4, <2>6 DEF AliveInv
  <1> QED BY <1>2, <1>3

(* A new object gets its place; where, at most one of three.               *)
Placed(o, K, P, T, C) ==
    /\ \A k \in DiKeys : Inst(k)' = IF k \in K THEN o ELSE Inst(k)
    /\ DOMAIN scopes' = DOMAIN scopes
    /\ \A s \in DOMAIN scopes, t \in Types : InScope(s, t)' = IF s \in P /\ t \in T THEN o ELSE InScope(s, t)
    /\ clients' = clients \cup C /\ C \subseteq {o}
    /\ (K # {} => P = {} /\ C = {}) /\ (P # {} => C = {})
    /\ \A k, j \in K : k = j
    /\ \A p, q \in P : p = q
    /\ \A p, q \in T : p = q

LEMMA PlacesOnce ==
    ASSUME DiInv, NEW K, NEW P, NEW T, NEW C, Placed(Len(freed) + 1, K, P, T, C), freed' = Append(freed, 0),
           NEW w, made' = Append(made, w)
    PROVE  OwnersInv' /\ AliveInv' /\ \A l : Loose(l) => Loose(l)'
  <1> DEFINE o == Len(freed) + 1
  <1>0. OwnersInv /\ AliveInv
    BY DEF DiInv
  <1>t. Len(freed) \in Nat /\ freed \in Seq(Nat)
    BY DEF DiInv, DiTypeOK
  <1>f. Len(freed') = o /\ freed'[o] = 0 /\ \A p \in 1..Len(freed) : freed'[p] = freed[p]
    BY <1>t
  <1>n. ~ Lives(freed, o) /\ ~ Lives(freed, 0) /\ o # 0
    BY <1>t DEF Lives
  <1>l. Lives(freed', o) /\ \A p : Lives(freed, p) => Lives(freed', p)
    BY <1>f, <1>t DEF Lives
  <1>m. \A p \in 1..Len(freed) : made'[p] = made[p]
    BY DEF DiInv, DiTypeOK
  <1>p. Placed(o, K, P, T, C)
    OBVIOUS
  <1> HIDE DEF o
  <1>1. /\ \A k \in DiKeys : Inst(k) # o /\ (Inst(k) # 0 => Lives(freed, Inst(k)))
        /\ \A s \in DOMAIN scopes, t \in Types : InScope(s, t) # o /\ (InScope(s, t) # 0 => Lives(freed, InScope(s, t)))
        /\ o \notin clients /\ 0 \notin clients
    BY <1>0, <1>n DEF AliveInv
  <1>4. ScopesApart
    BY <1>0 DEF OwnersInv
  <1>2. OwnersInv'
    <2>1. ASSUME NEW k \in DiKeys, NEW j \in DiKeys, Inst(k)' # 0, Inst(k)' = Inst(j)' PROVE k = j
      <3>1. CASE k \in K
        BY <1>1, <1>p, <2>1, <3>1 DEF Placed
      <3>2. CASE k \notin K
        <4>1. Inst(k)' = Inst(k)
          BY <1>p, <3>2 DEF Placed
        <4>2. j \notin K
          BY <1>1, <1>p, <2>1, <4>1 DEF Placed
        <4>3. Inst(j)' = Inst(j)
          BY <1>p, <4>2 DEF Placed
        <4> QED BY <1>0, <2>1, <4>1, <4>3 DEF OwnersInv
      <3> QED BY <3>1, <3>2
    <2>2. ASSUME NEW s \in DOMAIN scopes, NEW r \in DOMAIN scopes, NEW t \in Types, NEW u \in Types,
                 InScope(s, t)' # 0, InScope(s, t)' = InScope(r, u)'
          PROVE  s = r /\ t = u
      <3>1. CASE s \in P /\ t \in T
        <4>1. InScope(s, t)' = o
          BY <1>p, <3>1 DEF Placed
        <4>2. r \in P /\ u \in T
          <5>1. (r \in P /\ u \in T) \/ InScope(r, u)' = InScope(r, u)
            BY <1>p DEF Placed
          <5>2. InScope(r, u) # o /\ InScope(r, u)' = o
            BY <1>1, <2>2, <4>1
          <5> QED BY <5>1, <5>2
        <4> QED BY <1>p, <3>1, <4>2 DEF Placed
      <3>2. CASE ~(s \in P /\ t \in T)
        <4>1. InScope(s, t)' = InScope(s, t)
          BY <1>p, <3>2 DEF Placed
        <4>2. ~(r \in P /\ u \in T)
          <5>1. r \in P /\ u \in T => InScope(r, u)' = o
            BY <1>p DEF Placed
          <5>2. InScope(s, t) # o
            BY <1>1
          <5> QED BY <2>2, <4>1, <5>1, <5>2
        <4>3. InScope(r, u)' = InScope(r, u)
          BY <1>p, <4>2 DEF Placed
        <4>4. InScope(s, t) # 0 /\ InScope(s, t) = InScope(r, u) => s = r /\ t = u
          BY <1>4 DEF ScopesApart
        <4> QED BY <2>2, <4>1, <4>3, <4>4
      <3> QED BY <3>1, <3>2
    <2>3. ASSUME NEW k \in DiKeys, NEW s \in DOMAIN scopes, NEW t \in Types, Inst(k)' # 0
          PROVE  Inst(k)' # InScope(s, t)'
      <3>1. CASE k \in K
        <4>1. Inst(k)' = o /\ s \notin P
          BY <1>p, <3>1 DEF Placed
        <4>2. InScope(s, t)' = InScope(s, t)
          BY <1>p, <4>1 DEF Placed
        <4> QED BY <1>1, <4>1, <4>2
      <3>2. CASE k \notin K
        <4>1. Inst(k)' = Inst(k)
          BY <1>p, <3>2 DEF Placed
        <4>2. InScope(s, t)' = o \/ InScope(s, t)' = InScope(s, t)
          BY <1>p DEF Placed
        <4> QED BY <1>0, <1>1, <2>3, <4>1, <4>2 DEF OwnersInv
      <3> QED BY <3>1, <3>2
    <2>4. \A k \in DiKeys : Inst(k)' \notin clients'
      BY <1>0, <1>1, <1>n, <1>p DEF OwnersInv, Placed
    <2>5. \A s \in DOMAIN scopes, t \in Types : InScope(s, t)' \notin clients'
      <3> SUFFICES ASSUME NEW s \in DOMAIN scopes, NEW t \in Types PROVE InScope(s, t)' \notin clients'
        OBVIOUS
      <3>1. CASE s \in P /\ t \in T
        BY <1>1, <1>p, <3>1 DEF Placed
      <3>2. CASE ~(s \in P /\ t \in T)
        <4>1. InScope(s, t)' = InScope(s, t) /\ clients' \subseteq clients \cup {o}
          BY <1>p, <3>2 DEF Placed
        <4> QED BY <1>0, <1>1, <4>1 DEF OwnersInv
      <3> QED BY <3>1, <3>2
    <2>6. DiKeys' = DiKeys /\ DOMAIN scopes' = DOMAIN scopes
      BY <1>p DEF DiKeys, Placed
    <2> QED BY <2>1, <2>2, <2>3, <2>4, <2>5, <2>6 DEF OwnersInv, ScopesApart
  <1>3. AliveInv'
    <2>1. \A p \in 1..Len(freed') : freed'[p] <= Deletions(p)'
      <3> SUFFICES ASSUME NEW p \in 1..Len(freed') PROVE freed'[p] <= Deletions(p)'
        OBVIOUS
      <3>1. p = o \/ p \in 1..Len(freed)
        BY <1>f, <1>t DEF o
      <3>2. p \in 1..Len(freed) => freed'[p] <= Deletions(p)'
        <4>1. p \in 1..Len(freed) => made'[p] = made[p]
          BY <1>m
        <4>2. p \in 1..Len(freed) => Deletions(p)' = Deletions(p)
          BY <4>1 DEF Deletions
        <4> QED BY <1>0, <1>f, <4>2 DEF AliveInv
      <3>3. 0 <= Deletions(p)'
        BY DEF Deletions
      <3> QED BY <1>f, <3>1, <3>2, <3>3
    <2>2. \A k \in DiKeys : Inst(k)' # 0 => Lives(freed', Inst(k)')
      BY <1>1, <1>l, <1>p DEF Placed
    <2>3. \A s \in DOMAIN scopes, t \in Types : InScope(s, t)' # 0 => Lives(freed', InScope(s, t)')
      BY <1>1, <1>l, <1>p DEF Placed
    <2>4. \A p \in clients' : Lives(freed', p)
      BY <1>0, <1>l, <1>p DEF AliveInv, Placed
    <2>6. DiKeys' = DiKeys /\ DOMAIN scopes' = DOMAIN scopes
      BY <1>p DEF DiKeys, Placed
    <2> QED BY <2>1, <2>2, <2>3, <2>4, <2>6 DEF AliveInv
  <1>5. ASSUME NEW l, Loose(l) PROVE Loose(l)'
    <2>1. Lives(freed', l) /\ l # o
      BY <1>5, <1>l, <1>n DEF Loose
    <2>2. l \notin clients' /\ \A k \in DiKeys : Inst(k)' # l
      BY <1>5, <1>p, <2>1 DEF Loose, Placed
    <2>3. \A s \in DOMAIN scopes, t \in Types : InScope(s, t)' # l
      BY <1>5, <1>p, <2>1 DEF Loose, Placed
    <2>4. DiKeys' = DiKeys /\ DOMAIN scopes' = DOMAIN scopes
      BY <1>p DEF DiKeys, Placed
    <2> QED BY <2>1, <2>2, <2>3, <2>4 DEF Loose
  <1> QED BY <1>2, <1>3, <1>5

LEMMA FreeIs ==
    ASSUME DiInv, NEW S, freed' = Free(S)
    PROVE  freed' \in Seq(Nat) /\ Frees(S)
  <1>1. freed \in Seq(Nat) /\ DOMAIN freed = 1..Len(freed) /\ Len(freed) \in Nat
    BY DEF DiInv, DiTypeOK
  <1>2. freed' = [o \in 1..Len(freed) |-> IF o \in S THEN freed[o] + Deletions(o) ELSE freed[o]]
    BY <1>1 DEF Free
  <1>3. freed' \in Seq(Nat) /\ Len(freed') = Len(freed)
    BY <1>1, <1>2, DeletionsAre
  <1> QED BY <1>2, <1>3 DEF Frees

LEMMA NothingFreed == ASSUME UNCHANGED freed PROVE Frees({})
  BY DEF Frees

(* What the container deletes is what it holds.                            *)
LEMMA OwnedLive ==
    ASSUME DiInv, NEW K \in SUBSET DiKeys
    PROVE  /\ \A o \in Owned(K) : o # 0 /\ Lives(freed, o) /\ ~ Loose(o) /\ \E k \in K : o = Inst(k)
           /\ \A k \in DiKeys \ K : Inst(k) \notin Owned(K)
           /\ \A s \in DOMAIN scopes, t \in Types : InScope(s, t) \notin Owned(K)
           /\ \A o \in clients : o \notin Owned(K)
  <1>1. \A o \in Owned(K) : o # 0 /\ \E k \in K : o = Inst(k)
    BY DEF Owned, Inst
  <1>2. OwnersInv /\ AliveInv
    BY DEF DiInv
  <1>3. \A o \in Owned(K) : Lives(freed, o)
    BY <1>1, <1>2 DEF AliveInv
  <1>4. \A k \in DiKeys \ K : Inst(k) \notin Owned(K)
    BY <1>1, <1>2 DEF OwnersInv
  <1>5. \A s \in DOMAIN scopes, t \in Types : InScope(s, t) \notin Owned(K)
    BY <1>1, <1>2 DEF OwnersInv
  <1>6. \A o \in clients : o \notin Owned(K)
    BY <1>1, <1>2 DEF OwnersInv
  <1>7. \A o \in Owned(K) : ~ Loose(o)
    BY <1>1 DEF Loose
  <1> QED BY <1>1, <1>3, <1>4, <1>5, <1>6, <1>7

LEMMA ScopedLive ==
    ASSUME DiInv, NEW S \in SUBSET (DOMAIN scopes)
    PROVE  /\ \A o \in ScopeObjects(S) : o # 0 /\ Lives(freed, o) /\ ~ Loose(o)
           /\ \A k \in DiKeys : Inst(k) \notin ScopeObjects(S)
           /\ \A s \in (DOMAIN scopes) \ S, t \in Types : InScope(s, t) \notin ScopeObjects(S)
           /\ \A o \in clients : o \notin ScopeObjects(S)
  <1>1. \A o \in ScopeObjects(S) : o # 0 /\ \E s \in S, t \in Types : o = InScope(s, t)
    BY DEF ScopeObjects, InScope
  <1>2. OwnersInv /\ AliveInv /\ ScopesApart
    BY DEF DiInv, OwnersInv
  <1>3. \A o \in ScopeObjects(S) : Lives(freed, o)
    BY <1>1, <1>2 DEF AliveInv
  <1>4. \A k \in DiKeys : Inst(k) \notin ScopeObjects(S)
    BY <1>1, <1>2 DEF OwnersInv
  <1>5. \A s \in (DOMAIN scopes) \ S, t \in Types : InScope(s, t) \notin ScopeObjects(S)
    BY <1>1, <1>2 DEF ScopesApart
  <1>6. \A o \in clients : o \notin ScopeObjects(S)
    BY <1>1, <1>2 DEF OwnersInv
  <1>7. \A o \in ScopeObjects(S) : ~ Loose(o)
    BY <1>1 DEF Loose
  <1> QED BY <1>1, <1>3, <1>4, <1>5, <1>6, <1>7

LEMMA DiStarts == DiInit => DiInv
  <1> SUFFICES ASSUME DiInit PROVE DiInv
    OBVIOUS
  <1>0. <<>> \in Seq(Nat) /\ <<>> \in Seq(FrameRecord) /\ <<>> \in Seq({"none", "closure"}) /\ Len(<<>>) = 0
    OBVIOUS
  <1>1. DiTypeOK
    BY <1>0, RegIs DEF DiInit, DiTypeOK
  <1>2. ScopesOK /\ DOMAIN scopes = {}
    BY DEF DiInit, ScopesOK
  <1>3. (\A k \in DiKeys : Inst(k) = 0) /\ clients = {} /\ Len(freed) = 0
    BY <1>0, RegIs DEF DiInit, Inst
  <1>4. OwnersInv
    BY <1>2, <1>3 DEF OwnersInv, ScopesApart
  <1>5. AliveInv
    BY <1>2, <1>3 DEF AliveInv
  <1>6. ResolvedInv
    BY DEF DiInit, ResolvedInv
  <1> QED BY <1>1, <1>2, <1>4, <1>5, <1>6 DEF DiInv

(* A registration without an instance takes an empty place.                *)
LEMMA BoundStays ==
    ASSUME DiInv, NEW k \in DiKeys, NEW n \in RegRecord, n.inst = 0, regs[k] = NoReg, regs' = [regs EXCEPT ![k] = n],
           UNCHANGED <<primary, resolved, scopes, scope, nextScope, made, freed, clients, frames>>
    PROVE  DiInv'
  <1>3. DiTypeOK /\ ScopesOK /\ ResolvedInv
    BY DEF DiInv
  <1>4. DiTypeOK'
    BY <1>3 DEF DiTypeOK, DiKeys
  <1>5. \A j \in DiKeys : Inst(j)' = Inst(j)
    BY <1>3, RegIs DEF DiTypeOK, Inst
  <1>6. Kept({})
    BY <1>5 DEF Kept, InScope
  <1>7. OwnersInv' /\ AliveInv'
    BY <1>6, NothingFreed, FreesOnce
  <1>8. ScopesOK'
    BY <1>3 DEF ScopesOK
  <1>9. ResolvedInv'
    <2>1. \A o : Loose(o) => Loose(o)'
      BY <1>6, NothingFreed, LooseStays
    <2> QED BY <1>3, <1>5, <2>1 DEF ResolvedInv, DiKeys
  <1> QED BY <1>4, <1>7, <1>8, <1>9 DEF DiInv

LEMMA BindStays == ASSUME DiInv, NEW k \in DiKeys, NEW l \in {"transient", "singleton", "scoped"}, Bind(k, l) PROVE DiInv'
  <1> DEFINE n == [lifetime |-> l, inst |-> 0, owned |-> TRUE, lent |-> FALSE]
  <1>1. /\ regs[k] = NoReg /\ regs' = [regs EXCEPT ![k] = n]
        /\ UNCHANGED <<primary, resolved, scopes, scope, nextScope, made, freed, clients, frames>>
    BY DEF Bind
  <1>2. n \in RegRecord /\ n.inst = 0
    BY DEF RegRecord
  <1> HIDE DEF n
  <1> QED BY <1>1, <1>2, BoundStays

LEMMA BindLentStays == ASSUME DiInv, NEW t \in Types, BindLent(t) PROVE DiInv'
  <1> DEFINE n == [lifetime |-> "singleton", inst |-> 0, owned |-> TRUE, lent |-> TRUE]
             k == <<t, NoName>>
  <1>0. k \in DiKeys
    BY DEF DiKeys
  <1>1. /\ regs[k] = NoReg /\ regs' = [regs EXCEPT ![k] = n]
        /\ UNCHANGED <<primary, resolved, scopes, scope, nextScope, made, freed, clients, frames>>
    BY DEF BindLent
  <1>2. n \in RegRecord /\ n.inst = 0
    BY DEF RegRecord
  <1> HIDE DEF n, k
  <1> QED BY <1>0, <1>1, <1>2, BoundStays
LEMMA BindInstanceStays == ASSUME DiInv, NEW t \in Types, BindInstance(t) PROVE DiInv'
  <1> DEFINE k == <<t, NoName>>
             o == Len(freed) + 1
             n == [lifetime |-> "singleton", inst |-> o, owned |-> FALSE, lent |-> FALSE]
  <1>0. k \in DiKeys
    BY DEF DiKeys
  <1>3. DiTypeOK /\ ScopesOK /\ ResolvedInv /\ Len(freed) \in Nat /\ o \in Nat /\ Len(made) = Len(freed)
    BY DEF DiInv, DiTypeOK
  <1>1. /\ regs[k] = NoReg /\ regs' = [regs EXCEPT ![k] = n] /\ made' = Append(made, "none") /\ freed' = Append(freed, 0)
        /\ UNCHANGED <<primary, resolved, scopes, scope, nextScope, clients, frames>>
    BY <1>3 DEF BindInstance
  <1>2. n \in RegRecord /\ n.inst = o
    BY <1>3 DEF RegRecord
  <1> HIDE DEF n, k
  <1>4. DiTypeOK'
    <2>1. regs' \in [DiKeys -> RegRecord]
      BY <1>1, <1>2, <1>3 DEF DiTypeOK
    <2>2. freed' \in Seq(Nat) /\ Len(freed') = Len(freed) + 1
      BY <1>1, <1>3 DEF DiTypeOK
    <2>3. made' \in Seq({"none", "closure"}) /\ Len(made') = Len(made) + 1
      BY <1>0, <1>1, <1>3 DEF DiTypeOK
    <2> QED BY <1>1, <1>3, <2>1, <2>2, <2>3 DEF DiTypeOK, FrameRecord, DiKeys
  <1>5. Inst(k) = 0 /\ Inst(k)' = o /\ \A j \in DiKeys \ {k} : Inst(j)' = Inst(j)
    BY <1>0, <1>1, <1>2, <1>3, RegIs DEF DiTypeOK, Inst
  <1>6. Placed(o, {k}, {}, {}, {})
    BY <1>1, <1>5 DEF Placed, InScope
  <1>7. OwnersInv' /\ AliveInv' /\ \A l : Loose(l) => Loose(l)'
    BY <1>1, <1>6, PlacesOnce
  <1>8. ScopesOK'
    BY <1>1, <1>3 DEF ScopesOK
  <1>9. ResolvedInv'
    <2> SUFFICES ASSUME NEW u \in Types
                 PROVE  resolved[u] = 0 \/ resolved[u] = Inst(<<u, NoName>>)' \/ Loose(resolved[u])'
      BY <1>1 DEF ResolvedInv
    <2>1. <<u, NoName>> \in DiKeys
      BY DEF DiKeys
    <2> QED BY <1>1, <1>3, <1>5, <1>7, <2>1 DEF ResolvedInv
  <1> QED BY <1>4, <1>7, <1>8, <1>9 DEF DiInv

(* Steps that leave owners and objects alone.                              *)
LEMMA FramesStay ==
    ASSUME DiInv, frames' \in Seq(FrameRecord), UNCHANGED <<regs, resolved, scopes, scope, nextScope, made, freed, clients>>
    PROVE  DiInv'
  <1>1. DiTypeOK' /\ ScopesOK'
    BY DEF DiInv, DiTypeOK, ScopesOK, DiKeys, FrameRecord
  <1>2. OwnersInv' /\ AliveInv'
    BY DEF DiInv, OwnersInv, AliveInv, ScopesApart, Inst, InScope, DiKeys, Deletions
  <1>3. ResolvedInv'
    BY DEF DiInv, ResolvedInv, Inst, Loose, InScope, DiKeys
  <1> QED BY <1>1, <1>2, <1>3 DEF DiInv

LEMMA FrontIs ==
    ASSUME NEW S, NEW q \in Seq(S), q # <<>>
    PROVE  Front(q) \in Seq(S) /\ Last(q) \in S
  BY DEF Front, Last

LEMMA ClientStays == ASSUME DiInv, NEW o, ClientDrops(o) PROVE DiInv'
  <1>1. /\ o \in clients /\ clients' = clients \ {o} /\ freed' = Free({o})
        /\ UNCHANGED <<regs, primary, resolved, scopes, scope, nextScope, made, frames>>
    BY DEF ClientDrops
  <1>2. freed' \in Seq(Nat) /\ Frees({o})
    BY <1>1, FreeIs
  <1>3. DiTypeOK /\ ScopesOK /\ ResolvedInv /\ OwnersInv /\ AliveInv
    BY DEF DiInv
  <1>4. Lives(freed, o)
    BY <1>1, <1>3 DEF AliveInv
  <1>5. Kept({o})
    BY <1>1, <1>3 DEF Kept, Inst, InScope, OwnersInv
  <1>6. OwnersInv' /\ AliveInv'
    BY <1>1, <1>2, <1>4, <1>5, FreesOnce
  <1>7. DiTypeOK' /\ ScopesOK'
    BY <1>1, <1>2, <1>3 DEF DiTypeOK, ScopesOK, DiKeys, Frees, FrameRecord
  <1>9. \A l : Loose(l) => Loose(l)'
    <2>1. ~ Loose(o)
      BY <1>1 DEF Loose
    <2> QED BY <1>2, <1>5, <2>1, LooseStays
  <1>8. ResolvedInv'
    BY <1>1, <1>3, <1>9 DEF ResolvedInv, Inst
  <1> QED BY <1>6, <1>7, <1>8 DEF DiInv

LEMMA CreateScopeStays == ASSUME DiInv, CreateScope PROVE DiInv'
  <1> DEFINE none == [t \in Types |-> 0]
  <1>1. /\ scopes' = [s \in DOMAIN scopes \cup {nextScope} |-> IF s = nextScope THEN none ELSE scopes[s]]
        /\ scope' = nextScope /\ nextScope' = nextScope + 1
        /\ UNCHANGED <<regs, primary, resolved, made, freed, clients, frames>>
    BY DEF CreateScope
  <1>2. none \in [Types -> Nat] /\ \A t \in Types : none[t] = 0
    OBVIOUS
  <1> HIDE DEF none
  <1>3. DiTypeOK /\ ScopesOK /\ ResolvedInv
    BY DEF DiInv
  <1>4. nextScope \notin DOMAIN scopes
    BY <1>3 DEF ScopesOK
  <1>5. ScopesOK'
    <2>1. DOMAIN scopes' = DOMAIN scopes \cup {nextScope} /\ scopes' = [s \in DOMAIN scopes' |-> scopes'[s]]
      BY <1>1
    <2>2. DOMAIN scopes' \subseteq 1..(nextScope' - 1) /\ nextScope' \in Nat \ {0}
      BY <1>1, <1>3, <2>1 DEF ScopesOK
    <2>3. \A s \in DOMAIN scopes' : scopes'[s] \in [Types -> Nat]
      BY <1>1, <1>2, <1>3, <2>1 DEF ScopesOK
    <2> QED BY <1>1, <2>1, <2>2, <2>3 DEF ScopesOK
  <1>6. Kept({})
    <2>1. \A s \in DOMAIN scopes', t \in Types :
             InScope(s, t)' = 0 \/ (s \in DOMAIN scopes /\ InScope(s, t)' = InScope(s, t))
      BY <1>1, <1>2 DEF InScope
    <2> QED BY <1>1, <2>1 DEF Kept, Inst
  <1>7. OwnersInv' /\ AliveInv' /\ \A l : Loose(l) => Loose(l)'
    BY <1>1, <1>6, NothingFreed, FreesOnce, LooseStays
  <1>8. DiTypeOK' /\ ResolvedInv'
    BY <1>1, <1>3, <1>7 DEF DiTypeOK, DiKeys, ResolvedInv, Inst, FrameRecord
  <1> QED BY <1>5, <1>7, <1>8 DEF DiInv

LEMMA DisposeStays == ASSUME DiInv, NEW s \in DOMAIN scopes, DisposeScope(s) PROVE DiInv'
  <1> DEFINE S == ScopeObjects({s})
  <1>1. /\ freed' = Free(S) /\ scopes' = [r \in DOMAIN scopes \ {s} |-> scopes[r]]
        /\ scope' = IF scope = s THEN 0 ELSE scope
        /\ UNCHANGED <<regs, primary, resolved, nextScope, made, clients, frames>>
    BY DEF DisposeScope
  <1>2. /\ \A o \in S : Lives(freed, o) /\ ~ Loose(o)
        /\ \A k \in DiKeys : Inst(k) \notin S
        /\ \A r \in (DOMAIN scopes) \ {s}, t \in Types : InScope(r, t) \notin S
        /\ \A o \in clients : o \notin S
    <2>1. {s} \in SUBSET (DOMAIN scopes)
      OBVIOUS
    <2> QED BY <2>1, ScopedLive
  <1> HIDE DEF S
  <1>3. DiTypeOK /\ ScopesOK /\ ResolvedInv
    BY DEF DiInv
  <1>4. freed' \in Seq(Nat) /\ Frees(S)
    BY <1>1, FreeIs
  <1>5. DOMAIN scopes' = (DOMAIN scopes) \ {s} /\ \A r \in (DOMAIN scopes) \ {s} : scopes'[r] = scopes[r]
    BY <1>1
  <1>6. Kept(S)
    BY <1>1, <1>2, <1>5 DEF Kept, Inst, InScope
  <1>7. OwnersInv' /\ AliveInv' /\ \A l : Loose(l) => Loose(l)'
    BY <1>1, <1>2, <1>4, <1>6, FreesOnce, LooseStays
  <1>8. DiTypeOK' /\ ResolvedInv'
    BY <1>1, <1>3, <1>4, <1>7 DEF DiTypeOK, DiKeys, Frees, ResolvedInv, Inst, FrameRecord
  <1>9. ScopesOK'
    <2>1. scopes' = [r \in DOMAIN scopes' |-> scopes'[r]] /\ \A r \in DOMAIN scopes' : scopes'[r] \in [Types -> Nat]
      BY <1>1, <1>3, <1>5 DEF ScopesOK
    <2>2. nextScope' = nextScope /\ DOMAIN scopes' \subseteq 1..(nextScope - 1) /\ nextScope \in Nat \ {0}
      BY <1>1, <1>3, <1>5 DEF ScopesOK
    <2>3. scope' \in DOMAIN scopes' \cup {0}
      BY <1>1, <1>3, <1>5 DEF ScopesOK
    <2> QED BY <2>1, <2>2, <2>3 DEF ScopesOK
  <1> QED BY <1>7, <1>8, <1>9 DEF DiInv

LEMMA OrphansTyped == ASSUME DiInv, NEW K PROVE Orphaned(K) \in Seq(FrameRecord)
  <1>1. frames \in Seq(FrameRecord) /\ DOMAIN frames = 1..Len(frames) /\ Len(frames) \in Nat
    BY DEF DiInv, DiTypeOK
  <1>2. ASSUME NEW f \in FrameRecord, NEW b \in BOOLEAN PROVE [f EXCEPT !.gone = b] \in FrameRecord
    BY DEF FrameRecord
  <1>3. \A i \in 1..Len(frames) :
            [frames[i] EXCEPT !.gone = frames[i].gone \/ frames[i].key \in K] \in FrameRecord
    <2> SUFFICES ASSUME NEW i \in 1..Len(frames)
                 PROVE  [frames[i] EXCEPT !.gone = frames[i].gone \/ frames[i].key \in K] \in FrameRecord
      OBVIOUS
    <2>1. frames[i] \in FrameRecord
      BY <1>1
    <2>2. (frames[i].gone \/ frames[i].key \in K) \in BOOLEAN
      OBVIOUS
    <2> QED BY <1>2, <2>1, <2>2
  <1> DEFINE g(i) == [frames[i] EXCEPT !.gone = frames[i].gone \/ frames[i].key \in K]
  <1>4. Orphaned(K) = [i \in 1..Len(frames) |-> g(i)] /\ \A i \in 1..Len(frames) : g(i) \in FrameRecord
    BY <1>1, <1>3 DEF Orphaned
  <1> HIDE DEF g
  <1> QED BY <1>1, <1>4

LEMMA UnregisterStays == ASSUME DiInv, NEW t \in Types, Unregister(t) PROVE DiInv'
  <1> DEFINE k == <<t, NoName>>
             S == Owned({k})
  <1>0. k \in DiKeys
    BY DEF DiKeys
  <1>1. /\ freed' = Free(S) /\ regs' = [regs EXCEPT ![k] = NoReg] /\ resolved' = [resolved EXCEPT ![t] = 0]
        /\ UNCHANGED <<primary, scopes, scope, nextScope, made, clients>>
    BY DEF Unregister
  <1>f. frames' \in Seq(FrameRecord)
    BY OrphansTyped DEF Unregister
  <1>2. /\ \A o \in S : Lives(freed, o) /\ ~ Loose(o)
        /\ \A j \in DiKeys \ {k} : Inst(j) \notin S
        /\ \A s \in DOMAIN scopes, u \in Types : InScope(s, u) \notin S
        /\ \A o \in clients : o \notin S
    <2>1. {k} \in SUBSET DiKeys
      BY <1>0
    <2> HIDE DEF k
    <2> QED BY <2>1, OwnedLive
  <1> HIDE DEF S
  <1>3. DiTypeOK /\ ScopesOK /\ ResolvedInv
    BY DEF DiInv
  <1>4. freed' \in Seq(Nat) /\ Frees(S)
    BY <1>1, FreeIs
  <1>5. \A u \in Types : u # t => <<u, NoName>> # k /\ <<u, NoName>> \in DiKeys
    BY DEF DiKeys
  <1>k. k = <<t, NoName>>
    OBVIOUS
  <1> HIDE DEF k
  <1>6. regs' \in [DiKeys -> RegRecord] /\ Inst(k)' = 0 /\ \A j \in DiKeys \ {k} : Inst(j)' = Inst(j)
    BY <1>0, <1>1, <1>3, RegIs DEF DiTypeOK, Inst
  <1>7. Kept(S)
    BY <1>1, <1>2, <1>6 DEF Kept, InScope
  <1>8. OwnersInv' /\ AliveInv' /\ \A l : Loose(l) => Loose(l)'
    BY <1>1, <1>2, <1>4, <1>7, FreesOnce, LooseStays
  <1>9. DiTypeOK' /\ ScopesOK'
    <2>1. resolved' \in [Types -> Nat]
      BY <1>1, <1>3 DEF DiTypeOK
    <2> QED BY <1>1, <1>3, <1>4, <1>6, <1>f, <2>1 DEF DiTypeOK, DiKeys, FrameRecord, Frees, ScopesOK
  <1>10. ResolvedInv'
    <2> SUFFICES ASSUME NEW u \in Types
                 PROVE  resolved'[u] = 0 \/ resolved'[u] = Inst(<<u, NoName>>)' \/ Loose(resolved[u])'
      BY DEF ResolvedInv
    <2>1. CASE u = t
      BY <1>1, <1>3, <2>1 DEF DiTypeOK
    <2>2. CASE u # t
      <3>1. resolved'[u] = resolved[u]
        BY <1>1, <1>3, <2>2 DEF DiTypeOK
      <3>2. Inst(<<u, NoName>>)' = Inst(<<u, NoName>>)
        BY <1>5, <1>6, <2>2
      <3> QED BY <1>3, <1>8, <3>1, <3>2 DEF ResolvedInv
    <2> QED BY <2>1, <2>2
  <1> QED BY <1>8, <1>9, <1>10 DEF DiInv

LEMMA ClearStays == ASSUME DiInv, ClearContainer PROVE DiInv'
  <1> DEFINE S == ScopeObjects(DOMAIN scopes) \cup Owned(DiKeys)
  <1>1. /\ freed' = Free(S) /\ regs' = [k \in DiKeys |-> NoReg] /\ resolved' = [t \in Types |-> 0]
        /\ scopes' = [s \in {} |-> 0] /\ scope' = 0
        /\ UNCHANGED <<nextScope, made, clients>>
    BY DEF ClearContainer
  <1>f. frames' \in Seq(FrameRecord)
    BY OrphansTyped DEF ClearContainer
  <1>2. (\A o \in S : Lives(freed, o)) /\ \A o \in clients : o \notin S
    <2>1. DOMAIN scopes \in SUBSET (DOMAIN scopes) /\ DiKeys \in SUBSET DiKeys
      OBVIOUS
    <2> QED BY <2>1, ScopedLive, OwnedLive
  <1> HIDE DEF S
  <1>3. DiTypeOK /\ ScopesOK
    BY DEF DiInv
  <1>4. freed' \in Seq(Nat) /\ Frees(S)
    BY <1>1, FreeIs
  <1>5. regs' \in [DiKeys -> RegRecord] /\ (\A k \in DiKeys : Inst(k)' = 0) /\ DOMAIN scopes' = {}
    BY <1>1, RegIs DEF Inst
  <1>6. Kept(S)
    BY <1>1, <1>2, <1>5 DEF Kept
  <1>7. OwnersInv' /\ AliveInv'
    BY <1>1, <1>2, <1>4, <1>6, FreesOnce
  <1>8. DiTypeOK'
    BY <1>1, <1>3, <1>4, <1>5, <1>f DEF DiTypeOK, DiKeys, FrameRecord, Frees
  <1>9. ScopesOK'
    BY <1>1, <1>3, <1>5 DEF ScopesOK
  <1>10. ResolvedInv'
    BY <1>1 DEF ResolvedInv
  <1> QED BY <1>7, <1>8, <1>9, <1>10 DEF DiInv

LEMMA ReturnsStays == ASSUME DiInv, CreatorReturns PROVE DiInv'
  <1> DEFINE f == Last(frames)
             k == f.key
             o == Len(freed) + 1
             single == f.lifetime = "singleton"
             inScope == f.lifetime = "scoped" /\ scope # 0
  <1>0. DiTypeOK /\ ScopesOK /\ ResolvedInv /\ Len(freed) \in Nat /\ o \in Nat /\ Len(made) = Len(freed)
    BY DEF DiInv, DiTypeOK
  <1> PICK written \in BOOLEAN :
        /\ frames # << >> /\ frames' = Front(frames)
        /\ made' = Append(made, "none") /\ freed' = Append(freed, 0)
        /\ single /\ ~ f.gone => written
        /\ written => single /\ regs[k] # NoReg
        /\ regs' = IF written THEN [regs EXCEPT ![k].inst = o] ELSE regs
        /\ resolved' = IF single /\ k[2] = NoName THEN [resolved EXCEPT ![k[1]] = o] ELSE resolved
        /\ scopes' = IF inScope THEN [scopes EXCEPT ![scope][k[1]] = o] ELSE scopes
        /\ clients' = IF single \/ inScope THEN clients ELSE clients \cup {o}
        /\ UNCHANGED <<primary, scope, nextScope>>
    BY <1>0 DEF CreatorReturns
  <1>1. /\ frames # << >> /\ frames' = Front(frames)
        /\ made' = Append(made, "none") /\ freed' = Append(freed, 0)
        /\ regs' = IF written THEN [regs EXCEPT ![k].inst = o] ELSE regs
        /\ resolved' = IF single /\ k[2] = NoName THEN [resolved EXCEPT ![k[1]] = o] ELSE resolved
        /\ scopes' = IF inScope THEN [scopes EXCEPT ![scope][k[1]] = o] ELSE scopes
        /\ clients' = IF single \/ inScope THEN clients ELSE clients \cup {o}
        /\ UNCHANGED <<primary, scope, nextScope>>
        /\ written => single
    OBVIOUS
  <1>2. k \in DiKeys /\ frames' \in Seq(FrameRecord)
    <2>1. f \in FrameRecord /\ frames' \in Seq(FrameRecord)
      BY <1>0, <1>1, FrontIs DEF DiTypeOK
    <2> HIDE DEF f
    <2> QED BY <2>1 DEF FrameRecord
  <1>3. k[1] \in Types /\ k = <<k[1], k[2]>>
    BY <1>2, KeyParts
  <1>x. single => ~ inScope
    OBVIOUS
  <1> HIDE DEF k, o, single, inScope
  <1>4. regs' \in [DiKeys -> RegRecord] /\ \A j \in DiKeys : Inst(j)' = IF written /\ j = k THEN o ELSE Inst(j)
    <2>1. CASE written
      <3> DEFINE n == [regs[k] EXCEPT !.inst = o]
      <3>1. regs[k] \in RegRecord
        BY <1>0, <1>2 DEF DiTypeOK
      <3>2. n \in RegRecord /\ n.inst = o
        BY <1>0, <3>1 DEF RegRecord
      <3>3. regs' = [regs EXCEPT ![k] = n]
        BY <1>1, <2>1
      <3> HIDE DEF n
      <3> QED BY <1>0, <1>2, <2>1, <3>2, <3>3 DEF DiTypeOK, Inst
    <2>2. CASE ~ written
      BY <1>0, <1>1, <2>2 DEF DiTypeOK, Inst
    <2> QED BY <2>1, <2>2
  <1>5. /\ ScopesOK' /\ DOMAIN scopes' = DOMAIN scopes
        /\ \A s \in DOMAIN scopes, t \in Types :
               InScope(s, t)' = IF inScope /\ s = scope /\ t = k[1] THEN o ELSE InScope(s, t)
    <2>1. CASE inScope
      <3> DEFINE n == [scopes[scope] EXCEPT ![k[1]] = o]
      <3>1. scope \in DOMAIN scopes
        BY <1>0, <2>1 DEF ScopesOK, inScope
      <3>2. scopes[scope] \in [Types -> Nat]
        BY <1>0, <3>1 DEF ScopesOK
      <3>3. n \in [Types -> Nat] /\ \A t \in Types : n[t] = IF t = k[1] THEN o ELSE scopes[scope][t]
        BY <1>0, <1>3, <3>2
      <3>4. scopes' = [scopes EXCEPT ![scope] = n]
        BY <1>1, <2>1
      <3> HIDE DEF n
      <3>5. /\ DOMAIN scopes' = DOMAIN scopes /\ scopes'[scope] = n
            /\ \A s \in DOMAIN scopes : s # scope => scopes'[s] = scopes[s]
            /\ scopes' = [s \in DOMAIN scopes' |-> scopes'[s]]
        BY <3>1, <3>4
      <3>6. \A s \in DOMAIN scopes, t \in Types :
               InScope(s, t)' = IF s = scope /\ t = k[1] THEN o ELSE InScope(s, t)
        BY <3>3, <3>5 DEF InScope
      <3>7. ScopesOK'
        <4>1. \A s \in DOMAIN scopes' : scopes'[s] \in [Types -> Nat]
          BY <1>0, <3>3, <3>5 DEF ScopesOK
        <4> QED BY <1>0, <1>1, <3>5, <4>1 DEF ScopesOK
      <3> QED BY <2>1, <3>5, <3>6, <3>7
    <2>2. CASE ~ inScope
      <3>1. UNCHANGED <<scopes, scope, nextScope>>
        BY <1>1, <2>2
      <3> QED BY <1>0, <2>2, <3>1 DEF ScopesOK, InScope
    <2> QED BY <2>1, <2>2
  <1>6. OwnersInv' /\ AliveInv' /\ \A l : Loose(l) => Loose(l)'
    <2>1. CASE single /\ written
      <3>1. Placed(o, {k}, {}, {}, {})
        BY <1>1, <1>4, <1>5, <1>x, <2>1 DEF Placed
      <3> QED BY <1>1, <3>1, PlacesOnce DEF o
    <2>4. CASE single /\ ~ written
      <3>1. Placed(o, {}, {}, {}, {})
        BY <1>1, <1>4, <1>5, <1>x, <2>4 DEF Placed
      <3> QED BY <1>1, <3>1, PlacesOnce DEF o
    <2>2. CASE inScope
      <3>1. Placed(o, {}, {scope}, {k[1]}, {})
        BY <1>1, <1>4, <1>5, <1>x, <2>2 DEF Placed
      <3> QED BY <1>1, <3>1, PlacesOnce DEF o
    <2>3. CASE ~ single /\ ~ inScope
      <3>1. Placed(o, {}, {}, {}, {o})
        BY <1>1, <1>4, <1>5, <2>3 DEF Placed
      <3> QED BY <1>1, <3>1, PlacesOnce DEF o
    <2> QED BY <2>1, <2>2, <2>3, <2>4
  <1>7. DiTypeOK'
    <2>1. freed' \in Seq(Nat) /\ Len(freed') = Len(freed) + 1
      BY <1>0, <1>1 DEF DiTypeOK
    <2>2. made' \in Seq({"none", "closure"}) /\ Len(made') = Len(made) + 1
      BY <1>0, <1>1, <1>2 DEF DiTypeOK
    <2>3. resolved' \in [Types -> Nat]
      BY <1>0, <1>1, <1>3 DEF DiTypeOK
    <2> QED BY <1>0, <1>2, <1>4, <2>1, <2>2, <2>3 DEF DiTypeOK, DiKeys, FrameRecord
  <1>9. ASSUME single, ~ written, NEW c, c = o PROVE Loose(c)'
    <2>1. DiKeys' = DiKeys /\ o # 0 /\ ~ Lives(freed, o) /\ Lives(freed', o)
      BY <1>0, <1>1 DEF DiKeys, Lives, o, DiTypeOK
    <2>2. AliveInv
      BY DEF DiInv
    <2>3. o \notin clients' /\ \A j \in DiKeys : Inst(j)' # o
      BY <1>1, <1>4, <1>9, <2>1, <2>2 DEF AliveInv
    <2>4. \A s \in DOMAIN scopes', t \in Types : InScope(s, t)' # o
      BY <1>5, <1>9, <1>x, <2>1, <2>2 DEF AliveInv
    <2> QED BY <1>9, <2>1, <2>3, <2>4 DEF Loose
  <1>8. ResolvedInv'
    <2> SUFFICES ASSUME NEW u \in Types
                 PROVE  resolved'[u] = 0 \/ resolved'[u] = Inst(<<u, NoName>>)' \/ Loose(resolved[u])'
      BY DEF ResolvedInv
    <2>1. <<u, NoName>> \in DiKeys
      BY DEF DiKeys
    <2>2. resolved[u] = 0 \/ resolved[u] = Inst(<<u, NoName>>) \/ Loose(resolved[u])
      BY <1>0 DEF ResolvedInv
    <2>3. CASE single /\ k = <<u, NoName>>
      <3>1. k[2] = NoName /\ k[1] = u
        BY <2>3
      <3>2. resolved'[u] = o
        BY <1>0, <1>1, <2>3, <3>1 DEF DiTypeOK
      <3>3. written => Inst(<<u, NoName>>)' = o
        BY <1>4, <2>1, <2>3
      <3>4. ASSUME ~ written PROVE Loose(resolved[u])'
        <4>1. PICK c : c = o
          OBVIOUS
        <4>2. Loose(c)'
          BY <1>9, <2>3, <3>4, <4>1
        <4> QED BY <3>2, <4>1, <4>2
      <3> QED BY <3>2, <3>3, <3>4
    <2>4. CASE ~(single /\ k = <<u, NoName>>)
      <3>1. Inst(<<u, NoName>>)' = Inst(<<u, NoName>>)
        BY <1>1, <1>4, <2>1, <2>4
      <3>2. ~(single /\ k[2] = NoName /\ k[1] = u)
        BY <1>3, <2>4
      <3>3. resolved'[u] = resolved[u]
        BY <1>0, <1>1, <3>2 DEF DiTypeOK
      <3> QED BY <1>6, <2>2, <3>1, <3>3
    <2> QED BY <2>3, <2>4
  <1> QED BY <1>5, <1>6, <1>7, <1>8 DEF DiInv

LEMMA LentStays == ASSUME DiInv, NEW t \in Types, ResolveLent(t) PROVE DiInv'
  <1> DEFINE k == <<t, NoName>>
             o == Len(freed) + 1
             n == [regs[k] EXCEPT !.inst = o]
  <1>0. k \in DiKeys /\ \A u \in Types : u # t => <<u, NoName>> # k /\ <<u, NoName>> \in DiKeys
    BY DEF DiKeys
  <1>3. DiTypeOK /\ ScopesOK /\ ResolvedInv /\ Len(freed) \in Nat /\ o \in Nat /\ Len(made) = Len(freed)
    BY DEF DiInv, DiTypeOK
  <1>1. /\ regs' = [regs EXCEPT ![k] = n] /\ made' = Append(made, "closure") /\ freed' = Append(freed, 0)
        /\ resolved' = [resolved EXCEPT ![t] = o]
        /\ UNCHANGED <<primary, scopes, scope, nextScope, clients, frames>>
    BY <1>3 DEF ResolveLent
  <1>2. n \in RegRecord /\ n.inst = o
    <2>1. regs[k] \in RegRecord
      BY <1>0, <1>3 DEF DiTypeOK
    <2> QED BY <1>3, <2>1 DEF RegRecord
  <1>k. k = <<t, NoName>>
    OBVIOUS
  <1> HIDE DEF n, k
  <1>4. DiTypeOK'
    <2>1. regs' \in [DiKeys -> RegRecord] /\ resolved' \in [Types -> Nat]
      BY <1>1, <1>2, <1>3 DEF DiTypeOK
    <2>2. freed' \in Seq(Nat) /\ Len(freed') = Len(freed) + 1
      BY <1>1, <1>3 DEF DiTypeOK
    <2>3. made' \in Seq({"none", "closure"}) /\ Len(made') = Len(made) + 1
      BY <1>1, <1>3 DEF DiTypeOK
    <2> QED BY <1>1, <1>3, <2>1, <2>2, <2>3 DEF DiTypeOK, FrameRecord, DiKeys
  <1>5. Inst(k)' = o /\ \A j \in DiKeys \ {k} : Inst(j)' = Inst(j)
    BY <1>0, <1>1, <1>2, <1>3 DEF DiTypeOK, Inst
  <1>6. Placed(o, {k}, {}, {}, {})
    BY <1>1, <1>5 DEF Placed, InScope
  <1>7. OwnersInv' /\ AliveInv' /\ \A l : Loose(l) => Loose(l)'
    BY <1>1, <1>6, PlacesOnce
  <1>8. ScopesOK'
    BY <1>1, <1>3 DEF ScopesOK
  <1>9. ResolvedInv'
    <2> SUFFICES ASSUME NEW u \in Types
                 PROVE  resolved'[u] = 0 \/ resolved'[u] = Inst(<<u, NoName>>)' \/ Loose(resolved[u])'
      BY DEF ResolvedInv
    <2>1. CASE u = t
      <3>1. resolved'[u] = o
        BY <1>1, <1>3, <2>1 DEF DiTypeOK
      <3> QED BY <1>5, <1>k, <2>1, <3>1
    <2>2. CASE u # t
      <3>1. resolved'[u] = resolved[u]
        BY <1>1, <1>3, <2>2 DEF DiTypeOK
      <3>2. Inst(<<u, NoName>>)' = Inst(<<u, NoName>>)
        BY <1>0, <1>5, <2>2
      <3> QED BY <1>3, <1>7, <3>1, <3>2 DEF ResolvedInv
    <2> QED BY <2>1, <2>2
  <1> QED BY <1>4, <1>7, <1>8, <1>9 DEF DiInv

(* A new process starts over.                                              *)
LEMMA LostStays == CreatorLost => DiInv'
  <1> SUFFICES ASSUME CreatorLost PROVE DiInv'
    OBVIOUS
  <1>0. <<>> \in Seq(Nat) /\ <<>> \in Seq(FrameRecord) /\ <<>> \in Seq({"none", "closure"}) /\ Len(<<>>) = 0
    OBVIOUS
  <1>k. DiKeys' = DiKeys
    BY DEF DiKeys
  <1>1. DiTypeOK'
    BY <1>0, <1>k, RegIs DEF CreatorLost, DiTypeOK, FrameRecord
  <1>2. ScopesOK' /\ DOMAIN scopes' = {}
    BY DEF CreatorLost, ScopesOK
  <1>3. (\A k \in DiKeys : Inst(k)' = 0) /\ clients' = {} /\ Len(freed') = 0
    BY <1>0, RegIs DEF CreatorLost, Inst
  <1>4. OwnersInv'
    BY <1>2, <1>3, <1>k DEF OwnersInv, ScopesApart
  <1>5. AliveInv'
    BY <1>2, <1>3, <1>k DEF AliveInv
  <1>6. ResolvedInv'
    BY DEF CreatorLost, ResolvedInv
  <1> QED BY <1>1, <1>2, <1>4, <1>5, <1>6 DEF DiInv

PrimaryOK == primary \in [Types -> Names \cup {NoName}]

LEMMA PrimaryStays == PrimaryOK /\ [DiNext]_diVars => PrimaryOK'
  BY DEF PrimaryOK, DiNext, diVars, Bind, BindInstance, BindLent, SetPrimary, ResolveKey, ResolveLent, Resolve,
         ResolveNamed, CreatorFails, CreatorLost, CreatorReturns, ClientDrops, CreateScope, DisposeScope, Unregister, ClearContainer

LEMMA DiStays == PrimaryOK /\ DiInv /\ [DiNext]_diVars => PrimaryOK' /\ DiInv'
  <1> SUFFICES ASSUME PrimaryOK, DiInv, [DiNext]_diVars PROVE DiInv'
    BY PrimaryStays
  <1>t. frames \in Seq(FrameRecord) /\ regs \in [DiKeys -> RegRecord]
    BY DEF DiInv, DiTypeOK
  <1>1. ASSUME NEW k \in DiKeys, NEW l \in {"transient", "singleton", "scoped"}, Bind(k, l) PROVE DiInv'
    BY <1>1, BindStays
  <1>2. ASSUME NEW t \in Types, BindInstance(t) \/ BindLent(t) \/ ResolveLent(t) \/ Unregister(t) PROVE DiInv'
    BY <1>2, BindInstanceStays, BindLentStays, LentStays, UnregisterStays
  <1>3. ASSUME NEW k \in DiKeys, ResolveKey(k) PROVE DiInv'
    <2> DEFINE f == [key |-> k, lifetime |-> regs[k].lifetime, gone |-> FALSE]
    <2>0. f \in FrameRecord
      BY <1>t DEF FrameRecord, RegRecord
    <2> HIDE DEF f
    <2>2. frames' = Append(frames, f)
      BY <1>3 DEF ResolveKey, f
    <2>1. frames' \in Seq(FrameRecord) /\ UNCHANGED <<regs, resolved, scopes, scope, nextScope, made, freed, clients>>
      BY <1>3, <1>t, <2>0, <2>2 DEF ResolveKey
    <2> QED BY <2>1, FramesStay
  <1>4. ASSUME NEW t \in Types, Resolve(t) PROVE DiInv'
    <2>1. Asked(t) \in DiKeys
      BY DEF Asked, DiKeys, PrimaryOK
    <2> QED BY <1>2, <1>3, <1>4, <2>1 DEF Resolve
  <1>5. ASSUME NEW t \in Types, NEW n \in Names, SetPrimary(t, n) \/ ResolveNamed(t, n) PROVE DiInv'
    <2>1. <<t, n>> \in DiKeys
      BY DEF DiKeys
    <2>2. CASE ResolveNamed(t, n)
      BY <1>3, <2>1, <2>2 DEF ResolveNamed
    <2>3. CASE SetPrimary(t, n)
      BY <1>t, <2>3, FramesStay DEF SetPrimary
    <2> QED BY <1>5, <2>2, <2>3
  <1>6. ASSUME CreatorReturns \/ CreatorLost \/ CreateScope \/ ClearContainer PROVE DiInv'
    BY <1>6, ReturnsStays, LostStays, CreateScopeStays, ClearStays
  <1>7. ASSUME CreatorFails PROVE DiInv'
    BY <1>7, <1>t, FrontIs, FramesStay DEF CreatorFails
  <1>8. ASSUME NEW o, ClientDrops(o) PROVE DiInv'
    BY <1>8, ClientStays
  <1>9. ASSUME NEW s \in DOMAIN scopes, DisposeScope(s) PROVE DiInv'
    BY <1>9, DisposeStays
  <1>10. CASE UNCHANGED diVars
    BY <1>10, <1>t, FramesStay DEF diVars
  <1> QED BY <1>1, <1>2, <1>4, <1>5, <1>6, <1>7, <1>8, <1>9, <1>10 DEF DiNext

-----------------------------------------------------------------------------
(* Plug-ins: a library has at most one registration, under its own id.     *)
IdOf(l) == LibraryOf[l].id
Registered(l) == plugins[IdOf(l)].path = l

Running(i) == plugins[i].initialized
Shuts(l) == LibraryOf[l].shuts
PluginRecord == [path : Libraries \cup {""}, initialized : BOOLEAN]
NewPlugin(l) == [path |-> l, initialized |-> FALSE]

PluginTypeOK ==
    /\ plugins \in [PluginIds -> PluginRecord]
    /\ opens \in [Libraries -> Nat] /\ live \in [Libraries -> Nat]

LibraryInv(l) ==
    /\ opens[l] = IF Registered(l) THEN 1 ELSE 0
    /\ live[l] > 0 => Registered(l)
    /\ Shuts(l) => live[l] = IF Registered(l) /\ Running(IdOf(l)) THEN 1 ELSE 0

RegistryInv ==
    \A i \in PluginIds : /\ plugins[i].path # "" => IdOf(plugins[i].path) = i
                         /\ Running(i) => plugins[i].path # ""

PluginInv == PluginTypeOK /\ RegistryInv /\ \A l \in Libraries : LibraryInv(l)

LEMMA IdsTyped == \A l \in Libraries : IdOf(l) \in PluginIds
  BY PluginAssumption DEF IdOf

LEMMA NewPluginIs == \A l \in Libraries : NewPlugin(l) \in PluginRecord /\ NewPlugin(l).path = l /\ NewPlugin(l).initialized = FALSE
  BY DEF NewPlugin, PluginRecord

LEMMA NothingIs == NoPlugin \in PluginRecord /\ NoPlugin.path = "" /\ NoPlugin.initialized = FALSE
  BY DEF NoPlugin, PluginRecord

LEMMA OneAtMost ==
    ASSUME NEW x, NEW T, T \subseteq {x}
    PROVE  Cardinality(T) = IF x \in T THEN 1 ELSE 0
  <1>1. CASE x \in T
    <2>1. T = {x}
      BY <1>1
    <2> QED BY <1>1, <2>1, FS_Singleton
  <1>2. CASE x \notin T
    <2>1. T = {}
      BY <1>2
    <2> QED BY <1>2, <2>1, FS_EmptySet
  <1> QED BY <1>1, <1>2

(* Of any plug-ins at most the one with its id is registered from l.       *)
LEMMA HoldersOf ==
    ASSUME PluginInv, NEW l \in Libraries, NEW S \in SUBSET PluginIds
    PROVE  \A i \in S : plugins[i].path = l => i = IdOf(l)
  <1> SUFFICES ASSUME NEW i \in S, plugins[i].path = l PROVE i = IdOf(l)
    OBVIOUS
  <1>1. l # ""
    BY PluginAssumption
  <1> QED BY <1>1 DEF PluginInv, RegistryInv

LEMMA LoadedIs == ASSUME PluginInv, NEW i \in PluginIds PROVE Loaded(i) <=> plugins[i].path # ""
  <1>1. plugins[i] \in PluginRecord
    BY DEF PluginInv, PluginTypeOK
  <1>2. Running(i) => plugins[i].path # ""
    BY DEF PluginInv, RegistryInv
  <1>3. ASSUME plugins[i].path = "" PROVE plugins[i] = NoPlugin
    <2>1. plugins[i] = [path |-> plugins[i].path, initialized |-> plugins[i].initialized]
      BY <1>1 DEF PluginRecord
    <2>2. plugins[i].initialized = FALSE
      BY <1>1, <1>2, <1>3 DEF PluginRecord, Running
    <2> QED BY <1>3, <2>1, <2>2, Zenon DEF NoPlugin
  <1> QED BY <1>3, NothingIs DEF Loaded

LEMMA PluginsStart == PluginInit => PluginInv
  <1> SUFFICES ASSUME PluginInit PROVE PluginInv
    OBVIOUS
  <1>1. PluginTypeOK /\ RegistryInv
    BY NothingIs DEF PluginInit, PluginTypeOK, RegistryInv, Running
  <1>2. ASSUME NEW l \in Libraries PROVE LibraryInv(l)
    <2>1. opens[l] = 0 /\ live[l] = 0
      BY DEF PluginInit
    <2>2. l # "" /\ plugins[IdOf(l)].path = ""
      BY PluginAssumption, IdsTyped, NothingIs DEF PluginInit
    <2>3. ~ Registered(l)
      BY <2>2 DEF Registered
    <2> QED BY <2>1, <2>3 DEF LibraryInv
  <1> QED BY <1>1, <1>2 DEF PluginInv

LEMMA BalanceHolds == PluginInv => OpensBalance
  <1> SUFFICES ASSUME PluginInv, NEW l \in Libraries
               PROVE  /\ opens[l] = Cardinality({i \in PluginIds : plugins[i].path = l})
                      /\ live[l] > 0 => opens[l] > 0
                      /\ LibraryOf[l].shuts =>
                             live[l] = Cardinality({i \in PluginIds : plugins[i].path = l /\ plugins[i].initialized})
    BY DEF OpensBalance
  <1> DEFINE A == {i \in PluginIds : plugins[i].path = l}
             B == {i \in PluginIds : plugins[i].path = l /\ plugins[i].initialized}
  <1>1. A \subseteq {IdOf(l)} /\ B \subseteq {IdOf(l)}
    BY HoldersOf
  <1>2. (IdOf(l) \in A <=> Registered(l)) /\ (IdOf(l) \in B <=> Registered(l) /\ Running(IdOf(l)))
    BY IdsTyped DEF Registered, Running
  <1>3. LibraryInv(l)
    BY DEF PluginInv
  <1> HIDE DEF A, B
  <1>4. Cardinality(A) = (IF IdOf(l) \in A THEN 1 ELSE 0) /\ Cardinality(B) = (IF IdOf(l) \in B THEN 1 ELSE 0)
    BY <1>1, OneAtMost
  <1>5. /\ opens[l] = Cardinality(A) /\ (live[l] > 0 => opens[l] > 0)
        /\ Shuts(l) => live[l] = Cardinality(B)
    BY <1>2, <1>3, <1>4 DEF LibraryInv
  <1> QED BY <1>5 DEF A, B, Shuts

LEMMA LoadStays == ASSUME PluginInv, NEW k \in Libraries, LoadPlugin(k) PROVE PluginInv'
  <1> DEFINE n == NewPlugin(k)
  <1>1. /\ ~ Loaded(IdOf(k)) /\ plugins' = [plugins EXCEPT ![IdOf(k)] = n]
        /\ opens' = [opens EXCEPT ![k] = @ + 1] /\ live' = live
    BY DEF LoadPlugin, IdOf, NewPlugin
  <1>2. PluginTypeOK /\ RegistryInv
    BY DEF PluginInv
  <1>3. IdOf(k) \in PluginIds /\ plugins[IdOf(k)].path = ""
    BY <1>1, IdsTyped, LoadedIs
  <1>4. n.path = k /\ n.initialized = FALSE /\ n \in PluginRecord
    BY NewPluginIs
  <1> HIDE DEF n
  <1>5. PluginTypeOK'
    <2>1. n \in PluginRecord
      BY <1>4
    <2>2. plugins' \in [PluginIds -> PluginRecord]
      BY <1>1, <1>2, <2>1 DEF PluginTypeOK
    <2>3. opens' \in [Libraries -> Nat] /\ live' \in [Libraries -> Nat]
      BY <1>1, <1>2 DEF PluginTypeOK
    <2> QED BY <2>2, <2>3 DEF PluginTypeOK
  <1>6. plugins'[IdOf(k)] = n /\ \A i \in PluginIds \ {IdOf(k)} : plugins'[i] = plugins[i]
    BY <1>1, <1>2, <1>3 DEF PluginTypeOK
  <1>7. RegistryInv'
    BY <1>2, <1>4, <1>6 DEF RegistryInv, IdOf, Running
  <1>8. ASSUME NEW l \in Libraries PROVE LibraryInv(l)'
    <2>0. LibraryInv(l) /\ IdOf(l) \in PluginIds /\ l # ""
      BY IdsTyped, PluginAssumption DEF PluginInv
    <2>t. opens[l] \in Nat /\ live[l] \in Nat
      BY <1>2 DEF PluginTypeOK
    <2>1. CASE l = k
      <3>1. ~ Registered(l)
        BY <1>3, <2>0, <2>1 DEF Registered
      <3>2. opens[l] = 0 /\ live[l] = 0
        <4>1. opens[l] = IF Registered(l) THEN 1 ELSE 0
          BY <2>0, Zenon DEF LibraryInv
        <4>2. live[l] > 0 => Registered(l)
          BY <2>0, Zenon DEF LibraryInv
        <4> QED BY <2>t, <3>1, <4>1, <4>2
      <3>3. opens'[l] = 1 /\ live'[l] = 0
        BY <1>1, <1>2, <2>1, <3>2 DEF PluginTypeOK
      <3>4. plugins'[IdOf(l)].path = l /\ ~ plugins'[IdOf(l)].initialized
        BY <1>4, <1>6, <2>1
      <3>5. Registered(l)' /\ ~ Running(IdOf(l))'
        BY <3>4 DEF Registered, Running, IdOf
      <3> QED BY <3>3, <3>5 DEF LibraryInv
    <2>2. CASE l # k
      <3>1. opens'[l] = opens[l] /\ live'[l] = live[l]
        BY <1>1, <1>2, <2>2 DEF PluginTypeOK
      <3>2. Registered(l)' <=> Registered(l)
        BY <1>3, <1>4, <1>6, <2>0, <2>2 DEF Registered, IdOf
      <3>3. Registered(l) => (Running(IdOf(l))' <=> Running(IdOf(l)))
        BY <1>3, <1>6, <2>0 DEF Registered, Running, IdOf
      <3>4. Shuts(l)' <=> Shuts(l)
        BY DEF Shuts
      <3> QED BY <2>0, <3>1, <3>2, <3>3, <3>4 DEF LibraryInv
    <2> QED BY <2>1, <2>2
  <1> QED BY <1>5, <1>7, <1>8 DEF PluginInv

LEMMA LoadAllStays == ASSUME PluginInv, NEW dir \in SUBSET Libraries, LoadAllPlugins(dir) PROVE PluginInv'
  <1> DEFINE good == {l \in dir \ Unopenable : LibraryOf[l].accepted /\ ~ Loaded(LibraryOf[l].id)}
  <1>1. PICK first \in SUBSET good :
            /\ \A k, l \in first : LibraryOf[k].id = LibraryOf[l].id => k = l
            /\ plugins' = [i \in PluginIds |->
                             IF \E l \in first : LibraryOf[l].id = i
                             THEN NewPlugin(CHOOSE l \in first : LibraryOf[l].id = i)
                             ELSE plugins[i]]
            /\ opens' = [l \in Libraries |-> IF l \in first THEN opens[l] + 1 ELSE opens[l]]
            /\ UNCHANGED <<live, lent>>
    BY DEF LoadAllPlugins, NewPlugin
  <1>2. PluginTypeOK /\ RegistryInv
    BY DEF PluginInv
  <1>3. first \subseteq Libraries /\ \A k \in first : IdOf(k) \in PluginIds /\ plugins[IdOf(k)].path = ""
    BY <1>1, IdsTyped, LoadedIs DEF IdOf
  <1> HIDE DEF good
  <1>4. ASSUME NEW k \in first PROVE plugins'[IdOf(k)] = NewPlugin(k)
    <2>1. (CHOOSE l \in first : LibraryOf[l].id = IdOf(k)) = k
      BY <1>1 DEF IdOf
    <2> QED BY <1>1, <1>3, <2>1 DEF IdOf
  <1>5. ASSUME NEW i \in PluginIds, \A k \in first : IdOf(k) # i PROVE plugins'[i] = plugins[i]
    BY <1>1, <1>5 DEF IdOf
  <1>6. ASSUME NEW i \in PluginIds
        PROVE  /\ plugins'[i] \in PluginRecord
               /\ plugins'[i].path # "" => IdOf(plugins'[i].path) = i
               /\ Running(i)' => plugins'[i].path # ""
    <2>1. CASE \E k \in first : IdOf(k) = i
      <3>1. PICK k \in first : IdOf(k) = i
        BY <2>1
      <3>2. plugins'[i] = NewPlugin(k) /\ k \in Libraries
        BY <1>3, <1>4, <3>1
      <3> QED BY <3>1, <3>2, NewPluginIs DEF Running
    <2>2. CASE \A k \in first : IdOf(k) # i
      <3>1. plugins'[i] = plugins[i]
        BY <1>5, <2>2
      <3>2. plugins[i] \in PluginRecord
        BY <1>2 DEF PluginTypeOK
      <3>3. (plugins[i].path # "" => IdOf(plugins[i].path) = i) /\ (Running(i) => plugins[i].path # "")
        BY <1>2 DEF RegistryInv
      <3>4. Running(i)' <=> Running(i)
        BY <3>1, Zenon DEF Running
      <3> QED BY <3>1, <3>2, <3>3, <3>4, Zenon
    <2> QED BY <2>1, <2>2
  <1>7. PluginTypeOK' /\ RegistryInv'
    <2>1. plugins' = [i \in PluginIds |-> plugins'[i]]
      BY <1>1
    <2>2. plugins' \in [PluginIds -> PluginRecord]
      BY <1>6, <2>1
    <2>3. opens' \in [Libraries -> Nat] /\ live' = live
      BY <1>1, <1>2 DEF PluginTypeOK
    <2>4. PluginTypeOK'
      BY <1>2, <2>2, <2>3 DEF PluginTypeOK
    <2>5. RegistryInv'
      BY <1>6 DEF RegistryInv, IdOf
    <2> QED BY <2>4, <2>5
  <1>8. ASSUME NEW l \in Libraries PROVE LibraryInv(l)'
    <2>0. LibraryInv(l) /\ IdOf(l) \in PluginIds /\ l # ""
      BY IdsTyped, PluginAssumption DEF PluginInv
    <2>t. opens[l] \in Nat /\ live[l] \in Nat
      BY <1>2 DEF PluginTypeOK
    <2>1. CASE l \in first
      <3>1. ~ Registered(l)
        BY <1>3, <2>0, <2>1 DEF Registered
      <3>2. opens[l] = 0 /\ live[l] = 0
        <4>1. opens[l] = IF Registered(l) THEN 1 ELSE 0
          BY <2>0, Zenon DEF LibraryInv
        <4>2. live[l] > 0 => Registered(l)
          BY <2>0, Zenon DEF LibraryInv
        <4> QED BY <2>t, <3>1, <4>1, <4>2
      <3>3. opens'[l] = 1 /\ live'[l] = 0
        BY <1>1, <2>1, <3>2
      <3>4. plugins'[IdOf(l)].path = l /\ ~ plugins'[IdOf(l)].initialized
        BY <1>3, <1>4, <2>1, NewPluginIs
      <3>5. Registered(l)' /\ ~ Running(IdOf(l))'
        BY <3>4 DEF Registered, Running, IdOf
      <3> QED BY <3>3, <3>5 DEF LibraryInv
    <2>2. CASE l \notin first
      <3>1. opens'[l] = opens[l] /\ live'[l] = live[l]
        BY <1>1, <2>2
      <3>2. CASE \E k \in first : IdOf(k) = IdOf(l)
        <4>1. PICK k \in first : IdOf(k) = IdOf(l)
          BY <3>2
        <4>2. plugins'[IdOf(l)].path = k /\ plugins[IdOf(l)].path = "" /\ k # l
          BY <1>3, <1>4, <2>2, <4>1, NewPluginIs
        <4>3. ~ Registered(l) /\ ~ Registered(l)'
          BY <2>0, <4>2 DEF Registered, IdOf
        <4>4. Shuts(l)' <=> Shuts(l)
          BY DEF Shuts
        <4> QED BY <2>0, <3>1, <4>3, <4>4 DEF LibraryInv
      <3>3. CASE \A k \in first : IdOf(k) # IdOf(l)
        <4>1. plugins'[IdOf(l)] = plugins[IdOf(l)]
          BY <1>5, <2>0, <3>3
        <4>2. /\ Registered(l)' <=> Registered(l)
              /\ Running(IdOf(l))' <=> Running(IdOf(l))
              /\ Shuts(l)' <=> Shuts(l)
          BY <4>1 DEF Registered, Running, IdOf, Shuts
        <4> QED BY <2>0, <3>1, <4>2 DEF LibraryInv
      <3> QED BY <3>2, <3>3
    <2> QED BY <2>1, <2>2
  <1> QED BY <1>7, <1>8 DEF PluginInv

LEMMA InitializedStays == ASSUME PluginInv, NEW S \in SUBSET PluginIds, Initialized(S) PROVE PluginInv'
  <1> DEFINE new == {i \in S : Loaded(i) /\ ~ plugins[i].initialized /\ LibraryOf[plugins[i].path].inits}
             of(l) == {i \in new : plugins[i].path = l}
  <1>1. /\ plugins' = [i \in PluginIds |-> IF i \in new THEN [plugins[i] EXCEPT !.initialized = TRUE]
                                           ELSE plugins[i]]
        /\ live' = [l \in Libraries |-> live[l] + Cardinality(of(l))]
        /\ UNCHANGED <<opens, lent>>
    BY DEF Initialized
  <1>2. PluginTypeOK /\ RegistryInv
    BY DEF PluginInv
  <1>3. new \subseteq PluginIds /\ \A i \in new : plugins[i].path # "" /\ ~ Running(i)
    <2>1. new \subseteq PluginIds /\ \A i \in new : Loaded(i)
      OBVIOUS
    <2>2. \A i \in new : ~ Running(i)
      BY Zenon DEF Running
    <2> HIDE DEF new
    <2> QED BY <2>1, <2>2, LoadedIs
  <1>4. \A l \in Libraries : of(l) \subseteq {IdOf(l)}
    BY <1>3, HoldersOf
  <1>5. \A l \in Libraries : IdOf(l) \in of(l) <=> IdOf(l) \in new /\ Registered(l)
    BY DEF Registered
  <1> HIDE DEF of
  <1>6. \A l \in Libraries : Cardinality(of(l)) = IF IdOf(l) \in new /\ Registered(l) THEN 1 ELSE 0
    BY <1>4, <1>5, OneAtMost
  <1> HIDE DEF new
  <1>7. ASSUME NEW i \in PluginIds
        PROVE  /\ plugins'[i] \in PluginRecord
               /\ plugins'[i].path = plugins[i].path
               /\ Running(i)' <=> i \in new \/ Running(i)
    <2>1. plugins[i] \in PluginRecord
      BY <1>2 DEF PluginTypeOK
    <2> QED BY <1>1, <2>1 DEF PluginRecord, Running
  <1>8. PluginTypeOK'
    <2>1. plugins' \in [PluginIds -> PluginRecord]
      BY <1>1, <1>7
    <2>2. live' \in [Libraries -> Nat]
      <3>1. \A l \in Libraries : live'[l] \in Nat
        BY <1>1, <1>2, <1>6 DEF PluginTypeOK
      <3> QED BY <1>1, <3>1
    <2> QED BY <1>1, <1>2, <2>1, <2>2 DEF PluginTypeOK
  <1>9. RegistryInv'
    BY <1>2, <1>3, <1>7 DEF RegistryInv, IdOf
  <1>10. ASSUME NEW l \in Libraries PROVE LibraryInv(l)'
    <2>0. LibraryInv(l) /\ IdOf(l) \in PluginIds /\ opens[l] \in Nat /\ live[l] \in Nat
      BY <1>2, IdsTyped DEF PluginInv, PluginTypeOK
    <2>1. opens'[l] = opens[l] /\ live'[l] = live[l] + IF IdOf(l) \in new /\ Registered(l) THEN 1 ELSE 0
      BY <1>1, <1>6
    <2>2. Registered(l)' <=> Registered(l)
      BY <1>7, <2>0 DEF Registered, IdOf
    <2>3. Running(IdOf(l))' <=> IdOf(l) \in new \/ Running(IdOf(l))
      BY <1>7, <2>0
    <2>4. (IdOf(l) \in new => ~ Running(IdOf(l))) /\ (Shuts(l)' <=> Shuts(l)) /\ IdOf(l)' = IdOf(l)
      BY <1>3 DEF Running, Shuts, IdOf
    <2> QED BY <2>0, <2>1, <2>2, <2>3, <2>4 DEF LibraryInv
  <1> QED BY <1>8, <1>9, <1>10 DEF PluginInv

(* How often pluginShutdown() is called in l.                              *)
LEMMA ShutCallsAre ==
    ASSUME PluginInv, NEW S \in SUBSET PluginIds, NEW l \in Libraries
    PROVE  /\ ShutCalls(S)[l] \in Nat
           /\ IdOf(l) \notin S \/ ~ Registered(l) => ShutCalls(S)[l] = live[l]
           /\ ShutCalls(S)[l] > 0 => live[l] > 0
           /\ Shuts(l) /\ IdOf(l) \in S /\ Registered(l) => ShutCalls(S)[l] = 0
  <1> DEFINE T == {i \in S : plugins[i].path = l /\ plugins[i].initialized /\ LibraryOf[l].shuts /\ live[l] > 0}
  <1>1. T \subseteq {IdOf(l)}
    BY HoldersOf
  <1>2. IdOf(l) \in T <=> /\ IdOf(l) \in S /\ Registered(l) /\ Running(IdOf(l))
                          /\ Shuts(l) /\ live[l] > 0
    BY DEF Registered, Running, Shuts
  <1>3. ShutCalls(S)[l] = live[l] - Cardinality(T)
    BY DEF ShutCalls
  <1> HIDE DEF T
  <1>4. Cardinality(T) = IF IdOf(l) \in T THEN 1 ELSE 0
    BY <1>1, OneAtMost
  <1>5. LibraryInv(l) /\ live[l] \in Nat
    BY DEF PluginInv, PluginTypeOK
  <1> HIDE DEF Registered
  <1> QED BY <1>2, <1>3, <1>4, <1>5 DEF LibraryInv

LEMMA ShutDownStays == ASSUME PluginInv, NEW S \in SUBSET PluginIds, ShutDown(S) PROVE PluginInv'
  <1>1. /\ live' = ShutCalls(S) /\ UNCHANGED <<opens, lent>>
        /\ plugins' = [i \in PluginIds |-> IF i \in S THEN [plugins[i] EXCEPT !.initialized = FALSE] ELSE plugins[i]]
    BY DEF ShutDown
  <1>2. PluginTypeOK /\ RegistryInv
    BY DEF PluginInv
  <1>3. ASSUME NEW i \in PluginIds
        PROVE  /\ plugins'[i] \in PluginRecord
               /\ plugins'[i].path = plugins[i].path
               /\ Running(i)' <=> i \notin S /\ Running(i)
    <2>1. plugins[i] \in PluginRecord
      BY <1>2 DEF PluginTypeOK
    <2> QED BY <1>1, <2>1 DEF PluginRecord, Running
  <1>4. PluginTypeOK'
    <2>1. plugins' \in [PluginIds -> PluginRecord]
      BY <1>1, <1>3
    <2>2. live' \in [Libraries -> Nat]
      <3>1. live' = [l \in Libraries |-> live'[l]]
        BY <1>1 DEF ShutCalls
      <3>2. \A l \in Libraries : live'[l] \in Nat
        BY <1>1, ShutCallsAre
      <3> QED BY <3>1, <3>2
    <2> QED BY <1>1, <1>2, <2>1, <2>2 DEF PluginTypeOK
  <1>5. RegistryInv'
    BY <1>2, <1>3 DEF RegistryInv, IdOf
  <1>6. ASSUME NEW l \in Libraries PROVE LibraryInv(l)'
    <2>0. LibraryInv(l) /\ IdOf(l) \in PluginIds
      BY IdsTyped DEF PluginInv
    <2>1. opens'[l] = opens[l] /\ live'[l] = ShutCalls(S)[l]
      BY <1>1
    <2>2. Registered(l)' <=> Registered(l)
      BY <1>3, <2>0 DEF Registered, IdOf
    <2>3. Running(IdOf(l))' <=> IdOf(l) \notin S /\ Running(IdOf(l))
      BY <1>3, <2>0
    <2>4. /\ IdOf(l) \notin S \/ ~ Registered(l) => live'[l] = live[l]
          /\ live'[l] > 0 => live[l] > 0
          /\ Shuts(l) /\ IdOf(l) \in S /\ Registered(l) => live'[l] = 0
      BY <2>1, ShutCallsAre
    <2>5. (Shuts(l)' <=> Shuts(l)) /\ IdOf(l)' = IdOf(l) /\ live[l] \in Nat
      BY <1>2 DEF Shuts, IdOf, PluginTypeOK
    <2> QED BY <2>0, <2>1, <2>2, <2>3, <2>4, <2>5 DEF LibraryInv
  <1> QED BY <1>4, <1>5, <1>6 DEF PluginInv

LEMMA DestroyedStays == ASSUME PluginInv, NEW S \in SUBSET PluginIds, Destroyed(S) PROVE PluginInv'
  <1> DEFINE closed(l) == Cardinality({i \in S : plugins[i].path = l})
  <1>1. /\ plugins' = [i \in PluginIds |-> IF i \in S THEN NoPlugin ELSE plugins[i]]
        /\ opens' = [l \in Libraries |-> opens[l] - closed(l)]
        /\ live' = [l \in Libraries |-> IF opens'[l] = 0 THEN 0 ELSE ShutCalls(S)[l]]
    BY DEF Destroyed
  <1>2. PluginTypeOK /\ RegistryInv
    BY DEF PluginInv
  <1>3. ASSUME NEW l \in Libraries PROVE closed(l) = IF IdOf(l) \in S /\ Registered(l) THEN 1 ELSE 0
    <2> DEFINE T == {i \in S : plugins[i].path = l}
    <2>1. T \subseteq {IdOf(l)}
      BY HoldersOf
    <2>2. IdOf(l) \in T <=> IdOf(l) \in S /\ Registered(l)
      BY DEF Registered
    <2> HIDE DEF T
    <2>3. Cardinality(T) = IF IdOf(l) \in T THEN 1 ELSE 0
      BY <2>1, OneAtMost
    <2> QED BY <2>2, <2>3 DEF T
  <1> HIDE DEF closed
  <1>4. ASSUME NEW i \in PluginIds
        PROVE  /\ plugins'[i] \in PluginRecord
               /\ i \in S => plugins'[i].path = "" /\ plugins'[i].initialized = FALSE
               /\ i \notin S => plugins'[i] = plugins[i]
    BY <1>1, <1>2, NothingIs DEF PluginTypeOK
  <1>5. ASSUME NEW l \in Libraries
        PROVE  /\ opens'[l] \in Nat /\ live'[l] \in Nat
               /\ LibraryInv(l)'
    <2>0. LibraryInv(l) /\ IdOf(l) \in PluginIds /\ l # ""
      BY IdsTyped, PluginAssumption DEF PluginInv
    <2>t. opens[l] \in Nat /\ live[l] \in Nat
      BY <1>2 DEF PluginTypeOK
    <2>1. /\ opens'[l] = opens[l] - (IF IdOf(l) \in S /\ Registered(l) THEN 1 ELSE 0)
          /\ live'[l] = IF opens'[l] = 0 THEN 0 ELSE ShutCalls(S)[l]
      BY <1>1, <1>3
    <2>2. Registered(l)' <=> Registered(l) /\ IdOf(l) \notin S
      BY <1>4, <2>0 DEF Registered, IdOf
    <2>3. CASE IdOf(l) \in S /\ Registered(l)
      <3>1. opens'[l] = 0 /\ live'[l] = 0
        <4>1. opens[l] = IF Registered(l) THEN 1 ELSE 0
          BY <2>0, Zenon DEF LibraryInv
        <4> QED BY <2>1, <2>3, <4>1
      <3> QED BY <2>2, <2>3, <3>1 DEF LibraryInv
    <2>4. CASE ~(IdOf(l) \in S /\ Registered(l))
      <3>1. opens'[l] = opens[l] /\ ShutCalls(S)[l] = live[l]
        <4>1. ShutCalls(S)[l] = live[l]
          BY <2>4, ShutCallsAre
        <4> QED BY <2>1, <2>4, <2>t, <4>1
      <3>2. live'[l] = live[l] /\ (Registered(l)' <=> Registered(l))
        <4>1. opens[l] = IF Registered(l) THEN 1 ELSE 0
          BY <2>0, Zenon DEF LibraryInv
        <4>2. live[l] > 0 => Registered(l)
          BY <2>0, Zenon DEF LibraryInv
        <4> QED BY <2>1, <2>2, <2>4, <2>t, <3>1, <4>1, <4>2
      <3>3. Registered(l) => (Running(IdOf(l))' <=> Running(IdOf(l)))
        BY <1>4, <2>0, <2>4 DEF Running, IdOf
      <3>4. Shuts(l)' <=> Shuts(l)
        BY DEF Shuts
      <3>5. LibraryInv(l)
        BY <2>0
      <3> QED BY <2>t, <3>1, <3>2, <3>3, <3>4, <3>5 DEF LibraryInv
    <2> QED BY <2>3, <2>4
  <1>6. PluginTypeOK'
    <2>1. plugins' \in [PluginIds -> PluginRecord]
      BY <1>1, <1>4
    <2>2. opens' = [l \in Libraries |-> opens'[l]] /\ live' = [l \in Libraries |-> live'[l]]
      BY <1>1
    <2>3. opens' \in [Libraries -> Nat] /\ live' \in [Libraries -> Nat]
      BY <1>5, <2>2
    <2> QED BY <2>1, <2>3 DEF PluginTypeOK
  <1>7. RegistryInv'
    BY <1>2, <1>4 DEF RegistryInv, IdOf, Running
  <1> QED BY <1>5, <1>6, <1>7 DEF PluginInv

LEMMA PluginsStay == PluginInv /\ [PluginNext]_pluginVars => PluginInv'
  <1> SUFFICES ASSUME PluginInv, [PluginNext]_pluginVars PROVE PluginInv'
    OBVIOUS
  <1>1. ASSUME NEW l \in Libraries, LoadPlugin(l) PROVE PluginInv'
    BY <1>1, LoadStays
  <1>2. ASSUME NEW dir \in SUBSET Libraries, LoadAllPlugins(dir) PROVE PluginInv'
    BY <1>2, LoadAllStays
  <1>3. ASSUME NEW i \in PluginIds, InitializePlugin(i) \/ ShutdownPlugin(i) \/ UnloadPlugin(i) PROVE PluginInv'
    <2>1. {i} \in SUBSET PluginIds
      OBVIOUS
    <2>2. Initialized({i}) \/ ShutDown({i}) \/ Destroyed({i})
      BY <1>3 DEF InitializePlugin, ShutdownPlugin, UnloadPlugin
    <2> QED BY <2>1, <2>2, InitializedStays, ShutDownStays, DestroyedStays
  <1>4. ASSUME InitializeAllPlugins \/ ShutdownAllPlugins \/ DestroyManager PROVE PluginInv'
    <2>1. PluginIds \in SUBSET PluginIds /\ {i \in PluginIds : Loaded(i)} \in SUBSET PluginIds
      OBVIOUS
    <2>2. Initialized(PluginIds) \/ ShutDown(PluginIds) \/ Destroyed({i \in PluginIds : Loaded(i)})
      BY <1>4 DEF InitializeAllPlugins, ShutdownAllPlugins, DestroyManager
    <2> QED BY <2>1, <2>2, InitializedStays, ShutDownStays, DestroyedStays
  <1>5. ASSUME (\E i \in PluginIds : GetPlugin(i)) \/ UNCHANGED pluginVars PROVE PluginInv'
    <2>1. UNCHANGED <<plugins, opens, live>>
      BY <1>5 DEF GetPlugin, pluginVars
    <2> QED BY <2>1 DEF PluginInv, PluginTypeOK, RegistryInv, LibraryInv, Registered, IdOf, Running, Shuts
  <1> QED BY <1>1, <1>2, <1>3, <1>4, <1>5 DEF PluginNext

-----------------------------------------------------------------------------
(* Application: the callbacks called so far are the first ones, in order.  *)
CountsTo(s, n) == s \in Seq(Nat) /\ Len(s) = n /\ \A i \in 1..n : s[i] = i

Phases == {"built", "starting", "running", "closing", "gone", "terminated"}

ApplicationInv ==
    /\ phase \in Phases /\ instance \in BOOLEAN /\ startups \in Nat /\ shutdowns \in Nat
    /\ index \in Nat \ {0}
    /\ phase \in {"built", "starting", "running"} => CountsTo(done, 0)
    /\ phase \in {"closing", "terminated"} => CountsTo(done, index - 1)
    /\ phase = "closing" => index <= shutdowns + 1
    /\ phase = "gone" => CountsTo(done, shutdowns)
    /\ instance <=> phase # "gone"

LEMMA CountIs == \A s, n : CountsTo(s, n) => s = [i \in 1..n |-> i]
  BY DEF CountsTo

LEMMA CountsOn ==
    ASSUME NEW s, NEW n \in Nat, CountsTo(s, n)
    PROVE  CountsTo(Append(s, n + 1), n + 1)
  BY DEF CountsTo

LEMMA ApplicationStarts == ApplicationInit => ApplicationInv
  BY DEF ApplicationInit, ApplicationInv, Phases, CountsTo

LEMMA ApplicationStays == ApplicationInv /\ [ApplicationNext]_applicationVars => ApplicationInv'
  <1> SUFFICES ASSUME ApplicationInv, [ApplicationNext]_applicationVars PROVE ApplicationInv'
    OBVIOUS
  <1> USE DEF ApplicationInv, Phases
  <1>1. ASSUME AddStartupCallback \/ AddShutdownCallback PROVE ApplicationInv'
    BY <1>1 DEF AddStartupCallback, AddShutdownCallback
  <1>2. ASSUME Run \/ Exec \/ \E ok \in BOOLEAN : StartupCallback(ok) \/ ExecReturns(ok) PROVE ApplicationInv'
    BY <1>2 DEF Run, Exec, StartupCallback, ExecReturns
  <1>3. ASSUME Destroy PROVE ApplicationInv'
    <2>1. index' = 1 /\ 1 - 1 = 0 /\ phase' = "closing" /\ UNCHANGED <<instance, startups, shutdowns, done>>
      BY <1>3 DEF Destroy
    <2>2. CountsTo(done, 0) /\ instance
      BY <1>3 DEF Destroy
    <2> QED BY <2>1, <2>2
  <1>4. ASSUME NEW threw \in {"nothing", "std", "other"}, ShutdownCallback(threw) PROVE ApplicationInv'
    <2>1. /\ phase = "closing" /\ index <= shutdowns /\ done' = Append(done, index) /\ index' = index + 1
          /\ phase' \in {"closing", "terminated"} /\ UNCHANGED <<instance, startups, shutdowns>>
      BY <1>4 DEF ShutdownCallback
    <2>2. CountsTo(Append(done, (index - 1) + 1), (index - 1) + 1)
      BY <2>1, CountsOn
    <2>3. (index - 1) + 1 = index /\ index' - 1 = index
      BY <2>1
    <2> QED BY <2>1, <2>2, <2>3
  <1>5. ASSUME Vanished PROVE ApplicationInv'
    <2>1. /\ phase = "closing" /\ index > shutdowns /\ phase' = "gone" /\ instance' = FALSE
          /\ UNCHANGED <<startups, shutdowns, index, done>>
      BY <1>5 DEF Vanished
    <2>2. index - 1 = shutdowns
      BY <2>1
    <2> QED BY <2>1, <2>2
  <1>6. CASE UNCHANGED applicationVars
    BY <1>6 DEF applicationVars
  <1> QED BY <1>1, <1>2, <1>3, <1>4, <1>5, <1>6 DEF ApplicationNext

LEMMA ApplicationEnds == ApplicationInv => ShutdownComplete
  BY CountIs DEF ApplicationInv, ShutdownComplete

-----------------------------------------------------------------------------
(* CrashHandler: a signal may still be reported once for every install()   *)
(* that has set it or is going to set it.                                  *)
HandlerRecord == [signal : Signals, at : {"report", "callback", "raised"}]

CrashTypeOK ==
    /\ installed \in BOOLEAN /\ setting \in Seq(Signals) /\ IsInjective(setting)
    /\ disposition \in [Signals -> {"default", "handler"}]
    /\ entered \in [Threads -> Seq(HandlerRecord)]
    /\ alive \in BOOLEAN /\ installs \in Nat
    /\ handled \in [Threads -> [Signals -> Nat]]

Active(stack, s) == \E i \in 1..Len(stack) : stack[i].signal = s /\ stack[i].at \in {"report", "callback"}

ToBeSet(s) == installed /\ s \in Range(setting)
Open(t, s) == disposition[s] = "handler" /\ ~ Active(entered[t], s)

StackInv ==
    \A t \in Threads :
        /\ \A i, j \in 1..Len(entered[t]) : entered[t][i].signal = entered[t][j].signal => i = j
        /\ \A i \in 1..Len(entered[t]) : handled[t][entered[t][i].signal] # 0
        /\ \A s \in Signals : alive /\ handled[t][s] # 0 => Len(entered[t]) # 0

SettingInv ==
    \A s \in Signals :
        /\ ToBeSet(s) => disposition[s] = "default"
        /\ s \notin Range(setting) /\ ~ installed => disposition[s] = "default"
        /\ s \notin Range(setting) /\ installed /\ (\A t \in Threads : handled[t][s] = 0)
              => disposition[s] = "handler"

CountedInv ==
    \A t \in Threads, s \in Signals :
        /\ handled[t][s] <= installs
        /\ ToBeSet(s) \/ Open(t, s) => handled[t][s] < installs

CrashInv == CrashTypeOK /\ StackInv /\ SettingInv /\ CountedInv

LEMMA CrashStarts == CrashInit => CrashInv
  <1> SUFFICES ASSUME CrashInit PROVE CrashInv
    OBVIOUS
  <1>1. setting = <<>> /\ setting \in Seq(Signals) /\ IsInjective(setting) /\ Range(setting) = {}
    BY DEF CrashInit, IsInjective, Range
  <1>2. CrashTypeOK
    <2>1. <<>> \in Seq(HandlerRecord)
      OBVIOUS
    <2> QED BY <1>1, <2>1 DEF CrashInit, CrashTypeOK
  <1>3. \A t \in Threads : Len(entered[t]) = 0 /\ 1..Len(entered[t]) = {} /\ \A s \in Signals : handled[t][s] = 0
    BY DEF CrashInit
  <1>4. ~ installed /\ installs = 0 /\ \A s \in Signals : disposition[s] = "default"
    BY DEF CrashInit
  <1>5. StackInv
    BY <1>3 DEF StackInv
  <1>6. SettingInv /\ CountedInv
    BY <1>1, <1>3, <1>4 DEF SettingInv, CountedInv, ToBeSet, Open
  <1> QED BY <1>2, <1>5, <1>6 DEF CrashInv

(* SetToSeq() lists the signals *)
LEMMA SignalsListed ==
    /\ SetToSeq(Signals) \in Seq(Signals) /\ IsInjective(SetToSeq(Signals))
    /\ Range(SetToSeq(Signals)) = Signals
  <1> DEFINE n == Cardinality(Signals)
             g == SetToSeq(Signals)
  <1>0. IsFiniteSet(Signals)
    BY ApplicationAssumption
  <1>1. n \in Nat /\ ExistsBijection(1..n, Signals)
    BY <1>0, FS_CardinalityType
  <1>2. PICK f : f \in Bijection(1..n, Signals)
    BY <1>1 DEF ExistsBijection
  <1>3. f \in [1..n -> Signals] /\ IsInjective(f)
    BY <1>2 DEF Bijection, Injection, IsInjective
  <1>4. g \in [1..n -> Signals] /\ IsInjective(g)
    <2>1. g = CHOOSE h \in [1..n -> Signals] : IsInjective(h)
      BY DEF SetToSeq
    <2> HIDE DEF g, n
    <2> QED BY <1>3, <2>1
  <1>5. g \in Injection(1..n, Signals)
    BY <1>4 DEF Injection, IsInjective
  <1>6. IsFiniteSet(1..n) /\ Cardinality(1..n) = n
    <2>1. 1 \in Int /\ n \in Int
      BY <1>1
    <2> HIDE DEF n
    <2>2. IsFiniteSet(1..n) /\ Cardinality(1..n) = IF 1 > n THEN 0 ELSE n - 1 + 1
      BY <2>1, FS_Interval
    <2> QED BY <1>1, <2>2
  <1> HIDE DEF g
  <1>7. g \in Surjection(1..n, Signals)
    BY <1>0, <1>5, <1>6, FS_Injection
  <1>8. Range(g) = Signals
    BY <1>4, <1>7 DEF Surjection, Range
  <1>9. g \in Seq(Signals)
    BY <1>1, <1>4
  <1> QED BY <1>4, <1>8, <1>9 DEF g

(* The innermost handler goes on; a handler is entered above others.       *)
WentOn(u, stack, a) ==
    /\ u \in Seq(HandlerRecord) /\ Len(u) = Len(stack)
    /\ \A i \in 1..Len(stack) : u[i].signal = stack[i].signal
    /\ \A i \in 1..Len(stack) : u[i].at = IF i = 1 THEN a ELSE stack[i].at
    /\ Head(stack) = stack[1] /\ 1 \in 1..Len(stack) /\ stack[1].signal \in Signals

Entered(u, stack, s) ==
    /\ u \in Seq(HandlerRecord) /\ Len(u) = Len(stack) + 1
    /\ u[1] = [signal |-> s, at |-> "report"]
    /\ \A i \in 2..Len(u) : i - 1 \in 1..Len(stack) /\ u[i] = stack[i - 1]

LEMMA TopGoesOn ==
    ASSUME NEW stack \in Seq(HandlerRecord), stack # <<>>, NEW a \in {"report", "callback", "raised"}
    PROVE  WentOn([stack EXCEPT ![1].at = a], stack, a)
  <1> DEFINE u == [stack EXCEPT ![1].at = a]
  <1>1. Len(stack) \in Nat /\ 1 \in 1..Len(stack) /\ stack[1] \in HandlerRecord /\ Head(stack) = stack[1]
    OBVIOUS
  <1> DEFINE r == [stack[1] EXCEPT !.at = a]
  <1>2. r \in HandlerRecord /\ r.signal = stack[1].signal /\ r.at = a
    BY <1>1 DEF HandlerRecord
  <1>3. u = [stack EXCEPT ![1] = r]
    OBVIOUS
  <1>5. stack[1].signal \in Signals
    BY <1>1 DEF HandlerRecord
  <1> HIDE DEF r, u
  <1>4. u \in Seq(HandlerRecord) /\ Len(u) = Len(stack) /\ \A i \in 1..Len(stack) : u[i] = IF i = 1 THEN r ELSE stack[i]
    BY <1>1, <1>2, <1>3
  <1>6. WentOn(u, stack, a)
    BY <1>1, <1>2, <1>4, <1>5 DEF WentOn
  <1> QED BY <1>6 DEF u

LEMMA OneMore ==
    ASSUME NEW stack \in Seq(HandlerRecord), NEW s \in Signals
    PROVE  Entered(<<[signal |-> s, at |-> "report"]>> \o stack, stack, s)
  <1> DEFINE u == <<[signal |-> s, at |-> "report"]>> \o stack
             r == [signal |-> s, at |-> "report"]
  <1>1. r \in HandlerRecord
    BY DEF HandlerRecord
  <1> HIDE DEF r
  <1>2. <<r>> \in Seq(HandlerRecord) /\ Len(<<r>>) = 1 /\ <<r>>[1] = r
    BY <1>1
  <1>3. u = <<r>> \o stack
    BY DEF r
  <1> HIDE DEF u
  <1>4. u \in Seq(HandlerRecord) /\ Len(u) = 1 + Len(stack) /\ Len(stack) \in Nat
    BY <1>2, <1>3
  <1>5. u[1] = r /\ \A i \in 2..Len(u) : u[i] = stack[i - 1]
    BY <1>2, <1>3, <1>4
  <1>6. Entered(u, stack, s)
    BY <1>4, <1>5 DEF r, Entered
  <1> QED BY <1>6 DEF u

LEMMA TheRest ==
    ASSUME NEW stack \in Seq(HandlerRecord), stack # <<>>
    PROVE  /\ Tail(stack) \in Seq(HandlerRecord) /\ Len(Tail(stack)) = Len(stack) - 1
           /\ \A i \in 1..Len(Tail(stack)) : i + 1 \in 1..Len(stack) /\ i + 1 # 1 /\ Tail(stack)[i] = stack[i + 1]
           /\ Head(stack) = stack[1] /\ 1 \in 1..Len(stack)
  OBVIOUS

(* The handler of s is entered in t above handlers of other signals.       *)
LEMMA Enters ==
    ASSUME CrashInv, NEW t \in Threads, NEW s \in Signals, NEW below \in Seq(HandlerRecord),
           \A i \in 1..Len(below) : below[i].signal # s /\ \E j \in 1..Len(entered[t]) : below[i].signal = entered[t][j].signal,
           \A i, j \in 1..Len(below) : below[i].signal = below[j].signal => i = j,
           \A r \in Signals \ {s} : Active(entered[t], r) => Active(below, r),
           disposition[s] = "handler", ~ Active(entered[t], s),
           Enter(t, s, below), UNCHANGED <<installed, setting, disposition, installs>>
    PROVE  CrashInv'
  <1> DEFINE u == <<[signal |-> s, at |-> "report"]>> \o below
  <1>0. CrashTypeOK /\ StackInv /\ SettingInv /\ CountedInv
    BY DEF CrashInv
  <1>1. /\ entered' = [entered EXCEPT ![t] = u] /\ handled' = [handled EXCEPT ![t][s] = @ + 1] /\ alive' = alive
    BY DEF Enter
  <1>2. /\ u \in Seq(HandlerRecord) /\ Len(u) = Len(below) + 1 /\ Len(below) \in Nat
        /\ u[1] = [signal |-> s, at |-> "report"]
        /\ \A i \in 2..Len(u) : i - 1 \in 1..Len(below) /\ u[i] = below[i - 1]
    <2>1. Entered(u, below, s)
      BY OneMore, Zenon
    <2> HIDE DEF u
    <2> QED BY <2>1 DEF Entered
  <1> HIDE DEF u
  <1>3. /\ entered \in [Threads -> Seq(HandlerRecord)] /\ handled \in [Threads -> [Signals -> Nat]]
        /\ installs \in Nat
    BY <1>0 DEF CrashTypeOK
  <1>4. /\ entered' \in [Threads -> Seq(HandlerRecord)] /\ entered'[t] = u
        /\ \A o \in Threads \ {t} : entered'[o] = entered[o]
    BY <1>1, <1>2, <1>3
  <1>5. /\ handled' \in [Threads -> [Signals -> Nat]] /\ handled'[t][s] = handled[t][s] + 1
        /\ \A r \in Signals \ {s} : handled'[t][r] = handled[t][r]
        /\ \A o \in Threads \ {t} : handled'[o] = handled[o]
    BY <1>1, <1>3
  <1>6. CrashTypeOK'
    BY <1>0, <1>1, <1>4, <1>5 DEF CrashTypeOK
  <1>7. StackInv'
    <2>1. ASSUME NEW i \in 1..Len(u), NEW j \in 1..Len(u), u[i].signal = u[j].signal PROVE i = j
      <3>1. \A k \in 1..Len(u) : k = 1 \/ k \in 2..Len(u)
        BY <1>2
      <3>2. \A k \in 2..Len(u) : u[k].signal # s
        BY <1>2
      <3>3. u[1].signal = s
        BY <1>2
      <3>4. CASE i \in 2..Len(u) /\ j \in 2..Len(u)
        <4>1. /\ i - 1 \in 1..Len(below) /\ u[i] = below[i - 1]
              /\ j - 1 \in 1..Len(below) /\ u[j] = below[j - 1]
          BY <1>2, <3>4
        <4>2. below[i - 1].signal = below[j - 1].signal
          BY <2>1, <4>1
        <4>3. i - 1 = j - 1
          BY <4>1, <4>2
        <4> QED BY <3>4, <4>3
      <3> QED BY <2>1, <3>1, <3>2, <3>3, <3>4
    <2>2. ASSUME NEW i \in 1..Len(u) PROVE handled'[t][u[i].signal] # 0
      <3>1. CASE i = 1
        <4>1. u[i].signal = s
          BY <1>2, <3>1
        <4>2. handled[t][s] \in Nat
          BY <1>3
        <4> QED BY <1>5, <4>1, <4>2
      <3>2. CASE i # 1
        <4>1. i \in 2..Len(u)
          BY <1>2, <3>2
        <4>a. i - 1 \in 1..Len(below) /\ u[i] = below[i - 1]
          BY <1>2, <4>1
        <4>2. PICK j \in 1..Len(entered[t]) : u[i].signal = entered[t][j].signal
          BY <4>a
        <4>3. u[i].signal # s /\ u[i].signal \in Signals
          <5>1. u[i] = below[i - 1] /\ i - 1 \in 1..Len(below)
            BY <1>2, <4>1
          <5>2. below[i - 1] \in HandlerRecord
            BY <5>1
          <5> QED BY <5>1, <5>2 DEF HandlerRecord
        <4>4. handled[t][u[i].signal] # 0
          BY <1>0, <4>2 DEF StackInv
        <4> QED BY <1>5, <4>3, <4>4
      <3> QED BY <3>1, <3>2
    <2>3. Len(u) # 0
      BY <1>2
    <2> QED BY <1>0, <1>1, <1>4, <1>5, <2>1, <2>2, <2>3 DEF StackInv
  <1>8. SettingInv'
    <2>1. \A r \in Signals : (\A o \in Threads : handled'[o][r] = 0) => \A o \in Threads : handled[o][r] = 0
      <3> SUFFICES ASSUME NEW r \in Signals, \A o \in Threads : handled'[o][r] = 0, NEW o \in Threads
                   PROVE  handled[o][r] = 0
        OBVIOUS
      <3>1. handled[t][s] + 1 # 0
        BY <1>3
      <3> QED BY <1>5, <3>1
    <2> QED BY <1>0, <1>1, <2>1 DEF SettingInv, ToBeSet
  <1>9. CountedInv'
    <2>1. handled[t][s] < installs /\ handled[t][s] \in Nat
      BY <1>0, <1>3 DEF CountedInv, Open
    <2>2. ~ ToBeSet(s)
      BY <1>0 DEF SettingInv
    <2>3. Active(u, s)
      <3>1. 1 \in 1..Len(u) /\ u[1].signal = s /\ u[1].at = "report"
        BY <1>2
      <3> QED BY <3>1 DEF Active
    <2>4. \A r \in Signals \ {s} : Active(entered[t], r) => Active(u, r)
      <3> SUFFICES ASSUME NEW r \in Signals \ {s}, Active(below, r) PROVE Active(u, r)
        OBVIOUS
      <3>1. PICK i \in 1..Len(below) : below[i].signal = r /\ below[i].at \in {"report", "callback"}
        BY DEF Active
      <3>2. i + 1 \in 2..Len(u) /\ i + 1 \in 1..Len(u) /\ (i + 1) - 1 = i
        BY <1>2
      <3>3. u[i + 1] = below[i]
        BY <1>2, <3>2
      <3> QED BY <3>1, <3>2, <3>3 DEF Active
    <2>5. ASSUME NEW o \in Threads, NEW r \in Signals
          PROVE  handled'[o][r] <= installs /\ (ToBeSet(r) \/ Open(o, r)' => handled'[o][r] < installs)
      <3>1. CASE o = t /\ r = s
        <4>1. ~ Open(t, s)'
          BY <1>4, <2>3 DEF Open
        <4> QED BY <1>3, <1>5, <2>1, <2>2, <3>1, <4>1
      <3>2. CASE o = t /\ r # s
        <4>1. Open(o, r)' => Open(o, r)
          BY <1>1, <1>4, <2>4, <3>2 DEF Open
        <4> QED BY <1>0, <1>5, <3>2, <4>1 DEF CountedInv
      <3>3. CASE o # t
        <4>1. Open(o, r)' => Open(o, r)
          BY <1>1, <1>4, <3>3 DEF Open
        <4> QED BY <1>0, <1>5, <3>3, <4>1 DEF CountedInv
      <3> QED BY <3>1, <3>2, <3>3
    <2>6. \A r : ToBeSet(r)' <=> ToBeSet(r)
      BY DEF ToBeSet
    <2> QED BY <1>1, <2>5, <2>6 DEF CountedInv
  <1> QED BY <1>6, <1>7, <1>8, <1>9 DEF CrashInv

(* The innermost handler of t goes on to a.                                *)
LEMMA GoesOn ==
    ASSUME CrashInv, NEW t \in Threads, entered[t] # <<>>, NEW a \in {"callback", "raised"},
           entered' = [entered EXCEPT ![t][1].at = a], UNCHANGED <<installed, setting, alive, installs, handled>>,
           a = "callback" => UNCHANGED disposition,
           a = "raised" => disposition' = [disposition EXCEPT ![Head(entered[t]).signal] = "default"]
    PROVE  CrashInv'
  <1> DEFINE stack == entered[t]
             u == [stack EXCEPT ![1].at = a]
             s == stack[1].signal
  <1>0. CrashTypeOK /\ StackInv /\ SettingInv /\ CountedInv
    BY DEF CrashInv
  <1>1. /\ entered \in [Threads -> Seq(HandlerRecord)] /\ stack \in Seq(HandlerRecord)
        /\ disposition \in [Signals -> {"default", "handler"}] /\ stack # <<>>
    BY <1>0 DEF CrashTypeOK
  <1>2. /\ u \in Seq(HandlerRecord) /\ Len(u) = Len(stack)
        /\ \A i \in 1..Len(stack) : u[i].signal = stack[i].signal
        /\ \A i \in 1..Len(stack) : u[i].at = IF i = 1 THEN a ELSE stack[i].at
        /\ Head(stack) = stack[1] /\ 1 \in 1..Len(stack) /\ s \in Signals
    <2>1. a \in {"report", "callback", "raised"}
      OBVIOUS
    <2> HIDE DEF stack
    <2>2. WentOn(u, stack, a)
      BY <1>1, <2>1, TopGoesOn, Zenon
    <2> HIDE DEF u
    <2> QED BY <2>2 DEF WentOn
  <1>3. entered' = [entered EXCEPT ![t] = u]
    OBVIOUS
  <1> HIDE DEF u
  <1>4. /\ entered' \in [Threads -> Seq(HandlerRecord)] /\ entered'[t] = u
        /\ \A o \in Threads \ {t} : entered'[o] = entered[o]
    BY <1>1, <1>2, <1>3
  <1>5. /\ disposition' \in [Signals -> {"default", "handler"}]
        /\ \A r \in Signals : disposition'[r] = disposition[r] \/ (a = "raised" /\ r = s /\ disposition'[r] = "default")
        /\ a = "raised" => disposition'[s] = "default"
    BY <1>1, <1>2
  <1>6. CrashTypeOK'
    BY <1>0, <1>4, <1>5 DEF CrashTypeOK
  <1>7. StackInv'
    BY <1>0, <1>2, <1>4 DEF StackInv
  <1>8. SettingInv'
    <2>1. handled[t][s] # 0
      BY <1>0, <1>2 DEF StackInv
    <2> QED BY <1>0, <1>5, <2>1 DEF SettingInv, ToBeSet
  <1>9. CountedInv'
    <2>1. ASSUME NEW o \in Threads, NEW r \in Signals, Open(o, r)' PROVE Open(o, r)
      <3>1. disposition[r] = "handler" /\ ~ Active(entered'[o], r) /\ ~(a = "raised" /\ r = s)
        BY <1>5, <2>1 DEF Open
      <3>2. CASE o # t
        BY <1>4, <3>1, <3>2 DEF Open
      <3>3. CASE o = t
        <4> SUFFICES ASSUME Active(stack, r) PROVE FALSE
          BY <3>1, <3>3 DEF Open
        <4>1. PICK i \in 1..Len(stack) : stack[i].signal = r /\ stack[i].at \in {"report", "callback"}
          BY DEF Active
        <4>2. u[i].signal = r /\ u[i].at \in {"report", "callback"}
          BY <1>2, <3>1, <4>1
        <4>3. Active(u, r)
          BY <1>2, <4>2 DEF Active
        <4> QED BY <1>4, <3>1, <3>3, <4>3
      <3> QED BY <3>2, <3>3
    <2>2. \A r : ToBeSet(r)' <=> ToBeSet(r)
      BY DEF ToBeSet
    <2> QED BY <1>0, <2>1, <2>2 DEF CountedInv
  <1> QED BY <1>6, <1>7, <1>8, <1>9 DEF CrashInv

LEMMA CrashStays == CrashInv /\ [CrashNext]_crashVars => CrashInv'
  <1> SUFFICES ASSUME CrashInv, [CrashNext]_crashVars PROVE CrashInv'
    OBVIOUS
  <1>0. CrashTypeOK /\ StackInv /\ SettingInv /\ CountedInv
    BY DEF CrashInv
  <1>t. /\ entered \in [Threads -> Seq(HandlerRecord)] /\ handled \in [Threads -> [Signals -> Nat]]
        /\ installs \in Nat /\ disposition \in [Signals -> {"default", "handler"}]
        /\ setting \in Seq(Signals) /\ IsInjective(setting)
    BY <1>0 DEF CrashTypeOK
  <1>s. UNCHANGED <<entered, handled>> /\ (alive' => alive) => StackInv'
    BY <1>0 DEF StackInv
  <1>1. CASE Install
    <2>1. /\ setting = <<>> /\ ~installed /\ installed' = TRUE /\ installs' = installs + 1
          /\ setting' = SetToSeq(Signals) /\ UNCHANGED <<disposition, entered, alive, handled>>
      BY <1>1 DEF Install
    <2>2. setting' \in Seq(Signals) /\ IsInjective(setting') /\ Range(setting') = Signals
      BY <2>1, SignalsListed
    <2>3. Range(setting) = {}
      BY <2>1 DEF Range
    <2>4. CrashTypeOK'
      BY <1>0, <2>1, <2>2 DEF CrashTypeOK
    <2>5. SettingInv'
      BY <1>0, <2>1, <2>2, <2>3 DEF SettingInv, ToBeSet
    <2>6. CountedInv'
      <3>1. \A o \in Threads, r \in Signals : handled[o][r] <= installs /\ handled[o][r] \in Nat
        BY <1>0, <1>t DEF CountedInv
      <3>2. \A o \in Threads, r \in Signals : handled[o][r] < installs + 1
        BY <1>t, <3>1
      <3>3. \A o \in Threads, r \in Signals : handled'[o][r] < installs' /\ handled'[o][r] <= installs'
        BY <1>t, <2>1, <3>1, <3>2
      <3> QED BY <3>3 DEF CountedInv
    <2> QED BY <1>s, <2>1, <2>4, <2>5, <2>6 DEF CrashInv
  <1>2. CASE Uninstall
    <2>1. /\ installed' = FALSE /\ setting' = SetToSeq(Signals) /\ UNCHANGED <<disposition, entered, alive, installs, handled>>
      BY <1>2 DEF Uninstall
    <2>2. setting' \in Seq(Signals) /\ IsInjective(setting') /\ Range(setting') = Signals
      BY <2>1, SignalsListed
    <2>4. CrashTypeOK'
      BY <1>0, <2>1, <2>2 DEF CrashTypeOK
    <2>5. SettingInv'
      BY <2>1, <2>2 DEF SettingInv, ToBeSet
    <2>6. CountedInv'
      BY <1>0, <2>1 DEF CountedInv, ToBeSet, Open
    <2> QED BY <1>s, <2>1, <2>4, <2>5, <2>6 DEF CrashInv
  <1>3. CASE SetSignal
    <2> DEFINE h == Head(setting)
    <2>1. /\ setting # <<>> /\ setting' = Tail(setting)
          /\ disposition' = [disposition EXCEPT ![h] = IF installed THEN "handler" ELSE "default"]
          /\ UNCHANGED <<installed, entered, alive, installs, handled>>
      BY <1>3 DEF SetSignal
    <2>2. /\ h \in Signals /\ h = setting[1] /\ setting' \in Seq(Signals) /\ Len(setting) \in Nat \ {0}
          /\ Len(setting') = Len(setting) - 1 /\ DOMAIN setting = 1..Len(setting) /\ DOMAIN setting' = 1..Len(setting')
          /\ \A i \in 1..Len(setting') : i + 1 \in 1..Len(setting) /\ i + 1 # 1 /\ setting'[i] = setting[i + 1]
      BY <1>t, <2>1
    <2> HIDE DEF h
    <2>3. \A i, j \in 1..Len(setting) : setting[i] = setting[j] => i = j
      BY <1>t, <2>2 DEF IsInjective
    <2>4. IsInjective(setting')
      <3> SUFFICES ASSUME NEW i \in 1..Len(setting'), NEW j \in 1..Len(setting'), setting'[i] = setting'[j] PROVE i = j
        BY <2>2 DEF IsInjective
      <3>1. i + 1 = j + 1
        BY <2>2, <2>3
      <3> QED BY <3>1
    <2>5. Range(setting') = Range(setting) \ {h}
      <3>1. 1 \in 1..Len(setting) /\ \A i \in 1..Len(setting) : i = 1 \/ (i - 1 \in 1..Len(setting') /\ (i - 1) + 1 = i)
        BY <2>2
      <3>2. h \notin Range(setting')
        BY <2>2, <2>3, <3>1 DEF Range
      <3>3. Range(setting') \subseteq Range(setting)
        BY <2>2 DEF Range
      <3>4. ASSUME NEW x \in Range(setting), x # h PROVE x \in Range(setting')
        <4>1. PICK i \in 1..Len(setting) : x = setting[i]
          BY <2>2 DEF Range
        <4>2. i # 1 /\ i - 1 \in 1..Len(setting') /\ (i - 1) + 1 = i
          BY <2>2, <3>1, <3>4, <4>1
        <4>3. x = setting'[i - 1]
          BY <2>2, <4>1, <4>2
        <4> QED BY <2>2, <4>2, <4>3 DEF Range
      <3> QED BY <3>2, <3>3, <3>4
    <2>6. h \in Range(setting)
      BY <2>2 DEF Range
    <2>7. /\ disposition' \in [Signals -> {"default", "handler"}]
          /\ disposition'[h] = (IF installed THEN "handler" ELSE "default")
          /\ \A r \in Signals \ {h} : disposition'[r] = disposition[r]
      BY <1>t, <2>1, <2>2
    <2>8. CrashTypeOK'
      BY <1>0, <2>1, <2>2, <2>4, <2>7 DEF CrashTypeOK
    <2>9. SettingInv'
      <3> SUFFICES ASSUME NEW r \in Signals
                   PROVE  /\ ToBeSet(r)' => disposition'[r] = "default"
                          /\ r \notin Range(setting') /\ ~ installed => disposition'[r] = "default"
                          /\ r \notin Range(setting') /\ installed /\ (\A t \in Threads : handled[t][r] = 0)
                                => disposition'[r] = "handler"
        BY <2>1 DEF SettingInv
      <3>1. CASE r = h
        BY <2>5, <2>7, <3>1 DEF ToBeSet
      <3>2. CASE r # h
        <4>1. r \in Range(setting') <=> r \in Range(setting)
          BY <2>5, <3>2
        <4> QED BY <1>0, <2>1, <2>7, <3>2, <4>1 DEF SettingInv, ToBeSet
      <3> QED BY <3>1, <3>2
    <2>10. CountedInv'
      <3>1. ASSUME NEW o \in Threads, NEW r \in Signals, ToBeSet(r)' \/ Open(o, r)' PROVE ToBeSet(r) \/ Open(o, r)
        <4>1. CASE r = h
          BY <2>1, <2>5, <2>6, <2>7, <3>1, <4>1 DEF ToBeSet, Open
        <4>2. CASE r # h
          BY <2>1, <2>5, <2>7, <3>1, <4>2 DEF ToBeSet, Open
        <4> QED BY <4>1, <4>2
      <3> QED BY <1>0, <2>1, <3>1 DEF CountedInv
    <2> QED BY <1>s, <2>1, <2>8, <2>9, <2>10 DEF CrashInv
  <1>d. ASSUME Die, UNCHANGED <<installed, setting, disposition, installs>> PROVE CrashInv'
    BY <1>0, <1>d DEF Die, CrashInv, CrashTypeOK, StackInv, SettingInv, CountedInv, ToBeSet, Open
  <1>4. ASSUME NEW t \in Threads, Report(t) PROVE CrashInv'
    <2>1. /\ entered[t] # <<>> /\ entered' = [entered EXCEPT ![t][1].at = "callback"]
          /\ UNCHANGED <<installed, setting, disposition, alive, installs, handled>>
      BY <1>4 DEF Report
    <2> QED BY <2>1, GoesOn
  <1>5. ASSUME NEW t \in Threads, Reset(t) PROVE CrashInv'
    <2>1. /\ entered[t] # <<>> /\ entered' = [entered EXCEPT ![t][1].at = "raised"]
          /\ disposition' = [disposition EXCEPT ![Head(entered[t]).signal] = "default"]
          /\ UNCHANGED <<installed, setting, alive, installs, handled>>
      BY <1>5 DEF Reset
    <2> QED BY <2>1, GoesOn
  <1>6. ASSUME NEW t \in Threads, Leave(t) PROVE CrashInv'
    <2> DEFINE stack == entered[t]
               s == Head(stack).signal
    <2>1. /\ stack # <<>> /\ Head(stack).at = "raised" /\ UNCHANGED <<installed, setting, disposition, installs>>
          /\ IF disposition[s] = "handler" THEN Enter(t, s, Tail(stack)) ELSE Die
      BY <1>6 DEF Leave
    <2>2. CASE disposition[s] # "handler"
      BY <1>d, <2>1, <2>2
    <2>3. CASE disposition[s] = "handler"
      <3>1. stack \in Seq(HandlerRecord)
        BY <1>t
      <3>2. /\ Tail(stack) \in Seq(HandlerRecord) /\ Len(Tail(stack)) = Len(stack) - 1
            /\ \A i \in 1..Len(Tail(stack)) : i + 1 \in 1..Len(stack) /\ i + 1 # 1 /\ Tail(stack)[i] = stack[i + 1]
            /\ Head(stack) = stack[1] /\ 1 \in 1..Len(stack)
        <4> HIDE DEF stack
        <4> QED BY <2>1, <3>1, TheRest
      <3>3. s \in Signals /\ s = stack[1].signal
        <4>1. stack[1] \in HandlerRecord
          BY <3>1, <3>2
        <4> QED BY <3>2, <4>1 DEF HandlerRecord
      <3>4. \A i, j \in 1..Len(stack) : stack[i].signal = stack[j].signal => i = j
        BY <1>0 DEF StackInv
      <3>5. \A i \in 1..Len(Tail(stack)) : Tail(stack)[i].signal # s /\ \E j \in 1..Len(stack) : Tail(stack)[i].signal = stack[j].signal
        BY <3>2, <3>3, <3>4
      <3>6. \A i, j \in 1..Len(Tail(stack)) : Tail(stack)[i].signal = Tail(stack)[j].signal => i = j
        <4> SUFFICES ASSUME NEW i \in 1..Len(Tail(stack)), NEW j \in 1..Len(Tail(stack)),
                            Tail(stack)[i].signal = Tail(stack)[j].signal
                     PROVE  i = j
          OBVIOUS
        <4>1. i + 1 = j + 1
          BY <3>2, <3>4
        <4> QED BY <4>1
      <3>7. \A r \in Signals \ {s} : Active(stack, r) => Active(Tail(stack), r)
        <4> SUFFICES ASSUME NEW r \in Signals \ {s}, Active(stack, r) PROVE Active(Tail(stack), r)
          OBVIOUS
        <4>1. PICK i \in 1..Len(stack) : stack[i].signal = r /\ stack[i].at \in {"report", "callback"}
          BY DEF Active
        <4>2. i # 1
          BY <3>3, <4>1
        <4>3. i - 1 \in 1..Len(Tail(stack)) /\ (i - 1) + 1 = i
          BY <3>1, <3>2, <4>2
        <4>4. Tail(stack)[i - 1] = stack[i]
          BY <3>2, <4>3
        <4> QED BY <4>1, <4>3, <4>4 DEF Active
      <3>8. ~ Active(stack, s)
        <4> SUFFICES ASSUME Active(stack, s) PROVE FALSE
          OBVIOUS
        <4>1. PICK i \in 1..Len(stack) : stack[i].signal = s /\ stack[i].at \in {"report", "callback"}
          BY DEF Active
        <4>2. i = 1
          BY <3>2, <3>3, <3>4, <4>1
        <4> QED BY <2>1, <3>2, <4>1, <4>2
      <3>9. Enter(t, s, Tail(stack))
        BY <2>1, <2>3
      <3> HIDE DEF s
      <3> QED BY <2>1, <2>3, <3>2, <3>3, <3>5, <3>6, <3>7, <3>8, <3>9, Enters
    <2> QED BY <2>2, <2>3
  <1>7. ASSUME NEW t \in Threads, NEW s \in Signals, Hit(t, s) PROVE CrashInv'
    <2>1. /\ UNCHANGED <<installed, setting, disposition, installs>>
          /\ IF disposition[s] = "handler" /\ ~Blocked(t, s) THEN Enter(t, s, entered[t]) ELSE Die
      BY <1>7 DEF Hit
    <2>2. CASE ~(disposition[s] = "handler" /\ ~Blocked(t, s))
      BY <1>d, <2>1, <2>2
    <2>3. CASE disposition[s] = "handler" /\ ~Blocked(t, s)
      <3> DEFINE stack == entered[t]
      <3>1. stack \in Seq(HandlerRecord) /\ DOMAIN stack = 1..Len(stack)
        BY <1>t
      <3>2. \A i \in 1..Len(stack) : stack[i].signal # s
        BY <2>3, <3>1 DEF Blocked
      <3>3. \A i, j \in 1..Len(stack) : stack[i].signal = stack[j].signal => i = j
        BY <1>0 DEF StackInv
      <3>4. ~ Active(stack, s)
        BY <3>2 DEF Active
      <3>5. Enter(t, s, stack)
        BY <2>1, <2>3
      <3> QED BY <2>1, <2>3, <3>1, <3>2, <3>3, <3>4, <3>5, Enters
    <2> QED BY <2>2, <2>3
  <1>8. CASE UNCHANGED crashVars
    BY <1>0, <1>8 DEF crashVars, CrashInv, CrashTypeOK, StackInv, SettingInv, CountedInv, ToBeSet, Open
  <1> QED BY <1>1, <1>2, <1>3, <1>4, <1>5, <1>6, <1>7, <1>8 DEF CrashNext

LEMMA CrashEnds == CrashInv => CrashIsFinal
  <1> SUFFICES ASSUME CrashInv PROVE CrashIsFinal
    OBVIOUS
  <1>0. CrashTypeOK /\ StackInv /\ SettingInv /\ CountedInv
    BY DEF CrashInv
  <1>1. ASSUME NEW t \in Threads, NEW s \in Signals
        PROVE  (alive /\ handled[t][s] > 0 => entered[t] # <<>>) /\ handled[t][s] <= installs
    <2>1. handled[t][s] <= installs /\ handled[t][s] \in Nat
      BY <1>0 DEF CountedInv, CrashTypeOK
    <2>2. ASSUME alive, handled[t][s] > 0 PROVE entered[t] # <<>>
      <3>1. Len(entered[t]) # 0
        BY <1>0, <2>1, <2>2 DEF StackInv
      <3> QED BY <3>1
    <2> QED BY <2>1, <2>2
  <1>2. ASSUME NEW s \in Signals, setting = <<>>, \A t \in Threads : handled[t][s] = 0
        PROVE  disposition[s] = (IF installed THEN "handler" ELSE "default")
    <2>1. s \notin Range(setting)
      BY <1>2 DEF Range
    <2> QED BY <1>0, <1>2, <2>1 DEF SettingInv
  <1> QED BY <1>1, <1>2 DEF CrashIsFinal

-----------------------------------------------------------------------------
(* The four owners side by side.                                           *)
LifetimesInv == PrimaryOK /\ DiInv /\ PluginInv /\ ApplicationInv /\ CrashInv

LEMMA LifetimesStart == RuntimeInit => LifetimesInv
  <1> SUFFICES ASSUME RuntimeInit PROVE LifetimesInv
    OBVIOUS
  <1>1. DiInit /\ PluginInit /\ ApplicationInit /\ CrashInit
    BY DEF RuntimeInit
  <1>2. PrimaryOK
    BY <1>1 DEF DiInit, PrimaryOK
  <1> QED BY <1>1, <1>2, DiStarts, PluginsStart, ApplicationStarts, CrashStarts DEF LifetimesInv

(* A step of the whole is a step of at most one of the parts.              *)
LEMMA LifetimesStep ==
    ASSUME [RuntimeNext]_runtimeVars
    PROVE  /\ [DiNext]_diVars /\ [PluginNext]_pluginVars
           /\ [ApplicationNext]_applicationVars /\ [CrashNext]_crashVars
  <1>1. CASE UNCHANGED runtimeVars
    <2>1. UNCHANGED <<serviceVars, settingVars, processVars>>
      BY <1>1 DEF runtimeVars
    <2> QED BY <2>1 DEF serviceVars, settingVars, processVars
  <1>2. CASE RuntimeNext
    <2>1. [DiNext]_diVars
      <3>1. ServiceStep \/ UNCHANGED serviceVars
        BY <1>2 DEF RuntimeNext
      <3> QED BY <3>1 DEF ServiceStep, serviceVars
    <2>2. [PluginNext]_pluginVars
      <3>1. SettingStep \/ UNCHANGED settingVars
        BY <1>2 DEF RuntimeNext
      <3> QED BY <3>1 DEF SettingStep, settingVars
    <2>3. [ApplicationNext]_applicationVars /\ [CrashNext]_crashVars
      <3>1. ProcessStep \/ UNCHANGED processVars
        BY <1>2 DEF RuntimeNext
      <3> QED BY <3>1 DEF ProcessStep, processVars
    <2> QED BY <2>1, <2>2, <2>3
  <1> QED BY <1>1, <1>2

(***************************************************************************)
(* Whatever is registered, resolved inside creators, unregistered or       *)
(* cleared inside them too, opened, closed, initialised, thrown or raised: *)
(* an object the container holds has not been deleted, and none is deleted *)
(* twice but one that its creator's closure owns as well; a library is     *)
(* open once for each plug-in registered from it; a process that ends runs *)
(* each shutdown callback once and in order, and one that crashes is told  *)
(* of a signal at most once for each installation of the handler.  What    *)
(* clients keep after unregister(), clear(), disposeScope() or             *)
(* unloadPlugin() is not covered.                                          *)
(***************************************************************************)
THEOREM LifetimesCorrect == RuntimeSpec => []LifetimesSound
  <1>1. RuntimeInit => LifetimesInv
    BY LifetimesStart
  <1>2. LifetimesInv /\ [RuntimeNext]_runtimeVars => LifetimesInv'
    <2> SUFFICES ASSUME LifetimesInv, [RuntimeNext]_runtimeVars PROVE LifetimesInv'
      OBVIOUS
    <2>1. [DiNext]_diVars /\ [PluginNext]_pluginVars /\ [ApplicationNext]_applicationVars /\ [CrashNext]_crashVars
      BY LifetimesStep
    <2>2. PrimaryOK /\ DiInv /\ PluginInv /\ ApplicationInv /\ CrashInv
      BY DEF LifetimesInv
    <2>3. PrimaryOK' /\ DiInv' /\ PluginInv' /\ ApplicationInv' /\ CrashInv'
      BY <2>1, <2>2, DiStays, PluginsStay, ApplicationStays, CrashStays
    <2> QED BY <2>3 DEF LifetimesInv
  <1>3. LifetimesInv => LifetimesSound
    BY AliveIsHeld, BalanceHolds, ApplicationEnds, CrashEnds DEF LifetimesInv, LifetimesSound
  <1> QED BY <1>1, <1>2, <1>3, PTL DEF RuntimeSpec

-----------------------------------------------------------------------------
(* The event buses.  The first member of a list, and the list after it.    *)
LEMMA RestLists ==
    ASSUME NEW s, NEW D, IsListOf(s, D), s # <<>>
    PROVE  Head(s) \in D /\ IsListOf(Tail(s), D \ {Head(s)})
  <1> DEFINE u == Tail(s)
             m == Len(s) - 1
             h == Head(s)
  <1>1. /\ s \in Seq(D) /\ Len(s) \in Nat
        /\ \A i \in 1..Len(s) : s[i] \in D
        /\ \A x \in D : \E i \in 1..Len(s) : s[i] = x
        /\ \A i, j \in 1..Len(s) : s[i] = s[j] => i = j
    BY ListFacts
  <1>2. /\ m \in Nat /\ Len(s) = m + 1 /\ s[1] = h
        /\ u \in Seq(D) /\ Len(u) = m /\ \A i \in 1..m : u[i] = s[i + 1]
    BY <1>1
  <1> HIDE DEF u, m, h
  <1>3. \A i \in 1..m : i + 1 \in 1..Len(s) /\ i + 1 # 1 /\ 1 \in 1..Len(s)
    BY <1>2
  <1>4. \A i \in 1..m : u[i] \in D \ {h}
    BY <1>1, <1>2, <1>3
  <1>5. u \in Seq(D \ {h})
    <2>1. Len(u) = m /\ DOMAIN u = 1..m /\ u = [i \in 1..m |-> u[i]]
      BY <1>2
    <2> QED BY <1>2, <1>4, <2>1
  <1>6. ASSUME NEW x \in D \ {h} PROVE \E i \in 1..Len(u) : u[i] = x
    <2>1. PICK i \in 1..Len(s) : s[i] = x
      BY <1>1
    <2>2. i # 1
      BY <1>2, <2>1
    <2>3. i - 1 \in 1..m /\ (i - 1) + 1 = i
      BY <1>2, <2>2
    <2> QED BY <1>2, <2>1, <2>3
  <1>7. ASSUME NEW i \in 1..Len(u), NEW j \in 1..Len(u), u[i] = u[j] PROVE i = j
    <2>1. i \in 1..m /\ j \in 1..m /\ s[i + 1] = s[j + 1]
      BY <1>2, <1>7
    <2>2. i + 1 = j + 1
      BY <1>1, <1>3, <2>1
    <2> QED BY <2>1, <2>2
  <1>8. IsListOf(u, D \ {h})
    BY <1>5, <1>6, <1>7, MakesList
  <1>9. h \in D
    BY <1>1, <1>2
  <1> QED BY <1>8, <1>9 DEF u, h

(* A publisher has called some handlers and has others left, all of one    *)
(* key, none twice, and among them those it owes a call.                   *)
Serves(w, hand, key) ==
    LET all == Range(w.got) \cup Range(w.left)
    IN  /\ DOMAIN w = {"state", "left", "must", "got", "pool"}
        /\ IsListOf(w.got, Range(w.got)) /\ IsListOf(w.left, Range(w.left))
        /\ Range(w.got) \cap Range(w.left) = {}
        /\ \A h \in all : h \in Handlers /\ hand[h] # "none"
        /\ \A h, g \in all : key[h] = key[g]
        /\ w.must \subseteq all
        /\ w.state = "done" => w.left = <<>>

(* The handlers of a key are listed once, and the standing ones are there. *)
ListedAt(list, hand, key, k) ==
    /\ IsListOf(list, Range(list))
    /\ \A h \in Range(list) : h \in Handlers /\ hand[h] # "none" /\ key[h] = k

BusInv ==
    /\ handlersOf = [k \in Keys |-> handlersOf[k]]
    /\ keyOf = [h \in Handlers |-> keyOf[h]]
    /\ handle \in [Handlers -> {"none", "valid", "leaving", "gone"}]
    /\ pub = [p \in Publishers |-> pub[p]]
    /\ \A k \in Keys : ListedAt(handlersOf[k], handle, keyOf, k)
    /\ \A h \in standing : /\ h \in Handlers /\ handle[h] = "valid"
                           /\ keyOf[h] \in Keys /\ h \in Range(handlersOf[keyOf[h]])
    /\ \A p \in Publishers : Serves(pub[p], handle, keyOf)

LEMMA BusServes == BusInv => StandingServed
  <1> SUFFICES ASSUME BusInv, NEW p \in Publishers
               PROVE  /\ pub[p].must \subseteq ToSet(pub[p].got) \cup ToSet(pub[p].left)
                      /\ IsInjective(pub[p].got)
                      /\ \A h, g \in ToSet(pub[p].got) : keyOf[h] = keyOf[g]
                      /\ pub[p].state = "done" => pub[p].must \subseteq ToSet(pub[p].got)
    BY DEF StandingServed
  <1> DEFINE w == pub[p]
  <1>1. Serves(w, handle, keyOf)
    BY DEF BusInv
  <1> HIDE DEF w
  <1>2. ToSet(w.got) = Range(w.got) /\ ToSet(w.left) = Range(w.left)
    BY DEF ToSet, Range
  <1>3. w.state = "done" => w.left = <<>>
    BY <1>1 DEF Serves
  <1>4. w.state = "done" => Range(w.left) = {}
    BY <1>3 DEF Range
  <1>5. w.must \subseteq Range(w.got) \cup Range(w.left) /\ \A h, g \in Range(w.got) : keyOf[h] = keyOf[g]
    BY <1>1 DEF Serves
  <1>6. IsInjective(w.got)
    BY <1>1 DEF Serves, IsListOf
  <1> QED BY <1>2, <1>4, <1>5, <1>6 DEF w

LEMMA NoneListed == Range(<<>>) = {} /\ IsListOf(<<>>, Range(<<>>))
  <1>1. Range(<<>>) = {}
    BY DEF Range
  <1> QED BY <1>1, NothingListed

LEMMA BusStarts == BusInit => BusInv
  <1> SUFFICES ASSUME BusInit PROVE BusInv
    OBVIOUS
  <1>1. /\ handlersOf = [k \in Keys |-> <<>>] /\ handle = [h \in Handlers |-> "none"]
        /\ keyOf \in [Handlers -> {CHOOSE k \in Keys : TRUE}] /\ standing = {}
        /\ pub = [p \in Publishers |-> Quiet]
    BY DEF BusInit
  <1>2. /\ DOMAIN Quiet = {"state", "left", "must", "got", "pool"}
        /\ Quiet.state = "idle" /\ Quiet.left = <<>> /\ Quiet.got = <<>> /\ Quiet.must = {}
    BY DEF Quiet
  <1>3. Serves(Quiet, handle, keyOf)
    <2> DEFINE w == Quiet
    <2>1. Range(w.left) = {} /\ Range(w.got) = {} /\ IsListOf(w.left, {}) /\ IsListOf(w.got, {})
      BY <1>2, NoneListed
    <2> QED BY <1>2, <2>1 DEF Serves
  <1>4. \A k \in Keys : ListedAt(handlersOf[k], handle, keyOf, k)
    <2> SUFFICES ASSUME NEW k \in Keys PROVE ListedAt(handlersOf[k], handle, keyOf, k)
      OBVIOUS
    <2>1. handlersOf[k] = <<>>
      BY <1>1
    <2> QED BY <2>1, NoneListed DEF ListedAt
  <1> QED BY <1>1, <1>3, <1>4 DEF BusInv

(* Handlers that have been subscribed keep their key.                      *)
SameKeys(hand, key, hand2, key2) ==
    \A h \in Handlers : hand[h] # "none" => hand2[h] # "none" /\ key2[h] = key[h]

(* What a publisher has and owes survives the steps of others.             *)
LEMMA ServesStill ==
    ASSUME NEW w, NEW u, NEW hand, NEW key, NEW hand2, NEW key2,
           Serves(w, hand, key), SameKeys(hand, key, hand2, key2),
           DOMAIN u = DOMAIN w, u.got = w.got, u.left = w.left, u.must \subseteq w.must,
           u.state = w.state \/ u.left = <<>> \/ u.state # "done"
    PROVE  Serves(u, hand2, key2)
  BY DEF Serves, SameKeys

LEMMA ServesNext ==
    ASSUME NEW w, NEW u, NEW hand, NEW key, Serves(w, hand, key), w.left # <<>>,
           DOMAIN u = DOMAIN w, u.got = Append(w.got, Head(w.left)), u.left = Tail(w.left), u.must = w.must,
           u.state # "done"
    PROVE  Serves(u, hand, key)
  <1> DEFINE G == Range(w.got)
             L == Range(w.left)
             h == Head(w.left)
  <1>1. IsListOf(w.got, G) /\ IsListOf(w.left, L) /\ G \cap L = {}
    BY DEF Serves
  <1>2. h \in L /\ IsListOf(u.left, L \ {h})
    BY <1>1, RestLists
  <1>3. h \notin G
    BY <1>1, <1>2
  <1>4. IsListOf(u.got, G \cup {h})
    BY <1>1, <1>3, AppendLists
  <1>5. Range(u.got) = G \cup {h} /\ Range(u.left) = L \ {h}
    BY <1>2, <1>4 DEF IsListOf
  <1>6. /\ DOMAIN w = {"state", "left", "must", "got", "pool"}
        /\ \A x \in G \cup L : x \in Handlers /\ hand[x] # "none"
        /\ \A x, y \in G \cup L : key[x] = key[y]
        /\ w.must \subseteq G \cup L
    BY DEF Serves
  <1> HIDE DEF G, L, h
  <1>7. Range(u.got) \cup Range(u.left) = G \cup L /\ Range(u.got) \cap Range(u.left) = {}
    BY <1>1, <1>2, <1>5
  <1> QED BY <1>2, <1>4, <1>5, <1>6, <1>7 DEF Serves

LEMMA ListedStill ==
    ASSUME NEW list, NEW k, NEW hand, NEW key, NEW hand2, NEW key2,
           ListedAt(list, hand, key, k), SameKeys(hand, key, hand2, key2)
    PROVE  ListedAt(list, hand2, key2, k)
  BY DEF ListedAt, SameKeys

(* Nobody loses what it has when handlers leave.                           *)
LEMMA ReleasedServes ==
    ASSUME BusInv, NEW gone, pub' = Released(gone), SameKeys(handle, keyOf, handle', keyOf')
    PROVE  /\ pub' = [p \in Publishers |-> pub'[p]]
           /\ \A p \in Publishers : Serves(pub'[p], handle', keyOf')
  <1>1. pub' = [p \in Publishers |-> [pub[p] EXCEPT !.must = @ \ gone]]
    BY DEF Released
  <1>2. ASSUME NEW p \in Publishers PROVE Serves(pub'[p], handle', keyOf')
    <2> DEFINE w == pub[p]
               u == pub'[p]
    <2>1. Serves(w, handle, keyOf)
      BY DEF BusInv
    <2>2. u = [w EXCEPT !.must = @ \ gone]
      BY <1>1
    <2>3. DOMAIN w = {"state", "left", "must", "got", "pool"}
      BY <2>1 DEF Serves
    <2> HIDE DEF w, u
    <2>4. DOMAIN u = DOMAIN w /\ u.got = w.got /\ u.left = w.left /\ u.must = w.must \ gone /\ u.state = w.state
      BY <2>2, <2>3
    <2>5. u.must \subseteq w.must
      BY <2>4
    <2>6. Serves(u, handle', keyOf')
      BY <2>1, <2>4, <2>5, ServesStill
    <2> QED BY <2>6 DEF u
  <1>3. pub' = [p \in Publishers |-> pub'[p]]
    BY <1>1
  <1> QED BY <1>2, <1>3

LEMMA OthersServe ==
    ASSUME BusInv, UNCHANGED pub, SameKeys(handle, keyOf, handle', keyOf')
    PROVE  /\ pub' = [p \in Publishers |-> pub'[p]]
           /\ \A p \in Publishers : Serves(pub'[p], handle', keyOf')
  <1>1. \A p \in Publishers : Serves(pub[p], handle, keyOf)
    BY DEF BusInv
  <1>2. \A p \in Publishers : Serves(pub[p], handle', keyOf')
    BY <1>1, ServesStill
  <1> QED BY <1>2 DEF BusInv

LEMMA SubscribeServes ==
    ASSUME BusInv, NEW h \in Handlers, NEW k \in Keys, Subscribe(h, k)
    PROVE  BusInv'
  <1>0. /\ handlersOf = [j \in Keys |-> handlersOf[j]] /\ keyOf = [g \in Handlers |-> keyOf[g]]
        /\ handle \in [Handlers -> {"none", "valid", "leaving", "gone"}]
        /\ \A j \in Keys : ListedAt(handlersOf[j], handle, keyOf, j)
        /\ \A g \in standing : /\ g \in Handlers /\ handle[g] = "valid"
                               /\ keyOf[g] \in Keys /\ g \in Range(handlersOf[keyOf[g]])
    BY DEF BusInv
  <1>1. /\ handle[h] = "none" /\ handlersOf' = [handlersOf EXCEPT ![k] = Append(@, h)]
        /\ keyOf' = [keyOf EXCEPT ![h] = k] /\ handle' = [handle EXCEPT ![h] = "valid"]
        /\ standing' = standing \cup {h} /\ pub' = pub
    BY DEF Subscribe
  <1>2. /\ handle'[h] = "valid" /\ keyOf'[h] = k
        /\ \A g \in Handlers : g # h => handle'[g] = handle[g] /\ keyOf'[g] = keyOf[g]
    BY <1>0, <1>1
  <1>3. SameKeys(handle, keyOf, handle', keyOf')
    BY <1>1, <1>2 DEF SameKeys
  <1>4. /\ handlersOf'[k] = Append(handlersOf[k], h)
        /\ \A j \in Keys : j # k => handlersOf'[j] = handlersOf[j]
    BY <1>0, <1>1
  <1>5. IsListOf(handlersOf'[k], Range(handlersOf[k]) \cup {h})
    <2>1. h \notin Range(handlersOf[k]) /\ IsListOf(handlersOf[k], Range(handlersOf[k]))
      BY <1>0, <1>1 DEF ListedAt
    <2> QED BY <1>4, <2>1, AppendLists
  <1>6. Range(handlersOf'[k]) = Range(handlersOf[k]) \cup {h}
    BY <1>5 DEF IsListOf
  <1>7. ListedAt(handlersOf[k], handle', keyOf', k)
    BY <1>0, <1>3, ListedStill
  <1>8. ListedAt(handlersOf'[k], handle', keyOf', k)
    BY <1>2, <1>5, <1>6, <1>7 DEF ListedAt
  <1>9. \A j \in Keys : ListedAt(handlersOf'[j], handle', keyOf', j)
    BY <1>0, <1>3, <1>4, <1>8, ListedStill
  <1>10. ASSUME NEW g \in standing'
         PROVE  g \in Handlers /\ handle'[g] = "valid" /\ keyOf'[g] \in Keys /\ g \in Range(handlersOf'[keyOf'[g]])
    <2>1. CASE g = h
      BY <1>2, <1>6, <2>1
    <2>2. CASE g # h
      <3>1. g \in standing
        BY <1>1, <2>2
      <3>2. g \in Handlers /\ handle'[g] = "valid" /\ keyOf'[g] = keyOf[g] /\ keyOf[g] \in Keys
        BY <1>0, <1>2, <2>2, <3>1
      <3>3. g \in Range(handlersOf[keyOf[g]])
        BY <1>0, <3>1
      <3>4. g \in Range(handlersOf'[keyOf[g]])
        BY <1>4, <1>6, <3>2, <3>3
      <3> QED BY <3>2, <3>4
    <2> QED BY <2>1, <2>2
  <1>11. /\ handlersOf' = [j \in Keys |-> handlersOf'[j]] /\ keyOf' = [g \in Handlers |-> keyOf'[g]]
         /\ handle' \in [Handlers -> {"none", "valid", "leaving", "gone"}]
    BY <1>0, <1>1
  <1>12. /\ pub' = [p \in Publishers |-> pub'[p]]
         /\ \A p \in Publishers : Serves(pub'[p], handle', keyOf')
    BY <1>1, <1>3, OthersServe
  <1> QED BY <1>9, <1>10, <1>11, <1>12 DEF BusInv

LEMMA UnsubscribeServes ==
    ASSUME BusInv, NEW h \in Handlers, Unsubscribe(h)
    PROVE  BusInv'
  <1>0. /\ handlersOf = [j \in Keys |-> handlersOf[j]] /\ keyOf = [g \in Handlers |-> keyOf[g]]
        /\ handle \in [Handlers -> {"none", "valid", "leaving", "gone"}]
        /\ \A j \in Keys : ListedAt(handlersOf[j], handle, keyOf, j)
        /\ \A g \in standing : /\ g \in Handlers /\ handle[g] = "valid"
                               /\ keyOf[g] \in Keys /\ g \in Range(handlersOf[keyOf[g]])
    BY DEF BusInv
  <1>1. /\ handle' = [handle EXCEPT ![h] = "leaving"] /\ standing' = standing \ {h} /\ pub' = Released({h})
        /\ handlersOf' = handlersOf /\ keyOf' = keyOf
    BY DEF Unsubscribe
  <1>2. handle'[h] = "leaving" /\ \A g \in Handlers : g # h => handle'[g] = handle[g]
    BY <1>0, <1>1
  <1>3. SameKeys(handle, keyOf, handle', keyOf')
    BY <1>1, <1>2 DEF SameKeys
  <1>4. \A j \in Keys : ListedAt(handlersOf'[j], handle', keyOf', j)
    BY <1>0, <1>1, <1>3, ListedStill
  <1>5. \A g \in standing' : /\ g \in Handlers /\ handle'[g] = "valid"
                             /\ keyOf'[g] \in Keys /\ g \in Range(handlersOf'[keyOf'[g]])
    BY <1>0, <1>1, <1>2
  <1>6. handle' \in [Handlers -> {"none", "valid", "leaving", "gone"}]
    BY <1>0, <1>1
  <1>7. /\ pub' = [p \in Publishers |-> pub'[p]]
        /\ \A p \in Publishers : Serves(pub'[p], handle', keyOf')
    BY <1>1, <1>3, ReleasedServes
  <1> QED BY <1>0, <1>1, <1>4, <1>5, <1>6, <1>7 DEF BusInv

LEMMA ErasedServes ==
    ASSUME BusInv, NEW h \in Handlers, UnsubscribeFn(h)
    PROVE  BusInv'
  <1> DEFINE k == keyOf[h]
             list == handlersOf[k]
             rest == Without(list, h)
  <1>0. /\ handlersOf = [j \in Keys |-> handlersOf[j]] /\ keyOf = [g \in Handlers |-> keyOf[g]]
        /\ handle \in [Handlers -> {"none", "valid", "leaving", "gone"}]
        /\ \A j \in Keys : ListedAt(handlersOf[j], handle, keyOf, j)
        /\ \A g \in standing : /\ g \in Handlers /\ handle[g] = "valid"
                               /\ keyOf[g] \in Keys /\ g \in Range(handlersOf[keyOf[g]])
    BY DEF BusInv
  <1>1. /\ handle[h] = "leaving" /\ handlersOf' = [handlersOf EXCEPT ![k] = rest]
        /\ handle' = [handle EXCEPT ![h] = "gone"] /\ keyOf' = keyOf /\ standing' = standing /\ pub' = pub
    BY DEF UnsubscribeFn
  <1>2. handle'[h] = "gone" /\ \A g \in Handlers : g # h => handle'[g] = handle[g]
    BY <1>0, <1>1
  <1>3. SameKeys(handle, keyOf, handle', keyOf')
    BY <1>1, <1>2 DEF SameKeys
  <1>4. k \in Keys => IsListOf(rest, Range(list) \ {h})
    BY <1>0, WithoutLists DEF ListedAt, Without
  <1> HIDE DEF rest
  <1>5. /\ k \in Keys => handlersOf'[k] = rest
        /\ \A j \in Keys : j # k => handlersOf'[j] = handlersOf[j]
    BY <1>0, <1>1
  <1>6. k \in Keys => Range(rest) = Range(list) \ {h}
    BY <1>4 DEF IsListOf
  <1>7. k \in Keys => ListedAt(rest, handle', keyOf', k)
    <2> SUFFICES ASSUME k \in Keys PROVE ListedAt(rest, handle', keyOf', k)
      OBVIOUS
    <2>1. ListedAt(list, handle', keyOf', k)
      BY <1>0, <1>3, ListedStill
    <2> QED BY <1>4, <1>6, <2>1 DEF ListedAt
  <1>8. \A j \in Keys : ListedAt(handlersOf'[j], handle', keyOf', j)
    BY <1>0, <1>3, <1>5, <1>7, ListedStill
  <1>9. ASSUME NEW g \in standing'
        PROVE  g \in Handlers /\ handle'[g] = "valid" /\ keyOf'[g] \in Keys /\ g \in Range(handlersOf'[keyOf'[g]])
    <2>1. g \in Handlers /\ handle[g] = "valid" /\ keyOf[g] \in Keys /\ g \in Range(handlersOf[keyOf[g]])
      BY <1>0, <1>1
    <2>2. g # h
      BY <1>1, <2>1
    <2>3. g \in Range(handlersOf'[keyOf[g]])
      BY <1>5, <1>6, <2>1, <2>2
    <2> QED BY <1>1, <1>2, <2>1, <2>2, <2>3
  <1>10. /\ handlersOf' = [j \in Keys |-> handlersOf'[j]]
         /\ handle' \in [Handlers -> {"none", "valid", "leaving", "gone"}]
    BY <1>0, <1>1
  <1>11. /\ pub' = [p \in Publishers |-> pub'[p]]
         /\ \A p \in Publishers : Serves(pub'[p], handle', keyOf')
    BY <1>1, <1>3, OthersServe
  <1> QED BY <1>0, <1>1, <1>8, <1>9, <1>10, <1>11 DEF BusInv

LEMMA ClearServes == ASSUME BusInv, ClearBus PROVE BusInv'
  <1>1. /\ handlersOf' = [k \in Keys |-> <<>>] /\ standing' = {} /\ pub' = Released(Handlers)
        /\ keyOf' = keyOf /\ handle' = handle
    BY DEF ClearBus
  <1>2. SameKeys(handle, keyOf, handle', keyOf')
    BY <1>1 DEF SameKeys
  <1>3. \A k \in Keys : ListedAt(handlersOf'[k], handle', keyOf', k)
    <2> SUFFICES ASSUME NEW k \in Keys PROVE ListedAt(handlersOf'[k], handle', keyOf', k)
      OBVIOUS
    <2>1. handlersOf'[k] = <<>>
      BY <1>1
    <2> QED BY <2>1, NoneListed DEF ListedAt
  <1>4. /\ pub' = [p \in Publishers |-> pub'[p]]
        /\ \A p \in Publishers : Serves(pub'[p], handle', keyOf')
    BY <1>1, <1>2, ReleasedServes
  <1>5. handlersOf' = [k \in Keys |-> handlersOf'[k]]
    BY <1>1
  <1> QED BY <1>1, <1>3, <1>4, <1>5 DEF BusInv

(* Only a publisher moves.                                                 *)
LEMMA PublisherMoves ==
    ASSUME BusInv, NEW p \in Publishers, UNCHANGED <<handlersOf, keyOf, handle, standing>>,
           pub' = [q \in Publishers |-> pub'[q]], \A q \in Publishers : q # p => pub'[q] = pub[q],
           Serves(pub'[p], handle, keyOf)
    PROVE  BusInv'
  <1>1. \A q \in Publishers : Serves(pub'[q], handle', keyOf')
    BY DEF BusInv
  <1> QED BY <1>1 DEF BusInv

LEMMA PublishServes ==
    ASSUME BusInv, NEW p \in Publishers, NEW k \in Keys, NEW pooled \in BOOLEAN, Publish(p, k, pooled)
    PROVE  BusInv'
  <1> DEFINE list == handlersOf[k]
             owed == {h \in standing : keyOf[h] = k}
             u == [state |-> "calling", left |-> list, must |-> owed, got |-> <<>>, pool |-> pooled]
  <1>1. pub' = [pub EXCEPT ![p] = u] /\ UNCHANGED <<handlersOf, keyOf, handle, standing>>
    BY DEF Publish
  <1>2. /\ DOMAIN u = {"state", "left", "must", "got", "pool"}
        /\ u.state = "calling" /\ u.left = list /\ u.must = owed /\ u.got = <<>>
    OBVIOUS
  <1>3. IsListOf(list, Range(list)) /\ \A h \in Range(list) : h \in Handlers /\ handle[h] # "none" /\ keyOf[h] = k
    BY DEF BusInv, ListedAt
  <1>4. owed \subseteq Range(list)
    BY DEF BusInv
  <1>5. pub = [q \in Publishers |-> pub[q]]
    BY DEF BusInv
  <1> HIDE DEF u, list, owed
  <1>6. Range(u.got) = {} /\ IsListOf(u.got, Range(u.got))
    BY <1>2, NoneListed
  <1>7. Serves(u, handle, keyOf)
    BY <1>2, <1>3, <1>4, <1>6 DEF Serves
  <1>8. pub'[p] = u /\ pub' = [q \in Publishers |-> pub'[q]] /\ \A q \in Publishers : q # p => pub'[q] = pub[q]
    BY <1>1, <1>5
  <1> QED BY <1>1, <1>7, <1>8, PublisherMoves

LEMMA CallServes ==
    ASSUME BusInv, NEW p \in Publishers, CallHandler(p) \/ PublishReturns(p)
    PROVE  BusInv'
  <1> DEFINE w == pub[p]
             u == pub'[p]
  <1>0. pub = [q \in Publishers |-> pub[q]] /\ Serves(w, handle, keyOf)
    BY DEF BusInv
  <1>1. DOMAIN w = {"state", "left", "must", "got", "pool"}
    BY <1>0 DEF Serves
  <1>2. UNCHANGED <<handlersOf, keyOf, handle, standing>>
    BY DEF CallHandler, PublishReturns
  <1>3. ASSUME CallHandler(p) PROVE BusInv'
    <2>1. /\ w.state = "calling" /\ w.left # <<>>
          /\ pub' = [pub EXCEPT ![p] =
                 [state |-> IF busKind = "plain" /\ Head(w.left) \in Throwers THEN "thrown" ELSE "calling",
                  left |-> Tail(w.left), must |-> w.must, got |-> Append(w.got, Head(w.left)), pool |-> w.pool]]
      BY <1>0, <1>3 DEF CallHandler
    <2>2. pub' = [q \in Publishers |-> pub'[q]] /\ \A q \in Publishers : q # p => pub'[q] = pub[q]
      BY <1>0, <2>1
    <2>3. /\ DOMAIN u = DOMAIN w /\ u.got = Append(w.got, Head(w.left)) /\ u.left = Tail(w.left) /\ u.must = w.must
          /\ u.state = IF busKind = "plain" /\ Head(w.left) \in Throwers THEN "thrown" ELSE "calling"
      BY <1>0, <1>1, <2>1
    <2>4. u.state # "done"
      BY <2>1, <2>3
    <2>5. Serves(u, handle, keyOf)
      BY <1>0, <2>1, <2>3, <2>4, ServesNext
    <2> QED BY <1>2, <2>2, <2>5, PublisherMoves
  <1>4. ASSUME PublishReturns(p) PROVE BusInv'
    <2>1. w.left = <<>> /\ pub' = [pub EXCEPT ![p].state = "done"]
      BY <1>4 DEF PublishReturns
    <2>2. pub' = [q \in Publishers |-> pub'[q]] /\ \A q \in Publishers : q # p => pub'[q] = pub[q]
      BY <1>0, <2>1
    <2>3. DOMAIN u = DOMAIN w /\ u.got = w.got /\ u.left = w.left /\ u.must = w.must
      BY <1>0, <1>1, <2>1
    <2>4. SameKeys(handle, keyOf, handle, keyOf)
      BY DEF SameKeys
    <2>5. u.left = <<>> /\ u.must \subseteq w.must
      BY <2>1, <2>3
    <2> HIDE DEF u, w
    <2>6. Serves(u, handle, keyOf)
      BY <1>0, <2>3, <2>4, <2>5, ServesStill
    <2> QED BY <1>2, <2>2, <2>6, PublisherMoves DEF u
  <1> QED BY <1>3, <1>4

LEMMA BusStays == ASSUME BusInv, [BusNext]_busVars PROVE BusInv'
  <1>1. CASE UNCHANGED busVars
    BY <1>1 DEF BusInv, busVars
  <1>2. CASE PoolRuns
    BY <1>2 DEF BusInv, PoolRuns
  <1> QED BY <1>1, <1>2, SubscribeServes, UnsubscribeServes, ErasedServes, ClearServes, PublishServes, CallServes
          DEF BusNext

-----------------------------------------------------------------------------
(* Scheduled tasks: what says that it runs has its timer.                  *)
SchedInv ==
    /\ taskRunning \in [Scheduled -> BOOLEAN] /\ armed \in [Scheduled -> BOOLEAN]
    /\ runner \in [Scheduled -> {"none", "timer", "caller"}]
    /\ RunningIsArmed

LEMMA SchedStarts == SchedInit => SchedInv
  BY DEF SchedInit, SchedInv, RunningIsArmed

(* scheduleNext() of some tasks that run, whichever they are; the others   *)
(* are as they were.                                                       *)
LEMMA ScheduledStays ==
    ASSUME SchedInv, NEW S, ScheduleNext(S), taskRunning' \in [Scheduled -> BOOLEAN],
           runner' \in [Scheduled -> {"none", "timer", "caller"}],
           \A t \in Scheduled \cap S : taskRunning'[t],
           \A t \in Scheduled \ S : taskRunning'[t] = taskRunning[t] /\ (runner[t] = "timer" => runner'[t] = "timer")
    PROVE  SchedInv'
  <1>0. taskRunning \in [Scheduled -> BOOLEAN] /\ armed \in [Scheduled -> BOOLEAN]
    BY DEF SchedInv
  <1>1. PICK on \in SUBSET (S \ BadCron) :
            /\ S \ (BadCron \cup Distant) \subseteq on
            /\ armed' = [t \in Scheduled |-> IF t \in S \ BadCron THEN t \in on ELSE armed[t]]
            /\ dropped' = (dropped \ S) \cup (S \ (BadCron \cup on))
    BY DEF ScheduleNext
  <1>2. armed' \in [Scheduled -> BOOLEAN]
    <2>1. ASSUME NEW t \in Scheduled PROVE (IF t \in S \ BadCron THEN t \in on ELSE armed[t]) \in BOOLEAN
      <3>1. (t \in on) \in BOOLEAN /\ armed[t] \in BOOLEAN
        BY <1>0
      <3>2. CASE t \in S \ BadCron
        BY <3>1, <3>2, Zenon
      <3>3. CASE t \notin S \ BadCron
        BY <3>1, <3>3, Zenon
      <3> QED BY <3>2, <3>3
    <2>2. armed' = [t \in Scheduled |-> IF t \in S \ BadCron THEN t \in on ELSE armed[t]]
      BY <1>1
    <2> QED BY <2>1, <2>2, Zenon
  <1>3. RunningIsArmed'
    <2> SUFFICES ASSUME NEW t \in Scheduled
                 PROVE  /\ taskRunning'[t] /\ t \notin BadCron \cup dropped' => armed'[t] \/ runner'[t] = "timer"
                        /\ armed'[t] /\ t \notin dropped' => taskRunning'[t]
      BY DEF RunningIsArmed
    <2>1. CASE t \in S
      <3>1. taskRunning'[t]
        BY <2>1
      <3>2. t \notin BadCron \cup dropped' => t \in on
        BY <1>1, <2>1
      <3>3. t \in on => armed'[t]
        BY <1>1, <2>1
      <3> QED BY <3>1, <3>2, <3>3
    <2>2. CASE t \notin S
      <3>1. /\ taskRunning[t] /\ t \notin BadCron \cup dropped => armed[t] \/ runner[t] = "timer"
            /\ armed[t] /\ t \notin dropped => taskRunning[t]
        BY DEF SchedInv, RunningIsArmed
      <3>2. armed'[t] = armed[t] /\ (t \in dropped' <=> t \in dropped)
        BY <1>1, <2>2
      <3>3. taskRunning'[t] = taskRunning[t] /\ (runner[t] = "timer" => runner'[t] = "timer")
        BY <2>2
      <3> QED BY <3>1, <3>2, <3>3
    <2> QED BY <2>1, <2>2
  <1> QED BY <1>2, <1>3 DEF SchedInv

(* start() of some tasks.                                                  *)
LEMMA StartedStays ==
    ASSUME SchedInv, NEW S, Started(S), UNCHANGED runner
    PROVE  SchedInv'
  <1> DEFINE new == {t \in S : ~ taskRunning[t]}
  <1>1. taskRunning' = [t \in Scheduled |-> taskRunning[t] \/ t \in new] /\ ScheduleNext(new)
    BY DEF Started
  <1>2. taskRunning \in [Scheduled -> BOOLEAN] /\ runner' \in [Scheduled -> {"none", "timer", "caller"}]
    BY DEF SchedInv
  <1> HIDE DEF new
  <1>3. taskRunning' \in [Scheduled -> BOOLEAN]
    BY <1>1
  <1>4. \A t \in Scheduled \cap new : taskRunning'[t]
    BY <1>1
  <1>5. \A t \in Scheduled \ new : taskRunning'[t] = taskRunning[t]
    BY <1>1, <1>2
  <1> QED BY <1>1, <1>2, <1>3, <1>4, <1>5, ScheduledStays

(* stop() of some tasks.                                                   *)
LEMMA StoppedStays ==
    ASSUME SchedInv, NEW S, Stopped(S), UNCHANGED runner
    PROVE  SchedInv'
  <1>1. taskRunning' \in [Scheduled -> BOOLEAN] /\ armed' \in [Scheduled -> BOOLEAN]
    BY DEF Stopped
  <1>2. RunningIsArmed'
    <2> SUFFICES ASSUME NEW t \in Scheduled
                 PROVE  /\ taskRunning'[t] /\ t \notin BadCron \cup dropped' => armed'[t] \/ runner'[t] = "timer"
                        /\ armed'[t] /\ t \notin dropped' => taskRunning'[t]
      BY DEF RunningIsArmed
    <2>1. /\ taskRunning[t] /\ t \notin BadCron \cup dropped => armed[t] \/ runner[t] = "timer"
          /\ armed[t] /\ t \notin dropped => taskRunning[t]
      BY DEF SchedInv, RunningIsArmed
    <2>2. /\ taskRunning'[t] <=> (taskRunning[t] /\ t \notin S)
          /\ armed'[t] <=> (armed[t] /\ t \notin S)
          /\ t \in dropped' <=> (t \in dropped /\ t \notin S)
      BY DEF Stopped
    <2> QED BY <2>1, <2>2
  <1> QED BY <1>1, <1>2 DEF SchedInv

(* A step that leaves the other tasks alone.                               *)
LEMMA OneTaskStays ==
    ASSUME SchedInv, NEW t \in Scheduled,
           taskRunning' \in [Scheduled -> BOOLEAN], armed' \in [Scheduled -> BOOLEAN],
           runner' \in [Scheduled -> {"none", "timer", "caller"}],
           \A u \in Scheduled : u # t =>
               /\ taskRunning'[u] = taskRunning[u] /\ armed'[u] = armed[u] /\ runner'[u] = runner[u]
               /\ (u \in dropped' <=> u \in dropped),
           taskRunning'[t] /\ t \notin BadCron \cup dropped' => armed'[t] \/ runner'[t] = "timer",
           armed'[t] /\ t \notin dropped' => taskRunning'[t]
    PROVE  SchedInv'
  <1>1. RunningIsArmed'
    <2> SUFFICES ASSUME NEW u \in Scheduled
                 PROVE  /\ taskRunning'[u] /\ u \notin BadCron \cup dropped' => armed'[u] \/ runner'[u] = "timer"
                        /\ armed'[u] /\ u \notin dropped' => taskRunning'[u]
      BY DEF RunningIsArmed
    <2>1. /\ taskRunning[u] /\ u \notin BadCron \cup dropped => armed[u] \/ runner[u] = "timer"
          /\ armed[u] /\ u \notin dropped => taskRunning[u]
      BY DEF SchedInv, RunningIsArmed
    <2> QED BY <2>1
  <1> QED BY <1>1 DEF SchedInv

LEMMA TickStays ==
    ASSUME SchedInv, NEW t \in Scheduled, Tick(t)
    PROVE  SchedInv'
  <1>0. /\ taskRunning \in [Scheduled -> BOOLEAN] /\ armed \in [Scheduled -> BOOLEAN]
        /\ runner \in [Scheduled -> {"none", "timer", "caller"}]
    BY DEF SchedInv
  <1>1. taskRunning' = taskRunning
    BY DEF Tick
  <1>2. CASE /\ taskRunning[t] /\ runner' = [runner EXCEPT ![t] = "timer"]
             /\ armed' = [armed EXCEPT ![t] = FALSE] /\ dropped' = dropped
    BY <1>0, <1>1, <1>2, OneTaskStays
  <1>3. CASE taskRunning[t] /\ ScheduleNext({t}) /\ runner' = runner
    BY <1>0, <1>1, <1>3, ScheduledStays
  <1>4. CASE ~ taskRunning[t] /\ armed' = [armed EXCEPT ![t] = FALSE] /\ runner' = runner /\ dropped' = dropped
    BY <1>0, <1>1, <1>4, OneTaskStays
  <1> QED BY <1>2, <1>3, <1>4 DEF Tick

LEMMA CallbackStays ==
    ASSUME SchedInv, NEW t \in Scheduled, CallbackReturns(t) \/ CallbackThrows(t)
    PROVE  SchedInv'
  <1>0. /\ taskRunning \in [Scheduled -> BOOLEAN] /\ armed \in [Scheduled -> BOOLEAN]
        /\ runner \in [Scheduled -> {"none", "timer", "caller"}]
        /\ taskRunning[t] /\ t \notin BadCron \cup dropped => armed[t] \/ runner[t] = "timer"
        /\ armed[t] /\ t \notin dropped => taskRunning[t]
    BY DEF SchedInv, RunningIsArmed
  <1>1. taskRunning' = taskRunning /\ runner' = [runner EXCEPT ![t] = "none"]
    BY DEF CallbackReturns, CallbackThrows
  <1>2. CASE CallbackReturns(t)
    <2> DEFINE S == IF runner[t] = "timer" /\ taskRunning[t] THEN {t} ELSE {}
    <2>1. ScheduleNext(S)
      BY <1>2 DEF CallbackReturns
    <2>2. \A u \in Scheduled \cap S : taskRunning'[u]
      BY <1>1
    <2>3. CASE runner[t] = "timer" /\ ~ taskRunning[t]
      <3>1. S = {}
        BY <2>3
      <3>2. armed' = armed /\ dropped' = dropped
        BY <1>0, <2>1, <3>1 DEF ScheduleNext
      <3> QED BY <1>0, <1>1, <2>3, <3>2, OneTaskStays
    <2>4. CASE ~ (runner[t] = "timer" /\ ~ taskRunning[t])
      <3>1. \A u \in Scheduled \ S : runner[u] = "timer" => runner'[u] = "timer"
        BY <1>0, <1>1, <2>4
      <3>2. runner' \in [Scheduled -> {"none", "timer", "caller"}]
        BY <1>0, <1>1
      <3> HIDE DEF S
      <3> QED BY <1>0, <1>1, <2>1, <2>2, <3>1, <3>2, ScheduledStays
    <2> QED BY <2>3, <2>4
  <1>3. CASE CallbackThrows(t)
    <2>1. armed' = armed
          /\ dropped' = IF runner[t] = "timer" /\ taskRunning[t] /\ ~ armed[t] THEN dropped \cup {t} ELSE dropped
      BY <1>3 DEF CallbackThrows
    <2> QED BY <1>0, <1>1, <2>1, OneTaskStays
  <1> QED BY <1>2, <1>3

LEMMA SchedStays ==
    ASSUME SchedInv, [SchedNext]_schedVars
    PROVE  SchedInv'
  <1>1. CASE UNCHANGED schedVars
    BY <1>1 DEF SchedInv, RunningIsArmed, schedVars
  <1>2. ASSUME NEW S, Started(S) \/ Stopped(S), UNCHANGED runner PROVE SchedInv'
    BY <1>2, StartedStays, StoppedStays
  <1>3. ASSUME NEW t \in Scheduled, ForeignStart(t) \/ ForeignStop(t) PROVE SchedInv'
    <2>1. /\ taskRunning' = [taskRunning EXCEPT ![t] = TRUE] \/ taskRunning' = [taskRunning EXCEPT ![t] = FALSE]
          /\ armed' = armed /\ runner' = runner /\ dropped' = dropped \cup {t}
      BY <1>3 DEF ForeignStart, ForeignStop
    <2> QED BY <2>1, OneTaskStays DEF SchedInv
  <1>4. ASSUME NEW t \in Scheduled, TriggerNow(t) PROVE SchedInv'
    <2>1. /\ runner[t] = "none" /\ runner' = [runner EXCEPT ![t] = "caller"]
          /\ armed' = armed /\ taskRunning' = taskRunning /\ dropped' = dropped
      BY <1>4 DEF TriggerNow
    <2> QED BY <2>1, OneTaskStays DEF SchedInv, RunningIsArmed
  <1>5. ASSUME NEW t \in Scheduled, TaskStart(t) \/ TaskStop(t) \/ AddTask(t) PROVE SchedInv'
    BY <1>2, <1>5 DEF TaskStart, TaskStop, AddTask
  <1>6. ASSUME NEW n \in TaskNames, RemoveTask(n) \/ StartTask(n) \/ StopTask(n) PROVE SchedInv'
    BY <1>2, <1>6 DEF RemoveTask, StartTask, StopTask
  <1>7. CASE StartAll \/ StopAll
    BY <1>2, <1>7 DEF StartAll, StopAll
  <1> QED BY <1>1, <1>3, <1>4, <1>5, <1>6, <1>7, TickStays, CallbackStays DEF SchedNext

-----------------------------------------------------------------------------
(* Cron.  A step matches exactly the values that it lists.                 *)
LEMMA DivisionIs ==
    ASSUME NEW x \in Nat, NEW s \in Nat \ {0}
    PROVE  x = (x \div s) * s + (x % s) /\ x \div s \in 0..x /\ x % s \in 0..(s - 1)
  OBVIOUS

(* A multiple has no remainder.                                            *)
LEMMA MultipleIs == ASSUME NEW n \in Nat, NEW s \in Nat \ {0} PROVE (n * s) % s = 0
  OBVIOUS

(* The steps of a part, counted from its start.                            *)
LEMMA StepsAre ==
    ASSUME NEW v \in 0..59, NEW lo \in Nat, NEW hi \in Nat, NEW s \in Nat \ {0}
    PROVE  (v >= lo /\ v <= hi /\ (s = 1 \/ (v - lo) % s = 0)) <=> (\E n \in 0..59 : v = lo + n * s /\ v <= hi)
  <1>1. ASSUME v >= lo, v <= hi, s = 1 \/ (v - lo) % s = 0
        PROVE  \E n \in 0..59 : v = lo + n * s /\ v <= hi
    <2> DEFINE x == v - lo
    <2>1. x \in Nat /\ x <= 59 /\ v = lo + x
      BY <1>1
    <2>2. CASE s = 1
      <3>1. x \in 0..59 /\ v = lo + x * s
        BY <2>1, <2>2
      <3> QED BY <1>1, <3>1
    <2>3. CASE x % s = 0
      <3> HIDE DEF x
      <3> DEFINE n == x \div s
      <3>1. x = n * s + (x % s) /\ n \in 0..x
        BY <2>1, DivisionIs
      <3> HIDE DEF n
      <3>2. n * s \in Nat
        BY <2>1, <3>1
      <3>3. v = lo + n * s /\ n \in 0..59
        BY <2>1, <2>3, <3>1, <3>2
      <3> QED BY <1>1, <3>3
    <2> QED BY <1>1, <2>2, <2>3
  <1>2. ASSUME NEW n \in 0..59, v = lo + n * s, v <= hi
        PROVE  v >= lo /\ v <= hi /\ (s = 1 \/ (v - lo) % s = 0)
    <2> DEFINE y == n * s
    <2>0. n \in Nat
      OBVIOUS
    <2>1. y \in Nat /\ y % s = 0
      <3>1. y \in Nat
        BY <2>0
      <3>2. y % s = 0
        BY <2>0, MultipleIs
      <3> QED BY <3>1, <3>2
    <2>2. v = lo + y
      BY <1>2
    <2> HIDE DEF y
    <2>3. v >= lo /\ v - lo = y
      BY <2>1, <2>2
    <2> QED BY <1>2, <2>1, <2>3
  <1> QED BY <1>1, <1>2

(* Every field of a time is at most 59.                                    *)
LEMMA FieldIs == ASSUME NEW t \in Nat, NEW f \in 1..5 PROVE FieldOf(t, f) \in 0..59
  <1> DEFINE a == Radix[1]
             b == Radix[2]
             c == Radix[3]
             d == Radix[4]
             day == t \div (a * b)
  <1>1. a \in 1..60 /\ b \in 1..60 /\ c \in 1..59 /\ d \in 1..59 /\ WeekDays \in 1..60
    BY CronAssumption
  <1> HIDE DEF a, b, c, d
  <1>0. /\ a \in Nat \ {0} /\ b \in Nat \ {0} /\ c \in Nat \ {0} /\ d \in Nat \ {0}
        /\ WeekDays \in Nat \ {0}
    BY <1>1
  <1>2. a * b \in Nat \ {0}
    BY <1>1
  <1>3. day \in Nat
    BY <1>2, DivisionIs
  <1>4. t % a \in 0..59 /\ (t \div a) % b \in 0..59
    <2> DEFINE h == t \div a
    <2>1. h \in Nat /\ t % a \in 0..(a - 1)
      BY <1>0
    <2> HIDE DEF h
    <2>2. h % b \in 0..(b - 1)
      BY <1>0, <2>1
    <2>3. h % b \in 0..59 /\ t % a \in 0..59
      BY <1>1, <2>1, <2>2
    <2> QED BY <2>3 DEF h
  <1> HIDE DEF day
  <1>5. 1 + (day % c) \in 0..59 /\ day % WeekDays \in 0..59
    <2>1. day % c \in 0..(c - 1) /\ day % WeekDays \in 0..(WeekDays - 1)
      BY <1>1, <1>3, DivisionIs
    <2> QED BY <1>1, <2>1
  <1>6. 1 + ((day \div c) % d) \in 0..59
    <2> DEFINE m == day \div c
    <2>1. m \in Nat
      BY <1>0, <1>3
    <2> HIDE DEF m
    <2>2. m % d \in 0..(d - 1)
      BY <1>0, <2>1
    <2>3. 1 + (m % d) \in 0..59
      BY <1>1, <2>2
    <2> QED BY <2>3 DEF m
  <1>7. /\ FieldOf(t, 1) = t % a /\ FieldOf(t, 2) = (t \div a) % b
        /\ FieldOf(t, 3) = 1 + (day % c) /\ FieldOf(t, 4) = 1 + ((day \div c) % d)
        /\ FieldOf(t, 5) = day % WeekDays
    BY DEF FieldOf, day, a, b, c, d
  <1>8. f = 1 \/ f = 2 \/ f = 3 \/ f = 4 \/ f = 5
    OBVIOUS
  <1> QED BY <1>4, <1>5, <1>6, <1>7, <1>8

(* matchCronField() finds what the field lists.                            *)
LEMMA MatchesAre ==
    ASSUME NEW v \in 0..59, NEW field,
           \A i \in DOMAIN field : field[i].lo \in Nat /\ field[i].hi \in Nat /\ field[i].step \in Nat \ {0}
    PROVE  MatchCronField(v, field) <=> v \in Denotes(field, 0..59)
  <1>1. CASE field = <<>>
    BY <1>1 DEF MatchCronField, Denotes
  <1>2. CASE field # <<>>
    <2> DEFINE Lists(i) == \E n \in 0..59 : v = field[i].lo + n * field[i].step /\ v <= field[i].hi
    <2>1. \A i \in DOMAIN field : PartMatches(v, field[i]) <=> Lists(i)
      <3> SUFFICES ASSUME NEW i \in DOMAIN field PROVE PartMatches(v, field[i]) <=> Lists(i)
        OBVIOUS
      <3> DEFINE lo == field[i].lo
                 hi == field[i].hi
                 s == field[i].step
      <3>1. lo \in Nat /\ hi \in Nat /\ s \in Nat \ {0}
        OBVIOUS
      <3> HIDE DEF lo, hi, s
      <3>2. (v >= lo /\ v <= hi /\ (s = 1 \/ (v - lo) % s = 0)) <=> (\E n \in 0..59 : v = lo + n * s /\ v <= hi)
        BY <3>1, StepsAre
      <3> QED BY <3>2, Zenon DEF PartMatches, lo, hi, s
    <2>2. v \in Denotes(field, 0..59) <=> \E i \in DOMAIN field : Lists(i)
      BY <1>2 DEF Denotes
    <2> HIDE DEF Lists
    <2>3. MatchCronField(v, field) <=> \E i \in DOMAIN field : PartMatches(v, field[i])
      BY <1>2 DEF MatchCronField
    <2> QED BY <2>1, <2>2, <2>3
  <1> QED BY <1>1, <1>2

CronInv ==
    /\ cronExpr \in Expressions /\ cronFrom \in Nat /\ tried \in 0..MaxIterations
    /\ candidate = cronFrom + 1 + tried
    /\ \A t \in cronFrom + 1 .. candidate - 1 : ~ Due(t)
    /\ cronDone = "found" => Due(candidate)
    /\ cronDone = "none" => tried = MaxIterations

(* The search and the definition agree on every time.                      *)
LEMMA DueIs == ASSUME cronExpr \in Expressions, NEW t \in Nat PROVE CronMatches(t) <=> Due(t)
  <1>1. ASSUME NEW f \in 1..5
        PROVE  MatchCronField(FieldOf(t, f), cronExpr[f]) <=> FieldOf(t, f) \in Denotes(cronExpr[f], 0..59)
    <2> DEFINE v == FieldOf(t, f)
               e == cronExpr[f]
    <2>1. v \in 0..59
      BY FieldIs
    <2>2. \A i \in DOMAIN e : e[i].lo \in Nat /\ e[i].hi \in Nat /\ e[i].step \in Nat \ {0}
      BY CronAssumption
    <2> HIDE DEF v, e
    <2>3. MatchCronField(v, e) <=> v \in Denotes(e, 0..59)
      BY <2>1, <2>2, MatchesAre
    <2> QED BY <2>3 DEF v, e
  <1> QED BY <1>1 DEF CronMatches, Due

(* No time has been tried.                                                 *)
LEMMA CronStarts == CronInit => CronInv
  <1> SUFFICES ASSUME CronInit PROVE CronInv
    OBVIOUS
  <1>1. /\ cronExpr \in Expressions /\ cronFrom \in Nat /\ candidate = cronFrom + 1 /\ tried = 0
        /\ cronDone = "no"
    BY CronAssumption DEF CronInit
  <1>2. tried \in 0..MaxIterations /\ candidate = cronFrom + 1 + tried
    BY <1>1, CronAssumption
  <1>3. \A t \in cronFrom + 1 .. candidate - 1 : FALSE
    BY <1>1
  <1> QED BY <1>1, <1>2, <1>3 DEF CronInv

(* Every round keeps it.                                                   *)
LEMMA CronStays == CronInv /\ [NextCronTime]_cronVars => CronInv'
  <1> SUFFICES ASSUME CronInv, [NextCronTime]_cronVars PROVE CronInv'
    OBVIOUS
  <1>0. /\ cronExpr \in Expressions /\ cronFrom \in Nat /\ tried \in 0..MaxIterations
        /\ candidate = cronFrom + 1 + tried /\ \A t \in cronFrom + 1 .. candidate - 1 : ~ Due(t)
    BY DEF CronInv
  <1>9. MaxIterations \in Nat
    BY CronAssumption
  <1>1. CASE UNCHANGED cronVars
    BY <1>1 DEF cronVars, CronInv, Due
  <1>2. CASE NextCronTime
    <2>0. cronExpr' = cronExpr /\ cronFrom' = cronFrom /\ cronDone = "no"
      BY <1>2 DEF NextCronTime
    <2>1. \A t : Due(t)' <=> Due(t)
      BY <2>0 DEF Due
    <2>2. CASE tried = MaxIterations /\ cronDone' = "none" /\ UNCHANGED <<candidate, tried>>
      BY <1>0, <2>0, <2>1, <2>2 DEF CronInv
    <2>3. CASE CronMatches(candidate) /\ cronDone' = "found" /\ UNCHANGED <<candidate, tried>>
      <3>1. candidate \in Nat
        BY <1>0
      <3>2. Due(candidate)
        BY <1>0, <2>3, <3>1, DueIs
      <3>3. Due(candidate)'
        <4>1. candidate' = candidate /\ cronExpr' = cronExpr
          BY <2>0, <2>3
        <4> QED BY <3>2, <4>1 DEF Due
      <3> QED BY <1>0, <2>0, <2>1, <2>3, <3>3 DEF CronInv
    <2>4. CASE /\ ~ CronMatches(candidate) /\ tried < MaxIterations
               /\ candidate' = candidate + 1 /\ tried' = tried + 1 /\ cronDone' = cronDone
      <3>1. candidate \in Nat
        BY <1>0
      <3>2. ~ Due(candidate)
        BY <1>0, <2>4, <3>1, DueIs
      <3>3. \A t \in cronFrom + 1 .. candidate : t = candidate \/ t \in cronFrom + 1 .. candidate - 1
        BY <1>0
      <3>4. \A t \in cronFrom' + 1 .. candidate' - 1 : ~ Due(t)
        <4>1. candidate' - 1 = candidate
          BY <2>4, <3>1
        <4> QED BY <1>0, <2>0, <3>2, <3>3, <4>1
      <3>5. tried' \in 0..MaxIterations /\ candidate' = cronFrom' + 1 + tried'
        BY <1>0, <1>9, <2>0, <2>4
      <3> QED BY <1>0, <2>0, <2>1, <2>4, <3>4, <3>5 DEF CronInv
    <2> QED BY <1>2, <2>2, <2>3, <2>4 DEF NextCronTime
  <1> QED BY <1>1, <1>2

(* The property follows.                                                   *)
LEMMA CronFinds == CronInv => NextIsFirstDue
  <1> SUFFICES ASSUME CronInv PROVE NextIsFirstDue
    OBVIOUS
  <1>0. /\ cronFrom \in Nat /\ tried \in 0..MaxIterations /\ candidate = cronFrom + 1 + tried
        /\ \A t \in cronFrom + 1 .. candidate - 1 : ~ Due(t)
    BY DEF CronInv
  <1>1. candidate > cronFrom
    BY <1>0, CronAssumption
  <1>2. ASSUME cronDone = "none" PROVE \A t \in cronFrom + 1 .. cronFrom + MaxIterations : ~ Due(t)
    <2>1. tried = MaxIterations
      BY <1>2 DEF CronInv
    <2>2. candidate - 1 = cronFrom + MaxIterations
      BY <1>0, <2>1, CronAssumption
    <2> QED BY <1>0, <2>2
  <1>3. cronDone = "found" => Due(candidate)
    BY DEF CronInv
  <1> QED BY <1>0, <1>1, <1>2, <1>3 DEF NextIsFirstDue

-----------------------------------------------------------------------------
(* Tasks in the pool, counted by kind.                                     *)
Places(q, job) == {i \in DOMAIN q : q[i] = job}
QueuedJobs(q, job) == Cardinality(Places(q, job))

LEMMA PlacesFinite ==
    ASSUME NEW q \in Seq(Kinds), NEW job
    PROVE  IsFiniteSet(Places(q, job)) /\ QueuedJobs(q, job) \in Nat
  <1>1. Len(q) \in Nat /\ DOMAIN q = 1..Len(q)
    OBVIOUS
  <1>2. IsFiniteSet(1..Len(q))
    BY <1>1, FS_Interval
  <1>3. Places(q, job) \in SUBSET (1..Len(q))
    BY <1>1 DEF Places
  <1>4. IsFiniteSet(Places(q, job))
    BY <1>2, <1>3, FS_Subset
  <1> QED BY <1>4, FS_CardinalityType DEF QueuedJobs

(* A job at the end of the queue.                                          *)
LEMMA WaitingLonger ==
    ASSUME NEW q \in Seq(Kinds), NEW job \in Kinds, NEW j \in Kinds
    PROVE  /\ Append(q, job) \in Seq(Kinds)
           /\ QueuedJobs(Append(q, job), j) = IF j = job THEN QueuedJobs(q, j) + 1 ELSE QueuedJobs(q, j)
  <1> DEFINE u == Append(q, job)
             n == Len(q) + 1
  <1>1. /\ Len(q) \in Nat /\ DOMAIN q = 1..Len(q)
        /\ u \in Seq(Kinds) /\ DOMAIN u = 1..n /\ u[n] = job /\ \A i \in 1..Len(q) : u[i] = q[i]
    OBVIOUS
  <1> HIDE DEF u
  <1>2. n \notin Places(q, j)
    BY <1>1 DEF Places
  <1>3. IsFiniteSet(Places(q, j))
    BY PlacesFinite
  <1>4. Places(u, j) = IF j = job THEN Places(q, j) \cup {n} ELSE Places(q, j)
    <2>1. \A i : i \in 1..n <=> (i \in 1..Len(q) \/ i = n)
      BY <1>1
    <2> HIDE DEF n
    <2>2. \A i : i \in Places(u, j) <=> (i \in Places(q, j) \/ (i = n /\ j = job))
      BY <1>1, <2>1 DEF Places
    <2> QED BY <2>2
  <1> HIDE DEF n
  <1>5. Cardinality(Places(q, j) \cup {n}) = Cardinality(Places(q, j)) + 1
    BY <1>2, <1>3, FS_AddElement
  <1> QED BY <1>1, <1>4, <1>5 DEF u, QueuedJobs

(* The first job taken from the queue.                                     *)
LEMMA WaitingShorter ==
    ASSUME NEW q \in Seq(Kinds), q # <<>>, NEW j \in Kinds
    PROVE  /\ Tail(q) \in Seq(Kinds) /\ Head(q) \in Kinds
           /\ QueuedJobs(q, j) = IF j = Head(q) THEN QueuedJobs(Tail(q), j) + 1 ELSE QueuedJobs(Tail(q), j)
  <1> DEFINE u == Tail(q)
             m == Len(q) - 1
             P == Places(u, j)
             Q == Places(q, j) \ {1}
             f == [i \in P |-> i + 1]
  <1>1. /\ m \in Nat /\ DOMAIN q = 1..(m + 1) /\ q[1] = Head(q) /\ Head(q) \in Kinds
        /\ u \in Seq(Kinds) /\ DOMAIN u = 1..m /\ \A i \in 1..m : u[i] = q[i + 1]
    OBVIOUS
  <1> HIDE DEF m, u
  <1>2. IsFiniteSet(P) /\ Cardinality(P) \in Nat /\ IsFiniteSet(Places(q, j)) /\ Cardinality(Places(q, j)) \in Nat
    BY <1>1, PlacesFinite DEF QueuedJobs
  <1>3. \A i \in P : i \in 1..m /\ u[i] = j
    BY <1>1 DEF Places
  <1>4. \A i \in P : i \in Int /\ i + 1 \in 1..(m + 1) /\ i + 1 # 1
    BY <1>1, <1>3
  <1>5. \A i \in P : i + 1 \in Q
    <2> SUFFICES ASSUME NEW i \in P PROVE i + 1 \in Q
      OBVIOUS
    <2>1. i \in 1..m /\ u[i] = j /\ u[i] = q[i + 1] /\ i + 1 \in DOMAIN q /\ i + 1 # 1
      BY <1>1, <1>3, <1>4
    <2> QED BY <2>1 DEF Places
  <1>6. \A y \in Q : y - 1 \in P /\ y = (y - 1) + 1
    <2> SUFFICES ASSUME NEW y \in Q PROVE y - 1 \in P /\ y = (y - 1) + 1
      OBVIOUS
    <2>1. y \in 1..(m + 1) /\ q[y] = j /\ y # 1
      BY <1>1 DEF Places
    <2>2. y - 1 \in 1..m /\ y = (y - 1) + 1
      BY <1>1, <2>1
    <2>3. u[y - 1] = j
      BY <1>1, <2>1, <2>2
    <2> QED BY <1>1, <2>2, <2>3 DEF Places
  <1> HIDE DEF P, Q
  <1>7. f \in Bijection(P, Q)
    <2>1. f \in [P -> Q]
      BY <1>5
    <2>2. \A a, b \in P : f[a] = f[b] => a = b
      BY <1>4
    <2>3. \A y \in Q : \E i \in P : f[i] = y
      BY <1>6
    <2> HIDE DEF f
    <2> QED BY <2>1, <2>2, <2>3, Fun_IsBij
  <1>8. Cardinality(Q) = Cardinality(P)
    BY <1>2, <1>7, FS_Bijection DEF ExistsBijection
  <1>9. 1 \in Places(q, j) <=> j = Head(q)
    BY <1>1 DEF Places
  <1>10. Cardinality(Q) = IF 1 \in Places(q, j) THEN Cardinality(Places(q, j)) - 1 ELSE Cardinality(Places(q, j))
    BY <1>2, FS_RemoveElement DEF Q
  <1>11. Cardinality(P) = QueuedJobs(u, j) /\ Cardinality(Places(q, j)) = QueuedJobs(q, j)
    BY DEF P, QueuedJobs
  <1>12. QueuedJobs(q, j) = IF j = Head(q) THEN QueuedJobs(u, j) + 1 ELSE QueuedJobs(u, j)
    <2> DEFINE x == QueuedJobs(q, j)
               y == QueuedJobs(u, j)
    <2>1. x \in Nat /\ y \in Nat
      BY <1>2, <1>11
    <2>2. y = IF j = Head(q) THEN x - 1 ELSE x
      BY <1>8, <1>9, <1>10, <1>11
    <2> HIDE DEF x, y
    <2>3. x = IF j = Head(q) THEN y + 1 ELSE y
      BY <2>1, <2>2
    <2> QED BY <2>3 DEF x, y
  <1>13. u \in Seq(Kinds) /\ Head(q) \in Kinds
    BY <1>1
  <1> QED BY <1>12, <1>13 DEF u

TasksInv ==
    /\ poolQueue \in Seq(Kinds) /\ executing \in [Kinds -> Nat]
    /\ starts \in Nat /\ ended \in Nat /\ posted \in Nat /\ told \in Nat
    /\ runFlag \in BOOLEAN /\ cancelFlag \in BOOLEAN /\ mainQueue \in Seq(BOOLEAN)
    /\ TasksAccounted

LEMMA InPoolIs == \A job : InPool(job) = QueuedJobs(poolQueue, job) + executing[job]
  BY DEF InPool, QueuedJobs, Places

LEMMA InPoolNext == \A job : InPool(job)' = QueuedJobs(poolQueue', job) + executing'[job]
  BY DEF InPool, QueuedJobs, Places

LEMMA InPoolNat == TasksInv => \A job \in Kinds : InPool(job) \in Nat
  BY InPoolIs, PlacesFinite DEF TasksInv

LEMMA TasksStart == TasksInit => TasksInv
  <1> SUFFICES ASSUME TasksInit PROVE TasksInv
    OBVIOUS
  <1>1. poolQueue = <<>> /\ executing = [job \in Kinds |-> 0] /\ mainQueue = <<>>
    BY DEF TasksInit
  <1>2. Places(poolQueue, "runner") = {} /\ Places(poolQueue, "cancelable") = {} /\ Places(poolQueue, "posting") = {}
    BY <1>1 DEF Places
  <1>3. QueuedJobs(poolQueue, "runner") = 0 /\ QueuedJobs(poolQueue, "cancelable") = 0 /\ QueuedJobs(poolQueue, "posting") = 0
    BY <1>2, FS_EmptySet DEF QueuedJobs
  <1>4. executing["runner"] = 0 /\ executing["cancelable"] = 0 /\ executing["posting"] = 0
    BY <1>1 DEF Kinds
  <1>5. InPool("runner") = 0 /\ InPool("cancelable") = 0 /\ InPool("posting") = 0
    BY <1>3, <1>4, InPoolIs
  <1>6. TasksAccounted
    BY <1>1, <1>5 DEF TasksInit, TasksAccounted
  <1>7. /\ poolQueue \in Seq(Kinds) /\ mainQueue \in Seq(BOOLEAN) /\ executing \in [Kinds -> Nat]
        /\ starts \in Nat /\ ended \in Nat /\ posted \in Nat /\ told \in Nat
    BY <1>1 DEF TasksInit
  <1>8. runFlag \in BOOLEAN /\ cancelFlag \in BOOLEAN
    BY DEF TasksInit
  <1> QED BY <1>6, <1>7, <1>8 DEF TasksInv

(* What entering, taking and ending do to the counts.                      *)
LEMMA EnterCounts ==
    ASSUME TasksInv, NEW job \in Kinds, Enqueue(job), UNCHANGED executing
    PROVE  /\ poolQueue' \in Seq(Kinds)
           /\ \A j \in Kinds : InPool(j)' = IF j = job THEN InPool(j) + 1 ELSE InPool(j)
  <1>1. poolQueue \in Seq(Kinds) /\ executing \in [Kinds -> Nat] /\ poolQueue' = Append(poolQueue, job)
    BY DEF TasksInv, Enqueue
  <1>2. \A j \in Kinds : /\ QueuedJobs(poolQueue, j) \in Nat /\ executing[j] \in Nat
                         /\ QueuedJobs(poolQueue', j) = IF j = job THEN QueuedJobs(poolQueue, j) + 1 ELSE QueuedJobs(poolQueue, j)
    BY <1>1, PlacesFinite, WaitingLonger
  <1>3. poolQueue' \in Seq(Kinds)
    BY <1>1, WaitingLonger
  <1>4. ASSUME NEW j \in Kinds PROVE InPool(j)' = IF j = job THEN InPool(j) + 1 ELSE InPool(j)
    <2>1. /\ InPool(j) = QueuedJobs(poolQueue, j) + executing[j]
          /\ InPool(j)' = QueuedJobs(poolQueue', j) + executing[j]
      BY InPoolIs, InPoolNext
    <2> QED BY <1>2, <2>1
  <1> QED BY <1>3, <1>4

LEMMA EndCounts ==
    ASSUME TasksInv, NEW job \in Kinds, Finish(job), UNCHANGED poolQueue
    PROVE  /\ executing' \in [Kinds -> Nat]
           /\ \A j \in Kinds : InPool(j)' = IF j = job THEN InPool(j) - 1 ELSE InPool(j)
  <1>1. /\ poolQueue \in Seq(Kinds) /\ executing \in [Kinds -> Nat]
        /\ executing[job] > 0 /\ executing' = [executing EXCEPT ![job] = @ - 1]
    BY DEF TasksInv, Finish
  <1>2. \A j \in Kinds : QueuedJobs(poolQueue, j) \in Nat
    BY <1>1, PlacesFinite
  <1>3. executing' \in [Kinds -> Nat]
    BY <1>1
  <1>4. \A j \in Kinds : executing'[j] = IF j = job THEN executing[j] - 1 ELSE executing[j]
    BY <1>1
  <1> QED BY <1>1, <1>2, <1>3, <1>4, InPoolIs, InPoolNext

LEMMA TakeCounts ==
    ASSUME TasksInv, TakeJob
    PROVE  /\ poolQueue' \in Seq(Kinds) /\ executing' \in [Kinds -> Nat]
           /\ \/ /\ UNCHANGED <<runFlag, ended>>
                 /\ \A j \in Kinds : InPool(j)' = InPool(j)
              \/ /\ runFlag' = FALSE /\ ended' = ended + 1
                 /\ \A j \in Kinds : InPool(j)' = IF j = "cancelable" THEN InPool(j) - 1 ELSE InPool(j)
  <1> DEFINE h == Head(poolQueue)
  <1>1. /\ poolQueue \in Seq(Kinds) /\ executing \in [Kinds -> Nat]
        /\ poolQueue # <<>> /\ poolQueue' = Tail(poolQueue)
    BY DEF TasksInv, TakeJob
  <1>2. /\ poolQueue' \in Seq(Kinds) /\ h \in Kinds
        /\ \A j \in Kinds : /\ QueuedJobs(poolQueue', j) \in Nat /\ executing[j] \in Nat
                            /\ QueuedJobs(poolQueue, j) = IF j = h THEN QueuedJobs(poolQueue', j) + 1 ELSE QueuedJobs(poolQueue', j)
    <2>1. \A j \in Kinds : /\ poolQueue' \in Seq(Kinds) /\ h \in Kinds
                           /\ QueuedJobs(poolQueue, j) = IF j = h THEN QueuedJobs(poolQueue', j) + 1 ELSE QueuedJobs(poolQueue', j)
      BY <1>1, WaitingShorter
    <2>2. "runner" \in Kinds
      BY DEF Kinds
    <2> QED BY <1>1, <2>1, <2>2, PlacesFinite
  <1>3. CASE h = "cancelable" /\ cancelFlag
    <2>1. runFlag' = FALSE /\ ended' = ended + 1 /\ executing' = executing
      BY <1>3 DEF TakeJob
    <2>2. \A j \in Kinds : InPool(j)' = IF j = "cancelable" THEN InPool(j) - 1 ELSE InPool(j)
      BY <1>2, <1>3, <2>1, InPoolIs, InPoolNext
    <2> QED BY <1>1, <1>2, <2>1, <2>2
  <1>4. CASE ~ (h = "cancelable" /\ cancelFlag)
    <2>1. executing' = [executing EXCEPT ![h] = @ + 1] /\ UNCHANGED <<runFlag, ended>>
      BY <1>4 DEF TakeJob
    <2>2. /\ executing' \in [Kinds -> Nat]
          /\ \A j \in Kinds : executing'[j] = IF j = h THEN executing[j] + 1 ELSE executing[j]
      BY <1>1, <1>2, <2>1
    <2>3. ASSUME NEW j \in Kinds PROVE InPool(j)' = InPool(j)
      <3>1. /\ InPool(j) = QueuedJobs(poolQueue, j) + executing[j]
            /\ InPool(j)' = QueuedJobs(poolQueue', j) + executing'[j]
        BY InPoolIs, InPoolNext
      <3> QED BY <1>2, <2>2, <3>1
    <2> QED BY <1>2, <2>1, <2>2, <2>3
  <1> QED BY <1>3, <1>4

LEMMA TasksStay ==
    ASSUME TasksInv, [TasksNext]_taskVars
    PROVE  TasksInv'
  <1> DEFINE R == InPool("runner")
             C == InPool("cancelable")
             P == InPool("posting")
  <1>0. /\ "runner" \in Kinds /\ "cancelable" \in Kinds /\ "posting" \in Kinds
        /\ R \in Nat /\ C \in Nat /\ P \in Nat
    BY InPoolNat DEF Kinds
  <1>1. /\ poolQueue \in Seq(Kinds) /\ executing \in [Kinds -> Nat]
        /\ starts \in Nat /\ ended \in Nat /\ posted \in Nat /\ told \in Nat
        /\ runFlag \in BOOLEAN /\ cancelFlag \in BOOLEAN /\ mainQueue \in Seq(BOOLEAN)
    BY DEF TasksInv
  <1>2. /\ activeTasks = R /\ starts = ended + C /\ (runFlag => C > 0)
        /\ (starts = 1 /\ C = 1 => runFlag) /\ posted = told + Len(mainQueue) + P
    BY DEF TasksInv, TasksAccounted
  <1> DEFINE Sums == activeTasks' = R' /\ starts' = ended' + C' /\ (runFlag' => C' > 0)
                     /\ (starts' = 1 /\ C' = 1 => runFlag') /\ posted' = told' + Len(mainQueue') + P'
             Typed == /\ poolQueue' \in Seq(Kinds) /\ executing' \in [Kinds -> Nat]
                      /\ starts' \in Nat /\ ended' \in Nat /\ posted' \in Nat /\ told' \in Nat
                      /\ runFlag' \in BOOLEAN /\ cancelFlag' \in BOOLEAN /\ mainQueue' \in Seq(BOOLEAN)
  <1>3. Sums /\ Typed => TasksInv'
    BY DEF TasksInv, TasksAccounted
  <1> HIDE DEF R, C, P
  <1>4. CASE RunnerRun
    <2>1. R' = R + 1 /\ C' = C /\ P' = P /\ poolQueue' \in Seq(Kinds)
      BY <1>0, <1>4, EnterCounts DEF RunnerRun, R, C, P
    <2> QED BY <1>0, <1>1, <1>2, <1>3, <1>4, <2>1 DEF RunnerRun
  <1>5. CASE StartCancelable
    <2>1. R' = R /\ C' = C + 1 /\ P' = P /\ poolQueue' \in Seq(Kinds)
      BY <1>0, <1>5, EnterCounts DEF StartCancelable, R, C, P
    <2>2. runFlag' /\ runFlag' \in BOOLEAN /\ cancelFlag' \in BOOLEAN
      BY <1>5, Zenon DEF StartCancelable
    <2>3. UNCHANGED <<executing, activeTasks, ended, mainQueue, posted, told>> /\ starts' = starts + 1
      BY <1>5 DEF StartCancelable
    <2>4. C' > 0 /\ starts' = ended' + C' /\ starts' \in Nat
      BY <1>0, <1>1, <1>2, <2>1, <2>3
    <2>5. Sums
      BY <1>2, <2>1, <2>2, <2>3, <2>4
    <2>6. Typed
      BY <1>1, <2>1, <2>2, <2>3, <2>4
    <2> QED BY <1>3, <2>5, <2>6
  <1>6. CASE CancelTask
    <2>1. R' = R /\ C' = C /\ P' = P
      BY <1>6 DEF CancelTask, R, C, P, InPool
    <2> QED BY <1>0, <1>1, <1>2, <1>3, <1>6, <2>1 DEF CancelTask
  <1>7. CASE RunAsync
    <2>1. R' = R /\ C' = C /\ P' = P + 1 /\ poolQueue' \in Seq(Kinds)
      BY <1>0, <1>7, EnterCounts DEF RunAsync, R, C, P
    <2> QED BY <1>0, <1>1, <1>2, <1>3, <1>7, <2>1 DEF RunAsync
  <1>8. CASE TakeJob
    <2>1. /\ poolQueue' \in Seq(Kinds) /\ executing' \in [Kinds -> Nat] /\ R' = R /\ P' = P
          /\ \/ UNCHANGED <<runFlag, ended>> /\ C' = C
             \/ runFlag' = FALSE /\ ended' = ended + 1 /\ C' = C - 1
      BY <1>0, <1>8, TakeCounts DEF R, C, P
    <2>2. UNCHANGED <<activeTasks, cancelFlag, starts, mainQueue, posted, told>>
      BY <1>8 DEF TakeJob
    <2>3. CASE UNCHANGED <<runFlag, ended>> /\ C' = C
      BY <1>1, <1>2, <1>3, <2>1, <2>2, <2>3
    <2>4. CASE runFlag' = FALSE /\ ended' = ended + 1 /\ C' = C - 1
      <3>1. ~ runFlag' /\ runFlag' \in BOOLEAN
        BY <2>4, Zenon
      <3>2. starts' = ended' + C' /\ ended' \in Nat /\ ~ (starts' = 1 /\ C' = 1)
        BY <1>0, <1>1, <1>2, <2>2, <2>4
      <3> QED BY <1>1, <1>2, <1>3, <2>1, <2>2, <3>1, <3>2
    <2> QED BY <2>1, <2>3, <2>4
  <1>9. ASSUME NEW t \in BOOLEAN, RunnerEnds(t) PROVE TasksInv'
    <2>1. R' = R - 1 /\ C' = C /\ P' = P /\ executing' \in [Kinds -> Nat]
      BY <1>0, <1>9, EndCounts DEF RunnerEnds, R, C, P
    <2> QED BY <1>0, <1>1, <1>2, <1>3, <1>9, <2>1 DEF RunnerEnds
  <1>10. ASSUME NEW t \in BOOLEAN, PostResult(t) PROVE TasksInv'
    <2>1. R' = R /\ C' = C /\ P' = P - 1 /\ executing' \in [Kinds -> Nat]
      BY <1>0, <1>10, EndCounts DEF PostResult, R, C, P
    <2>2. mainQueue' \in Seq(BOOLEAN) /\ Len(mainQueue') = Len(mainQueue) + 1 /\ Len(mainQueue) \in Nat
      BY <1>1, <1>10 DEF PostResult
    <2> QED BY <1>0, <1>1, <1>2, <1>3, <1>10, <2>1, <2>2 DEF PostResult
  <1>11. CASE CancelableEnds
    <2>1. R' = R /\ C' = C - 1 /\ P' = P /\ executing' \in [Kinds -> Nat]
      BY <1>0, <1>11, EndCounts DEF CancelableEnds, R, C, P
    <2>2. ~ runFlag' /\ runFlag' \in BOOLEAN
      BY <1>11, Zenon DEF CancelableEnds
    <2>3. ended' = ended + 1 /\ UNCHANGED <<poolQueue, activeTasks, cancelFlag, starts, mainQueue, posted, told>>
      BY <1>11 DEF CancelableEnds
    <2>4. starts' = ended' + C' /\ ended' \in Nat /\ ~ (starts' = 1 /\ C' = 1)
      BY <1>0, <1>1, <1>2, <2>1, <2>3
    <2> QED BY <1>1, <1>2, <1>3, <2>1, <2>2, <2>3, <2>4
  <1>12. CASE MainRuns
    <2>1. R' = R /\ C' = C /\ P' = P
      BY <1>12 DEF MainRuns, R, C, P, InPool
    <2>2. mainQueue' \in Seq(BOOLEAN) /\ Len(mainQueue') = Len(mainQueue) - 1 /\ Len(mainQueue) \in Nat
      BY <1>1, <1>12 DEF MainRuns
    <2> QED BY <1>0, <1>1, <1>2, <1>3, <1>12, <2>1, <2>2 DEF MainRuns
  <1>13. CASE UNCHANGED taskVars
    <2>1. R' = R /\ C' = C /\ P' = P
      BY <1>13 DEF taskVars, R, C, P, InPool
    <2> QED BY <1>1, <1>2, <1>3, <1>13, <2>1 DEF taskVars
  <1> QED BY <1>4, <1>5, <1>6, <1>7, <1>8, <1>9, <1>10, <1>11, <1>12, <1>13 DEF TasksNext

-----------------------------------------------------------------------------
(* Buses, scheduler, cron search and pool tasks side by side.              *)
DispatchInv == BusInv /\ SchedInv /\ CronInv /\ TasksInv

LEMMA DispatchStarts == RuntimeInit => DispatchInv
  <1> SUFFICES ASSUME RuntimeInit PROVE DispatchInv
    OBVIOUS
  <1>1. BusInit /\ SchedInit /\ CronInit /\ TasksInit
    BY DEF RuntimeInit
  <1> QED BY <1>1, BusStarts, SchedStarts, CronStarts, TasksStart DEF DispatchInv

(* A step of the whole is a step of at most one of them.                   *)
LEMMA DispatchParts ==
    ASSUME [RuntimeNext]_runtimeVars
    PROVE  [BusNext]_busVars /\ [SchedNext]_schedVars /\ [NextCronTime]_cronVars /\ [TasksNext]_taskVars
  <1>1. (ServiceStep \/ UNCHANGED serviceVars) /\ (ReportStep \/ UNCHANGED reportVars)
    BY DEF RuntimeNext, runtimeVars
  <1>2. [BusNext]_busVars /\ [SchedNext]_schedVars /\ [NextCronTime]_cronVars
    BY <1>1 DEF ServiceStep, serviceVars
  <1>3. [TasksNext]_taskVars
    BY <1>1 DEF ReportStep, reportVars
  <1> QED BY <1>2, <1>3

(***************************************************************************)
(* Whoever subscribes, unsubscribes, clears, starts, stops, replaces,      *)
(* triggers, throws or cancels in between: a publish() that ran to its end *)
(* has called every handler that stayed, once; a task that says it is      *)
(* running has its timer, set for the first minute that its expression     *)
(* allows, but for the four exceptions that RunningIsArmed names (no next  *)
(* time, a callback that threw, calls from another thread, a time more     *)
(* than 24.8 days away); and what the pool was given is in it, on a        *)
(* thread, or told its end.                                                *)
(***************************************************************************)
THEOREM DispatchCorrect == RuntimeSpec => []DispatchSound
  <1>1. RuntimeInit => DispatchInv
    BY DispatchStarts
  <1>2. DispatchInv /\ [RuntimeNext]_runtimeVars => DispatchInv'
    <2> SUFFICES ASSUME DispatchInv, [RuntimeNext]_runtimeVars PROVE DispatchInv'
      OBVIOUS
    <2>1. [BusNext]_busVars /\ [SchedNext]_schedVars /\ [NextCronTime]_cronVars /\ [TasksNext]_taskVars
      BY DispatchParts
    <2>2. BusInv /\ SchedInv /\ CronInv /\ TasksInv
      BY DEF DispatchInv
    <2>3. BusInv' /\ SchedInv' /\ CronInv' /\ TasksInv'
      BY <2>1, <2>2, BusStays, SchedStays, CronStays, TasksStay
    <2> QED BY <2>3 DEF DispatchInv
  <1>3. DispatchInv => DispatchSound
    BY BusServes, CronFinds DEF DispatchInv, DispatchSound, SchedInv, TasksInv
  <1> QED BY <1>1, <1>2, <1>3, PTL DEF RuntimeSpec

-----------------------------------------------------------------------------
(* The collector: a thread that runs is the one that m_thread holds.       *)
CollectorInv == spawned \in Nat /\ OneCollector

LEMMA CollectorStarts == CollectorInit => CollectorInv
  BY FS_EmptySet DEF CollectorInit, CollectorInv, OneCollector

LEMMA CollectorStays == ASSUME CollectorInv, [CollectorNext]_collectorVars PROVE CollectorInv'
  <1>0. spawned \in Nat /\ (loops # {} => joinable /\ loops = {spawned})
    BY DEF CollectorInv, OneCollector
  <1>1. ASSUME spawned' \in Nat, loops' # {} => joinable' /\ loops' = {spawned'} PROVE CollectorInv'
    <2>1. Cardinality({spawned'}) = 1 /\ Cardinality({}) = 0
      BY FS_Singleton, FS_EmptySet
    <2>2. Cardinality(loops') <= 1
      BY <1>1, <2>1
    <2> QED BY <1>1, <2>2 DEF CollectorInv, OneCollector
  <1>2. ASSUME UNCHANGED <<spawned, loops, joinable>> PROVE CollectorInv'
    BY <1>0, <1>1, <1>2
  <1>3. CASE UNCHANGED collectorVars
    BY <1>2, <1>3 DEF collectorVars
  <1>4. ASSUME NEW o \in Operators, StartThread(o) PROVE CollectorInv'
    <2>1. (joinable => spawned \notin loops) /\ spawned' = spawned + 1 /\ loops' = loops \cup {spawned'} /\ joinable'
      BY <1>4 DEF StartThread, Joined
    <2>2. loops = {}
      BY <1>0, <2>1
    <2> QED BY <1>0, <1>1, <2>1, <2>2
  <1>5. ASSUME NEW o \in Operators, StopJoin(o) PROVE CollectorInv'
    <2>1. (joinable => spawned \notin loops) /\ spawned' = spawned /\ loops' = loops
      BY <1>5 DEF StopJoin, Joined
    <2> QED BY <1>0, <1>1, <2>1
  <1>6. ASSUME NEW t \in 1..MaxSpawned, LoopEnds(t) PROVE CollectorInv'
    <2>1. t \in loops /\ loops' = loops \ {t} /\ spawned' = spawned /\ joinable' = joinable
      BY <1>6 DEF LoopEnds
    <2> QED BY <1>0, <1>1, <2>1
  <1>7. ASSUME NEW o \in Operators, StartCas(o) \/ StartFlag(o) \/ StopCas(o) \/ StopFlag(o) \/ TakeMutex(o)
        PROVE  CollectorInv'
    BY <1>2, <1>7 DEF StartCas, StartFlag, StopCas, StopFlag, TakeMutex
  <1>8. ASSUME NEW t, CollectOnce(t) PROVE CollectorInv'
    BY <1>2, <1>8 DEF CollectOnce
  <1>9. ASSUME NEW m, RegisterMonitor(m) \/ UnregisterMonitor(m) \/ LoadChanges(m) PROVE CollectorInv'
    BY <1>2, <1>9 DEF RegisterMonitor, UnregisterMonitor, LoadChanges, threadState
  <1> QED BY <1>3, <1>4, <1>5, <1>6, <1>7, <1>8, <1>9 DEF CollectorNext

-----------------------------------------------------------------------------
(* The exports of a counter.                                               *)
ExportInv ==
    /\ counter \in [Series -> Nat] /\ scraped \in [Series -> Nat] /\ exporting \in Nat \cup {-1}
    /\ ExportsGrow

LEMMA ExportStarts == MetricsInit => ExportInv
  BY DEF MetricsInit, ExportInv, ExportsGrow

LEMMA ExportStays == ASSUME ExportInv, [MetricsNext]_metricVars PROVE ExportInv'
  <1>0. /\ counter \in [Series -> Nat] /\ scraped \in [Series -> Nat] /\ exporting \in Nat \cup {-1}
        /\ \A s \in Series : scraped[s] <= counter[s]
        /\ exporting # -1 => scraped["bare"] <= exporting /\ exporting <= counter["bare"]
        /\ "bare" \in Series
    BY DEF ExportInv, ExportsGrow, Series
  <1>1. ASSUME UNCHANGED <<counter, exporting, scraped>> PROVE ExportInv'
    BY <1>0, <1>1 DEF ExportInv, ExportsGrow
  <1>2. CASE UNCHANGED metricVars
    BY <1>1, <1>2 DEF metricVars
  <1>3. ASSUME NEW v, Observe(v) PROVE ExportInv'
    BY <1>1, <1>3 DEF Observe
  <1>4. ASSUME NEW s, NEW v, SetGauge(s, v) \/ AdjustGauge(v) PROVE ExportInv'
    BY <1>1, <1>4 DEF SetGauge, AdjustGauge
  <1>5. ASSUME NEW k, GetMetric(k) PROVE ExportInv'
    BY <1>1, <1>5 DEF GetMetric
  <1>6. ASSUME NEW s \in Series, NEW v \in 0..MaxCount, IncrementCounter(s, v) PROVE ExportInv'
    <2>1. v \in Nat
      BY HistogramAssumption
    <2>2. counter' = [counter EXCEPT ![s] = @ + v] /\ exporting' = exporting /\ scraped' = scraped
      BY <1>6 DEF IncrementCounter
    <2>3. counter' \in [Series -> Nat] /\ \A r \in Series : counter[r] <= counter'[r]
      BY <1>0, <2>1, <2>2
    <2>4. /\ \A r \in Series : scraped[r] <= counter'[r]
          /\ exporting # -1 => scraped["bare"] <= exporting /\ exporting <= counter'["bare"]
      BY <1>0, <2>3
    <2> QED BY <1>0, <2>2, <2>3, <2>4 DEF ExportInv, ExportsGrow
  <1>7. CASE ExportValue
    BY <1>0, <1>7 DEF ExportValue, ExportInv, ExportsGrow
  <1>8. CASE ExportLabels
    <2>1. exporting # -1 /\ exporting' = -1 /\ scraped' = [counter EXCEPT !["bare"] = exporting] /\ counter' = counter
      BY <1>8 DEF ExportLabels
    <2>2. scraped' \in [Series -> Nat] /\ \A r \in Series : scraped'[r] <= counter'[r]
      BY <1>0, <2>1
    <2> QED BY <1>0, <2>1, <2>2 DEF ExportInv, ExportsGrow
  <1>9. CASE ClearRegistry
    BY <1>0, <1>9 DEF ClearRegistry, ExportInv, ExportsGrow
  <1>10. ASSUME NEW s \in Series, NEW v \in 0..MaxCount, IncrementCounter(s, v) \/ SetGauge(s, v) PROVE ExportInv'
    BY <1>4, <1>6, <1>10
  <1>11. ASSUME NEW v, AdjustGauge(v) PROVE ExportInv'
    BY <1>4, <1>11
  <1> QED BY <1>2, <1>3, <1>5, <1>7, <1>8, <1>9, <1>10, <1>11 DEF MetricsNext

-----------------------------------------------------------------------------
(* Spans.  What a span and a request in flight say of their trace.         *)
Given(r) == ParseTraceparent(r.header)
Mark(c, origin) == [trace |-> c.trace, sampled |-> c.sampled, origin |-> origin]
Marks == {Mark(s.context, s.origin) : s \in spans} \cup {Mark(Given(r), r.origin) : r \in requests}

(* Items of one origin are of one trace, and sampled alike if it is valid. *)
Alike(x, y) == x.origin = y.origin => x.trace = y.trace /\ (x.trace # 0 => x.sampled = y.sampled)

(* An id names a span of this trace and origin, or comes from outside.     *)
Traced(id, trace, origin) ==
    \/ id \in {0, OutsideId}
    \/ \E t \in spans : t.context.span = id /\ t.context.trace = trace /\ t.origin = origin

Origins == (1..Cardinality(spans)) \cup {OutsideId}

SpansCounted ==
    /\ IsFiniteSet(spans) /\ Cardinality(spans) \in 0..MaxSpans
    /\ \A s \in spans : s.context.span \in 1..Cardinality(spans)
    /\ \A s, t \in spans : s.context.span = t.context.span => s = t

SpansOK ==
    \A s \in spans :
        /\ s.origin \in Origins /\ s.context.trace \in {0, s.origin}
        /\ Traced(s.context.parent, s.context.trace, s.origin)
        /\ s.origin = OutsideId => requests # {}

RequestsOK ==
    \A r \in requests :
        /\ r.origin \in Origins /\ Given(r).trace \in {0, r.origin}
        /\ Traced(Given(r).span, Given(r).trace, r.origin)

TracingInv == SpansCounted /\ SpansOK /\ RequestsOK /\ \A x, y \in Marks : Alike(x, y)

LEMMA TracingStarts == TracingInit => TracingInv
  BY FS_EmptySet, TracingAssumption
  DEF TracingInit, TracingInv, SpansCounted, SpansOK, RequestsOK, Marks

LEMMA TracingHolds == TracingInv => TracesHoldTogether
  <1> SUFFICES ASSUME TracingInv, NEW s \in spans, NEW t \in spans
               PROVE  LET c == s.context
                          d == t.context
                      IN  /\ IsValid(c) /\ IsValid(d) =>
                               /\ c.trace = d.trace <=> s.origin = t.origin
                               /\ c.trace = d.trace => c.sampled = d.sampled
                          /\ c.parent = d.span => c.trace = d.trace /\ s.origin = t.origin
                          /\ ~ IsValid(c) /\ s.origin = t.origin => ~ IsValid(d)
    BY DEF TracesHoldTogether
  <1> DEFINE c == s.context
             d == t.context
  <1>1. SpansCounted /\ SpansOK
    BY DEF TracingInv
  <1>2. /\ Cardinality(spans) \in 0..MaxSpans /\ c.span \in 1..Cardinality(spans) /\ d.span \in 1..Cardinality(spans)
        /\ \A x, y \in spans : x.context.span = y.context.span => x = y
    BY <1>1 DEF SpansCounted
  <1>3. c.trace \in {0, s.origin} /\ d.trace \in {0, t.origin} /\ Traced(c.parent, c.trace, s.origin)
    BY <1>1 DEF SpansOK
  <1>4. Mark(c, s.origin) \in Marks /\ Mark(d, t.origin) \in Marks
    BY DEF Marks
  <1>5. s.origin = t.origin => c.trace = d.trace /\ (c.trace # 0 => c.sampled = d.sampled)
    BY <1>4 DEF TracingInv, Alike, Mark
  <1>6. (IsValid(c) <=> c.trace # 0) /\ (IsValid(d) <=> d.trace # 0)
    BY <1>2 DEF IsValid
  <1>7. ASSUME c.parent = d.span PROVE c.trace = d.trace /\ s.origin = t.origin
    <2>1. d.span \notin {0, OutsideId}
      BY <1>2, TracingAssumption DEF OutsideId
    <2>2. PICK u \in spans : u.context.span = d.span /\ u.context.trace = c.trace /\ u.origin = s.origin
      BY <1>3, <1>7, <2>1 DEF Traced
    <2>3. u = t
      BY <1>2, <2>2
    <2> QED BY <2>2, <2>3
  <1> QED BY <1>3, <1>5, <1>6, <1>7

(* A new span: it counts itself, and agrees with what it continues.        *)
LEMMA SpanAdded ==
    ASSUME TracingInv, NewId <= MaxSpans, NEW c, NEW o, Span(c, o), UNCHANGED requests,
           c.span = NewId, o \in Origins \cup {NewId}, c.trace \in {0, o},
           Traced(c.parent, c.trace, o), o = OutsideId => requests # {},
           \/ o = NewId
           \/ \E y \in Marks : y.origin = o /\ y.trace = c.trace /\ y.sampled = c.sampled
    PROVE  TracingInv'
  <1> DEFINE n == Cardinality(spans)
             x == [context |-> c, origin |-> o]
  <1>0. SpansCounted /\ SpansOK /\ RequestsOK /\ \A y, z \in Marks : Alike(y, z)
    BY DEF TracingInv
  <1>1. /\ spans' = spans \cup {x} /\ x.context = c /\ x.origin = o
        /\ IsFiniteSet(spans) /\ n \in Nat /\ n + 1 <= MaxSpans /\ MaxSpans \in Nat /\ NewId = n + 1
        /\ \A s \in spans : s.context.span \in 1..n
        /\ \A s, t \in spans : s.context.span = t.context.span => s = t
    BY <1>0, TracingAssumption DEF Span, SpansCounted, NewId
  <1> HIDE DEF n, x
  <1>2. \A s \in spans : s.context.span # n + 1
    BY <1>1
  <1>3. x \notin spans
    BY <1>1, <1>2
  <1>4. IsFiniteSet(spans') /\ Cardinality(spans') = n + 1
    BY <1>1, <1>3, FS_AddElement DEF n
  <1>5. \A s \in spans' : s.context.span \in 1..(n + 1)
    <2>1. \A i : i \in 1..n => i \in 1..(n + 1)
      BY <1>1
    <2>2. c.span \in 1..(n + 1)
      BY <1>1
    <2> QED BY <1>1, <2>1, <2>2
  <1>6. \A s, t \in spans' : s.context.span = t.context.span => s = t
    BY <1>1, <1>2
  <1>7. SpansCounted'
    <2>1. n + 1 \in 0..MaxSpans
      BY <1>1
    <2>2. Cardinality(spans') \in 0..MaxSpans /\ \A s \in spans' : s.context.span \in 1..Cardinality(spans')
      BY <1>4, <1>5, <2>1
    <2> QED BY <1>4, <1>6, <2>2 DEF SpansCounted
  <1>8. Origins \cup {NewId} = Origins'
    <2>1. Origins = (1..n) \cup {OutsideId} /\ Origins' = (1..(n + 1)) \cup {OutsideId}
      BY <1>4 DEF Origins, n, OutsideId
    <2>2. 1..(n + 1) = (1..n) \cup {n + 1}
      BY <1>1
    <2> QED BY <1>1, <2>1, <2>2
  <1>9. \A id, trace, origin : Traced(id, trace, origin) => Traced(id, trace, origin)'
    BY <1>1 DEF Traced, OutsideId
  <1>10. SpansOK'
    <2> SUFFICES ASSUME NEW s \in spans'
                 PROVE  /\ s.origin \in Origins' /\ s.context.trace \in {0, s.origin}
                        /\ Traced(s.context.parent, s.context.trace, s.origin)'
                        /\ s.origin = OutsideId => requests' # {}
      BY DEF SpansOK, OutsideId
    <2>1. CASE s \in spans
      BY <1>0, <1>8, <1>9, <2>1 DEF SpansOK
    <2>2. CASE s = x
      BY <1>1, <1>8, <1>9, <2>2
    <2> QED BY <1>1, <2>1, <2>2
  <1>11. RequestsOK'
    <2>1. \A r \in requests : /\ r.origin \in Origins' /\ Given(r).trace \in {0, r.origin}
                              /\ Traced(Given(r).span, Given(r).trace, r.origin)'
      BY <1>0, <1>8, <1>9 DEF RequestsOK
    <2> QED BY <2>1 DEF RequestsOK, Given
  <1>12. \A y \in Marks : y.origin \in Origins
    <2>1. \A s \in spans : Mark(s.context, s.origin).origin \in Origins
      BY <1>0 DEF SpansOK, Mark
    <2>2. \A r \in requests : Mark(Given(r), r.origin).origin \in Origins
      BY <1>0 DEF RequestsOK, Mark
    <2> QED BY <2>1, <2>2 DEF Marks
  <1>13. Marks' = Marks \cup {Mark(c, o)}
    BY <1>1 DEF Marks, Given
  <1>14. NewId \notin Origins
    <2>1. n + 1 \notin 1..n /\ n + 1 # OutsideId
      BY <1>1 DEF OutsideId
    <2> QED BY <1>1, <2>1 DEF Origins, n
  <1>15. \A y \in Marks : Alike(y, Mark(c, o)) /\ Alike(Mark(c, o), y)
    <2>1. CASE o = NewId
      BY <1>12, <1>14, <2>1 DEF Alike, Mark
    <2>2. CASE \E y \in Marks : y.origin = o /\ y.trace = c.trace /\ y.sampled = c.sampled
      BY <1>0, <2>2 DEF Alike, Mark
    <2> QED BY <2>1, <2>2
  <1>16. Alike(Mark(c, o), Mark(c, o))
    BY DEF Alike
  <1>17. \A y, z \in Marks' : Alike(y, z)
    BY <1>0, <1>13, <1>15, <1>16
  <1> QED BY <1>7, <1>10, <1>11, <1>17 DEF TracingInv, Alike

(* A new request, whose header continues a span or comes from outside.     *)
LEMMA RequestAdded ==
    ASSUME TracingInv, NEW r, requests' = requests \cup {r}, UNCHANGED spans,
           r.origin \in Origins, Given(r).trace \in {0, r.origin},
           Traced(Given(r).span, Given(r).trace, r.origin),
           \A y \in Marks : Alike(y, Mark(Given(r), r.origin)) /\ Alike(Mark(Given(r), r.origin), y)
    PROVE  TracingInv'
  <1>0. SpansCounted /\ SpansOK /\ RequestsOK /\ \A y, z \in Marks : Alike(y, z)
    BY DEF TracingInv
  <1>1. SpansCounted'
    BY <1>0 DEF SpansCounted
  <1>2. Origins' = Origins /\ \A id, trace, origin : Traced(id, trace, origin) => Traced(id, trace, origin)'
    BY DEF Origins, Traced, OutsideId
  <1>3. SpansOK'
    BY <1>0, <1>2 DEF SpansOK, OutsideId
  <1>4. RequestsOK'
    BY <1>0, <1>2 DEF RequestsOK, Given
  <1>5. Marks' = Marks \cup {Mark(Given(r), r.origin)}
    BY DEF Marks, Given
  <1>6. Alike(Mark(Given(r), r.origin), Mark(Given(r), r.origin))
    BY DEF Alike
  <1>7. \A y, z \in Marks' : Alike(y, z)
    BY <1>0, <1>5, <1>6
  <1> QED BY <1>1, <1>3, <1>4, <1>7 DEF TracingInv, Alike

LEMMA TracingStays == ASSUME TracingInv, [TracingNext]_tracingVars PROVE TracingInv'
  <1>0. SpansCounted /\ SpansOK /\ RequestsOK /\ \A y, z \in Marks : Alike(y, z)
    BY DEF TracingInv
  <1>1. CASE UNCHANGED tracingVars
    BY <1>1 DEF tracingVars, TracingInv, SpansCounted, SpansOK, RequestsOK, Marks, Alike, Origins, Traced, Given, OutsideId
  <1>2. Traced(0, 0, 0) /\ \A t, o : Traced(0, t, o) /\ Traced(OutsideId, t, o)
    BY DEF Traced
  <1>3. NewId \in Nat /\ (NewId <= MaxSpans => NewId # OutsideId)
    BY <1>0, TracingAssumption DEF NewId, SpansCounted, OutsideId
  <1>4. CASE StartSpan
    <2> DEFINE c == [trace |-> NewId, span |-> NewId, parent |-> 0, sampled |-> TRUE]
    <2>1. NewId <= MaxSpans /\ Span(c, NewId) /\ UNCHANGED requests
      BY <1>4 DEF StartSpan
    <2>2. c.span = NewId /\ c.trace \in {0, NewId} /\ c.parent = 0
      OBVIOUS
    <2> HIDE DEF c
    <2> QED BY <1>2, <1>3, <2>1, <2>2, SpanAdded
  <1>5. ASSUME NEW s \in spans, StartChild(s) PROVE TracingInv'
    <2> DEFINE c == ChildOf(s.context)
    <2>1. NewId <= MaxSpans /\ Span(c, s.origin) /\ UNCHANGED requests
      BY <1>5 DEF StartChild
    <2>2. c.span = NewId /\ c.trace = s.context.trace /\ c.parent = s.context.span /\ c.sampled = s.context.sampled
      BY DEF ChildOf
    <2>3. s.origin \in Origins /\ s.context.trace \in {0, s.origin} /\ (s.origin = OutsideId => requests # {})
      BY <1>0 DEF SpansOK
    <2>4. Traced(c.parent, c.trace, s.origin)
      BY <2>2 DEF Traced
    <2>5. \E y \in Marks : y.origin = s.origin /\ y.trace = c.trace /\ y.sampled = c.sampled
      <3> DEFINE y == Mark(s.context, s.origin)
      <3>1. y \in Marks
        BY DEF Marks
      <3>2. y.origin = s.origin /\ y.trace = c.trace /\ y.sampled = c.sampled
        BY <2>2 DEF Mark
      <3> QED BY <3>1, <3>2
    <2> HIDE DEF c
    <2> QED BY <2>1, <2>2, <2>3, <2>4, <2>5, SpanAdded
  <1>6. ASSUME NEW r \in requests, NEW gone \in BOOLEAN, HandleRequest(r, gone) PROVE TracingInv'
    <2>1. CASE gone
      <3> DEFINE c == ChildOf(NoContext)
      <3>1. NewId <= MaxSpans /\ Span(c, NewId) /\ UNCHANGED requests
        BY <1>6, <2>1 DEF HandleRequest, ExtractFromHeaders
      <3>2. c.span = NewId /\ c.trace = 0 /\ c.parent = 0
        BY DEF ChildOf, NoContext
      <3> HIDE DEF c
      <3> QED BY <1>2, <1>3, <3>1, <3>2, SpanAdded
    <2>2. CASE ~ gone
      <3> DEFINE c == ChildOf(Given(r))
      <3>1. ExtractFromHeaders(r.header) = Given(r)
        BY DEF ExtractFromHeaders, Given, ParseTraceparent, NoHeader
      <3>2. NewId <= MaxSpans /\ Span(c, r.origin) /\ UNCHANGED requests
        BY <1>6, <2>2, <3>1 DEF HandleRequest
      <3>3. c.span = NewId /\ c.trace = Given(r).trace /\ c.parent = Given(r).span /\ c.sampled = Given(r).sampled
        BY DEF ChildOf
      <3>4. r.origin \in Origins /\ c.trace \in {0, r.origin} /\ Traced(c.parent, c.trace, r.origin)
        BY <1>0, <3>3 DEF RequestsOK
      <3>5. \E y \in Marks : y.origin = r.origin /\ y.trace = c.trace /\ y.sampled = c.sampled
        <4> DEFINE y == Mark(Given(r), r.origin)
        <4>1. y \in Marks
          BY DEF Marks
        <4>2. y.origin = r.origin /\ y.trace = c.trace /\ y.sampled = c.sampled
          BY <3>3 DEF Mark
        <4> QED BY <4>1, <4>2
      <3>6. requests # {}
        OBVIOUS
      <3> HIDE DEF c
      <3> QED BY <3>2, <3>3, <3>4, <3>5, <3>6, SpanAdded
    <2> QED BY <2>1, <2>2
  <1>7. ASSUME NEW s \in spans, InjectToHeaders(s) PROVE TracingInv'
    <2> DEFINE r == [header |-> FormatTraceparent(s.context), origin |-> s.origin]
    <2>1. requests' = requests \cup {r} /\ UNCHANGED spans
      BY <1>7 DEF InjectToHeaders
    <2>2. s.origin \in Origins /\ s.context.trace \in {0, s.origin} /\ s.context.span \in 1..Cardinality(spans)
      BY <1>0 DEF SpansOK, SpansCounted
    <2>3. s.context.span # 0
      BY <1>0, <2>2 DEF SpansCounted
    <2>4. Mark(s.context, s.origin) \in Marks
      BY DEF Marks
    <2>5. r.origin = s.origin
      OBVIOUS
    <2>6. s.context.trace # 0 => /\ Given(r).trace = s.context.trace /\ Given(r).span = s.context.span
                                 /\ Given(r).sampled = s.context.sampled
      BY <2>3 DEF Given, FormatTraceparent, ParseTraceparent
    <2>7. s.context.trace = 0 => Given(r).trace = 0 /\ Given(r).span = 0
      BY DEF Given, FormatTraceparent, ParseTraceparent, NoContext
    <2> HIDE DEF r
    <2>8. Given(r).trace \in {0, r.origin} /\ Traced(Given(r).span, Given(r).trace, r.origin)
      BY <1>2, <2>2, <2>5, <2>6, <2>7 DEF Traced
    <2>9. \A y \in Marks : Alike(y, Mark(Given(r), r.origin)) /\ Alike(Mark(Given(r), r.origin), y)
      BY <1>0, <2>4, <2>5, <2>6, <2>7 DEF Alike, Mark
    <2> QED BY <2>1, <2>2, <2>5, <2>8, <2>9, RequestAdded
  <1>8. ASSUME NEW h \in OutsideHeaders, OutsideRequest(h) PROVE TracingInv'
    <2> DEFINE r == [header |-> h, origin |-> OutsideId]
    <2>1. requests = {} /\ requests' = requests \cup {r} /\ UNCHANGED spans
      BY <1>8 DEF OutsideRequest
    <2>2. r.origin = OutsideId /\ OutsideId \in Origins
      BY DEF Origins
    <2>3. h.trace \in {0, OutsideId} /\ h.span = OutsideId
      BY DEF OutsideHeaders
    <2>4. Given(r).trace \in {0, OutsideId} /\ Given(r).span \in {0, OutsideId}
      BY <2>3 DEF Given, ParseTraceparent, NoContext
    <2>5. \A y \in Marks : y.origin # OutsideId
      BY <1>0, <2>1 DEF Marks, Mark, SpansOK
    <2> HIDE DEF r
    <2>6. \A y \in Marks : Alike(y, Mark(Given(r), r.origin)) /\ Alike(Mark(Given(r), r.origin), y)
      BY <2>2, <2>5 DEF Alike, Mark
    <2>7. Traced(Given(r).span, Given(r).trace, r.origin)
      BY <1>2, <2>4
    <2> QED BY <2>1, <2>2, <2>4, <2>6, <2>7, RequestAdded
  <1> QED BY <1>1, <1>4, <1>5, <1>6, <1>7, <1>8 DEF TracingNext

-----------------------------------------------------------------------------
(* Log files.  Sequences of records put together and cut at the end.       *)
LEMMA JoinTwice ==
    ASSUME NEW a \in Seq(Nat), NEW b \in Seq(Nat), NEW c \in Seq(Nat)
    PROVE  a \o b \in Seq(Nat) /\ (a \o b) \o c = a \o (b \o c)
  OBVIOUS

LEMMA JoinAppend ==
    ASSUME NEW a \in Seq(Nat), NEW b \in Seq(Nat), NEW r \in Nat
    PROVE  Append(b, r) \in Seq(Nat) /\ Append(a \o b, r) = a \o Append(b, r)
  <1>0. Append(b, r) \in Seq(Nat)
    OBVIOUS
  <1>1. <<r>> \in Seq(Nat) /\ Append(b, r) = b \o <<r>>
    BY AppendIsConcat
  <1>2. a \o b \in Seq(Nat) /\ (a \o b) \o <<r>> = a \o (b \o <<r>>)
    BY <1>1, JoinTwice
  <1>3. \A c \in Seq(Nat) : Append(c, r) = c \o <<r>>
    BY AppendIsConcat
  <1>4. Append(a \o b, r) = (a \o b) \o <<r>>
    BY <1>2, <1>3, Zenon
  <1> QED BY <1>0, <1>1, <1>2, <1>4, Zenon

LEMMA JoinNone == ASSUME NEW a \in Seq(Nat) PROVE <<>> \o a = a
  OBVIOUS

LEMMA JoinCut ==
    ASSUME NEW a \in Seq(Nat), NEW b \in Seq(Nat), NEW k \in 0..Len(b)
    PROVE  /\ SubSeq(b, 1, Len(b) - k) \in Seq(Nat)
           /\ Len(a \o b) = Len(a) + Len(b)
           /\ SubSeq(a \o b, 1, Len(a \o b) - k) = a \o SubSeq(b, 1, Len(b) - k)
  <1>0. Len(a) \in Nat /\ Len(b) \in Nat /\ a \o b \in Seq(Nat) /\ Len(a \o b) = Len(a) + Len(b)
    OBVIOUS
  <1> DEFINE m == Len(a)
             n == Len(b) - k
             l == SubSeq(a \o b, 1, m + n)
             c == SubSeq(b, 1, n)
             x == a \o c
  <1>1. m \in Nat /\ n \in 0..Len(b) /\ Len(a \o b) - k = m + n /\ m + n \in 0..Len(a \o b)
    BY <1>0
  <1> HIDE DEF m, n
  <1>2. l \in Seq(Nat) /\ Len(l) = m + n /\ \A i \in 1..(m + n) : l[i] = (a \o b)[i]
    <2> DEFINE w == a \o b
               p == m + n
    <2>1. w \in Seq(Nat) /\ p \in 0..Len(w)
      BY <1>0, <1>1
    <2> HIDE DEF w, p
    <2>2. /\ SubSeq(w, 1, p) \in Seq(Nat) /\ Len(SubSeq(w, 1, p)) = p
          /\ \A i \in 1..p : SubSeq(w, 1, p)[i] = w[i]
      BY <2>1
    <2> QED BY <2>2 DEF w, p
  <1>3. c \in Seq(Nat) /\ Len(c) = n /\ \A i \in 1..n : c[i] = b[i]
    BY <1>0, <1>1
  <1> HIDE DEF l, c
  <1>4. x \in Seq(Nat) /\ Len(x) = m + n
    <2>1. x \in Seq(Nat) /\ Len(x) = Len(a) + Len(c)
      BY <1>3, ConcatProperties
    <2> HIDE DEF x
    <2> QED BY <1>3, <2>1 DEF m
  <1>5. \A i \in 1..(m + n) : l[i] = x[i]
    <2> SUFFICES ASSUME NEW i \in 1..(m + n) PROVE l[i] = x[i]
      OBVIOUS
    <2>1. CASE i <= m
      <3>1. i \in 1..Len(a)
        BY <1>1, <2>1 DEF m
      <3>2. (a \o b)[i] = a[i] /\ x[i] = a[i]
        BY <1>0, <1>3, <3>1
      <3> QED BY <1>2, <3>2
    <2>2. CASE i > m
      <3>1. i - m \in 1..n /\ i - m \in 1..Len(b) /\ i \in (Len(a) + 1)..(Len(a) + Len(b)) /\ i \in (Len(a) + 1)..(Len(a) + Len(c))
        BY <1>0, <1>1, <1>3, <2>2 DEF m
      <3>2. (a \o b)[i] = b[i - m] /\ x[i] = c[i - m]
        BY <1>0, <1>3, <3>1 DEF m
      <3>3. l[i] = (a \o b)[i] /\ c[i - m] = b[i - m]
        BY <1>2, <1>3, <3>1, Zenon
      <3> HIDE DEF x
      <3> QED BY <3>2, <3>3
    <2>3. i <= m \/ i > m
      BY <1>0, <1>1
    <2> HIDE DEF x
    <2> QED BY <2>1, <2>2, <2>3
  <1> HIDE DEF x
  <1>6. l = x
    BY <1>1, <1>2, <1>4, <1>5
  <1> QED BY <1>0, <1>1, <1>3, <1>6 DEF l, x, c, n

(* The files from the oldest up to file i, for every i.                    *)
DiskStep(f, files, i) == IF i = 0 THEN files[0].recs ELSE files[i].recs \o f[i - 1]
DiskRun(f, files) ==
    /\ f = [i \in 0..MaxFiles |-> f[i]]
    /\ \A i \in 0..MaxFiles : f[i] \in Seq(Nat) /\ f[i] = DiskStep(f, files, i)

FilesOK(files) ==
    /\ DOMAIN files = 0..MaxFiles
    /\ \A i \in 0..MaxFiles : /\ files[i].recs \in Seq(Nat)
                              /\ ~ files[i].there => files[i].recs = <<>>

(* They are the last of the records written.                               *)
LastOf(files, d) == \E f, pre : DiskRun(f, files) /\ pre \in Seq(Nat) /\ d = pre \o f[MaxFiles]

LEMMA FilesAre == MaxFiles \in Nat /\ 0 \in 0..MaxFiles /\ MaxFiles \in 0..MaxFiles
  BY LoggingAssumption

LEMMA WrittenLast ==
    ASSUME NEW files, NEW d, NEW r \in Nat, FilesOK(files), LastOf(files, d)
    PROVE  /\ FilesOK(Written(files, r)) /\ LastOf(Written(files, r), Append(d, r))
           /\ Written(files, r)[0].recs = Append(files[0].recs, r)
  <1> DEFINE w == Written(files, r)
             e == [there |-> TRUE, recs |-> Append(files[0].recs, r)]
  <1>1. DOMAIN files = 0..MaxFiles /\ \A i \in 0..MaxFiles : files[i].recs \in Seq(Nat) /\ (~ files[i].there => files[i].recs = <<>>)
    BY DEF FilesOK
  <1>2. w = [files EXCEPT ![0] = e]
    BY DEF Written
  <1>3. e.there = TRUE /\ e.recs = Append(files[0].recs, r)
    OBVIOUS
  <1> HIDE DEF e, w
  <1>4. DOMAIN w = 0..MaxFiles /\ w[0] = e /\ \A i \in 0..MaxFiles : i # 0 => w[i] = files[i]
    BY <1>1, <1>2, FilesAre
  <1>5. e.recs \in Seq(Nat)
    BY <1>1, <1>3, FilesAre
  <1>6. FilesOK(w)
    <2> SUFFICES ASSUME NEW i \in 0..MaxFiles PROVE w[i].recs \in Seq(Nat) /\ (~ w[i].there => w[i].recs = <<>>)
      BY <1>4 DEF FilesOK
    <2>1. CASE i = 0
      BY <1>3, <1>4, <1>5, <2>1
    <2>2. CASE i # 0
      BY <1>1, <1>4, <2>2
    <2> QED BY <2>1, <2>2
  <1>7. PICK f, pre : DiskRun(f, files) /\ pre \in Seq(Nat) /\ d = pre \o f[MaxFiles]
    BY DEF LastOf
  <1>8. \A i \in 0..MaxFiles : f[i] \in Seq(Nat) /\ f[i] = DiskStep(f, files, i)
    BY <1>7 DEF DiskRun
  <1> DEFINE g == [i \in 0..MaxFiles |-> Append(f[i], r)]
  <1>9. g = [i \in 0..MaxFiles |-> g[i]] /\ \A i \in 0..MaxFiles : g[i] = Append(f[i], r) /\ g[i] \in Seq(Nat)
    BY <1>8
  <1> HIDE DEF g
  <1>10. ASSUME NEW i \in 0..MaxFiles PROVE g[i] = DiskStep(g, w, i)
    <2>1. CASE i = 0
      <3>1. f[0] = files[0].recs
        BY <1>8, FilesAre DEF DiskStep
      <3>2. g[0] = Append(files[0].recs, r)
        BY <1>9, <3>1, FilesAre
      <3>3. w[0].recs = Append(files[0].recs, r)
        BY <1>3, <1>4
      <3> QED BY <2>1, <3>2, <3>3 DEF DiskStep
    <2>2. CASE i # 0
      <3> DEFINE k == i - 1
      <3>1. k \in 0..MaxFiles
        BY <2>2, FilesAre
      <3>2. f[i] = files[i].recs \o f[k] /\ files[i].recs \in Seq(Nat) /\ f[k] \in Seq(Nat)
        BY <1>1, <1>8, <2>2, <3>1 DEF DiskStep
      <3>3. Append(f[i], r) = files[i].recs \o Append(f[k], r)
        <4>1. Append(files[i].recs \o f[k], r) = files[i].recs \o Append(f[k], r)
          BY <3>2, JoinAppend
        <4> QED BY <3>2, <4>1, Zenon
      <3>4. g[i] = Append(f[i], r) /\ g[k] = Append(f[k], r) /\ w[i] = files[i]
        BY <1>4, <1>9, <2>2, <3>1
      <3>5. g[i] = w[i].recs \o g[k]
        BY <3>3, <3>4
      <3> QED BY <2>2, <3>5 DEF DiskStep
    <2> QED BY <2>1, <2>2
  <1>11. DiskRun(g, w)
    BY <1>9, <1>10 DEF DiskRun
  <1>12. Append(d, r) = pre \o g[MaxFiles]
    <2>1. f[MaxFiles] \in Seq(Nat) /\ g[MaxFiles] = Append(f[MaxFiles], r)
      BY <1>8, <1>9, FilesAre
    <2>2. Append(pre \o f[MaxFiles], r) = pre \o Append(f[MaxFiles], r)
      BY <1>7, <2>1, JoinAppend
    <2> QED BY <1>7, <2>1, <2>2
  <1>13. LastOf(w, Append(d, r))
    BY <1>7, <1>11, <1>12 DEF LastOf
  <1>14. w[0].recs = Append(files[0].recs, r)
    BY <1>3, <1>4
  <1> QED BY <1>6, <1>13, <1>14 DEF w

(* Renaming moves the files on; the oldest may be overwritten.             *)
LEMMA RotatedLast ==
    ASSUME NEW d, NEW j \in Nat, FilesOK(logFiles), LastOf(logFiles, d)
    PROVE  FilesOK(Rotated(j)) /\ LastOf(Rotated(j), d)
  <1> DEFINE M(i) == i >= j /\ i < MaxFiles /\ logFiles[i].there
             w == Rotated(j)
  <1>1. /\ DOMAIN logFiles = 0..MaxFiles
        /\ \A i \in 0..MaxFiles : /\ logFiles[i].recs \in Seq(Nat)
                                  /\ (~ logFiles[i].there => logFiles[i].recs = <<>>)
    BY DEF FilesOK
  <1>2. DOMAIN w = 0..MaxFiles /\ \A k \in 0..MaxFiles :
           w[k] = IF k > 0 /\ M(k - 1) THEN logFiles[k - 1] ELSE IF M(k) THEN NoFile ELSE logFiles[k]
    BY DEF Rotated
  <1>3. NoFile.there = FALSE /\ NoFile.recs = <<>> /\ <<>> \in Seq(Nat)
    BY DEF NoFile
  <1> HIDE DEF w
  <1>4. FilesOK(w)
    <2> SUFFICES ASSUME NEW k \in 0..MaxFiles PROVE w[k].recs \in Seq(Nat) /\ (~ w[k].there => w[k].recs = <<>>)
      BY <1>2 DEF FilesOK
    <2>1. k > 0 => k - 1 \in 0..MaxFiles
      BY FilesAre
    <2> HIDE DEF M
    <2>2. CASE k > 0 /\ M(k - 1)
      BY <1>1, <1>2, <2>1, <2>2
    <2>3. CASE ~ (k > 0 /\ M(k - 1)) /\ M(k)
      <3>1. w[k] = NoFile
        BY <1>2, <2>3
      <3> QED BY <1>3, <3>1
    <2>4. CASE ~ (k > 0 /\ M(k - 1)) /\ ~ M(k)
      BY <1>1, <1>2, <2>4
    <2> QED BY <2>2, <2>3, <2>4
  <1>5. PICK f, pre : DiskRun(f, logFiles) /\ pre \in Seq(Nat) /\ d = pre \o f[MaxFiles]
    BY DEF LastOf
  <1>6. \A i \in 0..MaxFiles : f[i] \in Seq(Nat) /\ f[i] = DiskStep(f, logFiles, i)
    BY <1>5 DEF DiskRun
  <1>7. f[0] = logFiles[0].recs /\ \A i \in 0..MaxFiles : i # 0 => i - 1 \in 0..MaxFiles /\ f[i] = logFiles[i].recs \o f[i - 1]
    <2>1. f[0] = logFiles[0].recs
      BY <1>6, FilesAre DEF DiskStep
    <2>2. \A i \in 0..MaxFiles : i # 0 => i - 1 \in 0..MaxFiles
      BY FilesAre
    <2>3. \A i \in 0..MaxFiles : i # 0 => f[i] = logFiles[i].recs \o f[i - 1]
      BY <1>6 DEF DiskStep
    <2> QED BY <2>1, <2>2, <2>3
  <1> DEFINE Up(i) == IF i = 0 THEN <<>> ELSE f[i - 1]
             Over(i) == i = MaxFiles /\ i > 0 /\ M(i - 1)
             g == [i \in 0..MaxFiles |-> IF M(i) \/ Over(i) THEN Up(i) ELSE f[i]]
  <1>8. g = [i \in 0..MaxFiles |-> g[i]] /\ \A i \in 0..MaxFiles : g[i] = IF M(i) \/ Over(i) THEN Up(i) ELSE f[i]
    OBVIOUS
  <1>9. \A i \in 0..MaxFiles : Up(i) \in Seq(Nat)
    BY <1>3, <1>6, <1>7
  <1>10. \A i \in 0..MaxFiles : g[i] \in Seq(Nat)
    BY <1>6, <1>8, <1>9
  <1> HIDE DEF g
  <1>11. ASSUME NEW i \in 0..MaxFiles PROVE g[i] = DiskStep(g, w, i)
    <2>1. CASE i = 0
      <3>1. ~ Over(0) /\ Up(0) = <<>>
        OBVIOUS
      <3>2. w[0] = IF M(0) THEN NoFile ELSE logFiles[0]
        BY <1>2, FilesAre
      <3> HIDE DEF M, Over, Up
      <3>3. w[0].recs = IF M(0) THEN <<>> ELSE logFiles[0].recs
        BY <1>3, <3>2
      <3>4. g[0] = IF M(0) THEN <<>> ELSE f[0]
        BY <1>8, <3>1, FilesAre
      <3>5. g[0] = w[0].recs
        BY <1>7, <3>3, <3>4
      <3> QED BY <2>1, <3>5 DEF DiskStep
    <2>2. CASE i # 0
      <3> DEFINE k == i - 1
      <3>1. k \in 0..MaxFiles /\ k < MaxFiles /\ i > 0 /\ i - 1 = k
        BY <2>2, FilesAre
      <3>2. f[i] = logFiles[i].recs \o f[k] /\ f[k] \in Seq(Nat) /\ Up(i) = f[k]
        BY <1>6, <1>7, <2>2, <3>1
      <3>3. ~ Over(k) /\ (M(k) => logFiles[k].recs \o Up(k) = f[k])
        <4>1. ~ Over(k)
          BY <3>1, FilesAre
        <4>2. k = 0 => logFiles[k].recs \o Up(k) = f[k]
          <5>1. logFiles[0].recs \o <<>> = logFiles[0].recs
            BY <1>1, FilesAre
          <5> QED BY <1>7, <5>1
        <4>3. k # 0 => logFiles[k].recs \o Up(k) = f[k]
          BY <1>7, <3>1
        <4> QED BY <4>1, <4>2, <4>3
      <3>4. g[k] = IF M(k) THEN Up(k) ELSE f[k]
        BY <1>8, <3>1, <3>3
      <3>5. w[i] = IF M(k) THEN logFiles[k] ELSE IF M(i) THEN NoFile ELSE logFiles[i]
        BY <1>2, <3>1
      <3>6. CASE M(k)
        <4>1. w[i].recs \o g[k] = f[k]
          BY <3>3, <3>4, <3>5, <3>6
        <4>2. CASE M(i) \/ Over(i)
          <5>1. g[i] = f[k]
            BY <1>8, <3>2, <4>2
          <5> QED BY <2>2, <4>1, <5>1 DEF DiskStep
        <4>3. CASE ~ M(i) /\ ~ Over(i)
          <5>1. i # MaxFiles
            BY <3>1, <3>6, <4>3
          <5>2. i >= j /\ i < MaxFiles
            BY <3>1, <3>6, <5>1, FilesAre
          <5>3. logFiles[i].recs = <<>>
            BY <1>1, <4>3, <5>2
          <5>4. f[i] = f[k]
            BY <3>2, <5>3, JoinNone
          <5>5. g[i] = f[i]
            BY <1>8, <4>3
          <5> QED BY <2>2, <4>1, <5>4, <5>5 DEF DiskStep
        <4> QED BY <4>2, <4>3
      <3>7. CASE ~ M(k)
        <4>1. g[k] = f[k] /\ ~ Over(i)
          BY <3>1, <3>4, <3>7
        <4>2. CASE M(i)
          <5>1. w[i].recs = <<>>
            BY <1>3, <3>5, <3>7, <4>2
          <5>2. g[i] = f[k]
            BY <1>8, <3>2, <4>2
          <5>3. <<>> \o f[k] = f[k]
            BY <3>2, JoinNone
          <5> QED BY <2>2, <4>1, <5>1, <5>2, <5>3 DEF DiskStep
        <4>3. CASE ~ M(i)
          <5>1. g[i] = f[i] /\ w[i] = logFiles[i]
            BY <1>8, <3>5, <3>7, <4>1, <4>3
          <5> QED BY <2>2, <3>2, <4>1, <5>1 DEF DiskStep
        <4> QED BY <4>2, <4>3
      <3> QED BY <3>6, <3>7
    <2> QED BY <2>1, <2>2
  <1>12. DiskRun(g, w)
    BY <1>8, <1>10, <1>11 DEF DiskRun
  <1>13. \E q : q \in Seq(Nat) /\ d = q \o g[MaxFiles]
    <2>1. ~ M(MaxFiles)
      BY FilesAre
    <2>2. CASE Over(MaxFiles)
      <3>1. g[MaxFiles] = f[MaxFiles - 1] /\ MaxFiles # 0
        BY <1>8, <2>2, FilesAre
      <3>2. /\ f[MaxFiles] = logFiles[MaxFiles].recs \o f[MaxFiles - 1] /\ logFiles[MaxFiles].recs \in Seq(Nat)
            /\ f[MaxFiles - 1] \in Seq(Nat)
        BY <1>1, <1>6, <1>7, <3>1, FilesAre
      <3>3. pre \o f[MaxFiles] = (pre \o logFiles[MaxFiles].recs) \o f[MaxFiles - 1]
        <4>1. pre \o (logFiles[MaxFiles].recs \o f[MaxFiles - 1]) = (pre \o logFiles[MaxFiles].recs) \o f[MaxFiles - 1]
          BY <1>5, <3>2, JoinTwice
        <4> QED BY <3>2, <4>1, Zenon
      <3>4. pre \o logFiles[MaxFiles].recs \in Seq(Nat)
        BY <1>5, <3>2
      <3> QED BY <1>5, <3>1, <3>3, <3>4
    <2>3. CASE ~ Over(MaxFiles)
      <3>1. g[MaxFiles] = f[MaxFiles]
        BY <1>8, <2>1, <2>3, FilesAre
      <3> QED BY <1>5, <3>1
    <2> QED BY <2>2, <2>3
  <1>14. LastOf(w, d)
    BY <1>12, <1>13 DEF LastOf
  <1> QED BY <1>4, <1>14 DEF w

(* A crash takes the end of the current file.                              *)
LEMMA CutLast ==
    ASSUME NEW files, NEW d, FilesOK(files), LastOf(files, d), NEW lost \in 0..Len(files[0].recs), NEW w,
           DOMAIN w = 0..MaxFiles, \A i \in 0..MaxFiles : i # 0 => w[i] = files[i],
           w[0].there, w[0].recs = SubSeq(files[0].recs, 1, Len(files[0].recs) - lost)
    PROVE  /\ FilesOK(w) /\ SubSeq(d, 1, Len(d) - lost) \in Seq(Nat)
           /\ LastOf(w, SubSeq(d, 1, Len(d) - lost))
  <1>1. DOMAIN files = 0..MaxFiles /\ \A i \in 0..MaxFiles : files[i].recs \in Seq(Nat) /\ (~ files[i].there => files[i].recs = <<>>)
    BY DEF FilesOK
  <1>2. w[0].recs \in Seq(Nat)
    BY <1>1, FilesAre, JoinCut
  <1>3. FilesOK(w)
    <2> SUFFICES ASSUME NEW i \in 0..MaxFiles PROVE w[i].recs \in Seq(Nat) /\ (~ w[i].there => w[i].recs = <<>>)
      BY DEF FilesOK
    <2>1. CASE i = 0
      BY <1>2, <2>1
    <2>2. CASE i # 0
      BY <1>1, <2>2
    <2> QED BY <2>1, <2>2
  <1>4. PICK f, pre : DiskRun(f, files) /\ pre \in Seq(Nat) /\ d = pre \o f[MaxFiles]
    BY DEF LastOf
  <1>5. \A i \in 0..MaxFiles : f[i] \in Seq(Nat) /\ f[i] = DiskStep(f, files, i)
    BY <1>4 DEF DiskRun
  <1>6. \A i \in 0..MaxFiles : i # 0 => i - 1 \in 0..MaxFiles
    BY FilesAre
  <1>7. f[0] = files[0].recs
    BY <1>5, FilesAre DEF DiskStep
  <1>8. \A i \in 0..MaxFiles : i # 0 => f[i] = files[i].recs \o f[i - 1]
    BY <1>5 DEF DiskStep
  <1>9. \A i \in 0..MaxFiles : lost \in 0..Len(f[i])
    <2> DEFINE T == {i \in 0..MaxFiles : lost \in 0..Len(f[i])}
    <2>1. 0 \in T
      BY <1>7, FilesAre
    <2>2. ASSUME NEW i \in 0..(MaxFiles - 1), i \in T PROVE i + 1 \in T
      <3>1. i + 1 \in 0..MaxFiles /\ i + 1 # 0 /\ (i + 1) - 1 = i /\ i \in 0..MaxFiles
        BY FilesAre
      <3>2. f[i + 1] = files[i + 1].recs \o f[i] /\ files[i + 1].recs \in Seq(Nat) /\ f[i] \in Seq(Nat)
        BY <1>1, <1>5, <1>8, <3>1
      <3>3. Len(files[i + 1].recs \o f[i]) = Len(files[i + 1].recs) + Len(f[i])
        BY <3>2, ConcatProperties
      <3>4. Len(f[i + 1]) = Len(files[i + 1].recs) + Len(f[i])
        BY <3>2, <3>3, Zenon
      <3>5. Len(files[i + 1].recs) \in Nat /\ Len(f[i]) \in Nat /\ lost \in 0..Len(f[i])
        BY <2>2, <3>2
      <3>6. lost \in 0..Len(f[i + 1])
        <4> DEFINE x == Len(files[i + 1].recs)
                   y == Len(f[i])
                   z == Len(f[i + 1])
        <4>1. z = x + y /\ x \in Nat /\ y \in Nat /\ lost \in 0..y
          BY <3>4, <3>5
        <4> HIDE DEF x, y, z
        <4>2. lost \in 0..z
          BY <4>1
        <4> QED BY <4>2 DEF z
      <3> QED BY <3>1, <3>6
    <2> HIDE DEF T
    <2>3. \A i \in 0..MaxFiles : i \in T
      BY <2>1, <2>2, FilesAre, InductionUpTo
    <2> QED BY <2>3 DEF T
  <1> DEFINE Cut(s) == SubSeq(s, 1, Len(s) - lost)
             g == [i \in 0..MaxFiles |-> Cut(f[i])]
  <1>10. \A i \in 0..MaxFiles : Cut(f[i]) \in Seq(Nat)
    BY <1>5, <1>9, JoinCut
  <1>11. g = [i \in 0..MaxFiles |-> g[i]] /\ \A i \in 0..MaxFiles : g[i] = Cut(f[i])
    OBVIOUS
  <1>12. \A a, b \in Seq(Nat) : lost \in 0..Len(b) => Cut(a \o b) = a \o Cut(b)
    BY JoinCut
  <1>13. w[0].recs = Cut(files[0].recs)
    OBVIOUS
  <1> HIDE DEF g, Cut
  <1>14. ASSUME NEW i \in 0..MaxFiles PROVE g[i] = DiskStep(g, w, i)
    <2>1. CASE i = 0
      <3>1. g[0] = w[0].recs
        BY <1>7, <1>11, <1>13, FilesAre
      <3> QED BY <2>1, <3>1 DEF DiskStep
    <2>2. CASE i # 0
      <3> DEFINE k == i - 1
      <3>1. k \in 0..MaxFiles
        BY <1>6, <2>2
      <3>2. f[i] = files[i].recs \o f[k] /\ files[i].recs \in Seq(Nat) /\ f[k] \in Seq(Nat) /\ lost \in 0..Len(f[k])
        BY <1>1, <1>5, <1>8, <1>9, <2>2, <3>1
      <3>3. Cut(files[i].recs \o f[k]) = files[i].recs \o Cut(f[k])
        BY <1>12, <3>2
      <3>4. g[i] = Cut(f[i]) /\ g[k] = Cut(f[k]) /\ w[i] = files[i]
        BY <1>11, <2>2, <3>1
      <3> HIDE DEF k
      <3>5. g[i] = w[i].recs \o g[k]
        BY <3>2, <3>3, <3>4, Zenon
      <3> QED BY <2>2, <3>5 DEF DiskStep, k
    <2> QED BY <2>1, <2>2
  <1>15. DiskRun(g, w)
    BY <1>10, <1>11, <1>14 DEF DiskRun
  <1>16. Cut(pre \o f[MaxFiles]) = pre \o Cut(f[MaxFiles]) /\ Cut(f[MaxFiles]) \in Seq(Nat)
    BY <1>4, <1>5, <1>9, <1>10, <1>12, FilesAre
  <1>17. Cut(d) = pre \o g[MaxFiles]
    BY <1>4, <1>11, <1>16, FilesAre, Zenon
  <1>18. pre \o g[MaxFiles] \in Seq(Nat)
    BY <1>4, <1>10, <1>11, FilesAre, ConcatProperties
  <1>19. LastOf(w, Cut(d)) /\ Cut(d) \in Seq(Nat)
    BY <1>4, <1>15, <1>17, <1>18 DEF LastOf
  <1> QED BY <1>3, <1>19 DEF Cut

LoggingInv ==
    /\ FilesOK(logFiles) /\ LastOf(logFiles, durable)
    /\ durable \in Seq(Nat) /\ accepted \in Nat
    /\ buffered \in 0..Len(logFiles[0].recs)

LEMMA LoggingStarts == LoggingInit => LoggingInv
  <1> SUFFICES ASSUME LoggingInit PROVE LoggingInv
    OBVIOUS
  <1>1. /\ logFiles = [i \in 0..MaxFiles |-> IF i = 0 THEN [there |-> TRUE, recs |-> <<>>] ELSE NoFile]
        /\ buffered = 0 /\ durable = <<>> /\ accepted = 0
    BY DEF LoggingInit
  <1>2. <<>> \in Seq(Nat) /\ <<>> \o <<>> = <<>>
    OBVIOUS
  <1>3. DOMAIN logFiles = 0..MaxFiles /\ \A i \in 0..MaxFiles : logFiles[i].recs = <<>>
    BY <1>1 DEF NoFile
  <1>4. FilesOK(logFiles)
    BY <1>2, <1>3 DEF FilesOK
  <1> DEFINE f == [i \in 0..MaxFiles |-> <<>>]
  <1>5. DiskRun(f, logFiles)
    <2>1. f = [i \in 0..MaxFiles |-> f[i]] /\ \A i \in 0..MaxFiles : f[i] = <<>>
      OBVIOUS
    <2> HIDE DEF f
    <2>2. \A i \in 0..MaxFiles : i # 0 => i - 1 \in 0..MaxFiles
      BY FilesAre
    <2>3. \A i \in 0..MaxFiles : DiskStep(f, logFiles, i) = <<>>
      BY <1>2, <1>3, <2>1, <2>2 DEF DiskStep
    <2> QED BY <1>2, <2>1, <2>3 DEF DiskRun
  <1>6. durable = <<>> \o f[MaxFiles]
    BY <1>1, <1>2, FilesAre
  <1>7. LastOf(logFiles, durable)
    BY <1>2, <1>5, <1>6 DEF LastOf
  <1>8. 0 \in 0..Len(logFiles[0].recs)
    BY <1>3, FilesAre
  <1> QED BY <1>1, <1>2, <1>4, <1>7, <1>8 DEF LoggingInv

LEMMA LogStays ==
    ASSUME LoggingInv, NEW len, accepted' = accepted + 1, SinkLog(accepted', len) \/ SinkFails(len)
    PROVE  LoggingInv'
  <1> DEFINE r == accepted'
  <1>0. /\ FilesOK(logFiles) /\ LastOf(logFiles, durable)
        /\ durable \in Seq(Nat) /\ accepted \in Nat /\ buffered \in 0..Len(logFiles[0].recs)
    BY DEF LoggingInv
  <1>1. r \in Nat /\ accepted' \in Nat
    BY <1>0
  <1>2. Append(durable, r) \in Seq(Nat)
    BY <1>0, <1>1
  <1>3. \A files : FilesOK(files) => files[0].recs \in Seq(Nat) /\ Len(files[0].recs) \in Nat
    BY FilesAre DEF FilesOK
  <1>4. ASSUME UNCHANGED fileState PROVE LoggingInv'
    BY <1>0, <1>1, <1>4 DEF fileState, LoggingInv
  <1>5. ASSUME logFiles' = Written(logFiles, r), buffered' = buffered + 1, durable' = Append(durable, r) PROVE LoggingInv'
    <2>1. /\ FilesOK(logFiles') /\ LastOf(logFiles', durable')
          /\ logFiles'[0].recs = Append(logFiles[0].recs, r)
      BY <1>0, <1>1, <1>5, WrittenLast
    <2>2. Len(logFiles'[0].recs) = Len(logFiles[0].recs) + 1
      BY <1>0, <1>1, <1>3, <2>1
    <2>3. buffered' \in 0..Len(logFiles'[0].recs)
      BY <1>0, <1>3, <1>5, <2>2
    <2> QED BY <1>1, <1>2, <1>5, <2>1, <2>3 DEF LoggingInv
  <1>6. ASSUME logFiles' = Written(Rotated(0), r), buffered' = 1, durable' = Append(durable, r) PROVE LoggingInv'
    <2>1. FilesOK(Rotated(0)) /\ LastOf(Rotated(0), durable)
      BY <1>0, RotatedLast
    <2>2. /\ FilesOK(logFiles') /\ LastOf(logFiles', durable')
          /\ logFiles'[0].recs = Append(Rotated(0)[0].recs, r)
      BY <1>1, <1>6, <2>1, WrittenLast
    <2>3. Len(logFiles'[0].recs) = Len(Rotated(0)[0].recs) + 1 /\ Len(Rotated(0)[0].recs) \in Nat
      <3>1. Rotated(0)[0].recs \in Seq(Nat)
        BY <1>3, <2>1
      <3> QED BY <1>1, <2>2, <3>1
    <2>4. buffered' \in 0..Len(logFiles'[0].recs)
      BY <1>6, <2>3
    <2> QED BY <1>1, <1>2, <1>6, <2>2, <2>4 DEF LoggingInv
  <1>7. ASSUME NEW j \in 0..MaxFiles, logFiles' = Rotated(j), buffered' = 0, durable' = durable PROVE LoggingInv'
    <2>1. j \in Nat
      BY FilesAre
    <2>2. FilesOK(logFiles') /\ LastOf(logFiles', durable')
      BY <1>0, <1>7, <2>1, RotatedLast
    <2>3. buffered' \in 0..Len(logFiles'[0].recs)
      BY <1>3, <1>7, <2>2
    <2> QED BY <1>0, <1>1, <1>7, <2>2, <2>3 DEF LoggingInv
  <1>8. CASE SinkLog(accepted', len)
    BY <1>4, <1>5, <1>6, <1>8 DEF SinkLog
  <1>9. CASE SinkFails(len)
    BY <1>7, <1>9 DEF SinkFails
  <1> QED BY <1>8, <1>9

LEMMA RestartStays == ASSUME LoggingInv, NEW crash \in BOOLEAN, Restart(crash) PROVE LoggingInv'
  <1> DEFINE lost == IF crash THEN buffered ELSE 0
             old == logFiles[0].recs
             e == [there |-> TRUE, recs |-> SubSeq(old, 1, Len(old) - lost)]
  <1>0. /\ FilesOK(logFiles) /\ LastOf(logFiles, durable)
        /\ durable \in Seq(Nat) /\ accepted \in Nat /\ buffered \in 0..Len(old)
    BY DEF LoggingInv
  <1>1. /\ logFiles' = [logFiles EXCEPT ![0] = e] /\ durable' = SubSeq(durable, 1, Len(durable) - lost)
        /\ buffered' = 0 /\ accepted' = accepted
    BY DEF Restart
  <1>2. e.there /\ e.recs = SubSeq(old, 1, Len(old) - lost)
    OBVIOUS
  <1>3. Len(old) \in Nat /\ DOMAIN logFiles = 0..MaxFiles
    BY <1>0, FilesAre DEF FilesOK
  <1>4. lost \in 0..Len(old)
    BY <1>0, <1>3
  <1> HIDE DEF lost, e
  <1>5. DOMAIN logFiles' = 0..MaxFiles /\ logFiles'[0] = e /\ \A i \in 0..MaxFiles : i # 0 => logFiles'[i] = logFiles[i]
    BY <1>1, <1>3, FilesAre
  <1>6. FilesOK(logFiles') /\ durable' \in Seq(Nat) /\ LastOf(logFiles', durable')
    BY <1>0, <1>1, <1>2, <1>4, <1>5, CutLast
  <1>7. 0 \in 0..Len(logFiles'[0].recs)
    BY <1>6, FilesAre DEF FilesOK
  <1> QED BY <1>0, <1>1, <1>6, <1>7 DEF LoggingInv

LEMMA LoggingStays == ASSUME LoggingInv, [LoggingNext]_logVars PROVE LoggingInv'
  <1>1. ASSUME UNCHANGED <<fileState, accepted>> PROVE LoggingInv'
    BY <1>1 DEF fileState, LoggingInv
  <1>2. CASE UNCHANGED logVars
    BY <1>1, <1>2 DEF logVars, fileState
  <1>3. ASSUME NEW l, SetLogLevel(l) \/ SetModuleLogLevel(l) PROVE LoggingInv'
    BY <1>1, <1>3 DEF SetLogLevel, SetModuleLogLevel
  <1>4. ASSUME NEW l, NEW m, NEW n, Log(l, m, n) PROVE LoggingInv'
    BY <1>4, LogStays DEF Log
  <1>5. CASE FlushSink
    <2>1. PICK b \in 0..(buffered - 1) : buffered' = b
      BY <1>5 DEF FlushSink
    <2>2. logFiles' = logFiles /\ durable' = durable /\ accepted' = accepted
      BY <1>5 DEF FlushSink
    <2>3. Len(logFiles[0].recs) \in Nat
      BY FilesAre DEF LoggingInv, FilesOK
    <2>4. buffered' \in 0..Len(logFiles[0].recs)
      BY <2>1, <2>3 DEF LoggingInv
    <2> QED BY <2>2, <2>4 DEF LoggingInv
  <1>6. CASE AddSink \/ RemoveSink
    BY <1>1, <1>6 DEF AddSink, RemoveSink
  <1> QED BY <1>2, <1>3, <1>4, <1>5, <1>6, RestartStays DEF LoggingNext

(* A run of files is what OnDisk computes.                                 *)
LEMMA OnDiskIs == ASSUME NEW f, DiskRun(f, logFiles) PROVE OnDisk = f[MaxFiles]
  <1> DEFINE D == 0..MaxFiles
             h == CHOOSE h : h = [i \in D |-> DiskStep(h, logFiles, i)]
  <1>1. f = [i \in D |-> DiskStep(f, logFiles, i)]
    <2>1. f = [i \in D |-> f[i]]
      BY DEF DiskRun
    <2> QED BY <2>1 DEF DiskRun
  <1>2. h = [i \in D |-> DiskStep(h, logFiles, i)]
    BY <1>1
  <1>3. OnDisk = h[MaxFiles]
    BY DEF OnDisk, DiskStep
  <1> HIDE DEF h
  <1>4. \A i \in D : h[i] = DiskStep(h, logFiles, i) /\ f[i] = DiskStep(f, logFiles, i)
    BY <1>1, <1>2
  <1> DEFINE T == {i \in D : h[i] = f[i]}
  <1>5. 0 \in T
    BY <1>4, FilesAre DEF DiskStep
  <1>6. ASSUME NEW i \in 0..(MaxFiles - 1), i \in T PROVE i + 1 \in T
    <2>1. i + 1 \in D /\ i + 1 # 0 /\ (i + 1) - 1 = i
      BY FilesAre
    <2>2. h[i] = f[i]
      BY <1>6
    <2>3. h[i + 1] = logFiles[i + 1].recs \o h[i] /\ f[i + 1] = logFiles[i + 1].recs \o f[i]
      BY <1>4, <2>1 DEF DiskStep
    <2> QED BY <2>1, <2>2, <2>3
  <1> HIDE DEF T
  <1>7. \A i \in D : i \in T
    BY <1>5, <1>6, FilesAre, InductionUpTo
  <1> QED BY <1>3, <1>7, FilesAre DEF T

LEMMA LoggingOrders == LoggingInv => FilesInOrder
  <1> SUFFICES ASSUME LoggingInv PROVE FilesInOrder
    OBVIOUS
  <1>1. PICK f, pre : DiskRun(f, logFiles) /\ pre \in Seq(Nat) /\ durable = pre \o f[MaxFiles]
    BY DEF LoggingInv, LastOf
  <1> DEFINE kept == OnDisk
             n == Len(kept)
             d == durable
  <1>2. kept = f[MaxFiles] /\ kept \in Seq(Nat)
    BY <1>1, OnDiskIs, FilesAre DEF DiskRun
  <1>3. d = pre \o kept
    BY <1>1, <1>2, Zenon
  <1> HIDE DEF kept, d
  <1>4. /\ d \in Seq(Nat) /\ Len(pre) \in Nat /\ n \in Nat
        /\ Len(d) = Len(pre) + n
        /\ \A i \in 1..(Len(pre) + n) : d[i] = IF i <= Len(pre) THEN pre[i] ELSE kept[i - Len(pre)]
    BY <1>1, <1>2, <1>3, ConcatProperties
  <1> DEFINE m == Len(pre)
             k == SubSeq(d, m + 1, m + n)
  <1>5. n <= Len(d) /\ Len(d) - n + 1 = m + 1 /\ Len(d) = m + n
    BY <1>4
  <1>6. k = kept
    <2>1. k \in Seq(Nat) /\ Len(k) = n /\ \A i \in 1..n : k[i] = d[m + i]
      BY <1>4
    <2>2. \A i \in 1..n : m + i \in 1..(m + n) /\ ~ (m + i <= m) /\ (m + i) - m = i
      BY <1>4
    <2>3. \A i \in 1..n : d[m + i] = kept[i]
      BY <1>4, <2>2
    <2> HIDE DEF k
    <2>4. Len(k) = Len(kept) /\ \A i \in 1..Len(kept) : k[i] = kept[i]
      BY <2>1, <2>3
    <2> QED BY <1>2, <2>1, <2>4, SeqEqual
  <1>7. n <= Len(d) /\ kept = SubSeq(d, Len(d) - n + 1, Len(d))
    BY <1>5, <1>6, Zenon
  <1> QED BY <1>7 DEF FilesInOrder, kept, d

-----------------------------------------------------------------------------
(* The histogram.  The boundaries ascend.                                  *)
Bounds == Len(Boundaries)

LEMMA BoundariesAre ==
    /\ Bounds \in Nat \ {0} /\ DOMAIN Boundaries = 1..Bounds
    /\ \A i \in 1..Bounds : Boundaries[i] \in Int
    /\ \A i \in 2..Bounds : Boundaries[i - 1] < Boundaries[i]
  <1>1. Boundaries \in Seq(Int) /\ Boundaries # <<>>
    BY BoundariesAssumption
  <1>2. Bounds \in Nat /\ DOMAIN Boundaries = 1..Bounds /\ \A i \in 1..Bounds : Boundaries[i] \in Int
    BY <1>1 DEF Bounds
  <1>3. Bounds # 0
    BY <1>1, EmptySeq DEF Bounds
  <1> QED BY <1>2, <1>3, BoundariesAssumption DEF Bounds

LEMMA BoundariesAscend == \A i, j \in 1..Bounds : i < j => Boundaries[i] < Boundaries[j]
  <1> SUFFICES ASSUME NEW i \in 1..Bounds PROVE \A j \in 1..Bounds : i < j => Boundaries[i] < Boundaries[j]
    OBVIOUS
  <1> DEFINE B(n) == Boundaries[n]
             T == {n \in 0..Bounds : i < n => B(i) < B(n)}
  <1>0. /\ Bounds \in Nat /\ \A n \in 1..Bounds : B(n) \in Int
        /\ \A n \in 2..Bounds : B(n - 1) < B(n)
    BY BoundariesAre
  <1> HIDE DEF B
  <1>1. 0 \in T
    BY <1>0
  <1>2. ASSUME NEW n \in 0..(Bounds - 1), n \in T PROVE n + 1 \in T
    <2>1. n + 1 \in 0..Bounds /\ n \in Int /\ i \in Int
      BY <1>0
    <2>2. CASE i < n
      <3>1. n + 1 \in 2..Bounds /\ (n + 1) - 1 = n /\ n \in 1..Bounds /\ n + 1 \in 1..Bounds
        BY <1>0, <2>2
      <3>2. B(n) < B(n + 1) /\ B(n) \in Int /\ B(n + 1) \in Int /\ B(i) \in Int
        BY <1>0, <3>1
      <3>3. B(i) < B(n)
        BY <1>2, <2>2
      <3>4. B(i) < B(n + 1)
        BY <3>2, <3>3
      <3> QED BY <2>1, <3>4
    <2>3. CASE i = n
      <3>1. n + 1 \in 2..Bounds /\ (n + 1) - 1 = n
        BY <1>0, <2>3
      <3>2. B(i) < B(n + 1)
        BY <1>0, <2>3, <3>1
      <3> QED BY <2>1, <3>2
    <2>4. CASE i > n
      <3>1. ~ (i < n + 1)
        BY <2>1, <2>4
      <3> QED BY <2>1, <3>1
    <2> QED BY <2>1, <2>2, <2>3, <2>4
  <1> HIDE DEF T
  <1>3. \A n \in 0..Bounds : n \in T
    BY <1>0, <1>1, <1>2, InductionUpTo
  <1>4. \A j \in 1..Bounds : j \in T
    BY <1>0, <1>3
  <1> QED BY <1>4 DEF T, B

(* The bucket of a value is the first whose boundary is not below it.      *)
LEMMA FindBucketIs ==
    ASSUME NEW v \in Int
    PROVE  /\ FindBucket(v) \in 1..(Bounds + 1)
           /\ \A i \in 1..Bounds : v <= Boundaries[i] <=> FindBucket(v) <= i
  <1> DEFINE S == {i \in DOMAIN Boundaries : Boundaries[i] < v}
             c == Cardinality(S)
  <1>0. /\ Bounds \in Nat \ {0} /\ DOMAIN Boundaries = 1..Bounds
        /\ \A i \in 1..Bounds : Boundaries[i] \in Int
    BY BoundariesAre
  <1>1. IsFiniteSet(1..Bounds) /\ Cardinality(1..Bounds) = Bounds
    BY <1>0, FS_Interval
  <1>2. S \subseteq 1..Bounds /\ \A i \in 1..Bounds : i \in S <=> Boundaries[i] < v
    BY <1>0
  <1>3. FindBucket(v) = 1 + c
    BY DEF FindBucket
  <1> HIDE DEF S
  <1>4. IsFiniteSet(S) /\ c \in Nat /\ c <= Bounds
    BY <1>1, <1>2, FS_Subset, FS_CardinalityType
  <1>5. ASSUME NEW i \in 1..Bounds, v <= Boundaries[i] PROVE c <= i - 1
    <2>1. \A j \in S : j \in 1..(i - 1)
      <3> SUFFICES ASSUME NEW j \in S PROVE j \in 1..(i - 1)
        OBVIOUS
      <3>1. j \in 1..Bounds /\ Boundaries[j] < v /\ Boundaries[j] \in Int /\ Boundaries[i] \in Int
        BY <1>0, <1>2
      <3>2. Boundaries[j] < Boundaries[i]
        BY <1>5, <3>1
      <3>3. ~ (i < j) /\ i # j
        <4>1. i < j => Boundaries[i] < Boundaries[j]
          BY <3>1, BoundariesAscend
        <4> QED BY <3>1, <3>2, <4>1
      <3>4. j \in Int /\ i \in Int /\ 1 <= j
        BY <1>0, <3>1
      <3>5. j <= i - 1
        BY <3>3, <3>4
      <3> QED BY <3>4, <3>5
    <2>2. IsFiniteSet(1..(i - 1)) /\ Cardinality(1..(i - 1)) = i - 1
      <3>1. 1 \in Int /\ i - 1 \in Int /\ (1 > i - 1 => 0 = i - 1) /\ (i - 1) - 1 + 1 = i - 1
        BY <1>0
      <3>2. /\ IsFiniteSet(1..(i - 1))
            /\ Cardinality(1..(i - 1)) = IF 1 > i - 1 THEN 0 ELSE (i - 1) - 1 + 1
        BY <3>1, FS_Interval
      <3> QED BY <3>1, <3>2
    <2> QED BY <2>1, <2>2, FS_Subset
  <1>6. ASSUME NEW i \in 1..Bounds, ~ (v <= Boundaries[i]) PROVE c >= i
    <2>1. \A j \in 1..i : j \in S
      <3> SUFFICES ASSUME NEW j \in 1..i PROVE j \in S
        OBVIOUS
      <3>1. j \in 1..Bounds /\ Boundaries[j] \in Int /\ Boundaries[i] \in Int /\ (j < i \/ j = i)
        BY <1>0
      <3>2. j < i => Boundaries[j] < Boundaries[i]
        BY <3>1, BoundariesAscend
      <3>3. Boundaries[j] < v
        BY <1>6, <3>1, <3>2
      <3> QED BY <1>2, <3>1, <3>3
    <2>2. IsFiniteSet(1..i) /\ Cardinality(1..i) = i
      BY <1>0, FS_Interval
    <2>3. Cardinality(1..i) <= Cardinality(S)
      BY <1>4, <2>1, FS_Subset
    <2> QED BY <1>4, <2>2, <2>3
  <1> HIDE DEF c
  <1>7. 1 + c \in 1..(Bounds + 1)
    BY <1>0, <1>4
  <1>8. \A i \in 1..Bounds : v <= Boundaries[i] <=> 1 + c <= i
    BY <1>0, <1>4, <1>5, <1>6
  <1> QED BY <1>3, <1>7, <1>8

(* Observations by bucket.                                                 *)
InBucket(obs, i) == {k \in DOMAIN obs : FindBucket(obs[k]) = i}

BucketInv ==
    /\ observed \in Seq(Int) /\ hist.count = Len(observed)
    /\ hist.buckets = [i \in 1..(Bounds + 1) |-> hist.buckets[i]]
    /\ \A i \in 1..(Bounds + 1) : hist.buckets[i] = Cardinality(InBucket(observed, i))
    /\ hist.min \in Int /\ hist.max \in Int
    /\ \A k \in 1..Len(observed) : hist.min <= observed[k] /\ observed[k] <= hist.max

LEMMA NewBucketsAre ==
    /\ NewHistogram.min = 0 /\ NewHistogram.max = 0 /\ NewHistogram.count = 0
    /\ NewHistogram.buckets = [i \in 1..(Bounds + 1) |-> 0]
    /\ \A i : Cardinality(InBucket(<< >>, i)) = 0
  <1>1. \A i : InBucket(<< >>, i) = {}
    BY DEF InBucket
  <1>2. \A i : Cardinality(InBucket(<< >>, i)) = 0
    BY <1>1, FS_EmptySet
  <1> QED BY <1>2 DEF NewHistogram, Bounds

LEMMA ObserveStays ==
    ASSUME BucketInv, NEW v \in Int,
           hist' = [min |-> IF hist.count = 0 \/ v < hist.min THEN v ELSE hist.min,
                    max |-> IF hist.count = 0 \/ v > hist.max THEN v ELSE hist.max,
                    sum |-> hist.sum + v, count |-> hist.count + 1,
                    buckets |-> [hist.buckets EXCEPT ![FindBucket(v)] = @ + 1]],
           observed' = Append(observed, v)
    PROVE  BucketInv'
  <1> DEFINE n == Len(observed) + 1
             b == FindBucket(v)
             u == Append(observed, v)
  <1>0. /\ observed \in Seq(Int) /\ hist.count = Len(observed)
        /\ hist.buckets = [i \in 1..(Bounds + 1) |-> hist.buckets[i]]
        /\ \A i \in 1..(Bounds + 1) : hist.buckets[i] = Cardinality(InBucket(observed, i))
        /\ hist.min \in Int /\ hist.max \in Int
        /\ \A k \in 1..Len(observed) : hist.min <= observed[k] /\ observed[k] <= hist.max
    BY DEF BucketInv
  <1>1. /\ hist'.min = IF hist.count = 0 \/ v < hist.min THEN v ELSE hist.min
        /\ hist'.max = IF hist.count = 0 \/ v > hist.max THEN v ELSE hist.max
        /\ hist'.count = hist.count + 1
        /\ hist'.buckets = [hist.buckets EXCEPT ![b] = @ + 1]
    OBVIOUS
  <1>2. /\ Len(observed) \in Nat /\ DOMAIN observed = 1..Len(observed) /\ \A k \in 1..Len(observed) : observed[k] \in Int
        /\ u \in Seq(Int) /\ Len(u) = n /\ DOMAIN u = 1..n
        /\ u[n] = v /\ \A k \in 1..Len(observed) : u[k] = observed[k]
    BY <1>0
  <1>3. \A k : k \in 1..n <=> (k \in 1..Len(observed) \/ k = n)
    BY <1>2
  <1>4. b \in 1..(Bounds + 1)
    BY FindBucketIs
  <1> HIDE DEF u, b
  <1>5. n \notin 1..Len(observed)
    BY <1>2
  <1> HIDE DEF n
  <1>6. ASSUME NEW i \in 1..(Bounds + 1) PROVE hist'.buckets[i] = Cardinality(InBucket(u, i))
    <2>1. \A k : k \in InBucket(u, i) <=> (k \in InBucket(observed, i) \/ (k = n /\ b = i))
      BY <1>2, <1>3 DEF InBucket, b
    <2>2. IsFiniteSet(InBucket(observed, i)) /\ n \notin InBucket(observed, i)
      <3>1. InBucket(observed, i) \subseteq 1..Len(observed)
        BY <1>2 DEF InBucket
      <3>2. IsFiniteSet(1..Len(observed))
        BY <1>2, FS_Interval
      <3> QED BY <1>5, <3>1, <3>2, FS_Subset
    <2>3. CASE b = i
      <3>1. InBucket(u, i) = InBucket(observed, i) \cup {n}
        BY <2>1, <2>3
      <3>2. Cardinality(InBucket(u, i)) = Cardinality(InBucket(observed, i)) + 1
        BY <2>2, <3>1, FS_AddElement
      <3>3. hist'.buckets[i] = hist.buckets[i] + 1
        BY <1>0, <1>1, <1>4, <2>3
      <3> QED BY <1>0, <3>2, <3>3
    <2>4. CASE b # i
      <3>1. InBucket(u, i) = InBucket(observed, i)
        BY <2>1, <2>4
      <3>2. hist'.buckets[i] = hist.buckets[i]
        BY <1>0, <1>1, <1>4, <2>4
      <3> QED BY <1>0, <3>1, <3>2
    <2> QED BY <2>3, <2>4
  <1>7. hist'.buckets = [i \in 1..(Bounds + 1) |-> hist'.buckets[i]]
    BY <1>0, <1>1, <1>4
  <1>8. ASSUME NEW k \in 1..n PROVE hist'.min <= u[k] /\ u[k] <= hist'.max
    <2>1. CASE k = n
      BY <1>0, <1>1, <1>2, <2>1
    <2>2. CASE k \in 1..Len(observed)
      <3>1. hist.min <= observed[k] /\ observed[k] <= hist.max /\ u[k] = observed[k] /\ observed[k] \in Int
        BY <1>0, <1>2, <2>2
      <3>2. hist.count # 0
        BY <1>0, <1>2, <2>2
      <3> QED BY <1>0, <1>1, <3>1, <3>2
    <2> QED BY <1>3, <2>1, <2>2
  <1>9. hist'.min \in Int /\ hist'.max \in Int
    BY <1>0, <1>1
  <1>10. hist'.count = Len(u) /\ u \in Seq(Int)
    BY <1>0, <1>1, <1>2 DEF n
  <1>11. observed' = u /\ 1..Len(u) = 1..n
    BY <1>2 DEF u
  <1>12. Bounds' = Bounds /\ \A i : InBucket(observed, i)' = InBucket(u, i)
    BY <1>11 DEF Bounds, InBucket, FindBucket
  <1> QED BY <1>6, <1>7, <1>8, <1>9, <1>10, <1>11, <1>12 DEF BucketInv

LEMMA BucketStarts == MetricsInit => BucketInv
  <1> SUFFICES ASSUME MetricsInit PROVE BucketInv
    OBVIOUS
  <1>1. /\ hist.min = 0 /\ hist.max = 0 /\ hist.count = 0
        /\ hist.buckets = [i \in 1..(Bounds + 1) |-> 0]
        /\ \A i : Cardinality(InBucket(observed, i)) = 0
    BY NewBucketsAre DEF MetricsInit
  <1>2. observed \in Seq(Int) /\ Len(observed) = 0 /\ 1..Len(observed) = {}
    BY DEF MetricsInit
  <1> QED BY <1>1, <1>2 DEF BucketInv

LEMMA BucketStays == ASSUME BucketInv, [MetricsNext]_metricVars PROVE BucketInv'
  <1>1. ASSUME UNCHANGED <<hist, observed>> PROVE BucketInv'
    BY <1>1 DEF BucketInv, InBucket, FindBucket, Bounds
  <1>2. CASE UNCHANGED metricVars
    BY <1>1, <1>2 DEF metricVars
  <1>3. ASSUME NEW v \in Samples, Observe(v) PROVE BucketInv'
    BY <1>3, ObserveStays, BoundariesAssumption DEF Observe
  <1>4. ASSUME NEW s, NEW v, IncrementCounter(s, v) \/ SetGauge(s, v) PROVE BucketInv'
    BY <1>1, <1>4 DEF IncrementCounter, SetGauge
  <1>5. ASSUME NEW v, AdjustGauge(v) \/ GetMetric(v) PROVE BucketInv'
    BY <1>1, <1>5 DEF AdjustGauge, GetMetric
  <1>6. CASE ExportValue \/ ExportLabels
    BY <1>1, <1>6 DEF ExportValue, ExportLabels
  <1>7. CASE ClearRegistry
    <2>1. hist' = NewHistogram /\ observed' = <<>>
      BY <1>7 DEF ClearRegistry
    <2>2. /\ hist'.min = 0 /\ hist'.max = 0 /\ hist'.count = 0
          /\ hist'.buckets = [i \in 1..(Bounds + 1) |-> 0]
          /\ \A i : Cardinality(InBucket(observed', i)) = 0
      BY <2>1, NewBucketsAre
    <2>3. observed' \in Seq(Int) /\ Len(observed') = 0 /\ 1..Len(observed') = {}
      BY <2>1
    <2>4. Bounds' = Bounds /\ \A i : InBucket(observed, i)' = InBucket(observed', i)
      BY DEF Bounds, InBucket, FindBucket
    <2> QED BY <2>2, <2>3, <2>4 DEF BucketInv
  <1> QED BY <1>2, <1>3, <1>4, <1>5, <1>6, <1>7 DEF MetricsNext

-----------------------------------------------------------------------------
(* What is exported for a bucket counts the observations in it and below.  *)
InAndBelow(i) == {k \in DOMAIN observed : FindBucket(observed[k]) <= i}
CumulativeStep(f, i) == IF i = 0 THEN 0 ELSE f[i - 1] + hist.buckets[i]

LEMMA InAndBelowStep ==
    ASSUME BucketInv
    PROVE  /\ \A i \in 0..(Bounds + 1) : Cardinality(InAndBelow(i)) \in Nat
           /\ Cardinality(InAndBelow(0)) = 0
           /\ \A i \in 1..(Bounds + 1) :
                  Cardinality(InAndBelow(i)) = Cardinality(InAndBelow(i - 1)) + hist.buckets[i]
           /\ Cardinality(InAndBelow(Bounds + 1)) = hist.count
  <1>0. /\ observed \in Seq(Int) /\ hist.count = Len(observed)
        /\ \A i \in 1..(Bounds + 1) : hist.buckets[i] = Cardinality(InBucket(observed, i))
    BY DEF BucketInv
  <1>1. /\ Len(observed) \in Nat /\ DOMAIN observed = 1..Len(observed)
        /\ \A k \in 1..Len(observed) : observed[k] \in Int
    BY <1>0
  <1> DEFINE N == 1..Len(observed)
             b(k) == FindBucket(observed[k])
  <1>2. \A k \in N : b(k) \in 1..(Bounds + 1)
    BY <1>1, FindBucketIs
  <1>3. IsFiniteSet(N) /\ Cardinality(N) = Len(observed)
    BY <1>1, FS_Interval
  <1>4. /\ \A i : InAndBelow(i) = {k \in N : b(k) <= i}
        /\ \A i : InBucket(observed, i) = {k \in N : b(k) = i}
    BY <1>1 DEF InAndBelow, InBucket
  <1>5. Bounds \in Nat
    BY BoundariesAre
  <1> HIDE DEF N, b
  <1>6. /\ \A i : InAndBelow(i) \subseteq N /\ InBucket(observed, i) \subseteq N
        /\ \A i, k : k \in InAndBelow(i) <=> (k \in N /\ b(k) <= i)
        /\ \A i, k : k \in InBucket(observed, i) <=> (k \in N /\ b(k) = i)
    BY <1>4
  <1>7. \A i : /\ IsFiniteSet(InAndBelow(i)) /\ IsFiniteSet(InBucket(observed, i))
               /\ Cardinality(InAndBelow(i)) \in Nat /\ Cardinality(InBucket(observed, i)) \in Nat
    BY <1>3, <1>6, FS_Subset, FS_CardinalityType
  <1>8. InAndBelow(0) = {}
    BY <1>2, <1>5, <1>6
  <1>9. Cardinality(InAndBelow(0)) = 0
    BY <1>8, FS_EmptySet
  <1>10. InAndBelow(Bounds + 1) = N
    <2>1. \A k \in N : b(k) <= Bounds + 1
      BY <1>2, <1>5
    <2> QED BY <1>6, <2>1
  <1>11. ASSUME NEW i \in 1..(Bounds + 1)
         PROVE Cardinality(InAndBelow(i)) = Cardinality(InAndBelow(i - 1)) + hist.buckets[i]
    <2>1. \A k \in N : b(k) \in Int /\ (b(k) <= i <=> (b(k) <= i - 1 \/ b(k) = i)) /\ ~ (b(k) <= i - 1 /\ b(k) = i)
      BY <1>2, <1>5
    <2>2. InAndBelow(i) = InAndBelow(i - 1) \cup InBucket(observed, i)
      BY <1>6, <2>1
    <2>3. InAndBelow(i - 1) \cap InBucket(observed, i) = {}
      BY <1>6, <2>1
    <2>4. Cardinality(InAndBelow(i)) = Cardinality(InAndBelow(i - 1)) + Cardinality(InBucket(observed, i)) - Cardinality({})
      BY <1>7, <2>2, <2>3, FS_Union
    <2>5. Cardinality({}) = 0
      BY FS_EmptySet
    <2> QED BY <1>0, <1>7, <2>4, <2>5
  <1> QED BY <1>0, <1>3, <1>7, <1>9, <1>10, <1>11

LEMMA CumulativeIs ==
    ASSUME BucketInv
    PROVE  \A i \in 0..(Bounds + 1) : Cumulative[i] = Cardinality(InAndBelow(i))
  <1> DEFINE D == 0..(Bounds + 1)
             c(i) == Cardinality(InAndBelow(i))
             f == [i \in D |-> c(i)]
             h == CHOOSE h : h = [i \in D |-> CumulativeStep(h, i)]
  <1>0. Bounds \in Nat /\ Bounds + 1 \in Nat
    BY BoundariesAre
  <1>1. c(0) = 0 /\ \A i \in 1..(Bounds + 1) : c(i) = c(i - 1) + hist.buckets[i]
    BY InAndBelowStep
  <1>2. Cumulative = h
    BY DEF Cumulative, CumulativeStep, Bounds
  <1> HIDE DEF c
  <1>3. \A i \in D : f[i] = CumulativeStep(f, i)
    <2> SUFFICES ASSUME NEW i \in D PROVE f[i] = CumulativeStep(f, i)
      OBVIOUS
    <2>1. CASE i = 0
      BY <1>0, <1>1, <2>1 DEF CumulativeStep
    <2>2. CASE i # 0
      <3>1. i \in 1..(Bounds + 1) /\ i - 1 \in D
        BY <1>0, <2>2
      <3>2. f[i] = c(i) /\ f[i - 1] = c(i - 1)
        BY <3>1
      <3> QED BY <1>1, <2>2, <3>1, <3>2 DEF CumulativeStep
    <2> QED BY <2>1, <2>2
  <1>4. f = [i \in D |-> CumulativeStep(f, i)]
    BY <1>3
  <1>5. h = [i \in D |-> CumulativeStep(h, i)]
    BY <1>4
  <1> HIDE DEF h
  <1>6. \A i \in D : h[i] = CumulativeStep(h, i)
    <2> DEFINE g == [i \in D |-> CumulativeStep(h, i)]
    <2>1. \A i \in D : g[i] = CumulativeStep(h, i)
      OBVIOUS
    <2>2. h = g
      BY <1>5
    <2> HIDE DEF g
    <2>3. \A i : h[i] = g[i]
      BY <2>2
    <2> QED BY <2>1, <2>3
  <1> DEFINE T == {i \in D : h[i] = f[i]}
  <1>7. 0 \in T
    <2>1. 0 \in D
      BY <1>0
    <2> HIDE DEF f
    <2>2. h[0] = 0 /\ f[0] = 0
      BY <1>3, <1>6, <2>1 DEF CumulativeStep
    <2> QED BY <2>1, <2>2
  <1>8. ASSUME NEW i \in 0..((Bounds + 1) - 1), i \in T PROVE i + 1 \in T
    <2>1. i + 1 \in D /\ i + 1 # 0 /\ (i + 1) - 1 = i
      BY <1>0
    <2>2. h[i] = f[i]
      BY <1>8
    <2> HIDE DEF f
    <2>3. h[i + 1] = h[i] + hist.buckets[i + 1] /\ f[i + 1] = f[i] + hist.buckets[i + 1]
      BY <1>3, <1>6, <2>1 DEF CumulativeStep
    <2> QED BY <2>1, <2>2, <2>3
  <1> HIDE DEF T
  <1>9. \A i \in D : i \in T
    BY <1>0, <1>7, <1>8, InductionUpTo
  <1>10. \A i \in D : h[i] = c(i)
    BY <1>9 DEF T
  <1> QED BY <1>2, <1>10 DEF c

(* Products.                                                               *)
LEMMA TimesMonotone ==
    ASSUME NEW a \in Int, NEW b \in Int, NEW c \in Nat, a <= b PROVE a * c <= b * c
  OBVIOUS

LEMMA TimesStrict ==
    ASSUME NEW a \in Int, NEW b \in Int, NEW c \in Nat \ {0}, a * c < b * c PROVE a < b
  OBVIOUS

(* A value between s and e stays there when it is x of D parts on the way.  *)
LEMMA PartOfTheWay ==
    ASSUME NEW s \in Int, NEW e \in Int, s <= e, NEW D \in Nat, NEW x \in 0..D
    PROVE  s * D <= s * D + x * (e - s) /\ s * D + x * (e - s) <= e * D
  <1>1. e - s \in Nat /\ x \in Int /\ D \in Int /\ x <= D /\ 0 <= x
    OBVIOUS
  <1>2. x * (e - s) <= D * (e - s) /\ 0 * (e - s) <= x * (e - s)
    BY <1>1, TimesMonotone
  <1>3. D * (e - s) = e * D - s * D
    BY <1>1
  <1> QED BY <1>1, <1>2, <1>3

(* A fraction below a number that is below another fraction.                *)
LEMMA FractionChain ==
    ASSUME NEW a1 \in Int, NEW a2 \in Nat, NEW b1 \in Int, NEW b2 \in Nat,
           NEW e \in Int, NEW l \in Int, a1 <= e * a2, e <= l, l * b2 <= b1
    PROVE  a1 * b2 <= b1 * a2
  <1>1. a1 * b2 <= (e * a2) * b2
    BY TimesMonotone
  <1>2. (e * a2) * b2 = e * (a2 * b2) /\ a2 * b2 \in Nat
    OBVIOUS
  <1>3. e * (a2 * b2) <= l * (a2 * b2)
    BY <1>2, TimesMonotone
  <1>4. l * (a2 * b2) = (l * b2) * a2
    OBVIOUS
  <1>5. (l * b2) * a2 <= b1 * a2
    BY TimesMonotone
  <1> QED BY <1>1, <1>2, <1>3, <1>4, <1>5

LEMMA LeastOf == 
    ASSUME NEW a \in Int, NEW b \in Int
    PROVE  /\ Min({a, b}) \in Int /\ Min({a, b}) <= a /\ Min({a, b}) <= b
           /\ Max({a, b}) \in Int /\ Max({a, b}) >= a /\ Max({a, b}) >= b
  <1>1. \E x \in {a, b} : \A y \in {a, b} : x <= y
    OBVIOUS
  <1>2. Min({a, b}) \in {a, b} /\ \A y \in {a, b} : Min({a, b}) <= y
    BY <1>1 DEF Min
  <1>3. \E x \in {a, b} : \A y \in {a, b} : x >= y
    OBVIOUS
  <1>4. Max({a, b}) \in {a, b} /\ \A y \in {a, b} : Max({a, b}) >= y
    BY <1>3 DEF Max
  <1> QED BY <1>2, <1>4

(* A quantile lies in the first bucket that reaches its target.            *)
Reaches(q, i) ==
    /\ Cumulative[i] * Grid >= q * hist.count
    /\ \A j \in 1..(i - 1) : Cumulative[j] * Grid < q * hist.count
BeginOf(i) == IF i = 1 THEN hist.min ELSE Boundaries[i - 1]
EndOf(i) == IF i <= Len(Boundaries) THEN Boundaries[i] ELSE hist.max
Within(q, i) ==
    LET n == hist.buckets[i]
    IN  IF n = 0 THEN <<EndOf(i), 1>>
        ELSE <<BeginOf(i) * n * Grid + (q * hist.count - (Cumulative[i] - n) * Grid) * (EndOf(i) - BeginOf(i)), n * Grid>>

(* The counts of the buckets and where they start and end.                 *)
Table ==
    /\ Grid \in Nat \ {0} /\ Bounds \in Nat \ {0} /\ hist.count \in Nat
    /\ \A i \in 0..(Bounds + 1) : Cumulative[i] \in Nat
    /\ Cumulative[0] = 0 /\ Cumulative[Bounds + 1] = hist.count
    /\ \A i \in 1..(Bounds + 1) : hist.buckets[i] \in Nat /\ Cumulative[i] = Cumulative[i - 1] + hist.buckets[i]
    /\ \A i \in 1..(Bounds + 1) : BeginOf(i) \in Int /\ EndOf(i) \in Int
    /\ \A i \in 1..(Bounds + 1) : hist.buckets[i] # 0 => BeginOf(i) <= EndOf(i)
    /\ DOMAIN hist.buckets = 1..(Bounds + 1)

LEMMA TableIs == ASSUME BucketInv PROVE Table
  <1>0. /\ observed \in Seq(Int) /\ hist.count = Len(observed)
        /\ hist.buckets = [i \in 1..(Bounds + 1) |-> hist.buckets[i]]
        /\ \A i \in 1..(Bounds + 1) : hist.buckets[i] = Cardinality(InBucket(observed, i))
        /\ hist.min \in Int /\ hist.max \in Int
        /\ \A k \in 1..Len(observed) : hist.min <= observed[k] /\ observed[k] <= hist.max
    BY DEF BucketInv
  <1>1. /\ Len(observed) \in Nat /\ DOMAIN observed = 1..Len(observed)
        /\ \A k \in 1..Len(observed) : observed[k] \in Int
    BY <1>0
  <1>2. /\ Bounds \in Nat \ {0} /\ \A i \in 1..Bounds : Boundaries[i] \in Int
    BY BoundariesAre
  <1>3. Grid \in Nat \ {0} /\ hist.count \in Nat
    BY <1>0, <1>1, HistogramAssumption
  <1>4. ASSUME NEW i \in 1..(Bounds + 1)
        PROVE  /\ IsFiniteSet(InBucket(observed, i)) /\ hist.buckets[i] \in Nat
               /\ InBucket(observed, i) \subseteq 1..Len(observed)
    <2>1. InBucket(observed, i) \subseteq 1..Len(observed)
      BY <1>1 DEF InBucket
    <2>2. IsFiniteSet(1..Len(observed))
      BY <1>1, FS_Interval
    <2> QED BY <1>0, <2>1, <2>2, FS_Subset, FS_CardinalityType
  <1>5. \A i \in 0..(Bounds + 1) : Cumulative[i] = Cardinality(InAndBelow(i))
    BY CumulativeIs
  <1> DEFINE c(i) == Cumulative[i]
             d(i) == Cardinality(InAndBelow(i))
  <1>6. /\ \A i \in 0..(Bounds + 1) : d(i) \in Nat
        /\ d(0) = 0 /\ d(Bounds + 1) = hist.count
        /\ \A i \in 1..(Bounds + 1) : d(i) = d(i - 1) + hist.buckets[i]
    BY InAndBelowStep
  <1>7. \A i \in 0..(Bounds + 1) : c(i) = d(i)
    BY <1>5
  <1> HIDE DEF c, d
  <1>8. /\ 0 \in 0..(Bounds + 1) /\ Bounds + 1 \in 0..(Bounds + 1)
        /\ \A i \in 1..(Bounds + 1) : i \in 0..(Bounds + 1) /\ i - 1 \in 0..(Bounds + 1)
    BY <1>2
  <1>9. /\ \A i \in 0..(Bounds + 1) : c(i) \in Nat
        /\ c(0) = 0 /\ c(Bounds + 1) = hist.count
        /\ \A i \in 1..(Bounds + 1) : c(i) = c(i - 1) + hist.buckets[i]
    BY <1>6, <1>7, <1>8
  <1>10. ASSUME NEW i \in 1..(Bounds + 1) PROVE BeginOf(i) \in Int /\ EndOf(i) \in Int
    <2>1. i # 1 => i - 1 \in 1..Bounds
      BY <1>2
    <2>2. i <= Bounds => i \in 1..Bounds
      BY <1>2
    <2> QED BY <1>0, <1>2, <2>1, <2>2 DEF BeginOf, EndOf, Bounds
  <1>11. ASSUME NEW i \in 1..(Bounds + 1), hist.buckets[i] # 0 PROVE BeginOf(i) <= EndOf(i)
    <2>1. InBucket(observed, i) # {}
      BY <1>0, <1>11, FS_EmptySet
    <2>2. PICK k \in 1..Len(observed) : FindBucket(observed[k]) = i
      BY <1>4, <2>1 DEF InBucket
    <2> DEFINE v == observed[k]
    <2>3. v \in Int /\ hist.min <= v /\ v <= hist.max
      BY <1>0, <1>1
    <2>4. FindBucket(v) = i
      BY <2>2
    <2> HIDE DEF v
    <2>5. \A j \in 1..Bounds : v <= Boundaries[j] <=> i <= j
      BY <2>3, <2>4, FindBucketIs
    <2>6. BeginOf(i) <= v
      <3>1. CASE i = 1
        BY <2>3, <3>1 DEF BeginOf
      <3>2. CASE i # 1
        <4>1. i - 1 \in 1..Bounds /\ ~ (i <= i - 1)
          BY <1>2, <3>2
        <4>2. ~ (v <= Boundaries[i - 1]) /\ Boundaries[i - 1] \in Int
          BY <1>2, <2>5, <4>1
        <4>3. Boundaries[i - 1] <= v
          BY <2>3, <4>2
        <4> QED BY <3>2, <4>3 DEF BeginOf
      <3> QED BY <3>1, <3>2
    <2>7. v <= EndOf(i)
      <3>1. CASE i <= Bounds
        <4>1. i \in 1..Bounds /\ i <= i
          BY <1>2, <3>1
        <4>2. v <= Boundaries[i]
          BY <2>5, <4>1
        <4> QED BY <3>1, <4>2 DEF EndOf, Bounds
      <3>2. CASE ~ (i <= Bounds)
        BY <2>3, <3>2 DEF EndOf, Bounds
      <3> QED BY <3>1, <3>2
    <2>8. BeginOf(i) \in Int /\ EndOf(i) \in Int
      BY <1>10
    <2> QED BY <2>3, <2>6, <2>7, <2>8
  <1>12. DOMAIN hist.buckets = 1..(Bounds + 1)
    BY <1>0
  <1> QED BY <1>2, <1>3, <1>4, <1>9, <1>10, <1>11, <1>12 DEF Table, c

LEMMA QuantileIs ==
    ASSUME Table, hist.count # 0, NEW q \in 0..Grid
    PROVE  \E i \in 1..(Bounds + 1) : Reaches(q, i) /\ Quantile(q) = Within(q, i)
  <1> DEFINE K == 1..(Bounds + 1)
             C(i) == Cumulative[i] * Grid >= q * hist.count
             T == {i \in K : C(i)}
  <1>1. Grid \in Nat /\ Bounds \in Nat /\ hist.count \in Nat /\ Cumulative[Bounds + 1] = hist.count
    BY DEF Table
  <1>2. \A i \in K : Cumulative[i] \in Nat
    <2>1. \A i \in K : i \in 0..(Bounds + 1)
      BY <1>1
    <2> QED BY <2>1 DEF Table
  <1>3. C(Bounds + 1)
    <2>1. q \in Int /\ Grid \in Int /\ q <= Grid
      BY <1>1
    <2>2. q * hist.count <= Grid * hist.count
      BY <1>1, <2>1, TimesMonotone
    <2>3. Grid * hist.count = hist.count * Grid
      BY <1>1
    <2>4. hist.count * Grid >= q * hist.count
      BY <1>1, <2>1, <2>2, <2>3
    <2> QED BY <1>1, <2>4
  <1>4. T # {} /\ T \subseteq Nat
    BY <1>1, <1>3
  <1>5. PICK i \in T : \A j \in T : i <= j
    BY <1>4, Least
  <1>6. i \in K /\ Reaches(q, i)
    <2>1. i \in K /\ C(i)
      OBVIOUS
    <2>2. ASSUME NEW j \in 1..(i - 1) PROVE Cumulative[j] * Grid < q * hist.count
      <3>1. j \in K /\ ~ (i <= j)
        BY <1>1, <2>1
      <3>2. ~ C(j)
        BY <1>5, <3>1
      <3>3. Cumulative[j] * Grid \in Int /\ q * hist.count \in Int
        BY <1>1, <1>2, <3>1
      <3> QED BY <3>2, <3>3
    <2> QED BY <2>1, <2>2 DEF Reaches
  <1> DEFINE m == CHOOSE k \in DOMAIN hist.buckets : Reaches(q, k)
  <1>7. DOMAIN hist.buckets = K
    BY DEF Table
  <1>8. m \in K /\ Reaches(q, m)
    BY <1>6, <1>7
  <1>9. Quantile(q) = Within(q, m)
    BY DEF Quantile, Within, Reaches, BeginOf, EndOf
  <1> QED BY <1>8, <1>9

(* A fraction that lies between the ends of bucket i; in an empty one it   *)
(* is the upper end.                                                       *)
Lower(i) == IF hist.buckets[i] = 0 THEN EndOf(i) ELSE BeginOf(i)
LiesIn(v, i) ==
    /\ v[1] \in Int /\ v[2] \in Nat \ {0}
    /\ Lower(i) * v[2] <= v[1] /\ v[1] <= EndOf(i) * v[2]

(* Only the first bucket is reached while it is empty, and what is wanted  *)
(* of the others is not more than they have.                               *)
LEMMA ReachedHas ==
    ASSUME Table, NEW q \in Nat, NEW i \in 1..(Bounds + 1), Reaches(q, i)
    PROVE  /\ hist.buckets[i] = 0 => i = 1
           /\ q * hist.count - (Cumulative[i] - hist.buckets[i]) * Grid \in 0..(hist.buckets[i] * Grid)
  <1> DEFINE n == hist.buckets[i]
             c == Cumulative[i]
             p == Cumulative[i - 1]
             t == q * hist.count
  <1>1. Grid \in Nat \ {0} /\ Bounds \in Nat /\ hist.count \in Nat
    BY DEF Table
  <1>2. i - 1 \in 0..(Bounds + 1) /\ i \in 0..(Bounds + 1) /\ i \in Int /\ (i # 1 => i - 1 \in 1..(i - 1)) /\ (i = 1 => i - 1 = 0)
    BY <1>1
  <1>3. n \in Nat /\ c = p + n /\ p \in Nat /\ c \in Nat
    BY <1>2 DEF Table
  <1>4. t \in Nat
    BY <1>1
  <1>5. c * Grid >= t /\ (i # 1 => p * Grid < t)
    BY <1>2 DEF Reaches
  <1>6. i = 1 => p = 0
    BY <1>2 DEF Table
  <1> HIDE DEF n, c, p, t
  <1>7. c * Grid = p * Grid + n * Grid /\ p * Grid \in Nat /\ n * Grid \in Nat /\ c - n = p
    BY <1>1, <1>3
  <1>8. p * Grid <= t
    BY <1>1, <1>4, <1>5, <1>6, <1>7
  <1>9. n = 0 => i = 1
    <2>1. n = 0 => c = p
      BY <1>3
    <2>2. c = p => c * Grid = p * Grid
      OBVIOUS
    <2> QED BY <1>4, <1>5, <1>7, <2>1, <2>2
  <1>10. t - (c - n) * Grid \in 0..(n * Grid)
    <2> DEFINE x == p * Grid
               y == n * Grid
               z == c * Grid
    <2>1. x \in Nat /\ y \in Nat /\ z = x + y /\ x <= t /\ z >= t
      BY <1>5, <1>7, <1>8
    <2>2. (c - n) * Grid = x
      BY <1>7
    <2> HIDE DEF x, y, z
    <2>3. t - x \in 0..y
      BY <1>4, <2>1
    <2> QED BY <2>2, <2>3 DEF y
  <1> QED BY <1>9, <1>10 DEF n, c, p, t

LEMMA WithinLies ==
    ASSUME Table, NEW q \in Nat, NEW i \in 1..(Bounds + 1), Reaches(q, i)
    PROVE  LiesIn(Within(q, i), i)
  <1> DEFINE n == hist.buckets[i]
             x == q * hist.count - (Cumulative[i] - n) * Grid
             s == BeginOf(i)
             e == EndOf(i)
             D == n * Grid
  <1>1. n \in Nat /\ s \in Int /\ e \in Int /\ (n # 0 => s <= e) /\ Grid \in Nat \ {0}
    BY DEF Table
  <1>2. x \in 0..D
    BY ReachedHas
  <1>3. Within(q, i) = IF n = 0 THEN <<e, 1>> ELSE <<s * n * Grid + x * (e - s), D>>
    BY DEF Within
  <1>4. Lower(i) = IF n = 0 THEN e ELSE s
    BY DEF Lower
  <1> HIDE DEF n, x, s, e
  <1>5. CASE n = 0
    <2>1. Within(q, i)[1] = e /\ Within(q, i)[2] = 1 /\ Lower(i) = e
      BY <1>3, <1>4, <1>5
    <2>2. e * 1 <= e
      BY <1>1
    <2> QED BY <1>1, <2>1, <2>2 DEF LiesIn, e
  <1>6. CASE n # 0
    <2>1. D \in Nat \ {0}
      BY <1>1, <1>6
    <2>2. s * n * Grid = s * D
      BY <1>1
    <2> HIDE DEF D
    <2>3. Within(q, i)[1] = s * D + x * (e - s) /\ Within(q, i)[2] = D /\ Lower(i) = s
      BY <1>3, <1>4, <1>6, <2>2
    <2>4. s * D <= s * D + x * (e - s) /\ s * D + x * (e - s) <= e * D
      BY <1>1, <1>2, <1>6, <2>1, PartOfTheWay
    <2>5. s * D + x * (e - s) \in Int
      BY <1>1, <1>2, <2>1
    <2> QED BY <2>1, <2>3, <2>4, <2>5 DEF LiesIn, e
  <1> QED BY <1>5, <1>6

(* A later bucket starts where an earlier one ends, or after it.           *)
LEMMA BucketsFollow ==
    ASSUME BucketInv, NEW i \in 1..(Bounds + 1), NEW j \in 1..(Bounds + 1), i < j
    PROVE  EndOf(i) <= BeginOf(j)
  <1>1. Bounds \in Nat /\ \A k \in 1..Bounds : Boundaries[k] \in Int
    BY BoundariesAre
  <1>2. i \in 1..Bounds /\ j - 1 \in 1..Bounds /\ j # 1 /\ i <= Bounds /\ (i < j - 1 \/ i = j - 1)
    BY <1>1
  <1>3. EndOf(i) = Boundaries[i] /\ BeginOf(j) = Boundaries[j - 1]
    BY <1>2 DEF EndOf, BeginOf, Bounds
  <1>4. i < j - 1 => Boundaries[i] < Boundaries[j - 1]
    BY <1>2, BoundariesAscend
  <1>5. Boundaries[i] \in Int /\ Boundaries[j - 1] \in Int
    BY <1>1, <1>2
  <1>6. Boundaries[i] <= Boundaries[j - 1]
    BY <1>2, <1>4, <1>5
  <1> QED BY <1>3, <1>6

(* A larger quantile is reached in the same bucket or a later one.         *)
LEMMA ReachedLater ==
    ASSUME Table, NEW q \in Nat, NEW r \in Nat, q <= r,
           NEW i \in 1..(Bounds + 1), Reaches(q, i), NEW j \in 1..(Bounds + 1), Reaches(r, j)
    PROVE  i <= j
  <1>1. Grid \in Nat /\ Bounds \in Nat /\ hist.count \in Nat
    BY DEF Table
  <1> SUFFICES ASSUME j < i PROVE FALSE
    BY <1>1
  <1>2. j \in 1..(i - 1) /\ j \in 0..(Bounds + 1)
    BY <1>1
  <1>3. Cumulative[j] * Grid < q * hist.count /\ Cumulative[j] * Grid >= r * hist.count
    BY <1>2 DEF Reaches
  <1>4. Cumulative[j] \in Nat
    BY <1>2 DEF Table
  <1>5. q * hist.count <= r * hist.count
    BY <1>1, TimesMonotone
  <1> DEFINE x == Cumulative[j] * Grid
             y == q * hist.count
             z == r * hist.count
  <1>6. x \in Int /\ y \in Int /\ z \in Int
    BY <1>1, <1>4
  <1>7. x < y /\ x >= z /\ y <= z
    BY <1>3, <1>5
  <1> HIDE DEF x, y, z
  <1> QED BY <1>6, <1>7

LEMMA QuantilesGrow ==
    ASSUME BucketInv, hist.count # 0, NEW q \in 1..Grid
    PROVE  LessEq(Quantile(q - 1), Quantile(q))
  <1>0. Table
    BY TableIs
  <1>1. Grid \in Nat \ {0} /\ Bounds \in Nat \ {0} /\ hist.count \in Nat
    BY <1>0 DEF Table
  <1>2. q - 1 \in 0..Grid /\ q \in 0..Grid /\ q \in Nat /\ q - 1 \in Nat /\ q - 1 <= q
    BY <1>1
  <1> DEFINE p == q - 1
             a == Quantile(p)
             b == Quantile(q)
  <1> HIDE DEF p
  <1>3. p \in 0..Grid /\ p \in Nat /\ p <= q
    BY <1>2 DEF p
  <1>4. PICK i \in 1..(Bounds + 1) : Reaches(p, i) /\ Quantile(p) = Within(p, i)
    BY <1>0, <1>3, QuantileIs
  <1>5. PICK j \in 1..(Bounds + 1) : Reaches(q, j) /\ Quantile(q) = Within(q, j)
    BY <1>0, <1>2, QuantileIs
  <1>6. i <= j
    BY <1>0, <1>2, <1>3, <1>4, <1>5, ReachedLater
  <1>7. LiesIn(a, i) /\ LiesIn(b, j)
    BY <1>0, <1>2, <1>3, <1>4, <1>5, WithinLies
  <1>8. \A k \in 1..(Bounds + 1) : hist.buckets[k] \in Nat /\ BeginOf(k) \in Int /\ EndOf(k) \in Int /\ Lower(k) \in Int
    BY <1>0 DEF Table, Lower
  <1>9. CASE i < j
    <2>1. hist.buckets[j] # 0
      <3>1. hist.buckets[j] = 0 => j = 1
        BY <1>0, <1>2, <1>5, ReachedHas
      <3> QED BY <1>1, <1>9, <3>1
    <2>2. EndOf(i) <= Lower(j)
      BY <1>9, <2>1, BucketsFollow DEF Lower
    <2> DEFINE e == EndOf(i)
               l == Lower(j)
    <2>3. e \in Int /\ l \in Int /\ e <= l
      BY <1>8, <2>2
    <2>4. /\ a[1] \in Int /\ a[2] \in Nat /\ b[1] \in Int /\ b[2] \in Nat
          /\ a[1] <= e * a[2] /\ l * b[2] <= b[1]
      BY <1>7 DEF LiesIn
    <2> HIDE DEF a, b, e, l
    <2>5. a[1] * b[2] <= b[1] * a[2]
      BY <2>3, <2>4, FractionChain
    <2> QED BY <2>5 DEF LessEq, a, b, p
  <1>10. CASE i = j
    <2> DEFINE n == hist.buckets[i]
               before == Cumulative[i] - n
               s == BeginOf(i)
               e == EndOf(i)
               x == p * hist.count - before * Grid
               y == q * hist.count - before * Grid
    <2>1. n \in Nat /\ s \in Int /\ e \in Int /\ (n # 0 => s <= e)
      BY <1>0 DEF Table
    <2>2. a = IF n = 0 THEN <<e, 1>> ELSE <<s * n * Grid + x * (e - s), n * Grid>>
      BY <1>4 DEF Within
    <2>3. b = IF n = 0 THEN <<e, 1>> ELSE <<s * n * Grid + y * (e - s), n * Grid>>
      BY <1>5, <1>10 DEF Within
    <2>4. before \in Int
      <3>1. i \in 0..(Bounds + 1)
        BY <1>1
      <3> DEFINE c == Cumulative[i]
      <3>2. c \in Nat
        BY <1>0, <3>1 DEF Table
      <3> HIDE DEF c, n
      <3>3. c - n \in Int
        BY <2>1, <3>2
      <3> QED BY <3>3 DEF c
    <2> HIDE DEF a, b, n, before, s, e
    <2>5. x \in Int /\ y \in Int /\ x <= y
      <3>1. p * hist.count <= q * hist.count
        BY <1>1, <1>2, <1>3, TimesMonotone
      <3> DEFINE u == p * hist.count
                 v == q * hist.count
                 w == before * Grid
      <3>2. u \in Int /\ v \in Int /\ w \in Int
        BY <1>1, <1>2, <1>3, <2>4
      <3> HIDE DEF u, v, w
      <3>3. u - w \in Int /\ v - w \in Int /\ (u <= v => u - w <= v - w)
        BY <3>2
      <3> QED BY <3>1, <3>3 DEF u, v, w
    <2> HIDE DEF x, y
    <2>6. CASE n = 0
      <3>1. a[1] = e /\ a[2] = 1 /\ b[1] = e /\ b[2] = 1
        BY <2>2, <2>3, <2>6
      <3>2. a[1] * b[2] <= b[1] * a[2]
        BY <2>1, <3>1
      <3> QED BY <3>2 DEF LessEq, a, b, p
    <2>7. CASE n # 0
      <3> DEFINE d == e - s
                 D == n * Grid
                 t == s * n * Grid
      <3>1. d \in Nat /\ D \in Nat /\ t \in Int
        BY <1>1, <2>1, <2>7
      <3>2. a[1] = t + x * d /\ a[2] = D /\ b[1] = t + y * d /\ b[2] = D
        BY <2>2, <2>3, <2>7
      <3> HIDE DEF d, D, t
      <3>3. x * d <= y * d
        BY <2>5, <3>1, TimesMonotone
      <3>4. a[1] \in Int /\ b[1] \in Int /\ a[1] <= b[1]
        BY <2>5, <3>1, <3>2, <3>3
      <3>5. a[1] * D <= b[1] * D
        BY <3>1, <3>4, TimesMonotone
      <3>6. a[1] * b[2] <= b[1] * a[2]
        BY <3>2, <3>5
      <3> QED BY <3>6 DEF LessEq, a, b, p
    <2> QED BY <2>6, <2>7
  <1>11. i < j \/ i = j
    BY <1>1, <1>6
  <1> QED BY <1>9, <1>10, <1>11

LEMMA QuantilesBounded ==
    ASSUME BucketInv, hist.count # 0
    PROVE  /\ LessEq(<<Min({hist.min, Boundaries[1]}), 1>>, Quantile(0))
           /\ LessEq(Quantile(Grid), <<Max({hist.max, Boundaries[Len(Boundaries)]}), 1>>)
  <1> DEFINE lo == Min({hist.min, Boundaries[1]})
             hi == Max({hist.max, Boundaries[Bounds]})
  <1>0. Table
    BY TableIs
  <1>1. Grid \in Nat \ {0} /\ Bounds \in Nat \ {0} /\ hist.count \in Nat
    BY <1>0 DEF Table
  <1>2. \A k \in 1..Bounds : Boundaries[k] \in Int
    BY BoundariesAre
  <1>3. hist.min \in Int /\ hist.max \in Int /\ 1 \in 1..Bounds /\ Bounds \in 1..Bounds
    BY <1>1 DEF BucketInv
  <1>4. Boundaries[1] \in Int /\ Boundaries[Bounds] \in Int
    BY <1>2, <1>3
  <1>5. /\ lo \in Int /\ lo <= hist.min /\ lo <= Boundaries[1]
        /\ hi \in Int /\ hi >= hist.max /\ hi >= Boundaries[Bounds]
    BY <1>3, <1>4, LeastOf
  <1> HIDE DEF lo, hi
  <1>6. \A k \in 1..(Bounds + 1) : BeginOf(k) \in Int /\ EndOf(k) \in Int /\ Lower(k) \in Int
    BY <1>0 DEF Table, Lower
  <1>7. LessEq(<<lo, 1>>, Quantile(0))
    <2>1. 0 \in 0..Grid /\ 0 \in Nat
      BY <1>1
    <2>2. PICK i \in 1..(Bounds + 1) : Reaches(0, i) /\ Quantile(0) = Within(0, i)
      BY <1>0, <2>1, QuantileIs
    <2>3. i = 1
      <3> SUFFICES ASSUME i # 1 PROVE FALSE
        OBVIOUS
      <3>1. 1 \in 1..(i - 1) /\ 1 \in 0..(Bounds + 1)
        BY <1>1
      <3>2. Cumulative[1] * Grid < 0 * hist.count /\ Cumulative[1] \in Nat
        BY <1>0, <2>2, <3>1 DEF Reaches, Table
      <3> QED BY <1>1, <3>2
    <2> DEFINE v == Quantile(0)
               l == Lower(i)
    <2>4. LiesIn(v, i)
      BY <1>0, <2>1, <2>2, WithinLies
    <2>5. l \in Int /\ lo <= l
      <3>1. EndOf(1) = Boundaries[1] /\ BeginOf(1) = hist.min
        BY <1>1 DEF EndOf, BeginOf, Bounds
      <3> QED BY <1>5, <1>6, <2>3, <3>1 DEF Lower
    <2>6. v[1] \in Int /\ v[2] \in Nat /\ l * v[2] <= v[1]
      BY <2>4 DEF LiesIn
    <2> HIDE DEF v, l
    <2>7. lo <= lo * 1 /\ 1 \in Nat
      BY <1>5
    <2>8. lo * v[2] <= v[1] * 1
      BY <1>5, <2>5, <2>6, <2>7, FractionChain
    <2> QED BY <2>8 DEF LessEq, v
  <1>8. LessEq(Quantile(Grid), <<hi, 1>>)
    <2>1. Grid \in 0..Grid /\ Grid \in Nat
      BY <1>1
    <2>2. PICK i \in 1..(Bounds + 1) : Reaches(Grid, i) /\ Quantile(Grid) = Within(Grid, i)
      BY <1>0, <2>1, QuantileIs
    <2> DEFINE v == Quantile(Grid)
               e == EndOf(i)
    <2>4. LiesIn(v, i)
      BY <1>0, <2>1, <2>2, WithinLies
    <2>5. e \in Int /\ e <= hi
      <3>1. CASE i <= Bounds
        <4>1. i \in 1..Bounds /\ (i < Bounds \/ i = Bounds)
          BY <1>1, <3>1
        <4>2. i < Bounds => Boundaries[i] < Boundaries[Bounds]
          BY <1>3, <4>1, BoundariesAscend
        <4>3. e = Boundaries[i] /\ Boundaries[i] \in Int
          BY <1>2, <3>1, <4>1 DEF EndOf, Bounds
        <4> QED BY <1>4, <1>5, <4>1, <4>2, <4>3
      <3>2. CASE ~ (i <= Bounds)
        <4>1. e = hist.max
          BY <3>2 DEF EndOf, Bounds
        <4> QED BY <1>3, <1>5, <4>1
      <3> QED BY <3>1, <3>2
    <2>6. v[1] \in Int /\ v[2] \in Nat /\ v[1] <= e * v[2]
      BY <2>4 DEF LiesIn
    <2> HIDE DEF v, e
    <2>7. hi * 1 <= hi /\ 1 \in Nat
      BY <1>5
    <2>8. v[1] * 1 <= hi * v[2]
      BY <1>5, <2>5, <2>6, <2>7, FractionChain
    <2> QED BY <2>8 DEF LessEq, v
  <1> QED BY <1>7, <1>8 DEF lo, hi, Bounds

LEMMA HistogramHolds == BucketInv => HistogramExact
  <1> SUFFICES ASSUME BucketInv PROVE HistogramExact
    OBVIOUS
  <1>0. Table
    BY TableIs
  <1>1. DOMAIN Boundaries = 1..Bounds /\ Bounds \in Nat
    BY BoundariesAre
  <1>2. observed \in Seq(Int) /\ DOMAIN observed = 1..Len(observed) /\ \A k \in DOMAIN observed : observed[k] \in Int
    BY DEF BucketInv
  <1>3. ASSUME NEW i \in 1..Bounds
        PROVE Cumulative[i] = Cardinality({k \in DOMAIN observed : observed[k] <= Boundaries[i]})
    <2>1. i \in 0..(Bounds + 1)
      BY <1>1
    <2>2. \A k \in DOMAIN observed : observed[k] <= Boundaries[i] <=> FindBucket(observed[k]) <= i
      BY <1>2, FindBucketIs
    <2>3. {k \in DOMAIN observed : observed[k] <= Boundaries[i]} = InAndBelow(i)
      BY <2>2 DEF InAndBelow
    <2> QED BY <2>1, <2>3, CumulativeIs
  <1>4. Cumulative[Len(Boundaries) + 1] = hist.count /\ hist.count \in Nat
    BY <1>0 DEF Table, Bounds
  <1>5. ASSUME NEW q \in 1..Grid PROVE LessEq(Quantile(q - 1), Quantile(q))
    <2>1. CASE hist.count = 0
      <3>1. Quantile(q - 1) = <<0, 1>> /\ Quantile(q) = <<0, 1>>
        BY <2>1 DEF Quantile
      <3> QED BY <3>1 DEF LessEq
    <2>2. CASE hist.count # 0
      BY <2>2, QuantilesGrow
    <2> QED BY <2>1, <2>2
  <1>6. hist.count > 0 => hist.count # 0
    BY <1>4
  <1>7. hist.count > 0 =>
            /\ LessEq(<<Min({hist.min, Boundaries[1]}), 1>>, Quantile(0))
            /\ LessEq(Quantile(Grid), <<Max({hist.max, Boundaries[Len(Boundaries)]}), 1>>)
    BY <1>6, QuantilesBounded
  <1> QED BY <1>1, <1>3, <1>4, <1>5, <1>7 DEF HistogramExact

-----------------------------------------------------------------------------
(* Collector, metrics, log files and spans side by side.                   *)
ObservabilityInv == CollectorInv /\ ExportInv /\ BucketInv /\ LoggingInv /\ TracingInv

LEMMA ObservabilityStarts == RuntimeInit => ObservabilityInv
  <1> SUFFICES ASSUME RuntimeInit PROVE ObservabilityInv
    OBVIOUS
  <1>1. CollectorInit /\ MetricsInit /\ LoggingInit /\ TracingInit
    BY DEF RuntimeInit
  <1> QED BY <1>1, CollectorStarts, ExportStarts, BucketStarts, LoggingStarts, TracingStarts
          DEF ObservabilityInv

(* A step of the whole is a step of at most one of them.                   *)
LEMMA ObservabilityParts ==
    ASSUME [RuntimeNext]_runtimeVars
    PROVE  /\ [CollectorNext]_collectorVars /\ [MetricsNext]_metricVars
           /\ [LoggingNext]_logVars /\ [TracingNext]_tracingVars
  <1>1. (ReportStep \/ UNCHANGED reportVars) /\ (ProcessStep \/ UNCHANGED processVars)
    BY DEF RuntimeNext, runtimeVars
  <1>2. [CollectorNext]_collectorVars /\ [MetricsNext]_metricVars /\ [LoggingNext]_logVars
    BY <1>1 DEF ReportStep, reportVars
  <1>3. [TracingNext]_tracingVars
    BY <1>1 DEF ProcessStep, processVars
  <1> QED BY <1>2, <1>3

(***************************************************************************)
(* However collectors start and stop, exports overlap with increments,     *)
(* files rotate, fail to rotate or are cut by a crash and headers get      *)
(* lost: one collector runs at a time, the buckets count the samples and   *)
(* quantiles grow within their bounds, no exported counter goes back, the  *)
(* files hold the last records in order, and the valid spans of a request  *)
(* form one trace.  It says nothing of whether stop() ends the collector.  *)
(***************************************************************************)
THEOREM ObservabilityCorrect == RuntimeSpec => []ObservabilitySound
  <1>1. RuntimeInit => ObservabilityInv
    BY ObservabilityStarts
  <1>2. ObservabilityInv /\ [RuntimeNext]_runtimeVars => ObservabilityInv'
    <2> SUFFICES ASSUME ObservabilityInv, [RuntimeNext]_runtimeVars PROVE ObservabilityInv'
      OBVIOUS
    <2>1. /\ [CollectorNext]_collectorVars /\ [MetricsNext]_metricVars
          /\ [LoggingNext]_logVars /\ [TracingNext]_tracingVars
      BY ObservabilityParts
    <2>2. CollectorInv /\ ExportInv /\ BucketInv /\ LoggingInv /\ TracingInv
      BY DEF ObservabilityInv
    <2>3. CollectorInv' /\ ExportInv' /\ BucketInv' /\ LoggingInv' /\ TracingInv'
      BY <2>1, <2>2, CollectorStays, ExportStays, BucketStays, LoggingStays, TracingStays
    <2> QED BY <2>3 DEF ObservabilityInv
  <1>3. ObservabilityInv => ObservabilitySound
    <2> SUFFICES ASSUME ObservabilityInv PROVE ObservabilitySound
      OBVIOUS
    <2>1. OneCollector /\ ExportsGrow
      BY DEF ObservabilityInv, CollectorInv, ExportInv
    <2>2. HistogramExact /\ FilesInOrder /\ TracesHoldTogether
      BY HistogramHolds, LoggingOrders, TracingHolds DEF ObservabilityInv
    <2> QED BY <2>1, <2>2 DEF ObservabilitySound
  <1> QED BY <1>1, <1>2, <1>3, PTL DEF RuntimeSpec

-----------------------------------------------------------------------------
(* What the operators of an animated widget leave alone.                   *)
WidgetFields == {"look", "at", "base", "move", "cached", "effect", "pulse", "visible"}
IsWidget(w) == DOMAIN w = WidgetFields
SameEffect(w, v) ==
    IsWidget(v) /\ v.look = w.look /\ v.effect = w.effect /\ v.pulse = w.pulse /\ v.visible = w.visible
SamePlace(w, v) ==
    IsWidget(v) /\ v.look = w.look /\ v.at = w.at /\ v.base = w.base /\ v.move = w.move
Glows(w, v) == v.effect = "glow" /\ v.pulse = "glow" /\ v.visible = w.visible
Unglows(w, v) ==
    /\ v.effect = w.effect /\ v.visible = w.visible
    /\ v.pulse = IF w.effect \in {"glow", "shadow"} THEN "unglow" ELSE w.pulse

(* An animation changes the move alone, stopping one too.                  *)
LEMMA AnimateIs ==
    ASSUME NEW w, IsWidget(w), NEW k, NEW f, NEW to
    PROVE  /\ SameEffect(w, Animate(w, k, f, to))
           /\ Animate(w, k, f, to).at = w.at /\ Animate(w, k, f, to).base = w.base
           /\ Animate(w, k, f, to).move.kind = k /\ Animate(w, k, f, to).move.to = to
  <1> DEFINE m == [kind |-> k, frames |-> f, to |-> to]
             v == [w EXCEPT !.move = m]
  <1>1. m.kind = k /\ m.to = to
    OBVIOUS
  <1>2. Animate(w, k, f, to) = v
    BY DEF Animate
  <1> HIDE DEF m
  <1>3. v.move = m /\ v.at = w.at /\ v.base = w.base
    BY DEF IsWidget, WidgetFields
  <1>4. SameEffect(w, v)
    BY DEF IsWidget, WidgetFields, SameEffect
  <1> HIDE DEF v
  <1> QED BY <1>1, <1>2, <1>3, <1>4

LEMMA StopBreathingIs ==
    ASSUME NEW w, IsWidget(w)
    PROVE  /\ SameEffect(w, StopBreathing(w)) /\ StopBreathing(w).at = w.at /\ StopBreathing(w).base = w.base
           /\ StopBreathing(w).move \in {w.move, Still}
  <1>1. StopBreathing(w).at = w.at /\ StopBreathing(w).base = w.base
    BY DEF StopBreathing, IsWidget, WidgetFields
  <1>2. SameEffect(w, StopBreathing(w))
    BY DEF StopBreathing, IsWidget, WidgetFields, SameEffect
  <1>3. StopBreathing(w).move \in {w.move, Still}
    BY DEF StopBreathing, IsWidget, WidgetFields
  <1> QED BY <1>1, <1>2, <1>3

LEMMA StopLiftIs ==
    ASSUME NEW w, IsWidget(w)
    PROVE  /\ SameEffect(w, StopLift(w)) /\ StopLift(w).at = w.at /\ StopLift(w).base = w.base
           /\ StopLift(w).move \in {w.move, Still}
  <1>1. StopLift(w).at = w.at /\ StopLift(w).base = w.base
    BY DEF StopLift, IsWidget, WidgetFields
  <1>2. SameEffect(w, StopLift(w))
    BY DEF StopLift, IsWidget, WidgetFields, SameEffect
  <1>3. StopLift(w).move \in {w.move, Still}
    BY DEF StopLift, IsWidget, WidgetFields
  <1> QED BY <1>1, <1>2, <1>3

(* Calls that leave the effect alone compose.                              *)
LEMMA SameEffectGoesOn ==
    ASSUME NEW u, NEW v, NEW w, SameEffect(u, v), SameEffect(v, w) PROVE SameEffect(u, w)
  BY DEF SameEffect

(* applyBreathing() and the lift of a card leave the effect alone.         *)
LEMMA BreathingIs ==
    ASSUME NEW w, IsWidget(w)
    PROVE  /\ SameEffect(w, ApplyBreathing(w)) /\ ApplyBreathing(w).at = w.at /\ ApplyBreathing(w).base = w.base
  <1> DEFINE s == StopBreathing(w)
             f == Between(w.at, Scaled(w.at, 1))
             a == Animate(s, "breathing", f, w.at)
             v == [a EXCEPT !.cached = @ \cup {"breathing"}]
  <1>1. SameEffect(w, s) /\ s.at = w.at /\ s.base = w.base
    BY StopBreathingIs
  <1>2. ApplyBreathing(w) = v
    BY DEF ApplyBreathing
  <1> HIDE DEF s, f
  <1>3. SameEffect(s, a) /\ a.at = s.at /\ a.base = s.base
    BY <1>1, AnimateIs DEF SameEffect
  <1> HIDE DEF a
  <1>4. IsWidget(a)
    BY <1>3 DEF SameEffect
  <1>5. SameEffect(a, v)
    BY <1>4 DEF SameEffect, IsWidget, WidgetFields
  <1>6. v.at = a.at /\ v.base = a.base
    BY <1>4 DEF IsWidget, WidgetFields
  <1> HIDE DEF v
  <1>7. SameEffect(w, v)
    BY <1>1, <1>3, <1>5, SameEffectGoesOn
  <1> QED BY <1>1, <1>2, <1>3, <1>6, <1>7

LEMMA LiftIs ==
    ASSUME NEW w, IsWidget(w)
    PROVE  /\ SameEffect(w, ApplyHoverLift(w)) /\ ApplyHoverLift(w).base = {BaseOf(w)}
           /\ ApplyHoverLift(w).move.kind = "hover_lift"
  <1> DEFINE s == StopLift(w)
             b == BaseOf(w)
             to == Lifted(b)
             f == Between(w.at, to)
             a == Animate(s, "hover_lift", f, to)
             v == [a EXCEPT !.base = {b}, !.cached = @ \cup {"hover_lift"}]
  <1>1. SameEffect(w, s)
    BY StopLiftIs
  <1>2. ApplyHoverLift(w) = v
    BY Zenon DEF ApplyHoverLift
  <1> HIDE DEF s, f, to, b
  <1>3. SameEffect(s, a) /\ a.move.kind = "hover_lift"
    BY <1>1, AnimateIs DEF SameEffect
  <1> HIDE DEF a
  <1>4. IsWidget(a)
    BY <1>3 DEF SameEffect
  <1>5. SameEffect(a, v)
    BY <1>4 DEF SameEffect, IsWidget, WidgetFields
  <1>6. v.base = {b} /\ v.move = a.move
    BY <1>4 DEF IsWidget, WidgetFields
  <1> HIDE DEF v
  <1>7. SameEffect(w, v)
    BY <1>1, <1>3, <1>5, SameEffectGoesOn
  <1> QED BY <1>2, <1>3, <1>6, <1>7 DEF b

(* removeHoverLift() sends the widget to its base, if it has one.          *)
LEMMA ReturnIs ==
    ASSUME NEW w, IsWidget(w)
    PROVE  /\ SameEffect(w, RemoveHoverLift(w))
           /\ RemoveHoverLift(w).at = w.at /\ RemoveHoverLift(w).base = w.base
           /\ w.base = {} => RemoveHoverLift(w).move \in {w.move, Still}
           /\ w.base # {} => RemoveHoverLift(w).move.kind = "return" /\ RemoveHoverLift(w).move.to = BaseOf(w)
  <1> DEFINE s == StopLift(w)
             b == BaseOf(w)
             f == Between(w.at, b)
             a == Animate(s, "return", f, b)
  <1>1. SameEffect(w, s) /\ s.at = w.at /\ s.base = w.base /\ s.move \in {w.move, Still}
    BY StopLiftIs
  <1>2. w.base = {} => RemoveHoverLift(w) = s
    BY DEF RemoveHoverLift
  <1>3. w.base # {} => RemoveHoverLift(w) = a
    BY DEF RemoveHoverLift
  <1> HIDE DEF s, f, b
  <1>4. SameEffect(s, a) /\ a.at = s.at /\ a.base = s.base /\ a.move.kind = "return" /\ a.move.to = b
    BY <1>1, AnimateIs DEF SameEffect
  <1> HIDE DEF a
  <1>5. SameEffect(w, a)
    BY <1>1, <1>4, SameEffectGoesOn
  <1>6. CASE w.base = {}
    BY <1>1, <1>2, <1>6
  <1>7. CASE w.base # {}
    BY <1>1, <1>3, <1>4, <1>5, <1>7 DEF b
  <1> QED BY <1>6, <1>7

(* applyGlow() and removeGlow() leave the geometry alone.                  *)
LEMMA GlowIs ==
    ASSUME NEW w, IsWidget(w)
    PROVE  /\ SamePlace(w, ApplyGlow(w)) /\ Glows(w, ApplyGlow(w))
           /\ SamePlace(w, RemoveGlow(w)) /\ Unglows(w, RemoveGlow(w))
  <1>1. SamePlace(w, ApplyGlow(w))
    BY DEF ApplyGlow, IsWidget, WidgetFields, SamePlace
  <1>2. Glows(w, ApplyGlow(w))
    BY DEF ApplyGlow, IsWidget, WidgetFields, Glows
  <1>3. SamePlace(w, RemoveGlow(w))
    BY DEF RemoveGlow, IsWidget, WidgetFields, SamePlace
  <1>4. Unglows(w, RemoveGlow(w))
    BY DEF RemoveGlow, IsWidget, WidgetFields, Unglows
  <1> QED BY <1>1, <1>2, <1>3, <1>4

(* The calls of CallMove leave the effect alone.                           *)
LEMMA MovesKeepEffect ==
    ASSUME NEW w, IsWidget(w), NEW x, NEW k, NEW f, NEW to
    PROVE  SameEffect(w, Animate([w EXCEPT !.at = x], k, f, to))
  <1> DEFINE v == [w EXCEPT !.at = x]
  <1>1. SameEffect(w, v)
    BY DEF IsWidget, WidgetFields, SameEffect
  <1> HIDE DEF v
  <1>2. SameEffect(v, Animate(v, k, f, to))
    BY <1>1, AnimateIs DEF SameEffect
  <1>3. SameEffect(w, Animate(v, k, f, to))
    BY <1>1, <1>2, SameEffectGoesOn
  <1> QED BY <1>3 DEF v

LEMMA CallsKeepEffect ==
    ASSUME NEW w, IsWidget(w),
           NEW v \in {SlidIn(w, -1), SlidIn(w, 1), ScaledUp(w), ScaledDown(w), Shaken(w),
                      ApplyBreathing(w), StopBreathing(w), ApplyPress(w), ApplyHoverLift(w), RemoveHoverLift(w)}
    PROVE  SameEffect(w, v)
  <1>1. \A by : SameEffect(w, SlidIn(w, by))
    BY MovesKeepEffect, Zenon DEF SlidIn
  <1>2. SameEffect(w, ScaledUp(w))
    BY MovesKeepEffect, Zenon DEF ScaledUp
  <1>3. SameEffect(w, ScaledDown(w))
    BY AnimateIs DEF ScaledDown
  <1>4. SameEffect(w, Shaken(w))
    BY AnimateIs DEF Shaken
  <1>5. SameEffect(w, ApplyPress(w))
    BY AnimateIs DEF ApplyPress
  <1>6. /\ SameEffect(w, ApplyBreathing(w)) /\ SameEffect(w, StopBreathing(w))
        /\ SameEffect(w, ApplyHoverLift(w)) /\ SameEffect(w, RemoveHoverLift(w))
    BY BreathingIs, StopBreathingIs, LiftIs, ReturnIs
  <1> QED BY <1>1, <1>2, <1>3, <1>4, <1>5, <1>6

-----------------------------------------------------------------------------
(* The effect e with its animation p on a widget that is visible or not    *)
(* (v), after the last fade w and the last glow l.                         *)
EffectOK(e, p, v, w, l) ==
    /\ v \in BOOLEAN /\ l \in BOOLEAN
    /\ e \in {"none", "shadow", "glow", "fade"} /\ w \in {"none", "in", "out", "cut"}
    /\ p \in {"none", "in", "out", "glow", "unglow"}
    /\ e = "fade" <=> p \in {"in", "out"}
    /\ p = "glow" => e = "glow"
    /\ p = "unglow" => e \in {"glow", "shadow"}
    /\ l => e = "glow" /\ p \in {"none", "glow"}
    /\ e = "glow" /\ ~ l => p = "unglow"
    /\ e = "fade" => w = p
    /\ w = "in" => v
    /\ e # "fade" /\ w = "out" => ~ v
EffectInv == IsWidget(widget) /\ EffectOK(widget.effect, widget.pulse, widget.visible, wanted, lit)

(* The calls and the ends of animations keep the effect in order.          *)
LEMMA EffectGlows ==
    ASSUME NEW e, NEW p, NEW v, NEW w, NEW l, EffectOK(e, p, v, w, l)
    PROVE  EffectOK("glow", "glow", v, IF e = "fade" /\ w = "out" THEN "cut" ELSE w, TRUE)
  BY DEF EffectOK

LEMMA EffectUnglows ==
    ASSUME NEW e, NEW p, NEW v, NEW w, NEW l, EffectOK(e, p, v, w, l)
    PROVE  EffectOK(e, IF e \in {"glow", "shadow"} THEN "unglow" ELSE p, v, w, FALSE)
  BY DEF EffectOK

LEMMA EffectFades ==
    ASSUME NEW e, NEW p, NEW v, NEW w, NEW l, EffectOK(e, p, v, w, l)
    PROVE  EffectOK("fade", "in", TRUE, "in", FALSE) /\ EffectOK("fade", "out", v, "out", FALSE)
  BY DEF EffectOK

LEMMA EffectEnds ==
    ASSUME NEW e, NEW p, NEW v, NEW w, NEW l, EffectOK(e, p, v, w, l), p # "none"
    PROVE  EffectOK(IF p = "glow" THEN e ELSE "none", "none", IF p = "out" THEN FALSE ELSE v, w, l)
  BY DEF EffectOK

LEMMA EffectSettled ==
    ASSUME NEW e, NEW v, NEW w, NEW l, EffectOK(e, "none", v, w, l)
    PROVE  e # "fade" /\ (w = "in" => v) /\ (w = "out" => ~ v) /\ (l <=> e = "glow")
  BY DEF EffectOK

(* A new widget is in order.                                               *)
LEMMA EffectStarts == MotionInit => EffectInv
  <1> SUFFICES ASSUME MotionInit PROVE EffectInv
    OBVIOUS
  <1>1. IsWidget(widget)
    BY DEF MotionInit, IsWidget, WidgetFields
  <1>2. widget.effect \in {"none", "shadow"} /\ widget.pulse = "none" /\ widget.visible = TRUE
    BY DEF MotionInit
  <1>3. wanted = "none" /\ lit = FALSE
    BY DEF MotionInit
  <1> QED BY <1>1, <1>2, <1>3 DEF EffectInv, EffectOK

(* Nothing happens to the effect, it is lit, or it goes out.               *)
LEMMA EffectSame ==
    ASSUME EffectInv, SameEffect(widget, widget'), wanted' = wanted, lit' = lit PROVE EffectInv'
  BY DEF EffectInv, SameEffect, IsWidget, WidgetFields

LEMMA EffectLit ==
    ASSUME EffectInv, IsWidget(widget'), Glows(widget, widget'), lit' = TRUE,
           wanted' = Overtaken
    PROVE  EffectInv'
  BY EffectGlows DEF Overtaken, EffectInv, Glows, IsWidget, WidgetFields

LEMMA EffectUnlit ==
    ASSUME EffectInv, IsWidget(widget'), Unglows(widget, widget'), lit' = FALSE, wanted' = wanted
    PROVE  EffectInv'
  BY EffectUnglows DEF EffectInv, Unglows, IsWidget, WidgetFields

(* Card::enterEvent() and leaveEvent(), as a whole.                        *)
LEMMA EnterIs ==
    ASSUME NEW w, IsWidget(w), NEW v, v = ApplyHoverLift(ApplyBreathing(ApplyGlow(w)))
    PROVE  IsWidget(v) /\ v.look = w.look /\ Glows(w, v) /\ v.base = {BaseOf(w)} /\ v.move.kind = "hover_lift"
  <1> DEFINE g == ApplyGlow(w)
             b == ApplyBreathing(g)
  <1>1. SamePlace(w, g) /\ Glows(w, g)
    BY GlowIs
  <1>2. v = ApplyHoverLift(b)
    OBVIOUS
  <1> HIDE DEF g
  <1>3. SameEffect(g, b) /\ b.at = g.at /\ b.base = g.base
    BY <1>1, BreathingIs DEF SamePlace
  <1> HIDE DEF b
  <1>4. SameEffect(b, v) /\ v.base = {BaseOf(b)} /\ v.move.kind = "hover_lift"
    BY <1>2, <1>3, LiftIs DEF SameEffect
  <1>5. b.at = w.at /\ b.base = w.base
    BY <1>1, <1>3 DEF SamePlace
  <1>6. BaseOf(b) = BaseOf(w)
    BY <1>5 DEF BaseOf
  <1>7. SameEffect(g, v)
    BY <1>3, <1>4, SameEffectGoesOn
  <1>8. Glows(w, v) /\ IsWidget(v) /\ v.look = w.look
    BY <1>1, <1>7 DEF Glows, SameEffect, SamePlace
  <1> QED BY <1>4, <1>6, <1>8

LEMMA LeaveIs ==
    ASSUME NEW w, IsWidget(w), NEW v, v = RemoveHoverLift(StopBreathing(RemoveGlow(w)))
    PROVE  /\ IsWidget(v) /\ v.look = w.look /\ Unglows(w, v) /\ v.at = w.at /\ v.base = w.base
           /\ w.base = {} => v.move \in {w.move, Still}
           /\ w.base # {} => v.move.kind = "return" /\ v.move.to = BaseOf(w)
  <1> DEFINE g == RemoveGlow(w)
             b == StopBreathing(g)
  <1>1. SamePlace(w, g) /\ Unglows(w, g)
    BY GlowIs
  <1>2. v = RemoveHoverLift(b)
    OBVIOUS
  <1> HIDE DEF g
  <1>3. SameEffect(g, b) /\ b.at = g.at /\ b.base = g.base /\ b.move \in {g.move, Still}
    BY <1>1, StopBreathingIs DEF SamePlace
  <1> HIDE DEF b
  <1>4. /\ SameEffect(b, v) /\ v.at = b.at /\ v.base = b.base
        /\ b.base = {} => v.move \in {b.move, Still}
        /\ b.base # {} => v.move.kind = "return" /\ v.move.to = BaseOf(b)
    BY <1>2, <1>3, ReturnIs DEF SameEffect
  <1>5. b.at = w.at /\ b.base = w.base /\ b.move \in {w.move, Still}
    BY <1>1, <1>3 DEF SamePlace
  <1>6. BaseOf(b) = BaseOf(w)
    BY <1>5 DEF BaseOf
  <1>7. SameEffect(g, v)
    BY <1>3, <1>4, SameEffectGoesOn
  <1>8. Unglows(w, v) /\ IsWidget(v) /\ v.look = w.look
    BY <1>1, <1>7 DEF Unglows, SameEffect, SamePlace
  <1> QED BY <1>4, <1>5, <1>6, <1>8

(* A glow, and a call that leaves the effect alone.                        *)
LEMMA GlowGoesOn ==
    ASSUME NEW w, NEW g, NEW v, SamePlace(w, g), SameEffect(g, v)
    PROVE  /\ IsWidget(v) /\ v.look = w.look
           /\ Glows(w, g) => Glows(w, v)
           /\ Unglows(w, g) => Unglows(w, v)
  BY DEF SamePlace, SameEffect, Glows, Unglows

(* No step disturbs the effect, or changes what the widget is.             *)
LEMMA EffectStays == EffectInv /\ [MotionNext]_motionVars => EffectInv' /\ widget'.look = widget.look
  <1> SUFFICES ASSUME EffectInv, [MotionNext]_motionVars PROVE EffectInv' /\ widget'.look = widget.look
    OBVIOUS
  <1>0. IsWidget(widget) /\ EffectOK(widget.effect, widget.pulse, widget.visible, wanted, lit)
    BY DEF EffectInv
  <1>a. ASSUME SameEffect(widget, widget'), wanted' = wanted, lit' = lit PROVE EffectInv' /\ widget'.look = widget.look
    BY <1>a, EffectSame DEF SameEffect
  <1>b. ASSUME UNCHANGED <<widget, wanted, lit>> PROVE EffectInv' /\ widget'.look = widget.look
    BY <1>0, <1>b, <1>a DEF SameEffect
  <1>1. CASE UNCHANGED motionVars
    BY <1>1, <1>b DEF motionVars
  <1>2. CASE CardEnter
    <2>1. CASE UNCHANGED <<widget, lit, wanted>>
      BY <2>1, <1>b
    <2>2. CASE /\ widget' = ApplyHoverLift(ApplyBreathing(ApplyGlow(widget))) /\ lit' = TRUE
               /\ wanted' = Overtaken
      <3>1. IsWidget(widget') /\ widget'.look = widget.look /\ Glows(widget, widget')
        BY <1>0, <2>2, EnterIs
      <3> QED BY <2>2, <3>1, EffectLit
    <2> QED BY <1>2, <2>1, <2>2 DEF CardEnter
  <1>3. CASE CardLeave
    <2>1. widget' = RemoveHoverLift(StopBreathing(RemoveGlow(widget))) /\ lit' = FALSE /\ wanted' = wanted
      BY <1>3 DEF CardLeave
    <2>2. IsWidget(widget') /\ widget'.look = widget.look /\ Unglows(widget, widget')
      BY <1>0, <2>1, LeaveIs
    <2> QED BY <2>1, <2>2, EffectUnlit
  <1>4. CASE ButtonEnter \/ FocusIn
    <2> DEFINE g == ApplyGlow(widget)
    <2>1. /\ widget' = g \/ widget' = ApplyBreathing(g)
          /\ wanted' = Overtaken /\ lit' = TRUE
      BY <1>4 DEF ButtonEnter, FocusIn
    <2>2. SamePlace(widget, g) /\ Glows(widget, g)
      BY <1>0, GlowIs
    <2> HIDE DEF g
    <2>3. SameEffect(g, g) /\ SameEffect(g, ApplyBreathing(g))
      BY <2>2, BreathingIs DEF SamePlace, SameEffect
    <2>4. IsWidget(widget') /\ widget'.look = widget.look /\ Glows(widget, widget')
      BY <2>1, <2>2, <2>3, GlowGoesOn
    <2> QED BY <2>1, <2>4, EffectLit
  <1>5. CASE ButtonLeave \/ FocusOut
    <2> DEFINE g == RemoveGlow(widget)
    <2>1. /\ widget' = g \/ widget' = StopBreathing(g)
          /\ wanted' = wanted /\ lit' = FALSE
      BY <1>5 DEF ButtonLeave, FocusOut
    <2>2. SamePlace(widget, g) /\ Unglows(widget, g)
      BY <1>0, GlowIs
    <2> HIDE DEF g
    <2>3. SameEffect(g, g) /\ SameEffect(g, StopBreathing(g))
      BY <2>2, StopBreathingIs DEF SamePlace, SameEffect
    <2>4. IsWidget(widget') /\ widget'.look = widget.look /\ Unglows(widget, widget')
      BY <2>1, <2>2, <2>3, GlowGoesOn
    <2> QED BY <2>1, <2>4, EffectUnlit
  <1>6. CASE Press
    <2>1. widget' = ApplyPress(widget) /\ wanted' = wanted /\ lit' = lit
      BY <1>6 DEF Press
    <2>2. SameEffect(widget, widget')
      BY <1>0, <2>1, AnimateIs DEF ApplyPress
    <2> QED BY <2>1, <2>2, <1>a
  <1>7. CASE FadeIn
    <2>1. widget' = ShownAndFadedIn(widget) /\ wanted' = "in" /\ lit' = FALSE
      BY <1>7 DEF FadeIn
    <2>2. widget'.effect = "fade" /\ widget'.pulse = "in" /\ widget'.visible = TRUE /\ widget'.look = widget.look
      BY <1>0, <2>1 DEF ShownAndFadedIn, IsWidget, WidgetFields
    <2>3. IsWidget(widget')
      BY <1>0, <2>1 DEF ShownAndFadedIn, IsWidget, WidgetFields
    <2>4. EffectOK("fade", "in", TRUE, "in", FALSE)
      BY <1>0, EffectFades
    <2> QED BY <2>1, <2>2, <2>3, <2>4 DEF EffectInv, IsWidget, WidgetFields
  <1>8. CASE FadeOut
    <2>1. widget' = FadedOut(widget) /\ wanted' = "out" /\ lit' = FALSE
      BY <1>8 DEF FadeOut
    <2>2. widget'.effect = "fade" /\ widget'.pulse = "out" /\ widget'.visible = widget.visible /\ widget'.look = widget.look
      BY <1>0, <2>1 DEF FadedOut, IsWidget, WidgetFields
    <2>3. IsWidget(widget')
      BY <1>0, <2>1 DEF FadedOut, IsWidget, WidgetFields
    <2>4. EffectOK("fade", "out", widget.visible, "out", FALSE)
      BY <1>0, EffectFades
    <2> QED BY <2>1, <2>2, <2>3, <2>4 DEF EffectInv, IsWidget, WidgetFields
  <1>9. CASE CallMove
    <2>1. /\ widget' \in {SlidIn(widget, -1), SlidIn(widget, 1), ScaledUp(widget), ScaledDown(widget),
                    Shaken(widget), ApplyBreathing(widget), StopBreathing(widget),
                    ApplyPress(widget), ApplyHoverLift(widget), RemoveHoverLift(widget)}
          /\ wanted' = wanted /\ lit' = lit
      BY <1>9 DEF CallMove
    <2>2. SameEffect(widget, widget')
      BY <1>0, <2>1, CallsKeepEffect
    <2> QED BY <2>1, <2>2, <1>a
  <1>10. CASE CallGlow
    <2>1. \/ widget' = ApplyGlow(widget) /\ lit' = TRUE /\ wanted' = Overtaken
          \/ widget' = RemoveGlow(widget) /\ lit' = FALSE /\ wanted' = wanted
      BY <1>10 DEF CallGlow
    <2>2. CASE widget' = ApplyGlow(widget) /\ lit' = TRUE /\ wanted' = Overtaken
      <3>1. SamePlace(widget, widget') /\ Glows(widget, widget')
        BY <1>0, <2>2, GlowIs
      <3> QED BY <2>2, <3>1, EffectLit DEF SamePlace
    <2>3. CASE widget' = RemoveGlow(widget) /\ lit' = FALSE /\ wanted' = wanted
      <3>1. SamePlace(widget, widget') /\ Unglows(widget, widget')
        BY <1>0, <2>3, GlowIs
      <3> QED BY <2>3, <3>1, EffectUnlit DEF SamePlace
    <2> QED BY <2>1, <2>2, <2>3
  <1>11. CASE Relayout \/ Frame
    <2>1. PICK g : widget' = [widget EXCEPT !.at = g]
      BY <1>11 DEF Relayout, Frame
    <2>2. wanted' = wanted /\ lit' = lit
      BY <1>11 DEF Relayout, Frame
    <2>3. SameEffect(widget, widget')
      BY <1>0, <2>1 DEF SameEffect, IsWidget, WidgetFields
    <2> QED BY <2>2, <2>3, <1>a
  <1>12. CASE MoveEnds
    <2> DEFINE back == widget.move.to
    <2>1. \/ widget' = Animate([widget EXCEPT !.at = Scaled(back, -1)], "release",
                              Between(Scaled(back, -1), Scaled(back, 1)), back)
          \/ widget' = [widget EXCEPT !.at = back, !.move = Still]
      BY <1>12 DEF MoveEnds
    <2>2. wanted' = wanted /\ lit' = lit
      BY <1>12 DEF MoveEnds
    <2> HIDE DEF back
    <2>3. SameEffect(widget, [widget EXCEPT !.at = back, !.move = Still])
      BY <1>0 DEF SameEffect, IsWidget, WidgetFields
    <2>4. SameEffect(widget, widget')
      BY <1>0, <2>1, <2>3, MovesKeepEffect
    <2> QED BY <2>2, <2>4, <1>a
  <1>13. CASE PulseEnds
    <2> DEFINE v == IF widget.pulse = "out" THEN FALSE ELSE widget.visible
               e == IF widget.pulse = "glow" THEN widget.effect ELSE "none"
    <2>1. /\ widget.pulse # "none" /\ wanted' = wanted /\ lit' = lit
          /\ widget' = [widget EXCEPT !.pulse = "none", !.visible = v, !.effect = e]
      BY <1>13 DEF PulseEnds
    <2>2. EffectOK(e, "none", v, wanted, lit)
      BY <1>0, <2>1, EffectEnds
    <2> HIDE DEF v, e
    <2>3. widget'.pulse = "none" /\ widget'.visible = v /\ widget'.effect = e /\ widget'.look = widget.look
      BY <1>0, <2>1 DEF IsWidget, WidgetFields
    <2>4. IsWidget(widget')
      BY <1>0, <2>1 DEF IsWidget, WidgetFields
    <2> QED BY <2>1, <2>2, <2>3, <2>4 DEF EffectInv, IsWidget, WidgetFields
  <1> QED BY <1>1, <1>2, <1>3, <1>4, <1>5, <1>6, <1>7, <1>8, <1>9, <1>10, <1>11, <1>12, <1>13 DEF MotionNext

(* At the end of its animation the effect is the one wanted last.          *)
LEMMA EffectSettles == EffectInv => EffectsSettle
  <1> SUFFICES ASSUME EffectInv, widget.pulse = "none"
               PROVE  /\ widget.effect # "fade"
                      /\ wanted = "in" => widget.visible
                      /\ wanted = "out" => ~ widget.visible
                      /\ lit <=> widget.effect = "glow"
    BY DEF EffectsSettle
  <1>1. EffectOK(widget.effect, "none", widget.visible, wanted, lit)
    BY DEF EffectInv
  <1> QED BY <1>1, EffectSettled

-----------------------------------------------------------------------------
(* A card that only its handlers moved is where the layout put it, or it   *)
(* remembers one base, and while the mouse is elsewhere it is there, or on *)
(* its way there, or where a layout put it since.                          *)
CardOK(w, o, h) ==
    /\ w.move.kind = "none" => w.move = Still
    /\ \/ w.base = {} /\ w.move = Still /\ w.at = h
       \/ \E b : /\ w.base = {b}
                 /\ \/ o
                    \/ w.move.kind = "none" /\ w.at \in {b, h}
                    \/ w.move.kind = "return" /\ w.move.to = b
CardInv == (widget.look = "card" /\ untouched) => CardOK(widget, over, home)

(* No animation, and what a card remembers.                                *)
LEMMA StillIs == Still.kind = "none" /\ Still.frames = {}
  BY DEF Still

LEMMA BaseIs ==
    ASSUME NEW w, NEW b PROVE (w.base = {b} => BaseOf(w) = b) /\ (w.base = {} => BaseOf(w) = w.at)
  BY DEF BaseOf

(* A new card is where the layout put it.                                  *)
LEMMA CardStarts == MotionInit => CardInv
  <1> SUFFICES ASSUME MotionInit PROVE CardInv
    OBVIOUS
  <1>1. widget.base = {} /\ widget.move = Still /\ widget.at = home
    BY DEF MotionInit
  <1> QED BY <1>1 DEF CardInv, CardOK

(* No step loses the place of a card.                                      *)
LEMMA CardStays == EffectInv /\ CardInv /\ [MotionNext]_motionVars => CardInv'
  <1> SUFFICES ASSUME EffectInv, CardInv, [MotionNext]_motionVars, widget'.look = "card", untouched'
               PROVE  CardOK(widget', over', home')
    BY DEF CardInv, CardOK
  <1>0. IsWidget(widget) /\ widget.look = "card"
    BY EffectStays DEF EffectInv
  <1>1. untouched
    <2>1. untouched' = untouched \/ untouched' = FALSE
      BY DEF MotionNext, motionVars, CardEnter, CardLeave, ButtonEnter, ButtonLeave, Press, FocusIn, FocusOut,
             FadeIn, FadeOut, CallMove, CallGlow, Relayout, Frame, MoveEnds, PulseEnds
    <2> QED BY <2>1
  <1>2. CardOK(widget, over, home)
    BY <1>0, <1>1 DEF CardInv
  <1>a. ASSUME SamePlace(widget, widget'), home' = home, over' = over \/ over' = TRUE PROVE CardOK(widget', over', home')
    BY <1>2, <1>a DEF SamePlace, CardOK
  <1>3. CASE UNCHANGED motionVars
    BY <1>2, <1>3 DEF motionVars, CardOK
  <1>4. CASE CardEnter
    <2>1. over' = TRUE /\ home' = home
      BY <1>4 DEF CardEnter
    <2>2. CASE widget' = widget
      <3>1. SamePlace(widget, widget')
        BY <1>0, <2>2 DEF SamePlace
      <3> QED BY <2>1, <3>1, <1>a
    <2>3. CASE widget' = ApplyHoverLift(ApplyBreathing(ApplyGlow(widget)))
      <3>1. widget'.base = {BaseOf(widget)} /\ widget'.move.kind = "hover_lift"
        BY <1>0, <2>3, EnterIs
      <3> QED BY <2>1, <3>1 DEF CardOK
    <2> QED BY <1>4, <2>2, <2>3 DEF CardEnter
  <1>5. CASE CardLeave
    <2>1. widget' = RemoveHoverLift(StopBreathing(RemoveGlow(widget))) /\ home' = home
      BY <1>5 DEF CardLeave
    <2>2. /\ widget'.at = widget.at /\ widget'.base = widget.base
          /\ widget.base = {} => widget'.move \in {widget.move, Still}
          /\ widget.base # {} => widget'.move.kind = "return" /\ widget'.move.to = BaseOf(widget)
      BY <1>0, <2>1, LeaveIs
    <2>3. CASE widget.base = {}
      <3>1. widget.move = Still /\ widget.at = home
        BY <1>2, <2>3 DEF CardOK
      <3> QED BY <2>1, <2>2, <2>3, <3>1 DEF CardOK
    <2>4. ASSUME NEW b, widget.base = {b} PROVE CardOK(widget', over', home')
      <3>1. BaseOf(widget) = b
        BY <2>4, BaseIs
      <3> QED BY <2>2, <2>4, <3>1 DEF CardOK
    <2> QED BY <1>2, <2>3, <2>4 DEF CardOK
  <1>6. CASE ButtonEnter \/ ButtonLeave \/ Press \/ FocusIn \/ FocusOut
    BY <1>0, <1>6 DEF ButtonEnter, ButtonLeave, Press, FocusIn, FocusOut
  <1>7. CASE FadeIn \/ FadeOut \/ PulseEnds
    <2>1. SamePlace(widget, ShownAndFadedIn(widget)) /\ SamePlace(widget, FadedOut(widget))
      BY <1>0 DEF SamePlace, ShownAndFadedIn, FadedOut, IsWidget, WidgetFields
    <2>2. \A v, e : SamePlace(widget, [widget EXCEPT !.pulse = "none", !.visible = v, !.effect = e])
      BY <1>0 DEF SamePlace, IsWidget, WidgetFields
    <2>3. over' = over /\ home' = home
      BY <1>7 DEF FadeIn, FadeOut, PulseEnds
    <2>4. SamePlace(widget, widget')
      <3>1. CASE FadeIn \/ FadeOut
        <4>1. widget' = ShownAndFadedIn(widget) \/ widget' = FadedOut(widget)
          BY <3>1 DEF FadeIn, FadeOut
        <4> QED BY <2>1, <4>1
      <3>2. CASE PulseEnds
        <4> DEFINE v == IF widget.pulse = "out" THEN FALSE ELSE widget.visible
                   e == IF widget.pulse = "glow" THEN widget.effect ELSE "none"
        <4>1. widget' = [widget EXCEPT !.pulse = "none", !.visible = v, !.effect = e]
          BY <3>2 DEF PulseEnds
        <4> HIDE DEF v, e
        <4> QED BY <2>2, <4>1, Zenon
      <3> QED BY <1>7, <3>1, <3>2
    <2> QED BY <2>3, <2>4, <1>a
  <1>8. CASE CallMove
    BY <1>8 DEF CallMove
  <1>9. CASE CallGlow
    <2>1. (widget' = ApplyGlow(widget) \/ widget' = RemoveGlow(widget)) /\ over' = over /\ home' = home
      BY <1>9 DEF CallGlow
    <2>2. SamePlace(widget, widget')
      BY <1>0, <2>1, GlowIs
    <2> QED BY <2>1, <2>2, <1>a
  <1>10. CASE Relayout
    <2>1. widget' = [widget EXCEPT !.at = home'] /\ over' = over
      BY <1>10 DEF Relayout
    <2>2. widget'.at = home' /\ widget'.base = widget.base /\ widget'.move = widget.move
      BY <1>0, <2>1 DEF IsWidget, WidgetFields
    <2> QED BY <1>2, <2>1, <2>2 DEF CardOK
  <1>11. CASE Frame
    <2>1. PICK g \in widget.move.frames : widget' = [widget EXCEPT !.at = g]
      BY <1>11 DEF Frame
    <2>2. over' = over /\ home' = home
      BY <1>11 DEF Frame
    <2>3. widget'.base = widget.base /\ widget'.move = widget.move
      BY <1>0, <2>1 DEF IsWidget, WidgetFields
    <2>4. widget.move # Still
      BY <2>1, StillIs
    <2> QED BY <1>2, <2>2, <2>3, <2>4 DEF CardOK
  <1>12. CASE MoveEnds
    <2> DEFINE back == widget.move.to
               x == Scaled(back, -1)
               f == Between(Scaled(back, -1), Scaled(back, 1))
    <2>1. widget.move.kind # "none" /\ over' = over /\ home' = home
      BY <1>12 DEF MoveEnds
    <2>2. widget.move # Still
      BY <2>1, StillIs
    <2>3. CASE widget.move.kind = "press"
      <3>1. widget' = Animate([widget EXCEPT !.at = x], "release", f, back)
        BY <1>12, <2>3 DEF MoveEnds
      <3>2. over
        BY <1>2, <2>2, <2>3 DEF CardOK
      <3> HIDE DEF x, f, back
      <3> DEFINE v == [widget EXCEPT !.at = x]
      <3>3. IsWidget(v) /\ v.base = widget.base
        BY <1>0 DEF IsWidget, WidgetFields
      <3>4. widget' = Animate(v, "release", f, back)
        BY <3>1
      <3> HIDE DEF v
      <3>5. widget'.base = v.base /\ widget'.move.kind = "release"
        BY <3>3, <3>4, AnimateIs
      <3> QED BY <1>2, <2>1, <2>2, <3>2, <3>3, <3>5 DEF CardOK
    <2>4. CASE widget.move.kind # "press"
      <3>1. widget' = [widget EXCEPT !.at = back, !.move = Still]
        BY <1>12, <2>4 DEF MoveEnds
      <3>2. widget'.at = back /\ widget'.move = Still /\ widget'.base = widget.base
        BY <1>0, <3>1 DEF IsWidget, WidgetFields
      <3> QED BY <1>2, <2>1, <2>2, <3>2, StillIs DEF CardOK
    <2> QED BY <2>3, <2>4
  <1> QED BY <1>3, <1>4, <1>5, <1>6, <1>7, <1>8, <1>9, <1>10, <1>11, <1>12 DEF MotionNext

(* A card that is left alone is at home.                                   *)
LEMMA CardIsHome == CardInv => CardComesHome
  <1> SUFFICES ASSUME CardInv, widget.look = "card", untouched, widget.base \subseteq {home},
                      widget.move.kind = "none", ~ over
               PROVE  widget.at = home
    BY DEF CardComesHome
  <1>1. CardOK(widget, over, home)
    BY DEF CardInv
  <1> QED BY <1>1 DEF CardOK

-----------------------------------------------------------------------------
(* The theme: the property is inductive once `chosen' is a record.         *)
Choice == [now : Modes \cup {"unknown"}, file : Modes \cup {"unknown"}]
ThemeInv == chosen \in Choice /\ WidgetsFollowTheme

(* No signal has come yet.                                                 *)
LEMMA ThemeStarts == ThemeInit => ThemeInv
  <1> SUFFICES ASSUME ThemeInit PROVE ThemeInv
    OBVIOUS
  <1>1. chosen \in Choice
    BY DEF ThemeInit, Choice, Modes
  <1>2. signalled = FALSE
    BY DEF ThemeInit
  <1> QED BY <1>1, <1>2 DEF ThemeInv, WidgetsFollowTheme

(* Every step of the theme keeps it.                                       *)
LEMMA ThemeStays == ThemeInv /\ [ThemeNext]_themeVars => ThemeInv'
  <1> SUFFICES ASSUME ThemeInv, [ThemeNext]_themeVars PROVE ThemeInv'
    OBVIOUS
  <1>0. chosen \in Choice /\ WidgetsFollowTheme
    BY DEF ThemeInv
  <1>1. CASE UNCHANGED themeVars
    BY <1>0, <1>1 DEF themeVars, ThemeInv, WidgetsFollowTheme, Choice
  <1>2. CASE Restore
    <2>1. signalled' = FALSE /\ chosen' = chosen
      BY <1>2 DEF Restore
    <2> QED BY <1>0, <2>1 DEF ThemeInv, WidgetsFollowTheme, Choice
  <1>3. CASE NewProcess
    <2>1. signalled' = FALSE /\ chosen' = [chosen EXCEPT !.now = chosen.file]
      BY <1>3 DEF NewProcess
    <2>2. chosen' \in Choice
      BY <1>0, <2>1 DEF Choice
    <2> QED BY <2>1, <2>2 DEF ThemeInv, WidgetsFollowTheme, Choice, Modes
  <1>4. ASSUME NEW m \in Modes, SetMode(m) PROVE ThemeInv'
    <2>1. /\ mode' = m /\ style' \in (IF m = "System" THEN {"Light", "Dark"} ELSE {m})
          /\ chosen' = [chosen EXCEPT !.now = m] /\ palette' = style'
          /\ sheet' = [w \in DOMAIN sheet |-> style']
      BY <1>4 DEF SetMode, Load, Announce
    <2>2. chosen' \in Choice /\ chosen'.now = m
      BY <1>0, <2>1 DEF Choice
    <2>3. \A w \in DOMAIN sheet' : sheet'[w] = style'
      BY <2>1
    <2>4. mode' # "System" => style' = mode'
      BY <2>1
    <2> QED BY <2>1, <2>2, <2>3, <2>4 DEF ThemeInv, WidgetsFollowTheme, Choice, Modes
  <1>5. ASSUME NEW m \in Modes \cup {"unknown"}, SaveChoice(m) PROVE ThemeInv'
    <2>1. /\ chosen' = [chosen EXCEPT !.file = m]
          /\ UNCHANGED <<mode, style, palette, sheet, signalled>>
      BY <1>5 DEF SaveChoice
    <2>2. chosen' \in Choice /\ chosen'.now = chosen.now
      BY <1>0, <2>1 DEF Choice
    <2>3. WidgetsFollowTheme'
      BY <1>0, <2>1, <2>2 DEF WidgetsFollowTheme
    <2> QED BY <2>2, <2>3 DEF ThemeInv, Choice, Modes
  <1>6. ASSUME NEW w \in Widgets, MakeWidget(w) PROVE ThemeInv'
    <2>1. /\ sheet' = [x \in DOMAIN sheet \cup {w} |-> IF x = w THEN style ELSE sheet[x]]
          /\ UNCHANGED <<mode, style, chosen, palette, signalled>>
      BY <1>6 DEF MakeWidget
    <2>2. signalled => \A x \in DOMAIN sheet : sheet[x] = style
      BY <1>0 DEF WidgetsFollowTheme
    <2>3. signalled => \A x \in DOMAIN sheet' : sheet'[x] = style
      BY <2>1, <2>2
    <2>4. WidgetsFollowTheme'
      BY <1>0, <2>1, <2>3 DEF WidgetsFollowTheme
    <2> QED BY <1>0, <2>1, <2>4 DEF ThemeInv, Choice, Modes
  <1> QED BY <1>1, <1>2, <1>3, <1>4, <1>5, <1>6 DEF ThemeNext

-----------------------------------------------------------------------------
(* The pages and their titles.                                             *)
Ends(s, t) == \A n \in 1..Len(t) : t[n] = s[Len(s) - Len(t) + n]
NavigationInv ==
    /\ pages \in Seq(Pages) /\ titles \in Seq(Pages) /\ Len(titles) >= Len(pages)
    /\ top \in 0..Len(pages) /\ (Len(pages) # 0 => top # 0)
    /\ swapped \in BOOLEAN /\ stale \in BOOLEAN
    /\ ~ stale => Len(titles) = Len(pages)
    /\ ~ swapped => top = Len(pages) /\ Ends(titles, pages)

(* Lengths of lists from which a page goes, or into which one comes.       *)
LEMMA RemovedIs ==
    ASSUME NEW S, NEW s \in Seq(S), NEW i \in 1..Len(s)
    PROVE  RemoveAt(s, i) \in Seq(S) /\ Len(RemoveAt(s, i)) = Len(s) - 1
  <1> DEFINE a == SubSeq(s, 1, i - 1)
             b == SubSeq(s, i + 1, Len(s))
  <1>1. a \in Seq(S) /\ Len(a) = i - 1
    OBVIOUS
  <1>2. b \in Seq(S) /\ Len(b) = Len(s) - i
    OBVIOUS
  <1>3. RemoveAt(s, i) = a \o b
    BY DEF RemoveAt
  <1> HIDE DEF a, b
  <1>4. a \o b \in Seq(S) /\ Len(a \o b) = Len(a) + Len(b)
    BY <1>1, <1>2
  <1> QED BY <1>1, <1>2, <1>3, <1>4

LEMMA RemoveOneIs ==
    ASSUME NEW S, NEW s \in Seq(S), NEW i
    PROVE  /\ RemoveOne(s, i) \in Seq(S)
           /\ i \notin Range(s) => RemoveOne(s, i) = s
           /\ i \in Range(s) => Len(RemoveOne(s, i)) = Len(s) - 1
  <1>1. CASE i \notin Range(s)
    BY <1>1 DEF RemoveOne
  <1>2. CASE i \in Range(s)
    <2> DEFINE P == {n \in DOMAIN s : s[n] = i}
               c == PlaceOf(s, i)
    <2>1. P # {} /\ P \subseteq Nat /\ DOMAIN s = 1..Len(s) /\ Len(s) \in Nat
      BY <1>2 DEF Range
    <2>2. PICK n \in P : \A m \in P : n <= m
      BY <2>1, Least
    <2>3. n \in DOMAIN s /\ s[n] = i /\ \A m \in 1..(n - 1) : s[m] # i
      BY <2>1, <2>2
    <2>4. c \in 1..Len(s)
      BY <2>1, <2>3 DEF PlaceOf
    <2>5. RemoveOne(s, i) = RemoveAt(s, c)
      BY <1>2 DEF RemoveOne
    <2> HIDE DEF c
    <2>6. RemoveAt(s, c) \in Seq(S) /\ Len(RemoveAt(s, c)) = Len(s) - 1
      BY <2>4, RemovedIs
    <2> QED BY <1>2, <2>5, <2>6
  <1> QED BY <1>1, <1>2

LEMMA LastRemoved ==
    ASSUME NEW S, NEW s \in Seq(S), Len(s) # 0
    PROVE  /\ RemoveAt(s, Len(s)) = Front(s) /\ Front(s) \in Seq(S) /\ Len(Front(s)) = Len(s) - 1
           /\ \A n \in 1..(Len(s) - 1) : Front(s)[n] = s[n]
  <1> DEFINE a == SubSeq(s, 1, Len(s) - 1)
             b == SubSeq(s, Len(s) + 1, Len(s))
  <1>0. Len(s) \in Nat /\ Len(s) - 1 \in Nat
    OBVIOUS
  <1>1. a \in Seq(S) /\ Len(a) = Len(s) - 1
    <2> DEFINE m == Len(s) - 1
    <2>1. m \in Int /\ \A i \in 1..m : s[i] \in S
      BY <1>0
    <2>2. m \in Nat
      BY <1>0
    <2> HIDE DEF m
    <2>3. SubSeq(s, 1, m) \in Seq(S) /\ Len(SubSeq(s, 1, m)) = IF 1 <= m THEN m - 1 + 1 ELSE 0
      BY <2>1, SubSeqProperties
    <2>4. (IF 1 <= m THEN m - 1 + 1 ELSE 0) = m
      BY <2>2
    <2> QED BY <2>3, <2>4 DEF m
  <1>2. b = <<>>
    OBVIOUS
  <1>3. RemoveAt(s, Len(s)) = a \o b /\ Front(s) = a
    BY DEF RemoveAt, Front
  <1>4. \A n \in 1..(Len(s) - 1) : a[n] = s[n]
    BY <1>0
  <1> HIDE DEF a, b
  <1>5. a \o <<>> = a
    BY <1>1
  <1> QED BY <1>1, <1>2, <1>3, <1>4, <1>5

LEMMA InsertedIs ==
    ASSUME NEW S, NEW s \in Seq(S), NEW i \in 1..(Len(s) + 1), NEW e \in S
    PROVE  InsertAt(s, i, e) \in Seq(S) /\ Len(InsertAt(s, i, e)) = Len(s) + 1
  <1> DEFINE a == SubSeq(s, 1, i - 1)
             b == SubSeq(s, i, Len(s))
  <1>1. a \in Seq(S) /\ Len(a) = i - 1
    OBVIOUS
  <1>2. b \in Seq(S) /\ Len(b) = Len(s) - i + 1
    OBVIOUS
  <1>3. InsertAt(s, i, e) = a \o <<e>> \o b
    BY DEF InsertAt
  <1> HIDE DEF a, b
  <1> DEFINE c == a \o <<e>>
  <1>4. c \in Seq(S) /\ Len(c) = Len(a) + 1
    BY <1>1
  <1> HIDE DEF c
  <1>5. c \o b \in Seq(S) /\ Len(c \o b) = Len(c) + Len(b)
    BY <1>2, <1>4
  <1>6. InsertAt(s, i, e) = c \o b
    BY <1>3 DEF c
  <1> QED BY <1>1, <1>2, <1>4, <1>5, <1>6

(* A page and its title come on top, or go.                                *)
LEMMA EndsAppended ==
    ASSUME NEW S, NEW s \in Seq(S), NEW t \in Seq(S), Len(t) <= Len(s), Ends(s, t), NEW e \in S
    PROVE  Ends(Append(s, e), Append(t, e))
  <1> DEFINE u == Append(s, e)
             v == Append(t, e)
             d == Len(s) - Len(t)
  <1>1. Len(u) = Len(s) + 1 /\ u[Len(s) + 1] = e /\ \A n \in 1..Len(s) : u[n] = s[n]
    OBVIOUS
  <1>2. Len(v) = Len(t) + 1 /\ v[Len(t) + 1] = e /\ \A n \in 1..Len(t) : v[n] = t[n]
    OBVIOUS
  <1> HIDE DEF u, v
  <1>3. Len(s) \in Nat /\ Len(t) \in Nat /\ d \in Nat /\ Len(u) - Len(v) = d /\ Len(s) + 1 = d + (Len(t) + 1)
    BY <1>1, <1>2
  <1>4. \A n \in 1..Len(t) : t[n] = s[d + n] /\ d + n \in 1..Len(s)
    BY DEF Ends
  <1> HIDE DEF d
  <1>5. \A n \in 1..Len(v) : n = Len(t) + 1 \/ n \in 1..Len(t)
    BY <1>2, <1>3
  <1>6. \A n \in 1..Len(v) : v[n] = u[d + n]
    <2> SUFFICES ASSUME NEW n \in 1..Len(v) PROVE v[n] = u[d + n]
      OBVIOUS
    <2>1. CASE n = Len(t) + 1
      BY <1>1, <1>2, <1>3, <2>1
    <2>2. CASE n \in 1..Len(t)
      BY <1>1, <1>2, <1>4, <2>2
    <2> QED BY <1>5, <2>1, <2>2
  <1>7. Ends(u, v)
    BY <1>3, <1>6 DEF Ends
  <1> QED BY <1>7 DEF u, v

LEMMA EndsShortened ==
    ASSUME NEW S, NEW s \in Seq(S), NEW t \in Seq(S), Len(t) <= Len(s), Len(t) # 0, Ends(s, t)
    PROVE  Ends(Front(s), Front(t))
  <1> DEFINE u == Front(s)
             v == Front(t)
  <1>0. Len(s) \in Nat /\ Len(t) \in Nat /\ Len(s) # 0
    OBVIOUS
  <1>1. Len(u) = Len(s) - 1 /\ \A n \in 1..(Len(s) - 1) : u[n] = s[n]
    BY <1>0, LastRemoved
  <1>2. Len(v) = Len(t) - 1 /\ \A n \in 1..(Len(t) - 1) : v[n] = t[n]
    BY LastRemoved
  <1> HIDE DEF u, v
  <1> SUFFICES ASSUME NEW n \in 1..Len(v) PROVE v[n] = u[Len(u) - Len(v) + n]
    BY DEF Ends, u, v
  <1>3. /\ n \in 1..Len(t) /\ n \in 1..(Len(t) - 1) /\ Len(u) - Len(v) + n = Len(s) - Len(t) + n
        /\ Len(s) - Len(t) + n \in 1..(Len(s) - 1)
    BY <1>0, <1>1, <1>2
  <1>4. t[n] = s[Len(s) - Len(t) + n]
    BY <1>3 DEF Ends
  <1> QED BY <1>1, <1>2, <1>3, <1>4

(* No pages, and titles of other pages at most.                            *)
LEMMA NoPages ==
    ASSUME NEW s \in Seq(Pages), pages' = <<>>, titles' = s, top' = 0, swapped' = FALSE, stale' = (s # <<>>)
    PROVE  NavigationInv'
  <1> DEFINE e == <<>>
  <1>1. e \in Seq(Pages) /\ Len(e) = 0 /\ Len(s) \in Nat
    OBVIOUS
  <1>2. stale' \in BOOLEAN /\ swapped' \in BOOLEAN /\ (~ stale' => s = e)
    BY Zenon
  <1>3. pages' = e /\ titles' = s /\ top' = 0
    OBVIOUS
  <1> HIDE DEF e
  <1>4. Ends(s, e)
    BY <1>1 DEF Ends
  <1>5. /\ Len(s) >= Len(e) /\ (~ stale' => Len(s) = Len(e))
        /\ 0 \in 0..Len(e) /\ (Len(e) # 0 => FALSE) /\ 0 = Len(e)
    BY <1>1, <1>2
  <1> QED BY <1>1, <1>2, <1>3, <1>4, <1>5, Zenon DEF NavigationInv

(* No pages, no titles.                                                    *)
LEMMA NavigationStarts == NavigationInit => NavigationInv
  <1> SUFFICES ASSUME NavigationInit PROVE NavigationInv
    OBVIOUS
  <1> DEFINE e == <<>>
  <1>1. e \in Seq(Pages) /\ Len(e) = 0
    OBVIOUS
  <1>2. pages = e /\ titles = e /\ top = 0 /\ swapped \in BOOLEAN /\ stale \in BOOLEAN
    BY DEF NavigationInit
  <1> HIDE DEF e
  <1>3. Ends(e, e)
    BY <1>1 DEF Ends
  <1>4. Len(e) >= Len(e) /\ 0 \in 0..Len(e) /\ (Len(e) # 0 => FALSE) /\ 0 = Len(e)
    BY <1>1
  <1> QED BY <1>1, <1>2, <1>3, <1>4, Zenon DEF NavigationInv

(* Every step of the navigation keeps it.                                  *)
LEMMA NavigationStays == NavigationInv /\ [NavigationNext]_navigationVars => NavigationInv'
  <1> SUFFICES ASSUME NavigationInv, [NavigationNext]_navigationVars PROVE NavigationInv'
    OBVIOUS
  <1>0. /\ pages \in Seq(Pages) /\ titles \in Seq(Pages) /\ Len(titles) >= Len(pages)
        /\ top \in 0..Len(pages) /\ (Len(pages) # 0 => top # 0)
        /\ swapped \in BOOLEAN /\ stale \in BOOLEAN
        /\ (~ stale => Len(titles) = Len(pages))
        /\ (~ swapped => top = Len(pages) /\ Ends(titles, pages))
        /\ Len(pages) \in Nat /\ Len(titles) \in Nat
    BY DEF NavigationInv
  <1>1. CASE UNCHANGED navigationVars
    BY <1>1 DEF navigationVars, NavigationInv, Ends
  <1>2. CASE Pop
    <2> DEFINE rest == RemoveAt(pages, top)
               front == Front(titles)
    <2>1. Len(pages) > 1 /\ top \in 1..Len(pages) /\ Len(pages) # 0 /\ Len(titles) # 0
      BY <1>0, <1>2 DEF Pop
    <2>2. rest \in Seq(Pages) /\ Len(rest) = Len(pages) - 1
      BY <1>0, <2>1, RemovedIs
    <2>3. front \in Seq(Pages) /\ Len(front) = Len(titles) - 1
      BY <1>0, <2>1, LastRemoved
    <2>4. ~ swapped => Ends(front, rest)
      <3> SUFFICES ASSUME ~ swapped PROVE Ends(front, rest)
        OBVIOUS
      <3>1. rest = Front(pages)
        BY <1>0, <2>1, LastRemoved
      <3>2. Ends(Front(titles), Front(pages))
        BY <1>0, <2>1, EndsShortened
      <3> QED BY <3>1, <3>2
    <2>5. pages' = rest /\ titles' = front /\ top' = Len(pages') /\ swapped' = swapped /\ stale' = stale
      BY <1>2 DEF Pop
    <2> HIDE DEF rest, front
    <2>6. /\ top' \in 0..Len(pages') /\ (Len(pages') # 0 => top' # 0)
          /\ Len(titles') >= Len(pages') /\ (~ stale => Len(titles') = Len(pages'))
      BY <1>0, <2>1, <2>2, <2>3, <2>5
    <2> QED BY <1>0, <2>2, <2>3, <2>4, <2>5, <2>6 DEF NavigationInv
  <1>3. CASE PopToRoot
    <2> DEFINE s == SubSeq(titles, 1, Len(titles) - Len(pages))
    <2>1. s \in Seq(Pages)
      BY <1>0
    <2>2. pages' = <<>> /\ titles' = s /\ top' = 0 /\ swapped' = FALSE /\ stale' = (titles' # <<>>)
      BY <1>3 DEF PopToRoot
    <2> HIDE DEF s
    <2> QED BY <2>1, <2>2, NoPages
  <1>4. CASE SetRootWidget
    BY <1>0, <1>4, NoPages DEF SetRootWidget
  <1>5. ASSUME NEW p \in Pages, Push(p) PROVE NavigationInv'
    <2> DEFINE rest == RemoveOne(pages, p)
               q == Append(rest, p)
               r == Append(titles, p)
    <2>1. /\ pages' = q /\ titles' = r /\ top' = Len(pages')
          /\ swapped' = (swapped \/ p \in Range(pages)) /\ stale' = (stale \/ p \in Range(pages))
      BY <1>5 DEF Push
    <2>2. /\ rest \in Seq(Pages) /\ Len(rest) \in Nat /\ Len(rest) <= Len(pages)
          /\ (p \notin Range(pages) => rest = pages)
      <3>1. /\ rest \in Seq(Pages) /\ (p \notin Range(pages) => rest = pages)
            /\ p \in Range(pages) => Len(rest) = Len(pages) - 1
        BY <1>0, RemoveOneIs
      <3> HIDE DEF rest
      <3> QED BY <1>0, <3>1
    <2>3. r \in Seq(Pages) /\ Len(r) = Len(titles) + 1
      BY <1>0
    <2>4. q \in Seq(Pages) /\ Len(q) = Len(rest) + 1
      <3> HIDE DEF rest
      <3> QED BY <2>2
    <2>5. ASSUME ~ swapped' PROVE Ends(r, q)
      <3>1. ~ swapped /\ rest = pages
        BY <1>0, <2>1, <2>2, <2>5, Zenon
      <3> HIDE DEF rest
      <3> QED BY <1>0, <3>1, EndsAppended
    <2>6. ~ stale' => ~ stale /\ rest = pages
      BY <2>1, <2>2, Zenon
    <2>7. swapped' \in BOOLEAN /\ stale' \in BOOLEAN
      BY <1>0, <2>1, Zenon
    <2> HIDE DEF rest, q, r
    <2>8. /\ top' \in 0..Len(pages') /\ (Len(pages') # 0 => top' # 0)
          /\ Len(titles') >= Len(pages') /\ (~ stale' => Len(titles') = Len(pages'))
      BY <1>0, <2>1, <2>2, <2>3, <2>4, <2>6
    <2> QED BY <2>1, <2>3, <2>4, <2>5, <2>7, <2>8 DEF NavigationInv
  <1>6. ASSUME NEW p \in Pages, Replace(p) PROVE NavigationInv'
    <2> DEFINE rest == RemoveAt(pages, top)
               next == CurrentWithout(top, top, Len(rest))
               others == RemoveOne(rest, p)
               cur == IF p \in Range(rest) THEN CurrentWithout(next, PlaceOf(rest, p), Len(others)) ELSE next
               at == IF next \in 1..Len(others) THEN next ELSE Len(others) + 1
               x == CurrentWith(cur, at)
    <2>1. /\ pages # <<>> /\ pages' = InsertAt(others, at, p) /\ top' = at
          /\ titles' = [titles EXCEPT ![x] = p]
          /\ swapped' = (swapped \/ stale \/ rest # <<>>)
          /\ stale' = (stale \/ p \in Range(rest))
      BY <1>6 DEF Replace
    <2>2. Len(pages) # 0 /\ top \in 1..Len(pages)
      BY <1>0, <2>1
    <2>3. rest \in Seq(Pages) /\ Len(rest) = Len(pages) - 1
      BY <1>0, <2>2, RemovedIs
    <2> HIDE DEF rest
    <2>4. rest = <<>> => x = 1 /\ others = <<>> /\ at = 1
      <3> SUFFICES ASSUME rest = <<>> PROVE x = 1 /\ others = <<>> /\ at = 1
        OBVIOUS
      <3>1. Len(rest) = 0 /\ p \notin Range(rest)
        BY DEF Range
      <3>2. top = 1
        <4>1. Len(pages) \in Nat /\ Len(rest) = Len(pages) - 1 /\ Len(rest) = 0
          BY <1>0, <2>3, <3>1, Zenon
        <4>2. \A m, n \in Nat : m = n - 1 /\ m = 0 => n = 1
          OBVIOUS
        <4>3. Len(pages) = 1
          BY <4>1, <4>2
        <4> QED BY <2>2, <4>3
      <3>3. others = <<>>
        BY <2>3, <3>1, RemoveOneIs
      <3>4. next = 0
        BY <3>1, <3>2 DEF CurrentWithout
      <3>5. cur = next
        BY <3>1
      <3> HIDE DEF cur, next, others
      <3>6. at = 1
        BY <3>3, <3>4
      <3> QED BY <3>3, <3>4, <3>5, <3>6 DEF CurrentWith
    <2>5. /\ others \in Seq(Pages) /\ Len(others) \in Nat /\ Len(others) <= Len(rest)
          /\ (p \notin Range(rest) => others = rest)
      <3>1. /\ others \in Seq(Pages) /\ (p \notin Range(rest) => others = rest)
            /\ p \in Range(rest) => Len(others) = Len(rest) - 1
        BY <2>3, RemoveOneIs
      <3> HIDE DEF others
      <3> QED BY <1>0, <2>3, <3>1
    <2> HIDE DEF others, next, cur, x
    <2>6. at \in 1..(Len(others) + 1)
      BY <2>5
    <2> HIDE DEF at
    <2>7. pages' \in Seq(Pages) /\ Len(pages') = Len(others) + 1
      BY <2>1, <2>5, <2>6, InsertedIs
    <2>8. titles' \in Seq(Pages) /\ Len(titles') = Len(titles)
      <3>1. CASE x \in DOMAIN titles
        BY <1>0, <2>1, <3>1
      <3>2. CASE x \notin DOMAIN titles
        <4>1. [titles EXCEPT ![x] = p] = titles
          BY <1>0, <3>2
        <4> QED BY <1>0, <2>1, <4>1
      <3> QED BY <3>1, <3>2
    <2>9. swapped' \in BOOLEAN /\ stale' \in BOOLEAN /\ (~ stale' => ~ stale /\ others = rest)
      BY <1>0, <2>1, <2>5, Zenon
    <2>10. /\ top' \in 0..Len(pages') /\ (Len(pages') # 0 => top' # 0)
           /\ Len(titles') >= Len(pages') /\ (~ stale' => Len(titles') = Len(pages'))
      <3>1. top' = at /\ top' \in 1..Len(pages')
        BY <2>1, <2>5, <2>6, <2>7
      <3>2. ~ stale' => Len(others) = Len(rest) /\ Len(titles) = Len(pages)
        BY <1>0, <2>9
      <3> QED BY <1>0, <2>3, <2>5, <2>7, <2>8, <3>1, <3>2
    <2>11. ASSUME ~ swapped' PROVE top' = Len(pages') /\ Ends(titles', pages')
      <3>1. rest = <<>> /\ ~ stale
        BY <2>1, <2>11, Zenon
      <3>2. x = 1 /\ others = <<>> /\ at = 1 /\ Len(rest) = 0
        BY <2>4, <3>1
      <3>3. Len(titles) = 1
        BY <1>0, <2>3, <3>1, <3>2
      <3>4. titles' = <<p>>
        BY <1>0, <2>1, <3>2, <3>3
      <3>5. pages' = <<p>>
        <4>1. pages' = InsertAt(<<>>, 1, p)
          BY <2>1, <3>2, Zenon
        <4>2. InsertAt(<<>>, 1, p) = SubSeq(<<>>, 1, 0) \o <<p>> \o SubSeq(<<>>, 1, 0)
          BY DEF InsertAt
        <4>3. SubSeq(<<>>, 1, 0) = <<>>
          OBVIOUS
        <4>4. <<>> \o <<p>> \o <<>> = <<p>>
          OBVIOUS
        <4> QED BY <4>1, <4>2, <4>3, <4>4, Zenon
      <3>6. Len(<<p>>) = 1 /\ Ends(<<p>>, <<p>>)
        BY DEF Ends
      <3> QED BY <2>1, <3>2, <3>4, <3>5, <3>6
    <2> QED BY <2>7, <2>8, <2>9, <2>10, <2>11 DEF NavigationInv
  <1> QED BY <1>1, <1>2, <1>3, <1>4, <1>5, <1>6 DEF NavigationNext

(* The property is a part of the invariant.                                *)
LEMMA NavigationMatches == NavigationInv => TitlesMatchPages
  <1> SUFFICES ASSUME NavigationInv PROVE TitlesMatchPages
    OBVIOUS
  <1>1. DOMAIN pages = 1..Len(pages)
    BY DEF NavigationInv
  <1> QED BY <1>1 DEF NavigationInv, TitlesMatchPages, Ends

-----------------------------------------------------------------------------
(* The view model.  A value the view does not show yet has a signal under  *)
(* way; without overlaps there is one signal of `loading', with its value. *)
Signal == [kind : {"none", "property", "loading"}, carries : BOOLEAN]
Loads(t) == update[t].kind = "loading"
ViewTypeOK ==
    /\ value \in Properties /\ loading \in BOOLEAN
    /\ shown \in [value : Properties, loading : BOOLEAN] /\ update \in [Updaters -> Signal]
QuietIsNone == \A t \in Updaters : update[t].kind = "none" => update[t] = NoSignal
ValueComes == shown.value = value \/ \E t \in Updaters : update[t].kind = "property"
LoadingComes ==
    overlapped \/ /\ \A t, u \in Updaters : Loads(t) /\ Loads(u) => t = u
                  /\ \A t \in Updaters : Loads(t) => update[t].carries = loading
                  /\ (\A t \in Updaters : ~ Loads(t)) => shown.loading = loading
ViewInv == ViewTypeOK /\ QuietIsNone /\ ValueComes /\ LoadingComes

(* One thread has another signal.                                          *)
LEMMA SignalIs ==
    ASSUME NEW t \in Updaters, NEW r \in Signal, update \in [Updaters -> Signal], update' = [update EXCEPT ![t] = r]
    PROVE  update' \in [Updaters -> Signal] /\ update'[t] = r /\ \A u \in Updaters \ {t} : update'[u] = update[u]
  OBVIOUS

(* The view shows the first value.                                         *)
LEMMA ViewStarts == ModelInit => ViewInv
  <1> SUFFICES ASSUME ModelInit PROVE ViewInv
    OBVIOUS
  <1>1. NoSignal \in Signal /\ NoSignal.kind = "none"
    BY DEF NoSignal, Signal
  <1>2. \A t \in Updaters : update[t] = NoSignal
    BY DEF ModelInit
  <1>3. update \in [Updaters -> Signal]
    BY <1>1 DEF ModelInit
  <1>4. value \in Properties /\ loading = FALSE /\ shown = [value |-> value, loading |-> FALSE]
    BY DEF ModelInit
  <1>5. shown \in [value : Properties, loading : BOOLEAN] /\ shown.value = value /\ shown.loading = loading
    BY <1>4
  <1>6. \A t \in Updaters : ~ Loads(t)
    BY <1>1, <1>2 DEF Loads
  <1> QED BY <1>2, <1>3, <1>4, <1>5, <1>6 DEF ViewInv, ViewTypeOK, QuietIsNone, ValueComes, LoadingComes

(* Every step of the view model keeps it.                                  *)
LEMMA ViewStays == ViewInv /\ [ModelNext]_modelVars => ViewInv'
  <1> SUFFICES ASSUME ViewInv, [ModelNext]_modelVars PROVE ViewInv'
    OBVIOUS
  <1>0. /\ value \in Properties /\ loading \in BOOLEAN
        /\ shown \in [value : Properties, loading : BOOLEAN] /\ update \in [Updaters -> Signal]
        /\ QuietIsNone /\ ValueComes /\ LoadingComes
    BY DEF ViewInv, ViewTypeOK
  <1>9. NoSignal \in Signal /\ NoSignal.kind = "none" /\ NoSignal.carries = FALSE
    BY DEF NoSignal, Signal
  <1>1. CASE UNCHANGED modelVars
    BY <1>0, <1>1 DEF modelVars, ViewInv, ViewTypeOK, QuietIsNone, ValueComes, LoadingComes, Loads
  <1>2. ASSUME NEW t \in Updaters, NEW v \in Properties, SetProperty(t, v) PROVE ViewInv'
    <2> DEFINE r == [kind |-> "property", carries |-> FALSE]
    <2>1. /\ update[t] = NoSignal /\ value' = v /\ update' = [update EXCEPT ![t].kind = "property"]
          /\ loading' = loading /\ shown' = shown /\ overlapped' = overlapped
      BY <1>2 DEF SetProperty
    <2>2. update' = [update EXCEPT ![t] = r]
      <3>1. [NoSignal EXCEPT !.kind = "property"] = r
        <4> DEFINE n == NoSignal
        <4>1. n \in Signal /\ n.carries = FALSE
          BY <1>9
        <4> HIDE DEF n
        <4>3. [n EXCEPT !.kind = "property"] = [kind |-> "property", carries |-> n.carries]
          BY <4>1 DEF Signal
        <4>2. [n EXCEPT !.kind = "property"] = r
          BY <4>1, <4>3, Zenon
        <4> QED BY <4>2, Zenon DEF n
      <3>2. update' = [update EXCEPT ![t] = [NoSignal EXCEPT !.kind = "property"]]
        BY <1>0, <2>1
      <3> QED BY <3>1, <3>2
    <2>3. r \in Signal /\ r.kind = "property"
      BY DEF Signal
    <2> HIDE DEF r
    <2>4. update' \in [Updaters -> Signal] /\ update'[t] = r /\ \A u \in Updaters \ {t} : update'[u] = update[u]
      BY <1>0, <2>2, <2>3, SignalIs
    <2>5. ViewTypeOK'
      BY <1>0, <2>1, <2>4 DEF ViewTypeOK, Signal
    <2>6. QuietIsNone'
      BY <1>0, <2>3, <2>4 DEF QuietIsNone, NoSignal
    <2>7. ValueComes'
      BY <2>3, <2>4 DEF ValueComes
    <2>8. \A u \in Updaters : Loads(u)' <=> Loads(u)
      BY <1>9, <2>1, <2>3, <2>4 DEF Loads
    <2>9. \A u \in Updaters : Loads(u) => update'[u] = update[u]
      BY <1>9, <2>1, <2>4 DEF Loads
    <2>10. LoadingComes'
      BY <1>0, <2>1, <2>8, <2>9 DEF LoadingComes
    <2> QED BY <2>5, <2>6, <2>7, <2>10 DEF ViewInv
  <1>3. ASSUME NEW t \in Updaters, NEW b \in BOOLEAN, SetLoading(t, b) PROVE ViewInv'
    <2> DEFINE r == [kind |-> "loading", carries |-> b]
    <2>1. /\ update[t] = NoSignal /\ loading' = b /\ update' = [update EXCEPT ![t] = r]
          /\ value' = value /\ shown' = shown
          /\ overlapped' = (overlapped \/ \E o \in Updaters : update[o].kind = "loading")
      BY <1>3 DEF SetLoading
    <2>2. r \in Signal /\ r.kind = "loading" /\ r.carries = b
      BY DEF Signal
    <2> HIDE DEF r
    <2>3. update' \in [Updaters -> Signal] /\ update'[t] = r /\ \A u \in Updaters \ {t} : update'[u] = update[u]
      BY <1>0, <2>1, <2>2, SignalIs
    <2>4. ViewTypeOK'
      BY <1>0, <2>1, <2>3 DEF ViewTypeOK, Signal
    <2>5. QuietIsNone'
      BY <1>0, <2>2, <2>3 DEF QuietIsNone, NoSignal
    <2>6. ValueComes'
      BY <1>0, <1>9, <2>1, <2>3 DEF ValueComes
    <2>7. ASSUME ~ overlapped' PROVE \A u \in Updaters : Loads(u)' <=> u = t
      <3>1. \A o \in Updaters : update[o].kind # "loading"
        BY <2>1, <2>7
      <3> QED BY <2>2, <2>3, <3>1 DEF Loads
    <2>8. update'[t].carries = loading'
      BY <2>1, <2>2, <2>3
    <2>9. LoadingComes'
      BY <2>7, <2>8 DEF LoadingComes
    <2> QED BY <2>4, <2>5, <2>6, <2>9 DEF ViewInv
  <1>4. ASSUME NEW t \in Updaters, Emit(t) PROVE ViewInv'
    <2>1. /\ update[t] # NoSignal /\ update' = [update EXCEPT ![t] = NoSignal]
          /\ value' = value /\ loading' = loading /\ overlapped' = overlapped
      BY <1>4 DEF Emit
    <2>2. update' \in [Updaters -> Signal] /\ update'[t] = NoSignal /\ \A u \in Updaters \ {t} : update'[u] = update[u]
      BY <1>0, <1>9, <2>1, SignalIs
    <2>3. QuietIsNone'
      BY <1>0, <2>2 DEF QuietIsNone, NoSignal
    <2>4. update[t] \in Signal
      BY <1>0
    <2>5. update[t].kind = "property" \/ update[t].kind = "loading"
      BY <1>0, <2>1, <2>4 DEF Signal, QuietIsNone
    <2>6. CASE update[t].kind = "property"
      <3>1. shown' = [shown EXCEPT !.value = value]
        BY <1>4, <2>6 DEF Emit
      <3>2. shown' \in [value : Properties, loading : BOOLEAN] /\ shown'.value = value /\ shown'.loading = shown.loading
        BY <1>0, <3>1
      <3>3. ViewTypeOK'
        BY <1>0, <2>1, <2>2, <3>2 DEF ViewTypeOK, Signal
      <3>4. ValueComes'
        BY <2>1, <3>2 DEF ValueComes
      <3>5. \A u \in Updaters : Loads(u)' <=> Loads(u)
        BY <1>9, <2>2, <2>6 DEF Loads
      <3>6. \A u \in Updaters : Loads(u) => update'[u] = update[u]
        BY <2>2, <2>6 DEF Loads
      <3>7. LoadingComes'
        BY <1>0, <2>1, <3>2, <3>5, <3>6 DEF LoadingComes
      <3> QED BY <2>3, <3>3, <3>4, <3>7 DEF ViewInv
    <2>7. CASE update[t].kind = "loading"
      <3>1. shown' = [shown EXCEPT !.loading = update[t].carries]
        BY <1>4, <2>7 DEF Emit
      <3>0. update[t].carries \in BOOLEAN
        BY <2>4 DEF Signal
      <3>2. /\ shown' \in [value : Properties, loading : BOOLEAN] /\ shown'.value = shown.value
            /\ shown'.loading = update[t].carries
        BY <1>0, <3>0, <3>1
      <3>3. ViewTypeOK'
        BY <1>0, <2>1, <2>2, <3>2 DEF ViewTypeOK, Signal
      <3>4. ValueComes'
        BY <1>0, <2>1, <2>2, <2>7, <3>2 DEF ValueComes
      <3>5. \A u \in Updaters : Loads(u)' => Loads(u) /\ u # t
        BY <1>9, <2>2 DEF Loads
      <3>6. ASSUME overlapped PROVE LoadingComes'
        BY <2>1, <3>6 DEF LoadingComes
      <3>7. ASSUME ~ overlapped PROVE LoadingComes'
        <4>1. \A u, w \in Updaters : Loads(u) /\ Loads(w) => u = w
          BY <1>0, <3>7, Zenon DEF LoadingComes
        <4>2. \A u \in Updaters : ~ Loads(u)'
          BY <2>7, <3>5, <4>1 DEF Loads
        <4>3. update[t].carries = loading
          BY <1>0, <2>7, <3>7 DEF LoadingComes, Loads
        <4>4. shown'.loading = loading'
          BY <2>1, <3>2, <4>3
        <4> QED BY <4>2, <4>4, Zenon DEF LoadingComes
      <3>8. LoadingComes'
        BY <3>6, <3>7
      <3> QED BY <2>3, <3>3, <3>4, <3>8 DEF ViewInv
    <2> QED BY <2>5, <2>6, <2>7
  <1> QED BY <1>1, <1>2, <1>3, <1>4 DEF ModelNext

(* Without a signal under way the view is up to date.                      *)
LEMMA ViewCatches == ViewInv => ViewCatchesUp
  <1> SUFFICES ASSUME ViewInv, \A t \in Updaters : update[t] = NoSignal
               PROVE  shown.value = value /\ (~ overlapped => shown.loading = loading)
    BY DEF ViewCatchesUp
  <1>1. \A t \in Updaters : update[t].kind = "none"
    BY DEF NoSignal
  <1>2. \A t \in Updaters : ~ Loads(t)
    BY <1>1 DEF Loads
  <1>3. shown.value = value
    BY <1>1 DEF ViewInv, ValueComes
  <1>4. ~ overlapped => shown.loading = loading
    BY <1>2 DEF ViewInv, LoadingComes
  <1> QED BY <1>3, <1>4

-----------------------------------------------------------------------------
(* Knobs: the model's own property is inductive once the knob has a type.  *)
KnobRecord == [wanted : BOOLEAN, at : 0..Travel, goal : {0, Travel}, moving : BOOLEAN]
KnobInv == knob \in [Knobs -> KnobRecord] /\ KnobsFollow

(* Both knobs rest at their left end.                                      *)
LEMMA KnobStarts == KnobInit => KnobInv
  <1> SUFFICES ASSUME KnobInit PROVE KnobInv
    OBVIOUS
  <1> DEFINE r == [wanted |-> FALSE, at |-> 0, goal |-> 0, moving |-> FALSE]
  <1>1. r \in KnobRecord /\ r.goal = End(r.wanted) /\ r.at \in 0..Travel /\ r.at = r.goal
    BY ControlsAssumption DEF KnobRecord, End
  <1>2. knob = [k \in Knobs |-> r]
    BY DEF KnobInit
  <1> HIDE DEF r
  <1> QED BY <1>1, <1>2 DEF KnobInv, KnobsFollow

Follows(n) == n.goal = End(n.wanted) /\ n.at \in 0..Travel /\ (~ n.moving => n.at = n.goal)

(* One knob at a time.                                                     *)
LEMMA KnobsAre == KnobsFollow <=> \A k \in Knobs : Follows(knob[k])
  BY DEF KnobsFollow, Follows

(* One knob changes.                                                       *)
LEMMA OneKnob ==
    ASSUME KnobInv, NEW k \in Knobs, NEW r \in KnobRecord, Follows(r), knob' = [knob EXCEPT ![k] = r]
    PROVE  KnobInv'
  <1>1. knob' \in [Knobs -> KnobRecord]
    BY DEF KnobInv
  <1>2. \A j \in Knobs : Follows(knob[j])
    BY KnobsAre DEF KnobInv
  <1>3. \A j \in Knobs : Follows(knob'[j])
    BY <1>2 DEF KnobInv
  <1>4. KnobsFollow'
    BY <1>3 DEF KnobsFollow, Follows, Knobs, End
  <1> QED BY <1>1, <1>4 DEF KnobInv, Knobs, KnobRecord

(* A new goal is the end that is wanted.                                   *)
LEMMA RetargetStays == ASSUME KnobInv, NEW k \in Knobs, NEW w \in BOOLEAN, Retarget(k, w) PROVE KnobInv'
  <1> DEFINE r == [wanted |-> w, at |-> knob[k].at, goal |-> End(w), moving |-> TRUE]
  <1>1. knob[k] \in KnobRecord
    BY DEF KnobInv
  <1>2. knob[k].at \in 0..Travel
    BY <1>1 DEF KnobRecord
  <1>3. End(w) \in {0, Travel}
    BY DEF End
  <1>4. r \in KnobRecord /\ Follows(r)
    BY <1>2, <1>3 DEF KnobRecord, Follows
  <1>5. knob' = [knob EXCEPT ![k] = r]
    BY DEF Retarget
  <1> HIDE DEF r
  <1> QED BY <1>4, <1>5, OneKnob

(* Every step of a knob keeps it.                                          *)
LEMMA KnobStays == KnobInv /\ [KnobNext]_knob => KnobInv'
  <1> SUFFICES ASSUME KnobInv, [KnobNext]_knob PROVE KnobInv'
    OBVIOUS
  <1>1. ASSUME NEW w \in BOOLEAN, SetChecked(w) \/ Drag(w) PROVE KnobInv'
    <2>1. Retarget("switch", w) \/ Retarget("slider", w)
      BY <1>1 DEF SetChecked, Drag
    <2>2. "switch" \in Knobs /\ "slider" \in Knobs
      BY DEF Knobs
    <2> QED BY <2>1, <2>2, RetargetStays
  <1>2. ASSUME NEW k \in Knobs, Glide(k) PROVE KnobInv'
    <2> DEFINE n == knob[k]
               at == IF n.at < n.goal THEN n.at + 1 ELSE IF n.at > n.goal THEN n.at - 1 ELSE n.at
               moving == n.at # n.goal
               r == [wanted |-> n.wanted, at |-> at, goal |-> n.goal, moving |-> moving]
    <2>1. n \in KnobRecord
      BY DEF KnobInv
    <2>4. n.at \in 0..Travel /\ n.goal \in {0, Travel} /\ n.wanted \in BOOLEAN /\ Travel \in Nat
      BY <2>1, ControlsAssumption DEF KnobRecord
    <2>6. at \in 0..Travel /\ (~ moving => at = n.goal)
      BY <2>4
    <2>3. knob' = [knob EXCEPT ![k] = r]
      BY <1>2 DEF Glide, KnobInv
    <2>5. Follows(n)
      BY KnobsAre DEF KnobInv
    <2> HIDE DEF at, moving
    <2>7. moving \in BOOLEAN
      BY DEF moving
    <2>8. r \in KnobRecord /\ Follows(r)
      BY <2>4, <2>5, <2>6, <2>7 DEF KnobRecord, Follows
    <2> HIDE DEF r
    <2> QED BY <2>3, <2>8, OneKnob
  <1>3. CASE UNCHANGED knob
    BY <1>3 DEF KnobInv, KnobsFollow, Knobs, End, KnobRecord
  <1> QED BY <1>1, <1>2, <1>3 DEF KnobNext

-----------------------------------------------------------------------------
(* The side bar.                                                           *)
ButtonRecord == [id : Items, lit : BOOLEAN]
(* The buttons bs are those of the last items of q, styled for a.          *)
Shows(bs, q, a) ==
    /\ Len(bs) <= Len(q)
    /\ \A n \in 1..Len(bs) : bs[n].id = q[Len(q) - Len(bs) + n] /\ (bs[n].lit <=> bs[n].id = a)

BarInv == items \in Seq(Items) /\ buttons \in Seq(ButtonRecord) /\ Shows(buttons, items, activeItem)

(* u is the list bs of l buttons, styled for a.                            *)
IsStyled(u, bs, a, l) ==
    /\ u \in Seq(ButtonRecord) /\ Len(u) = l
    /\ \A n \in 1..l : u[n].id = bs[n].id /\ (u[n].lit <=> bs[n].id = a)

(* updateStyle() changes no id.                                            *)
LEMMA StyledIs ==
    ASSUME NEW bs, NEW a, NEW l \in Nat, DOMAIN bs = 1..l, \A n \in 1..l : bs[n].id \in Items
    PROVE  IsStyled(Styled(bs, a), bs, a, l)
  <1> DEFINE r(n) == [id |-> bs[n].id, lit |-> bs[n].id = a]
             u == [n \in 1..l |-> r(n)]
  <1>1. Styled(bs, a) = u
    BY DEF Styled
  <1>2. \A n \in 1..l : r(n) \in ButtonRecord /\ r(n).id = bs[n].id /\ (r(n).lit <=> bs[n].id = a)
    BY DEF ButtonRecord
  <1> HIDE DEF r
  <1>3. u \in Seq(ButtonRecord) /\ Len(u) = l /\ \A n \in 1..l : u[n] = r(n)
    BY <1>2
  <1> HIDE DEF u
  <1>4. \A n \in 1..l : u[n].id = bs[n].id /\ (u[n].lit <=> bs[n].id = a)
    BY <1>2, <1>3
  <1> QED BY <1>1, <1>3, <1>4 DEF IsStyled

(* Styled buttons with the right ids show the items.                       *)
LEMMA StyledShows ==
    ASSUME NEW q \in Seq(Items), NEW bs, NEW a, NEW l \in Nat, DOMAIN bs = 1..l, l <= Len(q),
           \A n \in 1..l : bs[n].id = q[Len(q) - l + n]
    PROVE  Styled(bs, a) \in Seq(ButtonRecord) /\ Shows(Styled(bs, a), q, a)
  <1> DEFINE u == Styled(bs, a)
  <1>1. \A n \in 1..l : bs[n].id \in Items
    <2> SUFFICES ASSUME NEW n \in 1..l PROVE bs[n].id \in Items
      OBVIOUS
    <2>1. Len(q) - l + n \in 1..Len(q)
      OBVIOUS
    <2>2. q[Len(q) - l + n] \in Items
      BY <2>1
    <2> QED BY <2>2
  <1>2. /\ u \in Seq(ButtonRecord) /\ Len(u) = l
        /\ \A n \in 1..l : u[n].id = bs[n].id /\ (u[n].lit <=> bs[n].id = a)
    <2>1. IsStyled(u, bs, a, l)
      BY <1>1, StyledIs
    <2> HIDE DEF u
    <2> QED BY <2>1 DEF IsStyled
  <1> HIDE DEF u
  <1>3. \A n \in 1..l : u[n].id = q[Len(q) - l + n] /\ (u[n].lit <=> u[n].id = a)
    <2> SUFFICES ASSUME NEW n \in 1..l PROVE u[n].id = q[Len(q) - l + n] /\ (u[n].lit <=> u[n].id = a)
      OBVIOUS
    <2>1. u[n].id = bs[n].id /\ bs[n].id = q[Len(q) - l + n]
      BY <1>2
    <2>2. u[n].lit <=> bs[n].id = a
      BY <1>2
    <2> QED BY <2>1, <2>2, Zenon
  <1>4. Shows(u, q, a)
    BY <1>2, <1>3 DEF Shows
  <1> QED BY <1>2, <1>4 DEF u

(* An empty bar.                                                           *)
LEMMA BarStarts == BarInit => BarInv
  <1> SUFFICES ASSUME BarInit PROVE BarInv
    OBVIOUS
  <1>1. <<>> \in Seq(Items) /\ <<>> \in Seq(ButtonRecord) /\ Len(<<>>) = 0
    OBVIOUS
  <1>2. items = <<>> /\ buttons = <<>>
    BY DEF BarInit
  <1> QED BY <1>1, <1>2 DEF BarInv, Shows

(* Every step of the side bar keeps it.                                    *)
LEMMA BarStays == BarInv /\ [BarNext]_barVars => BarInv'
  <1> SUFFICES ASSUME BarInv, [BarNext]_barVars PROVE BarInv'
    OBVIOUS
  <1>0. /\ items \in Seq(Items) /\ buttons \in Seq(ButtonRecord)
        /\ DOMAIN buttons = 1..Len(buttons) /\ Len(buttons) \in Nat /\ Len(buttons) <= Len(items)
        /\ \A n \in 1..Len(buttons) : buttons[n].id = items[Len(items) - Len(buttons) + n]
    BY DEF BarInv, Shows
  <1>1. CASE UNCHANGED barVars
    BY <1>1 DEF barVars, BarInv, Shows, ButtonRecord
  <1>2. CASE ClearItems
    <2>1. buttons' = <<>> /\ items' = items /\ activeItem' = activeItem
      BY <1>2 DEF ClearItems
    <2>2. <<>> \in Seq(ButtonRecord) /\ Len(<<>>) = 0 /\ Len(items) \in Nat
      BY <1>0
    <2>3. Shows(<<>>, items, activeItem)
      BY <2>2 DEF Shows
    <2> QED BY <1>0, <2>1, <2>2, <2>3 DEF BarInv
  <1>3. ASSUME NEW i \in Items, AddItem(i) PROVE BarInv'
    <2> DEFINE q == Append(items, i)
               bs == Append(buttons, ButtonOf(i))
               l == Len(buttons) + 1
    <2>1. q \in Seq(Items) /\ Len(q) = Len(items) + 1 /\ q[Len(items) + 1] = i /\ \A n \in 1..Len(items) : q[n] = items[n]
      BY <1>0
    <2>2. ButtonOf(i).id = i
      BY DEF ButtonOf
    <2>3. /\ DOMAIN bs = 1..l /\ bs[l] = ButtonOf(i) /\ \A n \in 1..Len(buttons) : bs[n] = buttons[n]
      BY <1>0
    <2> HIDE DEF q, bs
    <2>4. \A n \in 1..l : bs[n].id = q[Len(q) - l + n]
      <3> SUFFICES ASSUME NEW n \in 1..l PROVE bs[n].id = q[Len(q) - l + n]
        OBVIOUS
      <3>1. Len(q) - l + n = Len(items) - Len(buttons) + n /\ Len(items) \in Nat
        BY <1>0, <2>1
      <3>2. CASE n = l
        <4>1. Len(q) - l + n = Len(items) + 1
          BY <3>1, <3>2, <1>0
        <4> QED BY <2>1, <2>2, <2>3, <3>2, <4>1
      <3>3. CASE n # l
        <4>1. n \in 1..Len(buttons) /\ Len(items) - Len(buttons) + n \in 1..Len(items)
          BY <3>3, <1>0, <3>1
        <4>2. bs[n] = buttons[n] /\ buttons[n].id = items[Len(items) - Len(buttons) + n]
          BY <1>0, <2>3, <4>1
        <4>3. q[Len(items) - Len(buttons) + n] = items[Len(items) - Len(buttons) + n]
          BY <2>1, <4>1
        <4> QED BY <3>1, <4>2, <4>3
      <3> QED BY <3>2, <3>3
    <2>5. l \in Nat /\ l <= Len(q)
      BY <1>0, <2>1
    <2> HIDE DEF l
    <2>6. Styled(bs, activeItem) \in Seq(ButtonRecord) /\ Shows(Styled(bs, activeItem), q, activeItem)
      BY <2>1, <2>3, <2>4, <2>5, StyledShows
    <2>7. items' = q /\ buttons' = Styled(bs, activeItem) /\ activeItem' = activeItem
      BY <1>3 DEF AddItem, q, bs
    <2> QED BY <2>1, <2>6, <2>7 DEF BarInv
  <1>4. ASSUME NEW i \in Items, RemoveItem(i) PROVE BarInv'
    <2> DEFINE left == RemoveOne(items, i)
               q == left \o left
               bs == [m \in DOMAIN left |-> ButtonOf(left[m])]
               l == Len(left)
    <2>1. left \in Seq(Items)
      BY <1>0, RemoveOneIs
    <2> HIDE DEF left
    <2>2. q \in Seq(Items) /\ Len(q) = l + l /\ l \in Nat /\ \A n \in 1..l : q[l + n] = left[n]
      BY <2>1
    <2>3. \A n \in 1..l : bs[n].id = left[n]
      BY <2>1 DEF ButtonOf
    <2>4. DOMAIN bs = 1..l
      BY <2>1
    <2> HIDE DEF q, bs, l
    <2>5. \A n \in 1..l : bs[n].id = q[Len(q) - l + n]
      BY <2>2, <2>3
    <2>6. l <= Len(q)
      BY <2>2
    <2>7. Styled(bs, activeItem) \in Seq(ButtonRecord) /\ Shows(Styled(bs, activeItem), q, activeItem)
      BY <2>2, <2>4, <2>5, <2>6, StyledShows
    <2>8. CASE items' = q /\ buttons' = Styled(bs, activeItem) /\ activeItem' = activeItem
      BY <2>2, <2>7, <2>8 DEF BarInv
    <2>9. CASE items' = <<>> /\ buttons' = <<>>
      <3>1. <<>> \in Seq(Items) /\ <<>> \in Seq(ButtonRecord) /\ Len(<<>>) = 0
        OBVIOUS
      <3> QED BY <2>9, <3>1 DEF BarInv, Shows
    <2> QED BY <1>4, <2>8, <2>9 DEF RemoveItem, q, bs, left
  <1>5. ASSUME NEW i \in Items, SetActiveItem(i) PROVE BarInv'
    <2>1. items' = items /\ activeItem' = i /\ buttons' = Styled(buttons, i)
      BY <1>5 DEF SetActiveItem
    <2>2. Styled(buttons, i) \in Seq(ButtonRecord) /\ Shows(Styled(buttons, i), items, i)
      BY <1>0, StyledShows
    <2> QED BY <1>0, <2>1, <2>2 DEF BarInv
  <1> QED BY <1>1, <1>2, <1>3, <1>4, <1>5 DEF BarNext

(* The property follows.                                                   *)
LEMMA BarShows == BarInv => BarShowsActive
  <1> SUFFICES ASSUME BarInv PROVE BarShowsActive
    OBVIOUS
  <1>1. buttons \in Seq(ButtonRecord) /\ DOMAIN buttons = 1..Len(buttons)
    BY DEF BarInv
  <1>2. Shows(buttons, items, activeItem)
    BY DEF BarInv
  <1> QED BY <1>1, <1>2 DEF Shows, BarShowsActive

-----------------------------------------------------------------------------
(* The toasts.  The manager's layout is a list of those on the screen.     *)
ToastRecord ==
    [stays : BOOLEAN, is : {"made", "shown", "closing", "gone"}, armed : BOOLEAN, timed : BOOLEAN]
OnScreen(r) == r.is \in {"shown", "closing"}
OnShelf(ts) == {t \in 1..Len(ts) : OnScreen(ts[t])}
Timed(r) == r.is \in {"made", "shown"} => (r.armed <=> r.timed)
ToastInv ==
    /\ toasts \in Seq(ToastRecord) /\ IsListOf(shelf, OnShelf(toasts))
    /\ \A t \in 1..Len(toasts) : Timed(toasts[t])

(* show() arms the timer of a toast with a duration.                       *)
LEMMA ShownIs ==
    ASSUME NEW n \in ToastRecord, n.is \in {"made", "shown"}, Timed(n)
    PROVE  Shown(n) \in ToastRecord /\ Timed(Shown(n)) /\ OnScreen(Shown(n))
  <1> DEFINE a == n.armed \/ ~ n.stays
             d == n.timed \/ ~ n.stays
             r == [stays |-> n.stays, is |-> "shown", armed |-> a, timed |-> d]
  <1>1. n.stays \in BOOLEAN /\ n.armed \in BOOLEAN /\ n.timed \in BOOLEAN
    BY DEF ToastRecord
  <1>2. a \in BOOLEAN /\ d \in BOOLEAN /\ (a <=> d)
    BY <1>1, Zenon DEF Timed
  <1>3. Shown(n) = r
    BY Zenon DEF Shown
  <1> HIDE DEF a, d
  <1>4. r \in ToastRecord
    BY <1>1, <1>2 DEF ToastRecord
  <1>5. Timed(r) /\ OnScreen(r)
    BY <1>2 DEF Timed, OnScreen
  <1> HIDE DEF r
  <1> QED BY <1>3, <1>4, <1>5

(* One toast changes. *)
LEMMA OneToast ==
    ASSUME ToastInv, NEW t \in 1..Len(toasts), NEW r \in ToastRecord, Timed(r), toasts' = [toasts EXCEPT ![t] = r]
    PROVE  /\ toasts' \in Seq(ToastRecord) /\ \A u \in 1..Len(toasts') : Timed(toasts'[u])
           /\ OnScreen(r) => OnShelf(toasts') = OnShelf(toasts) \cup {t}
           /\ ~ OnScreen(r) => OnShelf(toasts') = OnShelf(toasts) \ {t}
  <1> DEFINE s == toasts'
  <1>1. toasts \in Seq(ToastRecord) /\ Len(toasts) \in Nat /\ \A u \in 1..Len(toasts) : Timed(toasts[u])
    BY DEF ToastInv
  <1>2. /\ s \in Seq(ToastRecord) /\ Len(s) = Len(toasts) /\ s[t] = r
        /\ \A u \in 1..Len(toasts) : u # t => s[u] = toasts[u]
    BY <1>1
  <1> HIDE DEF s
  <1>3. \A u \in 1..Len(s) : Timed(s[u])
    BY <1>1, <1>2
  <1>4. OnScreen(r) => OnShelf(s) = OnShelf(toasts) \cup {t}
    BY <1>2 DEF OnShelf
  <1>5. ~ OnScreen(r) => OnShelf(s) = OnShelf(toasts) \ {t}
    BY <1>2 DEF OnShelf
  <1> QED BY <1>2, <1>3, <1>4, <1>5 DEF s

(* A toast leaves the layout, or goes to its end.                          *)
LEMMA Shelved ==
    ASSUME NEW s, NEW D, IsListOf(s, D), NEW t
    PROVE  /\ IsListOf(Only(s, Range(s) \ {t}), D \ {t})
           /\ IsListOf(Append(Only(s, Range(s) \ {t}), t), D \cup {t})
  <1>1. Range(s) = D
    BY DEF IsListOf
  <1> QED BY <1>1, WithoutLists

(* No toasts.                                                              *)
LEMMA ToastsStart == ToastInit => ToastInv
  <1> SUFFICES ASSUME ToastInit PROVE ToastInv
    OBVIOUS
  <1>1. toasts = <<>> /\ shelf = <<>>
    BY DEF ToastInit
  <1>2. <<>> \in Seq(ToastRecord) /\ Len(<<>>) = 0
    OBVIOUS
  <1>3. OnShelf(<<>>) = {}
    BY DEF OnShelf
  <1>4. \A t \in 1..Len(<<>>) : FALSE
    BY <1>2
  <1>5. IsListOf(shelf, OnShelf(toasts))
    BY <1>1, <1>3, NothingListed
  <1>6. \A t \in 1..Len(toasts) : Timed(toasts[t])
    BY <1>1, <1>4
  <1> QED BY <1>1, <1>2, <1>5, <1>6 DEF ToastInv

(* Every step of a toast keeps it.                                         *)
LEMMA ToastsStay == ToastInv /\ [ToastNext]_toastVars => ToastInv'
  <1> SUFFICES ASSUME ToastInv, [ToastNext]_toastVars PROVE ToastInv'
    OBVIOUS
  <1>0. /\ toasts \in Seq(ToastRecord) /\ IsListOf(shelf, OnShelf(toasts))
        /\ \A t \in 1..Len(toasts) : Timed(toasts[t])
        /\ Len(toasts) \in Nat /\ DOMAIN toasts = 1..Len(toasts)
        /\ \A t \in 1..Len(toasts) : toasts[t] \in ToastRecord
    BY DEF ToastInv
  <1>1. CASE UNCHANGED toastVars
    BY <1>1 DEF toastVars, ToastInv, OnShelf, OnScreen, Timed
  <1>2. ASSUME NEW stays \in BOOLEAN, Notify(stays) PROVE ToastInv'
    <2> DEFINE r == Shown(Made(stays))
               s == Append(toasts, r)
               t == Len(toasts) + 1
    <2>1. Made(stays) \in ToastRecord /\ Made(stays).is = "made" /\ Timed(Made(stays))
      BY DEF Made, ToastRecord, Timed
    <2>2. r \in ToastRecord /\ Timed(r) /\ OnScreen(r)
      BY <2>1, ShownIs
    <2> HIDE DEF r
    <2>3. /\ s \in Seq(ToastRecord) /\ Len(s) = t /\ s[t] = r
          /\ \A u \in 1..Len(toasts) : s[u] = toasts[u]
      BY <1>0, <2>2
    <2> HIDE DEF s
    <2>4. \A u \in 1..t : u = t \/ u \in 1..Len(toasts)
      BY <1>0
    <2>5. \A u \in 1..Len(s) : Timed(s[u])
      BY <1>0, <2>2, <2>3, <2>4
    <2>6. OnShelf(s) = OnShelf(toasts) \cup {t}
      <3>1. \A u \in 1..Len(toasts) : u \in 1..t
        BY <1>0
      <3>2. t \in 1..t
        BY <1>0
      <3> HIDE DEF t
      <3> QED BY <2>2, <2>3, <2>4, <3>1, <3>2 DEF OnShelf
    <2>7. toasts' = s /\ shelf' = Append(Only(shelf, Range(shelf) \ {t}), t)
      BY <1>2 DEF Notify, AddToast, s, r
    <2> HIDE DEF t
    <2>8. IsListOf(shelf', OnShelf(s))
      <3>1. IsListOf(Append(Only(shelf, Range(shelf) \ {t}), t), OnShelf(toasts) \cup {t})
        BY <1>0, Shelved
      <3> QED BY <2>6, <2>7, <3>1, Zenon
    <2> QED BY <2>3, <2>5, <2>7, <2>8 DEF ToastInv
  <1>3. ASSUME NEW t \in DOMAIN toasts, ShowAgain(t) PROVE ToastInv'
    <2> DEFINE r == Shown(toasts[t])
    <2>1. r \in ToastRecord /\ Timed(r) /\ OnScreen(r)
      BY <1>0, <1>3, ShownIs DEF ShowAgain
    <2>2. toasts' = [toasts EXCEPT ![t] = r] /\ shelf' = Append(Only(shelf, Range(shelf) \ {t}), t)
      BY <1>3 DEF ShowAgain, AddToast
    <2> HIDE DEF r
    <2>3. /\ toasts' \in Seq(ToastRecord) /\ \A u \in 1..Len(toasts') : Timed(toasts'[u])
          /\ OnShelf(toasts') = OnShelf(toasts) \cup {t}
      BY <1>0, <2>1, <2>2, OneToast
    <2>4. IsListOf(shelf', OnShelf(toasts'))
      <3>1. IsListOf(Append(Only(shelf, Range(shelf) \ {t}), t), OnShelf(toasts) \cup {t})
        BY <1>0, Shelved
      <3> QED BY <2>2, <2>3, <3>1, Zenon
    <2> QED BY <2>3, <2>4 DEF ToastInv, OnShelf, OnScreen, Timed
  <1>a. ASSUME NEW t \in 1..Len(toasts), toasts[t].is = "shown", NEW r \in ToastRecord, Timed(r), OnScreen(r),
               toasts' = [toasts EXCEPT ![t] = r], shelf' = shelf
        PROVE  ToastInv'
    <2>1. t \in OnShelf(toasts)
      BY <1>a DEF OnShelf, OnScreen
    <2>2. /\ toasts' \in Seq(ToastRecord) /\ \A u \in 1..Len(toasts') : Timed(toasts'[u])
          /\ OnShelf(toasts') = OnShelf(toasts) \cup {t}
      BY <1>a, OneToast
    <2>3. OnShelf(toasts') = OnShelf(toasts)
      BY <2>1, <2>2
    <2>4. IsListOf(shelf', OnShelf(toasts'))
      BY <1>0, <1>a, <2>3
    <2> QED BY <2>2, <2>4 DEF ToastInv, OnShelf, OnScreen, Timed
  <1>4. ASSUME NEW t \in DOMAIN toasts, CloseToast(t) PROVE ToastInv'
    <2> DEFINE n == toasts[t]
               m == [n EXCEPT !.is = "closing"]
               r == [m EXCEPT !.armed = FALSE]
    <2>1. n \in ToastRecord /\ n.is = "shown"
      BY <1>0, <1>4 DEF CloseToast
    <2>2. toasts' = [toasts EXCEPT ![t] = r] /\ shelf' = shelf
      BY <1>0, <1>4 DEF CloseToast
    <2>3. m \in ToastRecord /\ m.is = "closing"
      <3> HIDE DEF n
      <3> QED BY <2>1 DEF ToastRecord
    <2> HIDE DEF m
    <2>4. r \in ToastRecord /\ r.is = "closing"
      BY <2>3 DEF ToastRecord
    <2> HIDE DEF r
    <2>5. Timed(r) /\ OnScreen(r)
      BY <2>4 DEF Timed, OnScreen
    <2> QED BY <1>0, <1>a, <2>1, <2>2, <2>4, <2>5
  <1>6. ASSUME NEW t \in DOMAIN toasts, NEW stays \in BOOLEAN, SetDuration(t, stays) PROVE ToastInv'
    <2> DEFINE n == toasts[t]
               r == [n EXCEPT !.stays = stays]
    <2>1. n \in ToastRecord /\ n.is = "shown" /\ Timed(n)
      BY <1>0, <1>6 DEF SetDuration
    <2>2. toasts' = [toasts EXCEPT ![t] = r] /\ shelf' = shelf
      BY <1>0, <1>6 DEF SetDuration
    <2>3. r \in ToastRecord /\ r.is = n.is /\ r.armed = n.armed /\ r.timed = n.timed
      <3> HIDE DEF n
      <3> QED BY <2>1 DEF ToastRecord
    <2> HIDE DEF r
    <2>4. Timed(r) /\ OnScreen(r)
      BY <2>1, <2>3 DEF Timed, OnScreen
    <2> QED BY <1>0, <1>a, <2>1, <2>2, <2>3, <2>4
  <1>5. ASSUME NEW t \in DOMAIN toasts, DeleteToast(t) PROVE ToastInv'
    <2> DEFINE r == [toasts[t] EXCEPT !.is = "gone"]
    <2>1. r \in ToastRecord /\ r.is = "gone"
      BY <1>0 DEF ToastRecord
    <2>2. toasts' = [toasts EXCEPT ![t] = r] /\ shelf' = Only(shelf, Range(shelf) \ {t})
      BY <1>0, <1>5 DEF DeleteToast
    <2> HIDE DEF r
    <2>3. Timed(r) /\ ~ OnScreen(r)
      BY <2>1 DEF Timed, OnScreen
    <2>4. /\ toasts' \in Seq(ToastRecord) /\ \A u \in 1..Len(toasts') : Timed(toasts'[u])
          /\ OnShelf(toasts') = OnShelf(toasts) \ {t}
      BY <1>0, <2>1, <2>2, <2>3, OneToast
    <2>5. IsListOf(shelf', OnShelf(toasts'))
      <3>1. IsListOf(Only(shelf, Range(shelf) \ {t}), OnShelf(toasts) \ {t})
        BY <1>0, Shelved
      <3> QED BY <2>2, <2>4, <3>1, Zenon
    <2> QED BY <2>4, <2>5 DEF ToastInv, OnShelf, OnScreen, Timed
  <1> QED BY <1>1, <1>2, <1>3, <1>4, <1>5, <1>6 DEF ToastNext

(* The property follows.                                                   *)
LEMMA ToastsTimed == ToastInv => ToastsAreTimed
  <1> SUFFICES ASSUME ToastInv PROVE ToastsAreTimed
    OBVIOUS
  <1>1. /\ toasts \in Seq(ToastRecord) /\ DOMAIN toasts = 1..Len(toasts)
        /\ IsInjective(shelf) /\ Range(shelf) = OnShelf(toasts)
    BY DEF ToastInv, IsListOf
  <1>2. ToSet(shelf) = Range(shelf)
    BY DEF ToSet, Range
  <1>3. \A t \in DOMAIN toasts : t \in ToSet(shelf) <=> toasts[t].is \in {"shown", "closing"}
    BY <1>1, <1>2 DEF OnShelf, OnScreen
  <1>4. \A t \in DOMAIN toasts : toasts[t].is = "shown" => (toasts[t].armed <=> toasts[t].timed)
    BY <1>1 DEF ToastInv, Timed
  <1> QED BY <1>1, <1>3, <1>4 DEF ToastsAreTimed

-----------------------------------------------------------------------------
(* The parts of the screen side by side.                                   *)
ScreenInv ==
    /\ EffectInv /\ CardInv /\ ThemeInv /\ NavigationInv /\ ViewInv
    /\ BarInv /\ ToastInv /\ KnobInv

LEMMA ScreenStarts == RuntimeInit => ScreenInv
  <1> SUFFICES ASSUME RuntimeInit PROVE ScreenInv
    OBVIOUS
  <1>1. MotionInit /\ UiInit /\ ControlsInit
    BY DEF RuntimeInit
  <1>2. ThemeInit /\ NavigationInit /\ ModelInit
    BY <1>1 DEF UiInit
  <1>3. BarInit /\ ToastInit /\ KnobInit
    BY <1>1 DEF ControlsInit
  <1> QED BY <1>1, <1>2, <1>3, EffectStarts, CardStarts, ThemeStarts, NavigationStarts, ViewStarts,
             BarStarts, ToastsStart, KnobStarts
          DEF ScreenInv

(* A step of the whole is a step of at most one part of the screen.        *)
LEMMA ScreenParts ==
    ASSUME [RuntimeNext]_runtimeVars
    PROVE  /\ [MotionNext]_motionVars
           /\ [ThemeNext]_themeVars /\ [NavigationNext]_navigationVars /\ [ModelNext]_modelVars
           /\ [BarNext]_barVars /\ [ToastNext]_toastVars /\ [KnobNext]_knob
  <1>1. ScreenStep \/ UNCHANGED screenVars
    BY DEF RuntimeNext, runtimeVars
  <1>2. CASE UNCHANGED screenVars
    <2>1. UNCHANGED <<motionVars, uiVars, controlsVars>>
      BY <1>2 DEF screenVars
    <2> QED BY <2>1 DEF uiVars, controlsVars
  <1>3. CASE ScreenStep
    <2>1. CASE subject = "motion" /\ MotionNext /\ UNCHANGED <<uiVars, controlsVars>>
      BY <2>1 DEF uiVars, controlsVars
    <2>2. CASE /\ UNCHANGED <<motionVars, controlsVars>>
               /\ \/ subject = "theme" /\ ThemeNext /\ UNCHANGED <<navigationVars, modelVars>>
                  \/ subject = "navigation" /\ NavigationNext /\ UNCHANGED <<themeVars, modelVars>>
                  \/ subject = "model" /\ ModelNext /\ UNCHANGED <<themeVars, navigationVars>>
      BY <2>2 DEF controlsVars
    <2>3. CASE /\ UNCHANGED <<motionVars, uiVars>>
               /\ \/ subject = "bar" /\ BarNext /\ UNCHANGED <<toastVars, knob>>
                  \/ subject = "toast" /\ ToastNext /\ UNCHANGED <<barVars, knob>>
                  \/ subject = "knob" /\ KnobNext /\ UNCHANGED <<barVars, toastVars>>
      BY <2>3 DEF uiVars
    <2> QED BY <1>3, <2>1, <2>2, <2>3 DEF ScreenStep
  <1> QED BY <1>1, <1>2, <1>3

(***************************************************************************)
(* Whatever is entered, left, faded, pushed, replaced, set, shown, clicked *)
(* or dragged before the last animation, signal or timer came: a card      *)
(* comes home; an effect ends as the last call wanted, unless a glow cut   *)
(* off a fade-out; the widgets follow the theme; a page never lacks its    *)
(* title, and the titles are those of the pages until a page is pushed     *)
(* twice or replaced under another or the root widget changes; the view    *)
(* shows the last value, and the loading flag if no two calls of           *)
(* setLoading() overlapped; the bar lights the active item, toasts are     *)
(* listed once and timed, and a knob stops where it is wanted.             *)
(***************************************************************************)
THEOREM ScreenCorrect == RuntimeSpec => []ScreenSound
  <1>1. RuntimeInit => ScreenInv
    BY ScreenStarts
  <1>2. ScreenInv /\ [RuntimeNext]_runtimeVars => ScreenInv'
    <2> SUFFICES ASSUME ScreenInv, [RuntimeNext]_runtimeVars PROVE ScreenInv'
      OBVIOUS
    <2>1. /\ [MotionNext]_motionVars
          /\ [ThemeNext]_themeVars /\ [NavigationNext]_navigationVars /\ [ModelNext]_modelVars
          /\ [BarNext]_barVars /\ [ToastNext]_toastVars /\ [KnobNext]_knob
      BY ScreenParts
    <2>2. EffectInv /\ CardInv /\ ThemeInv /\ NavigationInv /\ ViewInv /\ BarInv /\ ToastInv /\ KnobInv
      BY DEF ScreenInv
    <2>3. EffectInv' /\ CardInv'
      BY <2>1, <2>2, EffectStays, CardStays
    <2>4. ThemeInv' /\ NavigationInv' /\ ViewInv'
      BY <2>1, <2>2, ThemeStays, NavigationStays, ViewStays
    <2>5. BarInv' /\ ToastInv' /\ KnobInv'
      BY <2>1, <2>2, BarStays, ToastsStay, KnobStays
    <2> QED BY <2>3, <2>4, <2>5 DEF ScreenInv
  <1>3. ScreenInv => ScreenSound
    <2> SUFFICES ASSUME ScreenInv PROVE ScreenSound
      OBVIOUS
    <2>1. EffectInv /\ CardInv /\ ThemeInv /\ NavigationInv /\ ViewInv /\ BarInv /\ ToastInv /\ KnobInv
      BY DEF ScreenInv
    <2>2. MotionSound
      BY <2>1, EffectSettles, CardIsHome DEF MotionSound
    <2>3. UiSound
      BY <2>1, NavigationMatches, ViewCatches DEF UiSound, ThemeInv
    <2>4. ControlsSound
      BY <2>1, BarShows, ToastsTimed DEF ControlsSound, KnobInv
    <2> QED BY <2>2, <2>3, <2>4 DEF ScreenSound
  <1> QED BY <1>1, <1>2, <1>3, PTL DEF RuntimeSpec

-----------------------------------------------------------------------------
USE DEF WorkerPc, ClientPc, Priority, poolVars, workVars, callVars

ActiveSet == {w \in Workers : wpc[w] = "active"}

(* The inductive form of type correctness: m_activeCount stays a natural   *)
(* number because it counts the workers inside a task.                     *)
TypeInv == TypeOK /\ TaskCarried /\ ActiveCountExact

(* The set of workers inside a task is finite, so its size is a number.    *)
LEMMA ActiveFinite == IsFiniteSet(ActiveSet) /\ Cardinality(ActiveSet) \in Nat
  BY WorkersAssumption, FS_Subset, FS_CardinalityType DEF ActiveSet

(* A step that moves no worker into or out of a task keeps the count.      *)
LEMMA CountKept ==
    ASSUME ActiveCountExact, active' = active,
           \A w \in Workers : wpc'[w] = "active" <=> wpc[w] = "active"
    PROVE  ActiveCountExact'
  BY DEF ActiveCountExact

LEMMA TypeInvInit == Init => TypeInv
  <1> SUFFICES ASSUME Init PROVE TypeInv
    OBVIOUS
  <1>1. TypeOK
    <2>1. queue \in [Priority -> Seq(Tasks)]
      BY DEF Init
    <2> QED BY <2>1 DEF Init, TypeOK
  <1>2. TaskCarried
    BY DEF Init, TaskCarried
  <1>3. ActiveSet = {}
    BY DEF Init, ActiveSet
  <1>4. ActiveCountExact
    BY <1>3, FS_EmptySet DEF Init, ActiveCountExact, ActiveSet
  <1> QED BY <1>1, <1>2, <1>4 DEF TypeInv

(* start() and the setters *)
LEMMA TypeInvStart ==
    ASSUME TypeInv, NEW c \in Clients,
           \/ \E t \in Tasks, p \in Priority : Start(c, t, p)
           \/ StartCheck(c) \/ StartNative(c) \/ StartPush(c) \/ StartNotify(c)
           \/ Configure(c)
    PROVE  TypeInv'
  <1> USE NoneAssumption DEF TypeInv, TypeOK, TaskCarried, Goto
  <1>1. CASE \E t \in Tasks, p \in Priority : Start(c, t, p)
    BY <1>1, CountKept DEF Start
  <1>2. CASE StartCheck(c)
    BY <1>2, CountKept DEF StartCheck
  <1>3. CASE StartNative(c)
    BY <1>3, CountKept DEF StartNative, EnsurePool, FreePools
  <1>4. CASE StartPush(c)
    <2>1. cprio[c] \in Priority /\ ctask[c] \in Tasks
      BY <1>4 DEF StartPush
    <2>2. Append(queue[cprio[c]], ctask[c]) \in Seq(Tasks)
      BY <2>1
    <2>3. queue' \in [Priority -> Seq(Tasks)]
      BY <1>4, <2>2 DEF StartPush
    <2> QED BY <1>4, <2>3, CountKept DEF StartPush
  <1>5. CASE StartNotify(c)
    <2>1. CASE Waiting = {} /\ UNCHANGED wpc
      BY <1>5, <2>1, CountKept DEF StartNotify
    <2>2. ASSUME NEW w \in Waiting, wpc' = [wpc EXCEPT ![w] = "dequeue"]
          PROVE  TypeInv'
      BY <1>5, <2>2, CountKept DEF StartNotify, Waiting
    <2> QED BY <1>5, <2>1, <2>2 DEF StartNotify
  <1>6. CASE Configure(c)
    BY <1>6, CountKept DEF Configure, EnsurePool, FreePools
  <1> QED BY <1>1, <1>2, <1>3, <1>4, <1>5, <1>6

(* init() and shutdown() *)
LEMMA TypeInvOwner ==
    ASSUME TypeInv, NEW c \in Clients,
           \/ InitPool(c) \/ InitRun(c) \/ InitSpawn(c)
           \/ Shutdown(c) \/ ShutdownNotify(c) \/ ShutdownTake(c)
           \/ ShutdownJoin(c) \/ ShutdownPool(c) \/ ShutdownDrain(c)
    PROVE  TypeInv'
  <1> USE NoneAssumption DEF TypeInv, TypeOK, TaskCarried, Goto
  <1>1. CASE InitPool(c)
    BY <1>1, CountKept DEF InitPool, FreePools
  <1>2. CASE InitRun(c)
    BY <1>2, CountKept DEF InitRun
  <1>3. CASE InitSpawn(c)
    BY <1>3, CountKept DEF InitSpawn
  <1>4. CASE Shutdown(c)
    BY <1>4, CountKept DEF Shutdown
  <1>5. CASE ShutdownNotify(c)
    BY <1>5, CountKept DEF ShutdownNotify, Waiting
  <1>6. CASE ShutdownTake(c)
    BY <1>6, CountKept DEF ShutdownTake
  <1>7. CASE ShutdownJoin(c)
    BY <1>7, CountKept DEF ShutdownJoin
  <1>8. CASE ShutdownPool(c)
    <2>1. CASE ~initialized \/ nativePool = None
      <3>1. UNCHANGED <<poolVars, workVars, ctask, cprio, cpool, joining>>
        BY <1>8, <2>1 DEF ShutdownPool
      <3>2. cpc' = [cpc EXCEPT ![c] = "idle"] /\ cpc[c] = "sd_pool"
        BY <1>8, <2>1 DEF ShutdownPool
      <3> QED BY <3>1, <3>2, CountKept
    <2>2. CASE initialized /\ nativePool # None
      <3>1. /\ UNCHANGED <<nativeTasks, workVars, ctask, cprio, joining>>
            /\ initialized' = FALSE /\ nativePool' = None
        BY <1>8, <2>2 DEF ShutdownPool
      <3>2. /\ cpc[c] = "sd_pool"
            /\ cpc' = [cpc EXCEPT ![c] = "sd_drain"]
            /\ cpool' = [cpool EXCEPT ![c] = nativePool]
        BY <1>8, <2>2 DEF ShutdownPool
      <3> QED BY <3>1, <3>2, CountKept
    <2> QED BY <2>1, <2>2
  <1>9. CASE ShutdownDrain(c)
    BY <1>9, CountKept DEF ShutdownDrain
  <1> QED BY <1>1, <1>2, <1>3, <1>4, <1>5, <1>6, <1>7, <1>8, <1>9

(* waitForDone() *)
LEMMA TypeInvWait ==
    ASSUME TypeInv, NEW c \in Clients,
           \/ WaitForDone(c) \/ WaitCheck(c) \/ WaitDone(c)
           \/ WaitTimeout(c) \/ WaitPool(c) \/ WaitDrain(c)
    PROVE  TypeInv'
  <1>1. /\ UNCHANGED <<poolVars, workVars, ctask, cprio, joining>>
        /\ \E pc \in {"idle", "wd_check", "wd_poll", "wd_pool", "wd_drain"} :
              cpc' = [cpc EXCEPT ![c] = pc]
    BY DEF Goto, WaitForDone, WaitCheck, WaitDone, WaitTimeout, WaitPool, WaitDrain
  <1>2. cpool' \in [Clients -> Pools \cup {None}]
    BY DEF TypeInv, TypeOK, Goto, WaitForDone, WaitCheck, WaitDone, WaitTimeout,
           WaitPool, WaitDrain
  <1>3. PICK pc \in {"idle", "wd_check", "wd_poll", "wd_pool", "wd_drain"} :
            cpc' = [cpc EXCEPT ![c] = pc]
    BY <1>1
  <1>4. cpc' \in [Clients -> ClientPc]
    BY <1>3 DEF TypeInv, TypeOK, ClientPc
  <1>5. TypeOK'
    BY <1>1, <1>2, <1>4 DEF TypeInv, TypeOK
  <1>6. TaskCarried'
    BY <1>1, <1>3 DEF TypeInv, TypeOK, TaskCarried
  <1>7. ActiveCountExact'
    BY <1>1, CountKept DEF TypeInv
  <1> QED BY <1>5, <1>6, <1>7 DEF TypeInv

(* The worker loop; the two steps that move the count are RunTask and      *)
(* FinishTask.                                                             *)
LEMMA TypeInvWorker ==
    ASSUME TypeInv, NEW w \in Workers, WorkerStep(w) \/ SpuriousWakeup(w)
    PROVE  TypeInv'
  <1> USE NoneAssumption DEF TypeInv, TypeOK, TaskCarried, WorkerGoto
  <1>1. CASE LoopCheck(w)
    BY <1>1, CountKept DEF LoopCheck
  <1>2. CASE DequeueStopped(w)
    BY <1>2, CountKept DEF DequeueStopped
  <1>3. CASE DequeueTask(w)
    <2>1. Served \in Priority /\ queue[Served] # <<>>
      BY <1>3 DEF DequeueTask, Served, QueuesEmpty
    <2>2. Head(queue[Served]) \in Tasks /\ Tail(queue[Served]) \in Seq(Tasks)
      BY <2>1
    <2> QED BY <1>3, <2>1, <2>2, CountKept DEF DequeueTask
  <1>4. CASE DequeueEmpty(w)
    BY <1>4, CountKept DEF DequeueEmpty
  <1>5. CASE Block(w)
    BY <1>5, CountKept DEF Block
  <1>6. CASE SpuriousWakeup(w)
    BY <1>6, CountKept DEF SpuriousWakeup
  <1>7. CASE RunTask(w)
    <2>1. ActiveSet' = ActiveSet \cup {w} /\ w \notin ActiveSet
      BY <1>7 DEF RunTask, ActiveSet
    <2>2. Cardinality(ActiveSet') = Cardinality(ActiveSet) + 1
      BY <2>1, ActiveFinite, FS_AddElement
    <2>3. ActiveCountExact'
      BY <1>7, <2>2 DEF RunTask, ActiveCountExact, ActiveSet
    <2> QED BY <1>7, <2>3 DEF RunTask
  <1>8. CASE FinishTask(w)
    <2>1. ActiveSet' = ActiveSet \ {w} /\ w \in ActiveSet
      BY <1>8 DEF FinishTask, ActiveSet
    <2>2. /\ Cardinality(ActiveSet') = Cardinality(ActiveSet) - 1
          /\ Cardinality(ActiveSet) # 0
      BY <2>1, ActiveFinite, FS_RemoveElement, FS_EmptySet
    <2>3. active = Cardinality(ActiveSet)
      BY DEF ActiveCountExact, ActiveSet
    <2>4. ActiveCountExact' /\ active' \in Nat
      BY <1>8, <2>2, <2>3, ActiveFinite DEF FinishTask, ActiveCountExact, ActiveSet
    <2> QED BY <1>8, <2>4 DEF FinishTask
  <1> QED BY <1>1, <1>2, <1>3, <1>4, <1>5, <1>6, <1>7, <1>8 DEF WorkerStep

LEMMA TypeInvNext == TypeInv /\ [Next]_vars => TypeInv'
  <1> SUFFICES ASSUME TypeInv, [Next]_vars PROVE TypeInv'
    OBVIOUS
  <1>1. ASSUME NEW c \in Clients, Call(c) \/ CallStep(c) \/ WaitTimeout(c)
        PROVE  TypeInv'
    BY <1>1, TypeInvStart, TypeInvOwner, TypeInvWait DEF Call, CallStep
  <1>2. ASSUME NEW w \in Workers, WorkerStep(w) \/ SpuriousWakeup(w)
        PROVE  TypeInv'
    BY <1>2, TypeInvWorker
  <1>3. ASSUME NEW p \in Pools, NEW t \in Tasks, NativeFinish(p, t)
        PROVE  TypeInv'
    BY <1>3, CountKept DEF NativeFinish, TypeInv, TypeOK, TaskCarried
  <1>4. CASE UNCHANGED vars
    BY <1>4, CountKept DEF vars, TypeInv, TypeOK, TaskCarried
  <1> QED BY <1>1, <1>2, <1>3, <1>4 DEF Next

(* Type correctness of the pool, for any number of threads and tasks.      *)
THEOREM TypeCorrect == Spec => []TypeOK
  <1>1. Spec => []TypeInv
    BY TypeInvInit, TypeInvNext, PTL DEF Spec
  <1> QED BY <1>1, PTL DEF TypeInv

(* m_activeCount is exact: a waitForDone() that reads zero knows that no   *)
(* worker is inside a task.                                                *)
THEOREM ActiveCountCorrect == Spec => []ActiveCountExact
  <1>1. Spec => []TypeInv
    BY TypeInvInit, TypeInvNext, PTL DEF Spec
  <1> QED BY <1>1, PTL DEF TypeInv
-----------------------------------------------------------------------------
(* The phases of init() and shutdown(), and the mutex                      *)

LEMMA PhaseInit == Init => LifecycleInv /\ MutexInv
  BY NoneAssumption, OwnerAssumption DEF Init, LifecycleInv, MutexInv, OwnerPc, QueuesEmpty

(* start(), waitForDone() and the setters start and end outside the phases *)
(* of the owner; they may only raise m_initialized and fill the queues.    *)
LEMMA PhaseCaller ==
    ASSUME TypeInv, LifecycleInv, MutexInv, NEW c \in Clients,
           \/ \E t \in Tasks, p \in Priority : Start(c, t, p)
           \/ StartCheck(c) \/ StartNative(c) \/ StartPush(c) \/ StartNotify(c)
           \/ Configure(c)
           \/ WaitForDone(c) \/ WaitCheck(c) \/ WaitDone(c)
           \/ WaitTimeout(c) \/ WaitPool(c) \/ WaitDrain(c)
    PROVE  LifecycleInv' /\ MutexInv'
  <1> USE NoneAssumption, OwnerAssumption
      DEF TypeInv, TypeOK, LifecycleInv, MutexInv, OwnerPc, Goto, QueuesEmpty
  <1>1. CASE \E t \in Tasks, p \in Priority : Start(c, t, p)
    BY <1>1 DEF Start
  <1>2. CASE StartCheck(c)
    BY <1>2 DEF StartCheck
  <1>3. CASE StartNative(c)
    BY <1>3 DEF StartNative, EnsurePool, FreePools
  <1>4. CASE StartPush(c)
    BY <1>4 DEF StartPush
  <1>5. CASE StartNotify(c)
    <2>1. CASE Waiting = {} /\ UNCHANGED wpc
      BY <1>5, <2>1 DEF StartNotify
    <2>2. ASSUME NEW w \in Waiting, wpc' = [wpc EXCEPT ![w] = "dequeue"]
          PROVE  LifecycleInv' /\ MutexInv'
      BY <1>5, <2>2 DEF StartNotify, Waiting
    <2> QED BY <1>5, <2>1, <2>2 DEF StartNotify
  <1>6. CASE Configure(c)
    BY <1>6 DEF Configure, EnsurePool, FreePools
  <1>7. CASE WaitForDone(c) \/ WaitCheck(c) \/ WaitDone(c)
    BY <1>7 DEF WaitForDone, WaitCheck, WaitDone
  <1>8. CASE WaitTimeout(c) \/ WaitPool(c) \/ WaitDrain(c)
    BY <1>8 DEF WaitTimeout, WaitPool, WaitDrain
  <1> QED BY <1>1, <1>2, <1>3, <1>4, <1>5, <1>6, <1>7, <1>8

LEMMA PhaseOwner ==
    ASSUME TypeInv, LifecycleInv, MutexInv, NEW c \in Clients,
           \/ InitPool(c) \/ InitRun(c) \/ InitSpawn(c)
           \/ Shutdown(c) \/ ShutdownNotify(c) \/ ShutdownTake(c)
           \/ ShutdownJoin(c) \/ ShutdownPool(c) \/ ShutdownDrain(c)
    PROVE  LifecycleInv' /\ MutexInv'
  <1> USE NoneAssumption, OwnerAssumption
      DEF TypeInv, TypeOK, LifecycleInv, MutexInv, OwnerPc, Goto, QueuesEmpty
  <1>1. CASE InitPool(c)
    BY <1>1 DEF InitPool, FreePools
  <1>2. CASE InitRun(c)
    <2>1. c = Owner /\ cpc[c] = "init_run" /\ initialized /\ ~running
      BY <1>2 DEF InitRun
    <2>2. running' = TRUE /\ cpc' = [cpc EXCEPT ![c] = "init_spawn"]
      BY <1>2 DEF InitRun
    <2>3. UNCHANGED <<poolVars, workers, queue, mutex, wpc, joining>>
      BY <1>2 DEF InitRun
    <2>4. cpc'[Owner] = "init_spawn" /\ \A d \in Clients : d # Owner => cpc'[d] = cpc[d]
      BY <2>1, <2>2
    <2>5. workers = {} /\ joining = {}
      BY <2>1
    <2>6. MutexInv'
      BY <2>3
    <2>7. LifecycleInv'
      BY ONLY <2>1, <2>2, <2>3, <2>4, <2>5, LifecycleInv
      DEF LifecycleInv, OwnerPc, poolVars
    <2> QED BY <2>6, <2>7
  <1>3. CASE InitSpawn(c)
    BY <1>3 DEF InitSpawn
  <1>4. CASE Shutdown(c)
    BY <1>4 DEF Shutdown
  <1>5. CASE ShutdownNotify(c)
    BY <1>5 DEF ShutdownNotify, Waiting
  <1>6. CASE ShutdownTake(c)
    BY <1>6 DEF ShutdownTake
  <1>7. CASE ShutdownJoin(c)
    BY <1>7 DEF ShutdownJoin
  <1>8. CASE ShutdownPool(c)
    BY <1>8 DEF ShutdownPool
  <1>9. CASE ShutdownDrain(c)
    BY <1>9 DEF ShutdownDrain
  <1> QED BY <1>1, <1>2, <1>3, <1>4, <1>5, <1>6, <1>7, <1>8, <1>9

LEMMA PhaseWorker ==
    ASSUME TypeInv, LifecycleInv, MutexInv,
           NEW w \in Workers, WorkerStep(w) \/ SpuriousWakeup(w)
    PROVE  LifecycleInv' /\ MutexInv'
  <1> USE NoneAssumption, OwnerAssumption
      DEF TypeInv, TypeOK, LifecycleInv, MutexInv, OwnerPc, WorkerGoto, QueuesEmpty
  <1>1. CASE LoopCheck(w)
    BY <1>1 DEF LoopCheck
  <1>2. CASE DequeueStopped(w)
    BY <1>2 DEF DequeueStopped
  <1>3. CASE DequeueTask(w)
    BY <1>3 DEF DequeueTask
  <1>4. CASE DequeueEmpty(w)
    BY <1>4 DEF DequeueEmpty
  <1>5. CASE Block(w)
    BY <1>5 DEF Block
  <1>6. CASE SpuriousWakeup(w)
    BY <1>6 DEF SpuriousWakeup
  <1>7. CASE RunTask(w)
    BY <1>7 DEF RunTask
  <1>8. CASE FinishTask(w)
    BY <1>8 DEF FinishTask
  <1> QED BY <1>1, <1>2, <1>3, <1>4, <1>5, <1>6, <1>7, <1>8 DEF WorkerStep

LEMMA PhaseNext ==
    TypeInv /\ LifecycleInv /\ MutexInv /\ [Next]_vars => LifecycleInv' /\ MutexInv'
  <1> SUFFICES ASSUME TypeInv, LifecycleInv, MutexInv, [Next]_vars
               PROVE  LifecycleInv' /\ MutexInv'
    OBVIOUS
  <1>1. ASSUME NEW c \in Clients, Call(c) \/ CallStep(c) \/ WaitTimeout(c)
        PROVE  LifecycleInv' /\ MutexInv'
    BY <1>1, PhaseCaller, PhaseOwner DEF Call, CallStep
  <1>2. ASSUME NEW w \in Workers, WorkerStep(w) \/ SpuriousWakeup(w)
        PROVE  LifecycleInv' /\ MutexInv'
    BY <1>2, PhaseWorker
  <1>3. ASSUME NEW p \in Pools, NEW t \in Tasks, NativeFinish(p, t)
        PROVE  LifecycleInv' /\ MutexInv'
    BY <1>3 DEF NativeFinish, LifecycleInv, MutexInv, OwnerPc, QueuesEmpty
  <1>4. CASE UNCHANGED vars
    BY <1>4 DEF vars, LifecycleInv, MutexInv, OwnerPc, QueuesEmpty
  <1> QED BY <1>1, <1>2, <1>3, <1>4 DEF Next

(* The invariant the remaining proofs stand on.                            *)
LEMMA PhasesCorrect == Spec => [](TypeInv /\ LifecycleInv /\ MutexInv)
  BY TypeInvInit, PhaseInit, TypeInvNext, PhaseNext, PTL DEF Spec

(* A shutdown() that has joined leaves no worker behind, for any number of *)
(* workers, callers and rounds of init() and shutdown().                   *)
THEOREM ShutdownLeavesNoWorker == Spec => []NoWorkerOutlivesShutdown
  <1>1. TypeInv /\ LifecycleInv /\ MutexInv => NoWorkerOutlivesShutdown
    BY DEF TypeInv, TypeOK, TaskCarried, LifecycleInv, MutexInv, NoWorkerOutlivesShutdown, OwnerPc
  <1> QED BY <1>1, PhasesCorrect, PTL
-----------------------------------------------------------------------------
(* No wakeup is lost                                                       *)

LEMMA WakeupStep ==
    TypeInv /\ LifecycleInv /\ MutexInv /\ NoLostWakeup /\ [Next]_vars => NoLostWakeup'
  <1> SUFFICES ASSUME TypeInv, LifecycleInv, MutexInv, NoLostWakeup, [Next]_vars
               PROVE  NoLostWakeup'
    OBVIOUS
  <1> USE NoneAssumption, OwnerAssumption
      DEF TypeInv, TypeOK, NoLostWakeup, QueuesEmpty, Live, Goto, WorkerGoto
  (* A push leaves its notify_one() still to come.                         *)
  <1>1. ASSUME NEW c \in Clients, StartPush(c) PROVE NoLostWakeup'
    BY <1>1 DEF StartPush
  (* notify_one() wakes a sleeper, or nobody sleeps.                       *)
  <1>2. ASSUME NEW c \in Clients, StartNotify(c) PROVE NoLostWakeup'
    <2>1. CASE Waiting = {} /\ UNCHANGED wpc
      BY <1>2, <2>1 DEF StartNotify, Waiting
    <2>2. ASSUME NEW w \in Waiting, wpc' = [wpc EXCEPT ![w] = "dequeue"]
          PROVE  NoLostWakeup'
      BY <1>2, <2>2 DEF StartNotify, Waiting
    <2> QED BY <1>2, <2>1, <2>2 DEF StartNotify
  (* m_running is raised when no worker exists, and new workers are awake. *)
  <1>3. ASSUME NEW c \in Clients, InitRun(c) PROVE NoLostWakeup'
    BY <1>3 DEF InitRun, LifecycleInv, OwnerPc
  <1>4. ASSUME NEW c \in Clients, InitSpawn(c) PROVE NoLostWakeup'
    BY <1>4 DEF InitSpawn, LifecycleInv, OwnerPc
  (* shutdown() runs with m_running false.                                 *)
  <1>5. ASSUME NEW c \in Clients, Shutdown(c) PROVE NoLostWakeup'
    BY <1>5 DEF Shutdown
  <1>6. ASSUME NEW c \in Clients,
               \/ ShutdownNotify(c) \/ ShutdownTake(c) \/ ShutdownJoin(c)
               \/ ShutdownPool(c) \/ ShutdownDrain(c)
        PROVE  NoLostWakeup'
    <2>1. ~running /\ running' = running
      BY <1>6 DEF ShutdownNotify, ShutdownTake, ShutdownJoin, ShutdownPool, ShutdownDrain,
                  LifecycleInv, OwnerPc
    <2> QED BY <2>1
  (* The other calls of a client touch neither the workers nor the queues, *)
  (* and none of them is at its notify_one().                              *)
  <1>7. ASSUME NEW c \in Clients,
               \/ \E t \in Tasks, p \in Priority : Start(c, t, p)
               \/ StartCheck(c) \/ StartNative(c) \/ Configure(c) \/ InitPool(c)
               \/ WaitForDone(c) \/ WaitCheck(c) \/ WaitDone(c)
               \/ WaitTimeout(c) \/ WaitPool(c) \/ WaitDrain(c)
        PROVE  NoLostWakeup'
    <2>1. UNCHANGED <<running, queue, wpc>>
      BY <1>7 DEF Start, StartCheck, StartNative, Configure, InitPool, WaitForDone,
                  WaitCheck, WaitDone, WaitTimeout, WaitPool, WaitDrain
    <2>2. \A d \in Clients : cpc[d] = "start_notify" => cpc'[d] = "start_notify"
      BY <1>7 DEF Start, StartCheck, StartNative, Configure, InitPool, WaitForDone,
                  WaitCheck, WaitDone, WaitTimeout, WaitPool, WaitDrain
    <2> QED BY <2>1, <2>2
  (* A worker goes to sleep only with the queues empty.                    *)
  <1>8. ASSUME NEW w \in Workers, DequeueEmpty(w) \/ Block(w) PROVE NoLostWakeup'
    <2>1. CASE DequeueEmpty(w)
      <3>1. QueuesEmpty'
        BY <2>1 DEF DequeueEmpty
      <3> QED BY ONLY <3>1 DEF NoLostWakeup
    <2>2. CASE Block(w)
      <3>1. mutex = w /\ UNCHANGED queue
        BY <2>2 DEF Block, MutexInv
      <3>2. QueuesEmpty'
        BY <3>1 DEF MutexInv
      <3> QED BY ONLY <3>2 DEF NoLostWakeup
    <2> QED BY <1>8, <2>1, <2>2
  <1>9. ASSUME NEW w \in Workers,
               \/ LoopCheck(w) \/ DequeueStopped(w) \/ DequeueTask(w)
               \/ RunTask(w) \/ FinishTask(w) \/ SpuriousWakeup(w)
        PROVE  NoLostWakeup'
    <2>1. w \in Live /\ UNCHANGED cpc /\ UNCHANGED running
      BY <1>9 DEF LoopCheck, DequeueStopped, DequeueTask, RunTask, FinishTask, SpuriousWakeup
    <2>2. \/ wpc'[w] \in {"dequeue", "taken", "active", "loop"}
          \/ ~running
      <3>1. CASE LoopCheck(w)
        BY <3>1 DEF LoopCheck
      <3>2. CASE DequeueStopped(w) \/ DequeueTask(w) \/ SpuriousWakeup(w)
        BY <3>2 DEF DequeueStopped, DequeueTask, SpuriousWakeup
      <3>3. CASE RunTask(w) \/ FinishTask(w)
        BY <3>3 DEF RunTask, FinishTask
      <3> QED BY <1>9, <3>1, <3>2, <3>3
    <2> QED BY <2>1, <2>2
  <1>10. ASSUME NEW p \in Pools, NEW t \in Tasks, NativeFinish(p, t) PROVE NoLostWakeup'
    BY <1>10 DEF NativeFinish
  <1>11. CASE UNCHANGED vars
    BY <1>11 DEF vars
  <1> QED
    BY <1>1, <1>2, <1>3, <1>4, <1>5, <1>6, <1>7, <1>8, <1>9, <1>10, <1>11
    DEF Next, Call, CallStep, WorkerStep

(* While the pool runs and holds a queued task, some worker is awake or    *)
(* will be woken: for any number of workers and submitters, start() loses  *)
(* no wakeup although it notifies after it has released m_queueMutex.      *)
THEOREM WakeupsNotLost == Spec => []NoLostWakeup
  <1>1. Init => NoLostWakeup
    BY DEF Init, NoLostWakeup
  <1> QED BY <1>1, WakeupStep, PhasesCorrect, PTL DEF Spec
-----------------------------------------------------------------------------
(* A task has one owner                                                    *)

(* Nothing that leaves queues and holders alone moves a task.              *)
LEMMA OwnerKept ==
    ASSUME TaskHasOneOwner, UNCHANGED <<queue, ctask, wtask, nativeTasks>>
    PROVE  TaskHasOneOwner'
  <1>1. QueuePlacesDistinct'
    BY DEF TaskHasOneOwner, QueuePlacesDistinct
  <1>2. HoldersDistinct'
    BY DEF TaskHasOneOwner, HoldersDistinct
  <1>3. KindsDisjoint'
    BY DEF TaskHasOneOwner, KindsDisjoint, Queued, InHand, InNative, WithWorker
  <1> QED BY <1>1, <1>2, <1>3 DEF TaskHasOneOwner

(* start(): a closure that is nowhere comes into the hand of one client.   *)
LEMMA OwnerStart ==
    ASSUME TypeOK, TaskHasOneOwner,
           NEW c \in Clients, NEW t \in Tasks, NEW p \in Priority, Start(c, t, p)
    PROVE  TaskHasOneOwner'
  <1> USE NoneAssumption DEF TypeOK, TaskHasOneOwner
  <1>1. ctask' = [ctask EXCEPT ![c] = t] /\ UNCHANGED <<queue, wtask, nativeTasks>>
    BY DEF Start
  <1>2. ~InHand(t) /\ ~Queued(t) /\ ~InNative(t) /\ ~WithWorker(t)
    BY DEF Start, InFlight
  <1>3. QueuePlacesDistinct'
    BY <1>1 DEF QueuePlacesDistinct
  <1>4. HoldersDistinct'
    BY <1>1, <1>2 DEF HoldersDistinct, InHand
  <1>5. \A u \in Tasks : InHand(u)' => InHand(u) \/ u = t
    BY <1>1 DEF InHand
  <1>6. \A u \in Tasks : Queued(u)' = Queued(u) /\ InNative(u)' = InNative(u)
                         /\ WithWorker(u)' = WithWorker(u)
    BY <1>1 DEF Queued, InNative, WithWorker
  <1>7. KindsDisjoint'
    BY <1>2, <1>5, <1>6, Zenon DEF KindsDisjoint
  <1> QED BY <1>3, <1>4, <1>7

(* The fallback of start(): the closure leaves the hand for a QThreadPool. *)
LEMMA OwnerNative ==
    ASSUME TypeOK, TaskCarried, TaskHasOneOwner, NEW c \in Clients, StartNative(c)
    PROVE  TaskHasOneOwner'
  <1> USE NoneAssumption DEF TypeOK, TaskHasOneOwner
  <1> DEFINE t == ctask[c]
  <1>1. t \in Tasks /\ InHand(t)
    BY DEF StartNative, TaskCarried, InHand
  <1>2. PICK r \in Pools : nativeTasks' = [nativeTasks EXCEPT ![r] = @ \cup {t}]
    BY DEF StartNative, EnsurePool, FreePools
  <1>3. ctask' = [ctask EXCEPT ![c] = None] /\ UNCHANGED <<queue, wtask>>
    BY DEF StartNative
  <1>4. ~Queued(t) /\ ~InNative(t) /\ ~WithWorker(t)
    BY <1>1, Zenon DEF KindsDisjoint
  <1>5. QueuePlacesDistinct'
    BY <1>3 DEF QueuePlacesDistinct
  <1>6. HoldersDistinct'
    BY <1>1, <1>2, <1>3, <1>4 DEF HoldersDistinct, InNative
  <1>7. \A u \in Tasks : InHand(u)' => InHand(u) /\ u # t
    BY <1>1, <1>3 DEF InHand, HoldersDistinct
  <1>8. \A u \in Tasks : InNative(u)' => InNative(u) \/ u = t
    BY <1>2 DEF InNative
  <1>9. \A u \in Tasks : Queued(u)' = Queued(u) /\ WithWorker(u)' = WithWorker(u)
    BY <1>3 DEF Queued, WithWorker
  <1> HIDE DEF t
  <1>10. KindsDisjoint'
    BY <1>4, <1>7, <1>8, <1>9, Zenon DEF KindsDisjoint
  <1> QED BY <1>5, <1>6, <1>10

(* Two places of the queues that hold the same task are the same place.    *)
LEMMA PlacesDistinct ==
    ASSUME QueuePlacesDistinct, NEW p \in Priority, NEW q \in Priority,
           NEW i \in 1..Len(queue[p]), NEW j \in 1..Len(queue[q]), queue[p][i] = queue[q][j]
    PROVE  p = q /\ i = j
  BY DEF QueuePlacesDistinct

(* The push of start(): the new last position is the task's only place.    *)
LEMMA OwnerPush ==
    ASSUME TypeOK, TaskCarried, TaskHasOneOwner, NEW c \in Clients, StartPush(c)
    PROVE  TaskHasOneOwner'
  <1> USE NoneAssumption DEF TypeOK, TaskHasOneOwner
  <1> DEFINE t == ctask[c]
             q == cprio[c]
  <1>1. t \in Tasks /\ InHand(t) /\ q \in Priority
    BY DEF StartPush, TaskCarried, InHand
  <1>2. ctask' = [ctask EXCEPT ![c] = None] /\ UNCHANGED <<wtask, nativeTasks>>
    BY DEF StartPush
  <1>3. /\ Len(queue'[q]) = Len(queue[q]) + 1
        /\ queue'[q][Len(queue[q]) + 1] = t
        /\ \A i \in 1..Len(queue[q]) : queue'[q][i] = queue[q][i]
        /\ \A p \in Priority : p # q => queue'[p] = queue[p]
        /\ \A p \in Priority : Len(queue[p]) \in Nat
    BY <1>1 DEF StartPush
  <1>12. \A p \in Priority : \A i \in 1..Len(queue'[p]) :
            p # q \/ i <= Len(queue[p]) => i \in 1..Len(queue[p]) /\ queue'[p][i] = queue[p][i]
    BY ONLY <1>1, <1>3
  <1>4. ~Queued(t) /\ ~InNative(t) /\ ~WithWorker(t)
    BY <1>1, Zenon DEF KindsDisjoint
  <1>5. \A p \in Priority : \A i \in 1..Len(queue[p]) : queue[p][i] # t
    BY <1>4 DEF Queued
  <1>6. HoldersDistinct'
    BY <1>2 DEF HoldersDistinct
  <1>7. \A u \in Tasks : InHand(u)' => InHand(u) /\ u # t
    BY <1>1, <1>2 DEF InHand, HoldersDistinct
  <1> HIDE DEF t, q
  <1>8. QueuePlacesDistinct'
    <2> SUFFICES ASSUME NEW p \in Priority, NEW r \in Priority,
                        NEW i \in 1..Len(queue'[p]), NEW j \in 1..Len(queue'[r]),
                        queue'[p][i] = queue'[r][j]
                 PROVE  p = r /\ i = j
      BY DEF QueuePlacesDistinct
    <2>1. Len(queue[p]) \in Nat /\ Len(queue[r]) \in Nat
      BY <1>3
    <2> HIDE DEF TypeOK, TaskHasOneOwner
    <2>2. p # q \/ i <= Len(queue[p]) => i \in 1..Len(queue[p]) /\ queue'[p][i] = queue[p][i]
      BY <1>12, <2>1
    <2>3. r # q \/ j <= Len(queue[r]) => j \in 1..Len(queue[r]) /\ queue'[r][j] = queue[r][j]
      BY <1>12, <2>1
    <2>4. p = q /\ ~(i <= Len(queue[p])) => i = Len(queue[q]) + 1 /\ queue'[p][i] = t
      BY <1>3, <2>1
    <2>5. r = q /\ ~(j <= Len(queue[r])) => j = Len(queue[q]) + 1 /\ queue'[r][j] = t
      BY <1>3, <2>1
    <2> USE DEF TaskHasOneOwner
    <2>6. CASE (p # q \/ i <= Len(queue[p])) /\ (r # q \/ j <= Len(queue[r]))
      <3>1. /\ i \in 1..Len(queue[p]) /\ j \in 1..Len(queue[r])
            /\ queue[p][i] = queue[r][j] /\ QueuePlacesDistinct
        BY <2>2, <2>3, <2>6
      <3> QED BY <3>1, PlacesDistinct
    <2>7. CASE p = q /\ ~(i <= Len(queue[p])) /\ (r # q \/ j <= Len(queue[r]))
      BY <2>3, <2>4, <2>7, <1>5, Zenon
    <2>8. CASE r = q /\ ~(j <= Len(queue[r])) /\ (p # q \/ i <= Len(queue[p]))
      BY <2>2, <2>5, <2>8, <1>5, Zenon
    <2>9. CASE p = q /\ ~(i <= Len(queue[p])) /\ r = q /\ ~(j <= Len(queue[r]))
      BY <2>4, <2>5, <2>9, Zenon
    <2> QED BY <2>6, <2>7, <2>8, <2>9, Zenon
  <1>9. \A u \in Tasks : Queued(u)' => Queued(u) \/ u = t
    <2> SUFFICES ASSUME NEW u \in Tasks, Queued(u)', u # t PROVE Queued(u)
      OBVIOUS
    <2>1. PICK p \in Priority : \E i \in 1..Len(queue'[p]) : queue'[p][i] = u
      BY DEF Queued
    <2>2. PICK i \in 1..Len(queue'[p]) : queue'[p][i] = u
      BY <2>1
    <2>3. p # q \/ i <= Len(queue[p])
      BY <1>3, <2>2
    <2>4. i \in 1..Len(queue[p]) /\ queue[p][i] = u
      BY <1>12, <2>2, <2>3, Zenon
    <2> QED BY <2>4, Zenon DEF Queued
  <1>10. \A u \in Tasks : InNative(u)' = InNative(u) /\ WithWorker(u)' = WithWorker(u)
    BY <1>2 DEF InNative, WithWorker
  <1>11. KindsDisjoint'
    BY <1>4, <1>7, <1>9, <1>10, Zenon DEF KindsDisjoint
  <1> QED BY <1>6, <1>8, <1>11

(* dequeueTask(): the head goes to the worker, the others move up.         *)
LEMMA OwnerDequeue ==
    ASSUME TypeOK, TaskHasOneOwner, NEW w \in Workers, DequeueTask(w)
    PROVE  TaskHasOneOwner'
  <1> USE NoneAssumption DEF TypeOK, TaskHasOneOwner
  <1> DEFINE q == Served
             t == queue[q][1]
  <1>1. q \in Priority /\ queue[q] # <<>>
    BY DEF DequeueTask, Served, QueuesEmpty
  <1>2. t \in Tasks /\ Queued(t)
    <2>1. queue[q] \in Seq(Tasks) /\ 1 \in 1..Len(queue[q])
      BY <1>1
    <2>2. t \in Tasks
      BY <2>1
    <2>3. Queued(t)
      BY <1>1, <2>1, Zenon DEF Queued
    <2> QED BY <2>2, <2>3
  <1>3. wtask' = [wtask EXCEPT ![w] = t] /\ UNCHANGED <<ctask, nativeTasks>>
    BY <1>1 DEF DequeueTask
  <1>4. /\ Len(queue'[q]) = Len(queue[q]) - 1
        /\ Len(queue[q]) > 0
        /\ \A i \in 1..Len(queue'[q]) : queue'[q][i] = queue[q][i + 1]
        /\ \A p \in Priority : p # q => queue'[p] = queue[p]
        /\ \A p \in Priority : Len(queue[p]) \in Nat
    BY <1>1 DEF DequeueTask
  <1>5. ~InHand(t) /\ ~InNative(t) /\ ~WithWorker(t)
    BY <1>2, Zenon DEF KindsDisjoint
  <1>6. HoldersDistinct'
    BY <1>3, <1>5 DEF HoldersDistinct, WithWorker
  <1>7. \A p \in Priority : \A i \in 1..Len(queue[p]) :
            queue[p][i] = t => p = q /\ i = 1
    <2>1. 1 \in 1..Len(queue[q])
      BY <1>1, <1>4
    <2> QED BY <1>1, <2>1, PlacesDistinct
  <1>8. \A u \in Tasks : WithWorker(u)' => WithWorker(u) \/ u = t
    BY <1>3 DEF WithWorker
  <1> HIDE DEF t, q
  <1>9. QueuePlacesDistinct'
    <2> SUFFICES ASSUME NEW p \in Priority, NEW r \in Priority,
                        NEW i \in 1..Len(queue'[p]), NEW j \in 1..Len(queue'[r]),
                        queue'[p][i] = queue'[r][j]
                 PROVE  p = r /\ i = j
      BY DEF QueuePlacesDistinct
    <2>1. Len(queue[p]) \in Nat /\ Len(queue[r]) \in Nat
      BY <1>4
    <2>2. p # q => i \in 1..Len(queue[p]) /\ queue'[p][i] = queue[p][i]
      BY <1>4
    <2>3. p = q => i + 1 \in 1..Len(queue[p]) /\ queue'[p][i] = queue[p][i + 1]
      BY <1>4, <2>1
    <2>4. r # q => j \in 1..Len(queue[r]) /\ queue'[r][j] = queue[r][j]
      BY <1>4
    <2>5. r = q => j + 1 \in 1..Len(queue[r]) /\ queue'[r][j] = queue[r][j + 1]
      BY <1>4, <2>1
    <2>6. CASE p = q /\ r = q
      <3>1. i + 1 = j + 1
        <4>1. /\ i + 1 \in 1..Len(queue[p]) /\ j + 1 \in 1..Len(queue[r])
              /\ queue[p][i + 1] = queue[r][j + 1] /\ QueuePlacesDistinct
          BY <2>3, <2>5, <2>6
        <4> QED BY <4>1, PlacesDistinct
      <3>2. i \in Int /\ j \in Int
        OBVIOUS
      <3> QED BY ONLY <3>1, <3>2, <2>6
    <2>7. CASE p = q /\ r # q
      <3>1. /\ i + 1 \in 1..Len(queue[p]) /\ j \in 1..Len(queue[r])
            /\ queue[p][i + 1] = queue[r][j] /\ QueuePlacesDistinct
        BY <2>3, <2>4, <2>7
      <3> QED BY <3>1, <2>7, PlacesDistinct
    <2>8. CASE p # q /\ r = q
      <3>1. /\ i \in 1..Len(queue[p]) /\ j + 1 \in 1..Len(queue[r])
            /\ queue[p][i] = queue[r][j + 1] /\ QueuePlacesDistinct
        BY <2>2, <2>5, <2>8
      <3> QED BY <3>1, <2>8, PlacesDistinct
    <2>9. CASE p # q /\ r # q
      <3>1. /\ i \in 1..Len(queue[p]) /\ j \in 1..Len(queue[r])
            /\ queue[p][i] = queue[r][j] /\ QueuePlacesDistinct
        BY <2>2, <2>4, <2>9
      <3> QED BY <3>1, PlacesDistinct
    <2> QED BY <2>6, <2>7, <2>8, <2>9
  <1>10. \A u \in Tasks : Queued(u)' => Queued(u) /\ u # t
    <2> SUFFICES ASSUME NEW u \in Tasks, Queued(u)' PROVE Queued(u) /\ u # t
      OBVIOUS
    <2>1. PICK p \in Priority : \E i \in 1..Len(queue'[p]) : queue'[p][i] = u
      BY DEF Queued
    <2>2. PICK i \in 1..Len(queue'[p]) : queue'[p][i] = u
      BY <2>1
    <2>3. Len(queue[p]) \in Nat
      BY <1>4
    <2>4. CASE p # q
      <3>1. i \in 1..Len(queue[p]) /\ queue[p][i] = u
        BY <1>4, <2>2, <2>4
      <3> QED BY <3>1, <2>4, <1>7, Zenon DEF Queued
    <2>5. CASE p = q
      <3>1. i + 1 \in 1..Len(queue[p]) /\ queue[p][i + 1] = u /\ i + 1 # 1
        BY <1>4, <2>2, <2>3, <2>5
      <3> QED BY <3>1, <1>7, Zenon DEF Queued
    <2> QED BY <2>4, <2>5
  <1>11. \A u \in Tasks : InHand(u)' = InHand(u) /\ InNative(u)' = InNative(u)
    BY <1>3 DEF InHand, InNative
  <1>12. KindsDisjoint'
    BY <1>5, <1>8, <1>10, <1>11, Zenon DEF KindsDisjoint
  <1> QED BY <1>6, <1>9, <1>12

(* The end of a run takes the task away from its only owner.               *)
LEMMA OwnerFinish ==
    ASSUME TypeOK, TaskHasOneOwner,
           \/ \E w \in Workers : FinishTask(w)
           \/ \E p \in Pools, t \in Tasks : NativeFinish(p, t)
    PROVE  TaskHasOneOwner'
  <1> USE NoneAssumption DEF TypeOK, TaskHasOneOwner
  <1>1. UNCHANGED <<queue, ctask>>
    BY DEF FinishTask, NativeFinish
  <1>2. /\ \A w \in Workers : wtask'[w] \in {wtask[w], None}
        /\ \A p \in Pools : nativeTasks'[p] \subseteq nativeTasks[p]
    <2>1. CASE \E w \in Workers : FinishTask(w)
      <3>1. PICK w \in Workers : FinishTask(w)
        BY <2>1
      <3> QED BY <3>1 DEF FinishTask, poolVars
    <2>2. CASE \E p \in Pools, t \in Tasks : NativeFinish(p, t)
      <3>1. PICK p \in Pools, t \in Tasks : NativeFinish(p, t)
        BY <2>2
      <3> QED BY <3>1 DEF NativeFinish, workVars
    <2> QED BY <2>1, <2>2
  <1>3. QueuePlacesDistinct'
    BY <1>1 DEF QueuePlacesDistinct
  <1>4. HoldersDistinct'
    BY <1>1, <1>2 DEF HoldersDistinct
  <1>5. \A u \in Tasks : /\ InHand(u)' = InHand(u) /\ Queued(u)' = Queued(u)
                         /\ InNative(u)' => InNative(u)
                         /\ WithWorker(u)' => WithWorker(u)
    BY <1>1, <1>2 DEF InHand, Queued, InNative, WithWorker
  <1>6. KindsDisjoint'
    BY <1>5, Zenon DEF KindsDisjoint
  <1> QED BY <1>3, <1>4, <1>6

LEMMA OwnerStep ==
    TypeInv /\ TaskHasOneOwner /\ [Next]_vars => TaskHasOneOwner'
  <1> SUFFICES ASSUME TypeInv, TaskHasOneOwner, [Next]_vars
               PROVE  TaskHasOneOwner'
    OBVIOUS
  <1> USE DEF TypeInv
  <1>1. ASSUME NEW c \in Clients,
               \/ StartCheck(c) \/ StartNotify(c) \/ Configure(c)
               \/ InitPool(c) \/ InitRun(c) \/ InitSpawn(c)
               \/ Shutdown(c) \/ ShutdownNotify(c) \/ ShutdownTake(c)
               \/ ShutdownJoin(c) \/ ShutdownPool(c) \/ ShutdownDrain(c)
               \/ WaitForDone(c) \/ WaitCheck(c) \/ WaitDone(c)
               \/ WaitTimeout(c) \/ WaitPool(c) \/ WaitDrain(c)
        PROVE  UNCHANGED <<queue, ctask, wtask, nativeTasks>>
    BY <1>1 DEF StartCheck, StartNotify, Configure, InitPool, InitRun, InitSpawn,
                Shutdown, ShutdownNotify, ShutdownTake, ShutdownJoin, ShutdownPool,
                ShutdownDrain, WaitForDone, WaitCheck, WaitDone, WaitTimeout, WaitPool, WaitDrain
  <1>2. ASSUME NEW w \in Workers,
               \/ LoopCheck(w) \/ DequeueStopped(w) \/ DequeueEmpty(w)
               \/ Block(w) \/ RunTask(w) \/ SpuriousWakeup(w)
        PROVE  UNCHANGED <<queue, ctask, wtask, nativeTasks>>
    BY <1>2 DEF LoopCheck, DequeueStopped, DequeueEmpty, Block, RunTask, SpuriousWakeup
  <1>3. CASE UNCHANGED vars
    BY <1>3, OwnerKept DEF vars
  <1>4. CASE Next
    BY <1>4, <1>1, <1>2, OwnerKept, OwnerStart, OwnerNative, OwnerPush, OwnerDequeue, OwnerFinish
    DEF Next, Call, CallStep, WorkerStep
  <1> QED BY <1>3, <1>4

(* No closure given to start() is ever with two owners, so none is run     *)
(* twice or by two workers, for any number of threads, tasks and rounds of *)
(* init() and shutdown().                                                  *)
THEOREM TasksNotDuplicated == Spec => []TaskHasOneOwner
  <1>1. Init => TaskHasOneOwner
    BY NoneAssumption DEF Init, TaskHasOneOwner, QueuePlacesDistinct, HoldersDistinct,
         KindsDisjoint, Queued, InHand, InNative, WithWorker
  <1> QED BY <1>1, OwnerStep, PhasesCorrect, PTL DEF Spec

(* The three together, as the run of the pool checks them: what init(),    *)
(* shutdown() and workerThread() count and join.                           *)
THEOREM WorkersCorrect == Spec => []WorkersAccounted
  BY TypeCorrect, ActiveCountCorrect, ShutdownLeavesNoWorker, PTL DEF WorkersAccounted

=============================================================================
