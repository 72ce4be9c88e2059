-------------------------- MODULE ScaffoldProofs --------------------------
(***************************************************************************)
(* Proofs about Scaffold for any modules, dependencies, priorities and     *)
(* registrations, and about Configuration for any files and settings.  The *)
(* sort is proved to put dependencies first, and from the position of the  *)
(* running loop follows what has become of each module on the list.        *)
(***************************************************************************)
EXTENDS MCStartup, FiniteSetTheorems, TLAPS

Injective(s) == \A j, k \in 1..Len(s) : s[j] = s[k] => j = k

DepsEarlier(s) ==
    \A k \in 1..Len(s) : \A n \in DependsOn(s[k]) :
        \E j \in 1..(k-1) : Name(s[j]) = n

(* What indegree counts *)
Missing(i) == {n \in DependsOn(i) : \E p \in pending : Provides(p, n, enabled)}

SortInv ==
    phase = "sort" =>
        /\ \A k \in 1..Len(order) : order[k] \in enabled \ pending
        /\ \A i \in enabled \ pending : \E k \in 1..Len(order) : order[k] = i
        /\ Injective(order)
        /\ DepsEarlier(order)
        /\ \A i \in enabled : indegree[i] = Cardinality(Missing(i))
        /\ \A i \in enabled : \A n \in DependsOn(i) :
             \E j \in enabled : Provides(j, n, enabled)

ListInv == Injective(sorted) /\ DepsEarlier(sorted)

ControlInv ==
    /\ phase \in {"stop", "clean"} => initialized
    /\ initialized => phase \in {"idle", "loop", "stop", "clean"} /\ state = "Running"
    /\ phase \in {"init", "start"} => pos \in 1..Len(sorted) + 1
    /\ phase \in {"unstart", "undo", "stop"} => pos \in 0..Len(sorted)
    /\ phase = "clean" => pos \in 1..Len(sorted)

(* x is a life in which the k-th module of the list may be *)
Expected(k, x) ==
    /\ phase = "init" => x = (IF k < pos THEN "up" ELSE "down")
    /\ phase = "start" => x = (IF k < pos THEN "started" ELSE "up")
    /\ phase = "unstart" => x \in (IF k <= pos THEN {"started"} ELSE {"up", "stopped"})
    /\ phase = "undo" => x \in (IF k <= pos THEN {"up", "stopped"} ELSE {"down"})
    /\ phase = "stop" => x = (IF k <= pos THEN "started" ELSE "down")
    /\ phase = "clean" => x = (IF k < pos THEN "started"
                              ELSE IF k = pos THEN "stopped" ELSE "down")
    /\ phase \in {"idle", "loop"} => x = (IF initialized THEN "started" ELSE "down")
    /\ phase \in {"sort", "gone"} => x = "down"

LifeInv ==
    (Distinct /\ threw = "never") =>
        /\ \A k \in 1..Len(sorted) : Expected(k, life[modules[sorted[k]]])
        /\ \A m \in Modules :
             (\A k \in 1..Len(sorted) : modules[sorted[k]] # m) => life[m] = "down"

(* After an exception nothing moves until run() is called again.           *)
ThrownInv ==
    threw = "once" =>
        /\ phase \in {"idle", "gone"} /\ ~initialized
        /\ HooksInTurn /\ DependenciesFirst /\ ThrownLeavesUp

Inv == TypeOK /\ SortInv /\ ListInv /\ ControlInv /\ LifeInv /\ ThrownInv

-----------------------------------------------------------------------------
LEMMA EmptyIsSeq == \A S : <<>> \in Seq(S) /\ Len(<<>>) = 0
  OBVIOUS

LEMMA DeclarationTypes ==
    ASSUME TypeOK, NEW i \in 1..Len(modules)
    PROVE  /\ modules[i] \in Modules
           /\ Name(i) \in Names /\ DependsOn(i) \subseteq Names /\ Priority(i) \in Int
  <1>1. decl \in [Modules -> [name : Names, dependsOn : SUBSET Names, priority : Int]]
    BY DeclarationsAssumption DEF TypeOK
  <1>2. modules[i] \in Modules
    BY DEF TypeOK
  <1> QED
    BY <1>1, <1>2 DEF Name, DependsOn, Priority

LEMMA MissingFinite ==
    ASSUME TypeOK, NEW i \in 1..Len(modules)
    PROVE  /\ IsFiniteSet(DependsOn(i)) /\ IsFiniteSet(Missing(i))
           /\ Cardinality(DependsOn(i)) \in Nat /\ Cardinality(Missing(i)) \in Nat
  <1>1. DependsOn(i) \in SUBSET Names /\ Missing(i) \in SUBSET Names
    BY DeclarationTypes DEF Missing
  <1>2. IsFiniteSet(DependsOn(i)) /\ IsFiniteSet(Missing(i))
    BY <1>1, NamesAssumption, FS_Subset
  <1> QED
    BY <1>2, FS_CardinalityType

(* What a step that leaves the list alone keeps *)
LEMMA SameList ==
    ASSUME ListInv, UNCHANGED <<decl, modules, sorted>>
    PROVE  ListInv' /\ (Distinct' <=> Distinct)
  BY DEF ListInv, Injective, DepsEarlier, Name, DependsOn, Distinct

(* What an exception left behind stays as long as the lives do.            *)
LEMMA ThrownStays ==
    ASSUME Inv, UNCHANGED <<decl, sorted, life, threw>>, Distinct' => Distinct,
           threw = "once" => phase' \in {"idle", "gone"} /\ ~initialized',
           \A k \in 1..Len(sorted) : modules'[sorted[k]] = modules[sorted[k]]
    PROVE  ThrownInv'
  <1> SUFFICES ASSUME threw = "once" PROVE ThrownInv'
    BY DEF ThrownInv
  <1>1. HooksInTurn' /\ DependenciesFirst'
    BY DEF Inv, ThrownInv, HooksInTurn, DependenciesFirst, IsUp
  <1>2. ThrownLeavesUp'
    <2> SUFFICES ASSUME Distinct
                 PROVE  \E k \in 0..Len(sorted) : \A m \in Modules :
                          IsUp(m) <=> \E j \in 1..k : modules'[sorted[j]] = m
      BY DEF ThrownLeavesUp, IsUp
    <2>1. PICK k \in 0..Len(sorted) : \A m \in Modules : IsUp(m) <=> \E j \in 1..k : modules[sorted[j]] = m
      BY DEF Inv, ThrownInv, ThrownLeavesUp
    <2>2. \A j \in 1..k : j \in 1..Len(sorted)
      BY DEF Inv, TypeOK
    <2> QED BY <2>1, <2>2
  <1> QED BY <1>1, <1>2 DEF ThrownInv

-----------------------------------------------------------------------------
LEMMA InitInv == Init => Inv
  <1> SUFFICES ASSUME Init PROVE Inv
    OBVIOUS
  <1> USE DEF Init
  <1>1. TypeOK
    <2>1. modules \in Seq(Modules) /\ Len(modules) = 0 /\ Len(sorted) = 0
      BY EmptyIsSeq
    <2>2. sorted \in Seq(1..Len(modules)) /\ order \in Seq(1..Len(modules))
      BY EmptyIsSeq
    <2>3. indegree \in [Uses -> Nat] /\ life \in [Modules -> Lives]
      BY DEF Lives
    <2>4. pos \in 0..Len(sorted) + 1 /\ Len(modules) <= MaxUses
      BY <2>1, MaxUsesAssumption
    <2>5. /\ enabled \in SUBSET (1..Len(modules)) /\ pending \in SUBSET enabled
          /\ phase \in Phases
      BY DEF Phases
    <2> QED
      BY <2>1, <2>2, <2>3, <2>4, <2>5 DEF TypeOK
  <1>2. SortInv /\ ListInv /\ ControlInv /\ ThrownInv
    BY DEF SortInv, ListInv, ControlInv, ThrownInv, Injective, DepsEarlier
  <1>3. LifeInv
    BY DEF LifeInv
  <1> QED
    BY <1>1, <1>2, <1>3 DEF Inv

LEMMA UseInv == ASSUME Inv, NEW m \in Modules, Use(m) PROVE Inv'
  <1> USE DEF Inv, Use
  <1>1. /\ modules' \in Seq(Modules) /\ Len(modules') = Len(modules) + 1
        /\ \A i \in 1..Len(modules) : modules'[i] = modules[i]
        /\ Len(modules) \in Nat
    BY DEF TypeOK
  <1>2. TypeOK'
    <2>1. sorted' \in Seq(1..Len(modules')) /\ order' \in Seq(1..Len(modules'))
      BY <1>1 DEF TypeOK, sortVars
    <2>2. enabled' \in SUBSET (1..Len(modules'))
      BY <1>1 DEF TypeOK, sortVars
    <2> QED
      BY <1>1, <2>1, <2>2, MaxUsesAssumption DEF TypeOK, sortVars
  <1>3. \A i \in 1..Len(modules) : Name(i)' = Name(i) /\ DependsOn(i)' = DependsOn(i)
    BY <1>1 DEF Name, DependsOn
  <1>4. \A k \in 1..Len(sorted) : sorted[k] \in 1..Len(modules)
    BY DEF TypeOK
  <1>5. ListInv'
    <2>1. Injective(sorted)'
      BY DEF ListInv, Injective
    <2>2. DepsEarlier(sorted)'
      <3>1. ASSUME NEW k \in 1..Len(sorted), NEW n \in DependsOn(sorted[k])'
            PROVE  \E j \in 1..(k-1) : Name(sorted[j])' = n
        <4>1. n \in DependsOn(sorted[k])
          BY <1>1, <1>4 DEF DependsOn
        <4>2. PICK j \in 1..(k-1) : Name(sorted[j]) = n
          BY <4>1 DEF ListInv, DepsEarlier
        <4>3. j \in 1..Len(sorted) /\ sorted' = sorted
          BY DEF TypeOK
        <4>4. Name(sorted[j])' = n
          BY <1>1, <1>4, <4>2, <4>3 DEF Name
        <4> QED
          BY <4>4
      <3>2. sorted' = sorted
        OBVIOUS
      <3> QED
        BY <3>1, <3>2 DEF DepsEarlier
    <2> QED
      BY <2>1, <2>2 DEF ListInv
  <1>7. Distinct' => Distinct
    BY <1>1 DEF Distinct
  <1>8. \A k \in 1..Len(sorted) : modules'[sorted[k]] = modules[sorted[k]]
    BY <1>1, <1>4
  <1>6. SortInv' /\ ControlInv' /\ ThrownInv'
    <2>1. SortInv' /\ ControlInv'
      BY DEF SortInv, ControlInv
    <2>2. threw = "once" => phase' \in {"idle", "gone"} /\ ~initialized'
      BY DEF ThrownInv
    <2> QED BY <1>7, <1>8, <2>1, <2>2, ThrownStays
  <1>9. \A k, x : Expected(k, x)' <=> Expected(k, x)
    BY DEF Expected
  <1>10. LifeInv'
    BY <1>7, <1>8, <1>9 DEF LifeInv
  <1> QED
    BY <1>2, <1>5, <1>6, <1>10

-----------------------------------------------------------------------------
(* The steps that leave sorted, modules and the sort's locals alone: only   *)
(* the types, the position and the lives remain to be shown.                *)
LEMMA LoopStep ==
    ASSUME Inv, UNCHANGED <<decl, modules, sorted, sortVars>>, phase' # "sort",
           threw' = threw,
           TypeOK', ControlInv', Distinct /\ threw = "never" => LifeInv', ThrownInv'
    PROVE  Inv'
  <1>1. ListInv' /\ (Distinct' <=> Distinct)
    BY SameList DEF Inv
  <1>2. SortInv'
    BY DEF SortInv
  <1>3. LifeInv'
    BY <1>1 DEF LifeInv
  <1> QED
    BY <1>1, <1>2, <1>3 DEF Inv

(* The list holds each module once, so a hook changes the life of one      *)
(* position of it.                                                         *)
LEMMA HookEffect ==
    ASSUME Inv, Distinct, pos \in 1..Len(sorted), NEW from, NEW to, Hook(from, to),
           life[Current] \in from
    PROVE  /\ life'[modules[sorted[pos]]] = to
           /\ \A k \in 1..Len(sorted) : k # pos =>
                 life'[modules[sorted[k]]] = life[modules[sorted[k]]]
           /\ \A m \in Modules : m # modules[sorted[pos]] => life'[m] = life[m]
  <1>1. life \in [Modules -> Lives] /\ Current = modules[sorted[pos]]
    BY DEF Inv, TypeOK, Current
  <1>2. \A k \in 1..Len(sorted) : sorted[k] \in 1..Len(modules) /\ modules[sorted[k]] \in Modules
    BY DEF Inv, TypeOK
  <1>3. \A k \in 1..Len(sorted) : k # pos => modules[sorted[k]] # modules[sorted[pos]]
    BY <1>2 DEF Inv, ListInv, Injective, Distinct
  <1> QED
    BY <1>1, <1>2, <1>3 DEF Hook

(* A hook keeps the types.                                                 *)
LEMMA HookType ==
    ASSUME TypeOK, NEW from, NEW to \in Lives, Hook(from, to)
    PROVE  life' \in [Modules -> Lives]
  BY DEF TypeOK, Hook, Lives


LEMMA InitOkInv == ASSUME Inv, InitOk PROVE Inv'
  <1> USE DEF InitOk
  <1>1. pos \in 1..Len(sorted)
    BY DEF Inv, TypeOK, ControlInv
  <1>2. TypeOK'
    BY <1>1, HookType DEF Inv, TypeOK, memberVars, sortVars, Lives, Phases
  <1>3. ControlInv' /\ ThrownInv'
    BY <1>1 DEF Inv, TypeOK, ControlInv, ThrownInv, memberVars
  <1>4. ASSUME Distinct, threw = "never" PROVE LifeInv'
    <2>1. /\ \A k \in 1..Len(sorted) : Expected(k, life[modules[sorted[k]]])
          /\ \A m \in Modules :
               (\A k \in 1..Len(sorted) : modules[sorted[k]] # m) => life[m] = "down"
      BY <1>4 DEF Inv, LifeInv
    <2>2. life[Current] \in {"down"}
      BY <1>1, <2>1 DEF Expected, Current
    <2>3. /\ life'[modules[sorted[pos]]] = "up"
          /\ \A k \in 1..Len(sorted) : k # pos =>
                life'[modules[sorted[k]]] = life[modules[sorted[k]]]
          /\ \A m \in Modules : m # modules[sorted[pos]] => life'[m] = life[m]
      BY <1>1, <1>4, <2>2, HookEffect
    <2>4. \A k \in 1..Len(sorted) : Expected(k, life[modules[sorted[k]]])'
      BY <1>1, <2>1, <2>3 DEF Expected, memberVars
    <2>5. \A m \in Modules :
             (\A k \in 1..Len(sorted) : modules[sorted[k]] # m) => life'[m] = "down"
      BY <1>1, <2>1, <2>3
    <2> QED
      BY <2>4, <2>5 DEF LifeInv, memberVars
  <1> QED
    BY <1>2, <1>3, <1>4, LoopStep DEF memberVars

LEMMA InitFailInv == ASSUME Inv, InitFail PROVE Inv'
  <1> USE DEF InitFail
  <1>1. pos \in 1..Len(sorted)
    BY DEF Inv, TypeOK, ControlInv
  <1>2. TypeOK'
    BY <1>1, HookType DEF Inv, TypeOK, memberVars, sortVars, Lives, Phases
  <1>3. ControlInv' /\ ThrownInv'
    BY <1>1 DEF Inv, TypeOK, ControlInv, ThrownInv, memberVars
  <1>4. ASSUME Distinct, threw = "never" PROVE LifeInv'
    <2>1. /\ \A k \in 1..Len(sorted) : Expected(k, life[modules[sorted[k]]])
          /\ \A m \in Modules :
               (\A k \in 1..Len(sorted) : modules[sorted[k]] # m) => life[m] = "down"
      BY <1>4 DEF Inv, LifeInv
    <2>2. life[Current] \in {"down"}
      BY <1>1, <2>1 DEF Expected, Current
    <2>3. /\ life'[modules[sorted[pos]]] = "down"
          /\ \A k \in 1..Len(sorted) : k # pos =>
                life'[modules[sorted[k]]] = life[modules[sorted[k]]]
          /\ \A m \in Modules : m # modules[sorted[pos]] => life'[m] = life[m]
      BY <1>1, <1>4, <2>2, HookEffect
    <2>4. \A k \in 1..Len(sorted) : Expected(k, life[modules[sorted[k]]])'
      BY <1>1, <2>1, <2>3 DEF Expected, memberVars
    <2>5. \A m \in Modules :
             (\A k \in 1..Len(sorted) : modules[sorted[k]] # m) => life'[m] = "down"
      BY <1>1, <2>1, <2>3
    <2> QED
      BY <2>4, <2>5 DEF LifeInv, memberVars
  <1> QED
    BY <1>2, <1>3, <1>4, LoopStep DEF memberVars

LEMMA StartOkInv == ASSUME Inv, StartOk PROVE Inv'
  <1> USE DEF StartOk
  <1>1. pos \in 1..Len(sorted)
    BY DEF Inv, TypeOK, ControlInv
  <1>2. TypeOK'
    BY <1>1, HookType DEF Inv, TypeOK, memberVars, sortVars, Lives, Phases
  <1>3. ControlInv' /\ ThrownInv'
    BY <1>1 DEF Inv, TypeOK, ControlInv, ThrownInv, memberVars
  <1>4. ASSUME Distinct, threw = "never" PROVE LifeInv'
    <2>1. /\ \A k \in 1..Len(sorted) : Expected(k, life[modules[sorted[k]]])
          /\ \A m \in Modules :
               (\A k \in 1..Len(sorted) : modules[sorted[k]] # m) => life[m] = "down"
      BY <1>4 DEF Inv, LifeInv
    <2>2. life[Current] \in {"up"}
      BY <1>1, <2>1 DEF Expected, Current
    <2>3. /\ life'[modules[sorted[pos]]] = "started"
          /\ \A k \in 1..Len(sorted) : k # pos =>
                life'[modules[sorted[k]]] = life[modules[sorted[k]]]
          /\ \A m \in Modules : m # modules[sorted[pos]] => life'[m] = life[m]
      BY <1>1, <1>4, <2>2, HookEffect
    <2>4. \A k \in 1..Len(sorted) : Expected(k, life[modules[sorted[k]]])'
      BY <1>1, <2>1, <2>3 DEF Expected, memberVars
    <2>5. \A m \in Modules :
             (\A k \in 1..Len(sorted) : modules[sorted[k]] # m) => life'[m] = "down"
      BY <1>1, <2>1, <2>3
    <2> QED
      BY <2>4, <2>5 DEF LifeInv, memberVars
  <1> QED
    BY <1>2, <1>3, <1>4, LoopStep DEF memberVars

LEMMA StartFailInv == ASSUME Inv, StartFail PROVE Inv'
  <1> USE DEF StartFail
  <1>1. pos \in 1..Len(sorted)
    BY DEF Inv, TypeOK, ControlInv
  <1>2. TypeOK'
    BY <1>1, HookType DEF Inv, TypeOK, memberVars, sortVars, Lives, Phases
  <1>3. ControlInv' /\ ThrownInv'
    BY <1>1 DEF Inv, TypeOK, ControlInv, ThrownInv, memberVars
  <1>4. ASSUME Distinct, threw = "never" PROVE LifeInv'
    <2>1. /\ \A k \in 1..Len(sorted) : Expected(k, life[modules[sorted[k]]])
          /\ \A m \in Modules :
               (\A k \in 1..Len(sorted) : modules[sorted[k]] # m) => life[m] = "down"
      BY <1>4 DEF Inv, LifeInv
    <2>2. life[Current] \in {"up"}
      BY <1>1, <2>1 DEF Expected, Current
    <2>3. /\ life'[modules[sorted[pos]]] = "up"
          /\ \A k \in 1..Len(sorted) : k # pos =>
                life'[modules[sorted[k]]] = life[modules[sorted[k]]]
          /\ \A m \in Modules : m # modules[sorted[pos]] => life'[m] = life[m]
      BY <1>1, <1>4, <2>2, HookEffect
    <2>4. \A k \in 1..Len(sorted) : Expected(k, life[modules[sorted[k]]])'
      BY <1>1, <2>1, <2>3 DEF Expected, memberVars
    <2>5. \A m \in Modules :
             (\A k \in 1..Len(sorted) : modules[sorted[k]] # m) => life'[m] = "down"
      BY <1>1, <2>1, <2>3
    <2> QED
      BY <2>4, <2>5 DEF LifeInv, memberVars
  <1> QED
    BY <1>2, <1>3, <1>4, LoopStep DEF memberVars

LEMMA UnstartInv == ASSUME Inv, Unstart PROVE Inv'
  <1> USE DEF Unstart
  <1>1. pos \in 1..Len(sorted)
    BY DEF Inv, TypeOK, ControlInv
  <1>2. TypeOK'
    BY <1>1, HookType DEF Inv, TypeOK, memberVars, sortVars, Lives, Phases
  <1>3. ControlInv' /\ ThrownInv'
    BY <1>1 DEF Inv, TypeOK, ControlInv, ThrownInv, memberVars
  <1>4. ASSUME Distinct, threw = "never" PROVE LifeInv'
    <2>1. /\ \A k \in 1..Len(sorted) : Expected(k, life[modules[sorted[k]]])
          /\ \A m \in Modules :
               (\A k \in 1..Len(sorted) : modules[sorted[k]] # m) => life[m] = "down"
      BY <1>4 DEF Inv, LifeInv
    <2>2. life[Current] \in {"started"}
      BY <1>1, <2>1 DEF Expected, Current
    <2>3. /\ life'[modules[sorted[pos]]] = "stopped"
          /\ \A k \in 1..Len(sorted) : k # pos =>
                life'[modules[sorted[k]]] = life[modules[sorted[k]]]
          /\ \A m \in Modules : m # modules[sorted[pos]] => life'[m] = life[m]
      BY <1>1, <1>4, <2>2, HookEffect
    <2>4. \A k \in 1..Len(sorted) : Expected(k, life[modules[sorted[k]]])'
      BY <1>1, <2>1, <2>3 DEF Expected, memberVars
    <2>5. \A m \in Modules :
             (\A k \in 1..Len(sorted) : modules[sorted[k]] # m) => life'[m] = "down"
      BY <1>1, <2>1, <2>3
    <2> QED
      BY <2>4, <2>5 DEF LifeInv, memberVars
  <1> QED
    BY <1>2, <1>3, <1>4, LoopStep DEF memberVars

LEMMA UndoInv == ASSUME Inv, Undo PROVE Inv'
  <1> USE DEF Undo
  <1>1. pos \in 1..Len(sorted)
    BY DEF Inv, TypeOK, ControlInv
  <1>2. TypeOK'
    BY <1>1, HookType DEF Inv, TypeOK, memberVars, sortVars, Lives, Phases
  <1>3. ControlInv' /\ ThrownInv'
    BY <1>1 DEF Inv, TypeOK, ControlInv, ThrownInv, memberVars
  <1>4. ASSUME Distinct, threw = "never" PROVE LifeInv'
    <2>1. /\ \A k \in 1..Len(sorted) : Expected(k, life[modules[sorted[k]]])
          /\ \A m \in Modules :
               (\A k \in 1..Len(sorted) : modules[sorted[k]] # m) => life[m] = "down"
      BY <1>4 DEF Inv, LifeInv
    <2>2. life[Current] \in {"up", "stopped"}
      BY <1>1, <2>1 DEF Expected, Current
    <2>3. /\ life'[modules[sorted[pos]]] = "down"
          /\ \A k \in 1..Len(sorted) : k # pos =>
                life'[modules[sorted[k]]] = life[modules[sorted[k]]]
          /\ \A m \in Modules : m # modules[sorted[pos]] => life'[m] = life[m]
      BY <1>1, <1>4, <2>2, HookEffect
    <2>4. \A k \in 1..Len(sorted) : Expected(k, life[modules[sorted[k]]])'
      BY <1>1, <2>1, <2>3 DEF Expected, memberVars
    <2>5. \A m \in Modules :
             (\A k \in 1..Len(sorted) : modules[sorted[k]] # m) => life'[m] = "down"
      BY <1>1, <2>1, <2>3
    <2> QED
      BY <2>4, <2>5 DEF LifeInv, memberVars
  <1> QED
    BY <1>2, <1>3, <1>4, LoopStep DEF memberVars

LEMMA ShutdownStopInv == ASSUME Inv, ShutdownStop PROVE Inv'
  <1> USE DEF ShutdownStop
  <1>1. pos \in 1..Len(sorted)
    BY DEF Inv, TypeOK, ControlInv
  <1>2. TypeOK'
    BY <1>1, HookType DEF Inv, TypeOK, memberVars, sortVars, Lives, Phases
  <1>3. ControlInv' /\ ThrownInv'
    BY <1>1 DEF Inv, TypeOK, ControlInv, ThrownInv, memberVars
  <1>4. ASSUME Distinct, threw = "never" PROVE LifeInv'
    <2>1. /\ \A k \in 1..Len(sorted) : Expected(k, life[modules[sorted[k]]])
          /\ \A m \in Modules :
               (\A k \in 1..Len(sorted) : modules[sorted[k]] # m) => life[m] = "down"
      BY <1>4 DEF Inv, LifeInv
    <2>2. life[Current] \in {"started"}
      BY <1>1, <2>1 DEF Expected, Current
    <2>3. /\ life'[modules[sorted[pos]]] = "stopped"
          /\ \A k \in 1..Len(sorted) : k # pos =>
                life'[modules[sorted[k]]] = life[modules[sorted[k]]]
          /\ \A m \in Modules : m # modules[sorted[pos]] => life'[m] = life[m]
      BY <1>1, <1>4, <2>2, HookEffect
    <2>4. \A k \in 1..Len(sorted) : Expected(k, life[modules[sorted[k]]])'
      BY <1>1, <2>1, <2>3 DEF Expected, memberVars
    <2>5. \A m \in Modules :
             (\A k \in 1..Len(sorted) : modules[sorted[k]] # m) => life'[m] = "down"
      BY <1>1, <2>1, <2>3
    <2> QED
      BY <2>4, <2>5 DEF LifeInv, memberVars
  <1> QED
    BY <1>2, <1>3, <1>4, LoopStep DEF memberVars

LEMMA ShutdownCleanInv == ASSUME Inv, ShutdownClean PROVE Inv'
  <1> USE DEF ShutdownClean
  <1>1. pos \in 1..Len(sorted)
    BY DEF Inv, TypeOK, ControlInv
  <1>2. TypeOK'
    BY <1>1, HookType DEF Inv, TypeOK, memberVars, sortVars, Lives, Phases
  <1>3. ControlInv' /\ ThrownInv'
    BY <1>1 DEF Inv, TypeOK, ControlInv, ThrownInv, memberVars
  <1>4. ASSUME Distinct, threw = "never" PROVE LifeInv'
    <2>1. /\ \A k \in 1..Len(sorted) : Expected(k, life[modules[sorted[k]]])
          /\ \A m \in Modules :
               (\A k \in 1..Len(sorted) : modules[sorted[k]] # m) => life[m] = "down"
      BY <1>4 DEF Inv, LifeInv
    <2>2. life[Current] \in {"up", "stopped"}
      BY <1>1, <2>1 DEF Expected, Current
    <2>3. /\ life'[modules[sorted[pos]]] = "down"
          /\ \A k \in 1..Len(sorted) : k # pos =>
                life'[modules[sorted[k]]] = life[modules[sorted[k]]]
          /\ \A m \in Modules : m # modules[sorted[pos]] => life'[m] = life[m]
      BY <1>1, <1>4, <2>2, HookEffect
    <2>4. \A k \in 1..Len(sorted) : Expected(k, life[modules[sorted[k]]])'
      BY <1>1, <2>1, <2>3 DEF Expected, memberVars
    <2>5. \A m \in Modules :
             (\A k \in 1..Len(sorted) : modules[sorted[k]] # m) => life'[m] = "down"
      BY <1>1, <2>1, <2>3
    <2> QED
      BY <2>4, <2>5 DEF LifeInv, memberVars
  <1> QED
    BY <1>2, <1>3, <1>4, LoopStep DEF memberVars

(* The steps between two loops call no hook: the positions are renamed.    *)
LEMMA TurnInv ==
    ASSUME Inv,
           \/ InitDone \/ StartDone \/ UnstartDone \/ UndoDone \/ LoopQuit \/ ShutdownEnd
           \/ Destroy \/ \E to \in {"idle", "loop", "gone"} : ShutdownBegin(to)
    PROVE  Inv'
  <1> USE DEF InitDone, StartDone, UnstartDone, UndoDone, LoopQuit, ShutdownEnd, Destroy,
              ShutdownBegin, memberVars, sortVars
  <1>1. UNCHANGED <<decl, modules, sorted, sortVars, life>> /\ phase' # "sort"
    BY DEF Inv, TypeOK
  <1>2. Len(sorted) \in Nat /\ pos \in 0..Len(sorted) + 1
    BY DEF Inv, TypeOK
  <1>3. pos' \in 0..Len(sorted) + 1 /\ phase' \in Phases
    BY <1>2 DEF Inv, TypeOK, Phases
  <1>4. /\ initialized' \in BOOLEAN /\ state' \in {"Uninitialized", "Running", "Shutdown"}
        /\ back' \in {"idle", "loop", "gone"}
    BY DEF Inv, TypeOK
  <1>5. TypeOK'
    BY <1>1, <1>3, <1>4 DEF Inv, TypeOK
  <1>6. ControlInv'
    BY <1>2, <1>3 DEF Inv, TypeOK, ControlInv
  <1>7. ThrownInv'
    <2>1. threw = "once" => phase' \in {"idle", "gone"} /\ ~initialized'
      BY DEF Inv, ThrownInv, ControlInv
    <2>2. Distinct' => Distinct
      BY <1>1 DEF Distinct
    <2> QED BY <1>1, <2>1, <2>2, ThrownStays
  <1>8. ASSUME Distinct, NEW k \in 1..Len(sorted), NEW x, Expected(k, x)
        PROVE  Expected(k, x)'
    BY <1>2, <1>8 DEF Inv, TypeOK, ControlInv, Expected
  <1>9. Distinct /\ threw = "never" => LifeInv'
    BY <1>1, <1>8 DEF Inv, LifeInv
  <1> QED
    BY <1>1, <1>5, <1>6, <1>7, <1>9, LoopStep

-----------------------------------------------------------------------------
(* LifeInv and ListInv say enough for the properties.                      *)
LEMMA LivesAreRight == Inv => HooksInTurn /\ DependenciesFirst
  <1> SUFFICES ASSUME Inv PROVE HooksInTurn /\ DependenciesFirst
    OBVIOUS
  <1> SUFFICES ASSUME threw = "never", Distinct PROVE HooksInTurn /\ DependenciesFirst
    <2>1. threw \in {"never", "once", "again"}
      BY DEF Inv, TypeOK
    <2>2. threw = "once" => HooksInTurn /\ DependenciesFirst
      BY DEF Inv, ThrownInv
    <2> QED BY <2>1, <2>2 DEF HooksInTurn, DependenciesFirst
  <1>1. /\ \A k \in 1..Len(sorted) : Expected(k, life[modules[sorted[k]]])
        /\ \A m \in Modules :
             (\A k \in 1..Len(sorted) : modules[sorted[k]] # m) => life[m] = "down"
    BY DEF Inv, LifeInv
  <1>2. phase \in Phases /\ pos \in Nat /\ Len(sorted) \in Nat
    BY DEF Inv, TypeOK
  <1>3. ASSUME NEW k \in 1..Len(sorted), NEW x, Expected(k, x) PROVE x # "wrong"
    BY <1>2, <1>3 DEF Expected, Phases
  <1>4. HooksInTurn
    BY <1>1, <1>3 DEF HooksInTurn
  <1>5. ASSUME NEW m \in Modules, NEW n \in decl[m].dependsOn, life[m] # "down"
        PROVE  \E k \in 1..Len(sorted), j \in 1..Len(sorted) :
                 /\ j < k /\ modules[sorted[k]] = m
                 /\ modules[sorted[j]] \in Modules /\ decl[modules[sorted[j]]].name = n
    <2>1. PICK k \in 1..Len(sorted) : modules[sorted[k]] = m
      BY <1>1, <1>5
    <2>2. PICK j \in 1..(k-1) : Name(sorted[j]) = n
      BY <1>5, <2>1 DEF Inv, ListInv, DepsEarlier, DependsOn
    <2>3. j \in 1..Len(sorted) /\ j < k
      BY <1>2
    <2>4. sorted[j] \in 1..Len(modules) /\ modules[sorted[j]] \in Modules
      BY <2>3 DEF Inv, TypeOK
    <2> QED
      BY <2>1, <2>2, <2>3, <2>4 DEF Name
  <1>6. ASSUME NEW k \in 1..Len(sorted), NEW j \in 1..Len(sorted), j < k, NEW x, NEW y,
               Expected(k, x), Expected(j, y)
        PROVE  /\ x \in {"up", "started", "stopped"} => y \in {"up", "started", "stopped"}
               /\ x = "started" => y = "started"
    BY <1>2, <1>6 DEF Expected, Phases
  <1>7. DependenciesFirst
    <2> SUFFICES ASSUME NEW m \in Modules, NEW n \in decl[m].dependsOn, life[m] # "down"
                 PROVE  /\ IsUp(m) => \E d \in Modules : decl[d].name = n /\ IsUp(d)
                        /\ life[m] = "started" =>
                             \E d \in Modules : decl[d].name = n /\ life[d] = "started"
      BY DEF DependenciesFirst, IsUp
    <2>1. PICK k \in 1..Len(sorted), j \in 1..Len(sorted) :
                 /\ j < k /\ modules[sorted[k]] = m
                 /\ modules[sorted[j]] \in Modules /\ decl[modules[sorted[j]]].name = n
      BY <1>5
    <2>2. Expected(k, life[m]) /\ Expected(j, life[modules[sorted[j]]])
      BY <1>1, <2>1
    <2> QED
      BY <1>6, <2>1, <2>2 DEF IsUp
  <1> QED
    BY <1>4, <1>7

LEMMA HookThrowInv == ASSUME Inv, HookThrow PROVE Inv'
  <1> USE DEF HookThrow, memberVars, sortVars
  <1>1. /\ HooksInTurn /\ DependenciesFirst /\ ~initialized /\ Len(sorted) \in Nat
        /\ pos \in 1..Len(sorted) /\ threw \in {"never", "again"}
    BY LivesAreRight DEF Inv, ThrownInv, ControlInv, TypeOK
  <1>2. threw' = "once" => HooksInTurn' /\ DependenciesFirst'
    BY <1>1 DEF HooksInTurn, DependenciesFirst, Distinct, IsUp
  <1>3. ASSUME threw' = "once", Distinct
        PROVE  \E k \in 0..Len(sorted) : \A m \in Modules :
                 IsUp(m) <=> \E j \in 1..k : modules[sorted[j]] = m
    <2> DEFINE k == IF phase = "init" THEN pos - 1 ELSE Len(sorted)
    <2>1. k \in 0..Len(sorted) /\ threw = "never"
      BY <1>1, <1>3
    <2>2. /\ \A j \in 1..Len(sorted) : Expected(j, life[modules[sorted[j]]])
          /\ \A m \in Modules :
               (\A j \in 1..Len(sorted) : modules[sorted[j]] # m) => life[m] = "down"
      BY <1>3, <2>1 DEF Inv, LifeInv
    <2>3. ASSUME NEW j \in 1..Len(sorted), NEW x, Expected(j, x)
          PROVE  j \in 1..k <=> x \in {"up", "started", "stopped"}
      BY <1>1, <2>3 DEF Expected
    <2>4. \A j \in 1..k : j \in 1..Len(sorted)
      BY <2>1
    <2> HIDE DEF k
    <2>5. ASSUME NEW m \in Modules
          PROVE  IsUp(m) <=> \E j \in 1..k : modules[sorted[j]] = m
      <3>1. CASE \A j \in 1..Len(sorted) : modules[sorted[j]] # m
        BY <2>2, <2>4, <3>1 DEF IsUp
      <3>2. CASE \E j \in 1..Len(sorted) : modules[sorted[j]] = m
        BY <2>2, <2>3, <2>4, <3>2 DEF IsUp
      <3> QED BY <3>1, <3>2
    <2> QED BY <2>1, <2>5
  <1>4. ThrownInv'
    BY <1>1, <1>2, <1>3 DEF ThrownInv, ThrownLeavesUp, Distinct, IsUp
  <1>5. TypeOK' /\ ControlInv'
    BY <1>1 DEF Inv, TypeOK, ControlInv, Phases
  <1>6. LifeInv'
    BY <1>1 DEF LifeInv
  <1>7. ListInv'
    BY SameList DEF Inv
  <1>8. SortInv'
    BY DEF SortInv
  <1> QED
    BY <1>4, <1>5, <1>6, <1>7, <1>8 DEF Inv

-----------------------------------------------------------------------------
(* The steps of the sort leave the lives alone.                            *)
LEMMA SortStep ==
    ASSUME Inv, UNCHANGED <<decl, modules, initialized, state, back, life>>,
           \/ phase = "idle" /\ ~initialized
           \/ phase = "sort",
           phase' \in {"sort", "idle"}, UNCHANGED <<sorted, pos>>,
           threw' # "once", threw' = "never" => threw = "never"
    PROVE  /\ ListInv' /\ ControlInv' /\ LifeInv' /\ ThrownInv'
           /\ (TypeOK' /\ SortInv') => Inv'
  <1>1. ListInv' /\ (Distinct' <=> Distinct)
    BY SameList DEF Inv
  <1>2. ControlInv' /\ ThrownInv' /\ ~initialized
    BY DEF Inv, ControlInv, ThrownInv
  <1>3. \A k \in 1..Len(sorted) : \A x : Expected(k, x) => Expected(k, x)'
    BY <1>2 DEF Expected
  <1>4. LifeInv'
    BY <1>1, <1>3 DEF Inv, LifeInv
  <1> QED
    BY <1>1, <1>2, <1>4 DEF Inv

LEMMA RunBeginInv == ASSUME Inv, NEW on, RunBegin(on) PROVE Inv'
  <1> USE DEF RunBegin, memberVars
  <1>1. enabled' \in SUBSET (1..Len(modules)) /\ pending' = enabled' /\ order' = <<>>
    OBVIOUS
  <1>2. \A i \in 1..Len(modules) : Cardinality(DependsOn(i)) \in Nat
    BY MissingFinite DEF Inv
  <1>3. indegree' \in [Uses -> Nat]
    BY <1>1, <1>2
  <1>4. TypeOK'
    BY <1>1, <1>3, EmptyIsSeq DEF Inv, TypeOK, Phases
  <1>5. \A i \in enabled' : Missing(i)' = DependsOn(i)
    BY <1>1 DEF Missing, Provides, Name, DependsOn
  <1>6. \A i \in enabled' : indegree'[i] = Cardinality(Missing(i)')
    <2> SUFFICES ASSUME NEW i \in enabled' PROVE indegree'[i] = Cardinality(Missing(i)')
      OBVIOUS
    <2>1. i \in Uses
      BY <1>1, MaxUsesAssumption DEF Inv, TypeOK, Uses
    <2> QED
      BY <1>5, <2>1
  <1>7. \A i \in enabled' : \A n \in DependsOn(i)' : \E j \in enabled' : Provides(j, n, enabled)'
    BY DEF DependsOn, Provides, Name
  <1>8. SortInv'
    <2>1. Len(order') = 0
      BY <1>1, EmptyIsSeq
    <2>2. Injective(order)' /\ DepsEarlier(order)'
      BY <2>1 DEF Injective, DepsEarlier
    <2>3. \A k \in 1..Len(order') : FALSE
      BY <2>1
    <2>4. enabled' \ pending' = {}
      BY <1>1
    <2> QED
      BY <1>6, <1>7, <2>2, <2>3, <2>4 DEF SortInv
  <1>9. ~initialized /\ threw' # "once" /\ (threw' = "never" => threw = "never")
    BY DEF Inv, ControlInv
  <1> QED
    BY <1>4, <1>8, <1>9, SortStep

LEMMA SortFailInv == ASSUME Inv, SortFail PROVE Inv'
  <1> USE DEF SortFail, memberVars
  <1>1. TypeOK'
    BY EmptyIsSeq DEF Inv, TypeOK, Phases
  <1>2. SortInv' /\ threw' = threw /\ threw # "once"
    BY DEF SortInv, Inv, ThrownInv
  <1> QED
    BY <1>1, <1>2, SortStep

LEMMA SortDoneInv == ASSUME Inv, SortDone PROVE Inv'
  <1> USE DEF SortDone, Inv
  <1>1. order \in Seq(1..Len(modules)) /\ Len(order) \in Nat
    BY DEF TypeOK
  <1>2. TypeOK'
    <2>1. pos' \in 0..Len(sorted') + 1
      BY <1>1
    <2>2. indegree' \in [Uses -> Nat] /\ order' \in Seq(1..Len(modules))
      BY EmptyIsSeq
    <2> QED
      BY <1>1, <2>1, <2>2 DEF TypeOK, Phases
  <1>3. ListInv'
    BY DEF SortInv, ListInv, Injective, DepsEarlier, Name, DependsOn
  <1>4. SortInv' /\ ThrownInv'
    BY DEF SortInv, ThrownInv
  <1>5. ControlInv'
    BY <1>1 DEF ControlInv
  <1>6. LifeInv'
    <2> SUFFICES ASSUME Distinct, threw = "never" PROVE LifeInv'
      BY DEF LifeInv, Distinct
    <2>1. \A m \in Modules : life[m] = "down"
      BY DEF LifeInv, Expected
    <2>2. \A k \in 1..Len(order) : modules[order[k]] \in Modules
      BY DEF TypeOK
    <2>3. \A k \in 1..Len(order) : Expected(k, "down")'
      BY DEF Expected
    <2> QED
      BY <2>1, <2>2, <2>3 DEF LifeInv
  <1> QED
    BY <1>2, <1>3, <1>4, <1>5, <1>6

(* A module is picked when nothing is missing, so all of its dependencies  *)
(* have been picked before.                                                *)
LEMMA SortPickInv == ASSUME Inv, SortPick PROVE Inv'
  <1> USE DEF Inv
  <1>1. PICK b \in pending :
           /\ Best(b)
           /\ pending' = pending \ {b}
           /\ order' = Append(order, b)
           /\ indegree' = [i \in Uses |->
                IF i \in enabled /\ Needs(i, b, enabled) /\ indegree[i] > 0
                THEN indegree[i] - 1 ELSE indegree[i]]
    BY DEF SortPick
  <1>2. /\ phase = "sort" /\ phase' = "sort" /\ enabled' = enabled
        /\ UNCHANGED <<memberVars, back, pos, life>>
    BY DEF SortPick
  <1>3. b \in enabled /\ b \in 1..Len(modules) /\ indegree[b] = 0
    BY <1>1 DEF TypeOK, Best, Candidates
  <1>4. /\ order' \in Seq(1..Len(modules)) /\ Len(order') = Len(order) + 1
        /\ Len(order) \in Nat /\ order'[Len(order) + 1] = b
        /\ \A k \in 1..Len(order) : order'[k] = order[k]
    BY <1>1, <1>3 DEF TypeOK
  <1>5. \A i, n : /\ Name(i)' = Name(i) /\ DependsOn(i)' = DependsOn(i)
                  /\ Provides(i, n, enabled)' = Provides(i, n, enabled)
    BY <1>2 DEF Name, DependsOn, Provides, memberVars
  <1>6. indegree' \in [Uses -> Nat]
    BY <1>1 DEF TypeOK
  <1>7. TypeOK'
    BY <1>1, <1>2, <1>4, <1>6 DEF TypeOK, memberVars
  <1>8. /\ \A k \in 1..Len(order') : order'[k] \in enabled \ pending'
        /\ \A i \in enabled \ pending' : \E k \in 1..Len(order') : order'[k] = i
    BY <1>1, <1>2, <1>3, <1>4 DEF SortInv
  <1>9. Injective(order)'
    <2>1. Injective(order) /\ \A k \in 1..Len(order) : order[k] \in enabled \ pending
      BY <1>2 DEF SortInv
    <2>2. \A k \in 1..Len(order) : order'[k] # b
      BY <1>1, <1>4, <2>1
    <2>3. \A k \in 1..Len(order') : k = Len(order) + 1 \/ k \in 1..Len(order)
      BY <1>4
    <2>4. \A j, k \in 1..Len(order') : order'[j] = order'[k] => j = k
      BY <1>4, <2>1, <2>2, <2>3 DEF Injective
    <2> QED BY <2>4 DEF Injective
  <1>10. Missing(b) = {}
    BY <1>2, <1>3, MissingFinite, FS_EmptySet DEF SortInv
  <1>11. DepsEarlier(order)'
    <2> SUFFICES ASSUME NEW k \in 1..Len(order'), NEW n \in DependsOn(order'[k])
                 PROVE  \E j \in 1..(k-1) : Name(order'[j]) = n
      BY <1>5 DEF DepsEarlier
    <2>1. CASE k \in 1..Len(order)
      <3>0. DepsEarlier(order)
        BY <1>2 DEF SortInv
      <3>a. order'[k] = order[k]
        BY <1>4, <2>1
      <3>1. PICK j \in 1..(k-1) : Name(order[j]) = n
        BY <2>1, <3>0, <3>a DEF DepsEarlier
      <3>2. j \in 1..Len(order) /\ order'[j] = order[j]
        BY <1>4, <2>1
      <3> QED
        BY <3>1, <3>2
    <2>2. CASE k = Len(order) + 1
      <3>1. PICK p \in enabled : Provides(p, n, enabled)
        BY <1>2, <1>3, <1>4, <2>2 DEF SortInv
      <3>2. p \notin pending
        BY <1>4, <1>10, <2>2, <3>1 DEF Missing
      <3>3. PICK j \in 1..Len(order) : order[j] = p
        BY <1>2, <3>2 DEF SortInv
      <3>4. Name(order'[j]) = n
        BY <1>4, <3>1, <3>3 DEF Provides
      <3> QED
        BY <1>4, <2>2, <3>4
    <2>3. k \in 1..Len(order) + 1 /\ Len(order) \in Nat
      BY <1>4
    <2> QED
      BY <2>1, <2>2, <2>3
  <1>12. ASSUME NEW i \in enabled PROVE indegree'[i] = Cardinality(Missing(i)')
    <2>1. i \in 1..Len(modules) /\ i \in Uses
      BY MaxUsesAssumption DEF TypeOK, Uses
    <2>2. indegree[i] = Cardinality(Missing(i)) /\ indegree[i] \in Nat
      BY <1>2, <2>1 DEF SortInv, TypeOK
    <2>3. CASE Needs(i, b, enabled)
      <3>1. Name(b) \in Missing(i) /\ Provides(b, Name(b), enabled)
        BY <2>3 DEF Needs, Missing, Provides
      <3>2. \A n : \A p \in pending : (Provides(p, n, enabled) /\ p # b) => n # Name(b)
        BY <1>3, <3>1 DEF Provides, TypeOK
      <3>3. Missing(i)' = Missing(i) \ {Name(b)}
        <4>1. \A n : n \in Missing(i)' <=>
                     n \in DependsOn(i) /\ \E p \in pending \ {b} : Provides(p, n, enabled)
          BY <1>1, <1>5 DEF Missing
        <4>2. \A n : Provides(b, n, enabled) => n = Name(b)
          BY DEF Provides
        <4> QED
          BY <3>2, <4>1, <4>2 DEF Missing
      <3>4. Cardinality(Missing(i)') = Cardinality(Missing(i)) - 1
        BY <2>1, <3>1, <3>3, MissingFinite, FS_RemoveElement
      <3>5. indegree[i] > 0
        BY <2>1, <2>2, <3>1, MissingFinite, FS_EmptySet
      <3> QED
        BY <1>1, <2>1, <2>2, <2>3, <3>4, <3>5
    <2>4. CASE ~Needs(i, b, enabled)
      <3>1. Missing(i)' = Missing(i)
        BY <1>1, <1>5, <2>4 DEF Missing, Needs
      <3> QED
        BY <1>1, <2>1, <2>2, <2>4, <3>1
    <2> QED
      BY <2>3, <2>4
  <1>13. \A i \in enabled : \A n \in DependsOn(i) : \E j \in enabled : Provides(j, n, enabled)
    BY <1>2 DEF SortInv
  <1>14. SortInv'
    BY <1>2, <1>5, <1>8, <1>9, <1>11, <1>12, <1>13 DEF SortInv
  <1> QED
    BY <1>2, <1>7, <1>14, SortStep DEF memberVars, Inv, ThrownInv

-----------------------------------------------------------------------------
LEMMA NextInv == Inv /\ [Next]_vars => Inv'
  <1> SUFFICES ASSUME Inv, [Next]_vars PROVE Inv'
    OBVIOUS
  <1>1. CASE UNCHANGED vars
    <2> USE <1>1 DEF vars, memberVars, sortVars
    <2>1. TypeOK' /\ SortInv'
      <3>1. TypeOK'
        BY DEF Inv, TypeOK
      <3>2. \A i, n : Name(i)' = Name(i) /\ DependsOn(i)' = DependsOn(i)
                     /\ Provides(i, n, enabled)' = Provides(i, n, enabled)
        BY DEF Name, DependsOn, Provides
      <3>3. \A i : Missing(i)' = Missing(i)
        BY <3>2 DEF Missing
      <3>4. /\ DepsEarlier(order)' <=> DepsEarlier(order)
            /\ Injective(order)' <=> Injective(order)
        BY DEF Injective, DepsEarlier, Name, DependsOn
      <3>5. SortInv'
        BY <3>2, <3>3, <3>4 DEF Inv, SortInv
      <3> QED
        BY <3>1, <3>5
    <2>2. ListInv' /\ (Distinct' <=> Distinct)
      BY SameList DEF Inv
    <2>3. ControlInv' /\ LifeInv'
      BY <2>2 DEF Inv, ControlInv, LifeInv, Expected
    <2>4. ThrownInv'
      BY <2>2, ThrownStays DEF Inv, ThrownInv
    <2> QED
      BY <2>1, <2>2, <2>3, <2>4 DEF Inv
  <1>2. CASE \E m \in Modules : Use(m)
    BY <1>2, UseInv
  <1>3. CASE \E on \in SUBSET Modules : RunBegin(on)
    BY <1>3, RunBeginInv
  <1>4. CASE RunStep
    <2>1. CASE SortPick \/ SortFail \/ SortDone
      BY <2>1, SortPickInv, SortFailInv, SortDoneInv
    <2>2. CASE InitOk \/ InitFail \/ StartOk \/ StartFail
      BY <2>2, InitOkInv, InitFailInv, StartOkInv, StartFailInv
    <2>3. CASE Unstart \/ Undo \/ HookThrow
      BY <2>3, UnstartInv, UndoInv, HookThrowInv
    <2>4. CASE InitDone \/ StartDone \/ UnstartDone \/ UndoDone
      BY <2>4, TurnInv
    <2> QED
      BY <1>4, <2>1, <2>2, <2>3, <2>4 DEF RunStep
  <1>5. CASE ShutdownStep
    BY <1>5, ShutdownStopInv, ShutdownCleanInv, TurnInv DEF ShutdownStep
  <1>6. CASE LoopQuit \/ Destroy \/ \E to \in {"idle", "loop", "gone"} : ShutdownBegin(to)
    BY <1>6, TurnInv
  <1>7. CASE Ended
    BY <1>1, <1>7 DEF Ended
  <1> QED
    BY <1>1, <1>2, <1>3, <1>4, <1>5, <1>6, <1>7 DEF Next

(* The invariant the other theorems rest on.                               *)
THEOREM InvCorrect == Spec => []Inv
  <1> QED
    BY InitInv, NextInv, PTL DEF Spec

(* The members of Scaffold and the locals of run() keep their types.       *)
THEOREM TypeCorrect == Spec => []TypeOK
  <1>1. Inv => TypeOK
    BY DEF Inv
  <1> QED
    BY <1>1, InvCorrect, PTL

(* Whatever fails, and until run() is called again after a hook threw, no  *)
(* hook of a module is called out of turn.                                 *)
THEOREM HooksCorrect == Spec => []HooksInTurn
  <1>1. Inv => HooksInTurn
    BY LivesAreRight
  <1> QED
    BY <1>1, InvCorrect, PTL

(* For every graph of dependencies: no module is up or runs without the    *)
(* modules it depends on.                                                  *)
THEOREM DependenciesCorrect == Spec => []DependenciesFirst
  <1>1. Inv => DependenciesFirst
    BY LivesAreRight
  <1> QED
    BY <1>1, InvCorrect, PTL

(* A failed run() and shutdown() leave no module up if no hook threw.      *)
THEOREM RollbackComplete == Spec => []NothingLeftUp
  <1>1. Inv => NothingLeftUp
    <2> SUFFICES ASSUME Inv, Distinct, threw = "never", ~initialized, phase \in {"idle", "loop", "gone"},
                        NEW m \in Modules
                 PROVE  life[m] = "down"
      BY DEF NothingLeftUp
    <2> QED
      BY DEF Inv, LifeInv, Expected
  <1> QED
    BY <1>1, InvCorrect, PTL

(* shutdown() will reach exactly the started modules.                      *)
THEOREM ListIsWhatRuns == Spec => []RunningMeansStarted
  <1>1. Inv => RunningMeansStarted
    <2> SUFFICES ASSUME Inv, Distinct, threw # "again", initialized, phase \in {"idle", "loop"},
                        NEW m \in Modules
                 PROVE  life[m] = "started" <=>
                          \E k \in 1..Len(sorted) : modules[sorted[k]] = m
      BY DEF RunningMeansStarted
    <2>1. threw = "never"
      BY DEF Inv, TypeOK, ThrownInv
    <2> QED
      BY <2>1 DEF Inv, LifeInv, Expected
  <1> QED
    BY <1>1, InvCorrect, PTL

(* A hook that throws leaves up the modules initialised before it.         *)
THEOREM ThrownCorrect == Spec => []ThrownLeavesUp
  <1>1. Inv => ThrownLeavesUp
    BY DEF Inv, ThrownInv, ThrownLeavesUp
  <1> QED
    BY <1>1, InvCorrect, PTL

(* What the sort has decided so far.  A module that is visited after       *)
(* position j, or not yet, is Later; if all that it needs came before j it *)
(* was a candidate then, and lost.                                         *)
Better(j, i) ==
    \/ Priority(j) > Priority(i)
    \/ Priority(j) = Priority(i) /\ j < i

Later(j, i) == i \in pending \/ \E h \in 1..Len(order) : j < h /\ order[h] = i

Ready(j, i) ==
    \A p \in enabled : Needs(i, p, enabled) => \E h \in 1..(j-1) : order[h] = p

RankInv ==
    phase = "sort" =>
        \A j \in 1..Len(order), i \in enabled :
            Later(j, i) /\ Ready(j, i) => Better(order[j], i)

(* A pending module none of whose dependencies is pending is a candidate.  *)
LEMMA ReadyIsCandidate ==
    ASSUME Inv, phase = "sort", NEW i \in pending,
           \A p \in enabled : Needs(i, p, enabled) => p \notin pending
    PROVE  i \in Candidates
  <1>1. i \in enabled /\ i \in 1..Len(modules) /\ pending \subseteq enabled
    BY DEF Inv, TypeOK
  <1>2. Missing(i) = {}
    BY <1>1 DEF Missing, Needs
  <1>3. indegree[i] = 0
    BY <1>1, <1>2, FS_EmptySet DEF Inv, SortInv
  <1> QED
    BY <1>3 DEF Candidates

LEMMA SortPickRank ==
    ASSUME Inv, RankInv, SortPick
    PROVE  RankInv'
  <1>1. PICK b \in pending :
           /\ Best(b)
           /\ pending' = pending \ {b}
           /\ order' = Append(order, b)
    BY DEF SortPick
  <1>2. UNCHANGED <<decl, modules, enabled, phase>> /\ phase = "sort"
    BY DEF SortPick, memberVars
  <1>3. /\ order \in Seq(1..Len(modules)) /\ Len(order) \in Nat
        /\ pending \subseteq enabled /\ enabled \subseteq 1..Len(modules)
    BY DEF Inv, TypeOK
  <1>4. /\ Len(order') = Len(order) + 1 /\ order'[Len(order) + 1] = b
        /\ \A h \in 1..Len(order) : order'[h] = order[h]
    BY <1>1, <1>3
  <1>5. /\ \A x, y : Needs(x, y, enabled)' <=> Needs(x, y, enabled)
        /\ \A x, y : Better(x, y)' <=> Better(x, y)
    BY <1>2 DEF Needs, Provides, DependsOn, Name, Better, Priority
  <1>6. ASSUME NEW j \in 1..Len(order'), NEW i \in enabled, Later(j, i)', Ready(j, i)'
        PROVE  Better(order'[j], i)
    <2>0. j \in 1..(Len(order) + 1) /\ Len(order) \in Nat
      BY <1>3, <1>4
    <2>1. ASSUME NEW p \in enabled, Needs(i, p, enabled)
          PROVE  \E h \in 1..(j-1) : h \in 1..Len(order) /\ order[h] = p
      <3>1. PICK h \in 1..(j-1) : order'[h] = p
        BY <1>2, <1>5, <1>6, <2>1 DEF Ready
      <3>2. h \in 1..Len(order)
        BY <2>0, <3>1
      <3> QED
        BY <1>4, <3>1, <3>2
    <2>2. CASE j \in 1..Len(order)
      <3>1. Later(j, i)
        <4>1. CASE i \in pending'
          BY <1>1, <4>1 DEF Later
        <4>2. ASSUME NEW h \in 1..(Len(order) + 1), j < h, order'[h] = i
              PROVE  Later(j, i)
          <5>1. CASE h = Len(order) + 1
            BY <1>4, <4>2, <5>1 DEF Later
          <5>2. CASE h # Len(order) + 1
            <6>1. h \in 1..Len(order)
              BY <2>0, <5>2
            <6> QED
              BY <1>4, <4>2, <6>1 DEF Later
          <5> QED
            BY <5>1, <5>2
        <4> QED
          BY <1>4, <1>6, <4>1, <4>2 DEF Later
      <3>2. Ready(j, i)
        BY <2>1 DEF Ready
      <3> QED
        BY <1>2, <1>4, <2>2, <3>1, <3>2 DEF RankInv
    <2>3. CASE j = Len(order) + 1
      <3>1. i \in pending /\ i # b
        <4>1. \A h \in 1..Len(order') : ~ (j < h)
          BY <1>4, <2>0, <2>3
        <4> QED
          BY <1>1, <1>6, <4>1 DEF Later
      <3>2. \A p \in enabled : Needs(i, p, enabled) => p \notin pending
        BY <1>2, <2>1 DEF Inv, SortInv
      <3>3. i \in Candidates
        BY <1>2, <3>1, <3>2, ReadyIsCandidate
      <3>4. Priority(i) < Priority(b) \/ (Priority(i) = Priority(b) /\ b <= i)
        BY <1>1, <3>3 DEF Best
      <3>5. Priority(i) \in Int /\ Priority(b) \in Int /\ i \in Int /\ b \in Int
        BY <1>1, <1>3, DeclarationTypes DEF Inv
      <3> QED
        BY <1>4, <2>3, <3>1, <3>4, <3>5 DEF Better
    <2> QED
      BY <2>0, <2>2, <2>3
  <1> QED
    BY <1>2, <1>5, <1>6 DEF RankInv

(* The order that the sort hands over.                                     *)
LEMMA SortDonePriority ==
    ASSUME Inv, RankInv, SortDone
    PROVE  PriorityOrder'
  <1>1. /\ UNCHANGED <<decl, modules>> /\ sorted' = order
        /\ phase = "sort" /\ pending = {}
    BY DEF SortDone
  <1>2. /\ \A x : Name(x)' = Name(x) /\ DependsOn(x)' = DependsOn(x)
        /\ \A x : Priority(x)' = Priority(x)
    BY <1>1 DEF Name, DependsOn, Priority
  <1>3. ASSUME NEW j \in 1..Len(order), NEW k \in 1..Len(order), j < k,
               \A h \in 1..Len(order) : Name(order[h]) \in DependsOn(order[k]) => h < j
        PROVE  Better(order[j], order[k])
    <2>1. order[k] \in enabled
      BY <1>1 DEF Inv, SortInv
    <2>2. Later(j, order[k])
      BY <1>3 DEF Later
    <2>3. ASSUME NEW p \in enabled, Needs(order[k], p, enabled)
          PROVE  \E h \in 1..(j-1) : order[h] = p
      <3>1. PICK h \in 1..Len(order) : order[h] = p
        BY <1>1 DEF Inv, SortInv
      <3>2. Name(order[h]) \in DependsOn(order[k])
        BY <2>3, <3>1 DEF Needs, Provides
      <3> QED
        BY <1>3, <3>1, <3>2
    <2> QED
      BY <1>1, <2>1, <2>2, <2>3 DEF RankInv, Ready
  <1> QED
    BY <1>1, <1>2, <1>3 DEF PriorityOrder, Better

(* use() from an init() hook appends to m_modules: what is sorted stays.   *)
LEMMA UsePriority ==
    ASSUME Inv, PriorityOrder, NEW m \in Modules, Use(m)
    PROVE  PriorityOrder'
  <1>1. /\ UNCHANGED <<decl, sorted, phase>>
        /\ \A i \in 1..Len(modules) : modules'[i] = modules[i]
    BY DEF Use, Inv, TypeOK
  <1>2. \A k \in 1..Len(sorted) : sorted[k] \in 1..Len(modules)
    BY DEF Inv, TypeOK
  <1>3. \A k \in 1..Len(sorted) :
           /\ Name(sorted[k])' = Name(sorted[k]) /\ DependsOn(sorted[k])' = DependsOn(sorted[k])
           /\ Priority(sorted[k])' = Priority(sorted[k])
    BY <1>1, <1>2 DEF Name, DependsOn, Priority
  <1> QED
    BY <1>1, <1>3 DEF PriorityOrder

LEMMA OtherStepsRank ==
    ASSUME Inv, RankInv, PriorityOrder, [Next]_vars,
           ~ SortPick, ~ SortDone, \A m \in Modules : ~ Use(m)
    PROVE  RankInv' /\ PriorityOrder'
  <1>1. CASE \E on \in SUBSET Modules : RunBegin(on)
    BY <1>1 DEF RunBegin, RankInv, PriorityOrder
  <1>2. CASE UNCHANGED vars
    BY <1>2 DEF vars, memberVars, sortVars, RankInv, PriorityOrder, Later, Ready, Better, Needs,
                Provides, Name, DependsOn, Priority
  <1>3. CASE InitOk
    BY <1>3 DEF InitOk, memberVars, RankInv, PriorityOrder, Name, DependsOn, Priority
  <1>4. CASE /\ \A on \in SUBSET Modules : ~ RunBegin(on)
             /\ ~ UNCHANGED vars /\ ~ InitOk
    <2>1. phase' \notin {"sort", "init"}
      BY <1>4 DEF Next, RunStep, SortFail, InitFail, InitDone, StartOk, StartFail, StartDone,
                  HookThrow, Unstart, UnstartDone, Undo, UndoDone, LoopQuit, ShutdownBegin,
                  ShutdownStep, ShutdownStop, ShutdownClean, ShutdownEnd, Destroy, Ended,
                  Inv, TypeOK
    <2> QED
      BY <2>1 DEF RankInv, PriorityOrder
  <1> QED
    BY <1>1, <1>2, <1>3, <1>4

(* For every graph of dependencies and all priorities: of the modules that *)
(* may come next, the sort of scaffold.cpp:47-100 takes the one of the     *)
(* highest priority and, among equals, the one registered first.           *)
THEOREM OrderCorrect == Spec => [](TypeOK /\ PriorityOrder)
  <1>1. Init => RankInv /\ PriorityOrder
    BY DEF Init, RankInv, PriorityOrder
  <1>2. Inv /\ RankInv /\ PriorityOrder /\ [Next]_vars => RankInv' /\ PriorityOrder'
    <2> SUFFICES ASSUME Inv, RankInv, PriorityOrder, [Next]_vars
                 PROVE  RankInv' /\ PriorityOrder'
      OBVIOUS
    <2>1. CASE SortPick
      <3>1. PriorityOrder'
        BY <2>1 DEF SortPick, PriorityOrder
      <3> QED
        BY <2>1, <3>1, SortPickRank
    <2>2. CASE SortDone
      <3>1. RankInv'
        BY <2>2 DEF SortDone, RankInv
      <3> QED
        BY <2>2, <3>1, SortDonePriority
    <2>3. CASE \E m \in Modules : Use(m)
      <3>1. RankInv'
        BY <2>3 DEF Use, RankInv
      <3> QED
        BY <2>3, <3>1, UsePriority
    <2> QED
      BY <2>1, <2>2, <2>3, OtherStepsRank
  <1>3. Inv => TypeOK
    BY DEF Inv
  <1> QED
    BY <1>1, <1>2, <1>3, InvCorrect, PTL DEF Spec

(* The sort gives up only when the modules that are left need each other   *)
(* in a circle (scaffold.cpp:88-92), for every graph of dependencies.      *)
THEOREM CyclesOnly == Spec => FailsOnCycleOnly
  <1>1. Inv /\ [Next]_vars =>
          [phase = "sort" /\ phase' = "idle" =>
             \E S \in SUBSET enabled : CircularSet(S, enabled)]_vars
    <2> SUFFICES ASSUME Inv, Next, phase = "sort", phase' = "idle"
                 PROVE  \E S \in SUBSET enabled : CircularSet(S, enabled)
      OBVIOUS
    <2>1. pending # {} /\ Candidates = {}
      BY DEF Next, Use, RunBegin, RunStep, SortPick, SortFail, SortDone, InitOk, InitFail,
             InitDone, StartOk, StartFail, StartDone, HookThrow, Unstart, UnstartDone, Undo,
             UndoDone, LoopQuit, ShutdownBegin, ShutdownStep, ShutdownStop, ShutdownClean,
             ShutdownEnd, Destroy, Ended, vars
    <2>2. pending \in SUBSET enabled
      BY DEF Inv, TypeOK
    <2>3. ASSUME NEW i \in pending PROVE \E j \in pending : Needs(i, j, enabled)
      BY <2>1, <2>2, <2>3, ReadyIsCandidate
    <2> QED
      BY <2>1, <2>2, <2>3 DEF CircularSet
  <1> QED
    BY <1>1, InvCorrect, PTL DEF Spec, FailsOnCycleOnly

(* Both together, as the run of the scaffold checks them: what             *)
(* scaffold.cpp:47-100 makes of the declarations.                          *)
THEOREM SortCorrect == Spec => SortSound
  BY OrderCorrect, CyclesOnly, PTL DEF SortSound

(* The five together, as the run of the scaffold checks them: run(), its   *)
(* two kinds of roll back, the exception out of a hook, shutdown() and the *)
(* destructor (scaffold.cpp:103-228).                                      *)
THEOREM LifecycleCorrect == Spec => []LifecycleSound
  BY HooksCorrect, DependenciesCorrect, RollbackComplete, ThrownCorrect, ListIsWhatRuns, PTL
     DEF LifecycleSound

-----------------------------------------------------------------------------
(***************************************************************************)
(* The layers of the configuration, for any files, edits and settings.     *)
(***************************************************************************)

(* What a layer or a file may hold of the key.                             *)
Held == Settings \cup Contents \cup Edits \cup {"none", "broken"}

LayersInv ==
    /\ disk \in [1..FileCount -> Held]
    /\ layers \in Seq(Held) /\ Len(layers) <= MaxLayers

(* What was promised is still what the file holds.                         *)
SavedInv ==
    promised # "none" => disk[ConfigJson] = promised /\ Valued(promised) /\ Readable(promised)

(* A callback that is on no copy is up to date.                            *)
ListenersInv ==
    /\ tokens \in 0..MaxTokens /\ listening \subseteq 1..tokens /\ changes \in Nat
    /\ notices \in [Setters \cup {Watcher} -> SUBSET Nat] /\ seen \in [1..MaxTokens -> Nat]
    /\ ListenersCurrent

ConfigInv == LayersInv /\ SavedInv /\ ListenersInv

-----------------------------------------------------------------------------
LEMMA SeqMembers ==
    ASSUME NEW S, NEW r \in Seq(S)
    PROVE  DOMAIN r = 1..Len(r) /\ Len(r) \in Nat /\ \A i \in 1..Len(r) : r[i] \in S
  OBVIOUS

(* What is kept of an increasing sequence is increasing.                   *)
LEMMA OnlyRises ==
    ASSUME NEW s \in Seq(Int), NEW D, \A i, j \in 1..Len(s) : i < j => s[i] < s[j]
    PROVE  \A i, j \in 1..Len(Only(s, D)) : i < j => Only(s, D)[i] < Only(s, D)[j]
  <1>0. Len(s) \in Nat /\ DOMAIN s = 1..Len(s) /\ \A i \in 1..Len(s) : s[i] \in Int
    OBVIOUS
  <1>1. PICK f : /\ \A n \in 0..Len(s) : f[n] = OnlyStep(f, s, D, n)
                 /\ Only(s, D) = f[Len(s)]
    BY <1>0, OnlyIs
  <1> DEFINE Rising(t, n) == /\ t \in Seq(Int)
                             /\ \A i, j \in 1..Len(t) : i < j => t[i] < t[j]
                             /\ \A i \in 1..Len(t) : \A m \in (n + 1)..Len(s) : t[i] < s[m]
             T == {n \in 0..Len(s) : Rising(f[n], n)}
  <1>2. 0 \in T
    <2>1. f[0] = <<>>
      BY <1>0, <1>1 DEF OnlyStep
    <2>2. <<>> \in Seq(Int) /\ 1..Len(<<>>) = {}
      OBVIOUS
    <2>3. Rising(<<>>, 0)
      BY <2>2
    <2>4. 0 \in 0..Len(s)
      BY <1>0
    <2> HIDE DEF Rising
    <2> QED BY <2>1, <2>3, <2>4
  <1>3. ASSUME NEW n \in 0..(Len(s) - 1), n \in T
        PROVE  n + 1 \in T
    <2> DEFINE x == s[n + 1]
               t == f[n]
    <2>1. n + 1 \in 0..Len(s) /\ n + 1 # 0 /\ n + 1 \in 1..Len(s) /\ n \in Nat
      BY <1>0
    <2>2. f[n + 1] = (IF x \in D THEN Append(t, x) ELSE t) /\ x \in Int
      BY <1>0, <1>1, <2>1 DEF OnlyStep
    <2>3. Rising(t, n)
      BY <1>3
    <2>4. \A m \in (n + 2)..Len(s) : m \in 1..Len(s) /\ m \in (n + 1)..Len(s) /\ x < s[m]
      BY <1>0, <2>1
    <2>5. \A i \in 1..Len(t) : t[i] < x
      BY <1>0, <2>1, <2>3
    <2> HIDE DEF x, t
    <2>6. Rising(t, n + 1)
      BY <2>1, <2>3, <2>4
    <2>7. Rising(Append(t, x), n + 1)
      <3> DEFINE u == Append(t, x)
      <3>1. t \in Seq(Int) /\ Len(t) \in Nat
        BY <2>3
      <3>2. u \in Seq(Int) /\ Len(u) = Len(t) + 1 /\ u[Len(t) + 1] = x
            /\ \A i \in 1..Len(t) : u[i] = t[i]
        BY <2>2, <3>1
      <3> HIDE DEF u
      <3>3. \A i \in 1..Len(u) : i = Len(t) + 1 \/ i \in 1..Len(t)
        BY <3>1, <3>2
      <3>4. \A i, j \in 1..Len(u) : i < j => i \in 1..Len(t)
        BY <3>1, <3>2
      <3>5. \A i, j \in 1..Len(u) : i < j => u[i] < u[j]
        BY <2>3, <2>5, <3>2, <3>3, <3>4
      <3>6. \A i \in 1..Len(u) : \A m \in (n + 2)..Len(s) : u[i] < s[m]
        BY <2>3, <2>4, <3>2, <3>3
      <3>7. n + 1 + 1 = n + 2
        BY <2>1
      <3> QED BY <3>2, <3>5, <3>6, <3>7 DEF u
    <2> QED BY <2>1, <2>2, <2>6, <2>7 DEF t
  <1>4. Rising(f[Len(s)], Len(s))
    <2> HIDE DEF T
    <2>1. \A n \in 0..Len(s) : n \in T
      BY <1>0, <1>2, <1>3, InductionUpTo
    <2>2. Len(s) \in T
      BY <1>0, <2>1
    <2> QED BY <2>2 DEF T
  <1> QED BY <1>1, <1>4

-----------------------------------------------------------------------------
(* The last layer that is not skipped, or none.                            *)
LastKept(ls, skipped, p) ==
    /\ p \in 1..Len(ls) /\ ls[p] \notin skipped
    /\ \A j \in 1..Len(ls) : j > p => ls[j] \in skipped

LEMMA HeldByLast ==
    ASSUME NEW S, NEW ls \in Seq(S), NEW skipped, NEW p, LastKept(ls, skipped, p)
    PROVE  HeldBy(ls, skipped) = ls[p]
  <1> DEFINE is == {i \in DOMAIN ls : ls[i] \notin skipped}
  <1>1. Len(ls) \in Nat /\ DOMAIN ls = 1..Len(ls)
    OBVIOUS
  <1>2. p \in is /\ is \subseteq 1..Len(ls) /\ p \in Nat
    BY <1>1 DEF LastKept
  <1>3. \A j \in is : j <= p
    BY <1>1, <1>2 DEF LastKept
  <1> HIDE DEF is
  <1>4. \A i \in is : (\A j \in is : j <= i) => i = p
    <2> SUFFICES ASSUME NEW i \in is, \A j \in is : j <= i PROVE i = p
      OBVIOUS
    <2>1. p <= i /\ i <= p /\ i \in Nat
      BY <1>1, <1>2, <1>3
    <2> QED BY <1>2, <2>1
  <1>5. (CHOOSE i \in is : \A j \in is : j <= i) = p
    BY <1>2, <1>3, <1>4
  <1>6. is # {}
    BY <1>2
  <1> QED BY <1>5, <1>6 DEF HeldBy, is

LEMMA HeldByNone ==
    ASSUME NEW S, NEW ls \in Seq(S), NEW skipped, \A i \in 1..Len(ls) : ls[i] \in skipped
    PROVE  HeldBy(ls, skipped) = "none"
  BY DEF HeldBy

LEMMA LastExists ==
    ASSUME NEW S, NEW ls \in Seq(S), NEW skipped
    PROVE  (\A i \in 1..Len(ls) : ls[i] \in skipped) \/ \E p : LastKept(ls, skipped, p)
  <1> SUFFICES ASSUME NEW q \in 1..Len(ls), ls[q] \notin skipped PROVE \E p : LastKept(ls, skipped, p)
    OBVIOUS
  <1> DEFINE T == {i \in 1..Len(ls) : ls[i] \notin skipped}
  <1>1. Len(ls) \in Nat
    OBVIOUS
  <1>2. T \subseteq 0..Len(ls) /\ T # {}
    BY <1>1
  <1> HIDE DEF T
  <1>3. PICK p \in T : \A i \in T : i <= p
    BY <1>1, <1>2, Greatest
  <1>4. p \in 1..Len(ls) /\ ls[p] \notin skipped
    BY <1>3 DEF T
  <1>5. \A j \in 1..Len(ls) : j > p => ls[j] \in skipped
    BY <1>1, <1>3, <1>4 DEF T
  <1> QED BY <1>4, <1>5 DEF LastKept

LEMMA HeldByType ==
    ASSUME NEW S, NEW ls \in Seq(S), NEW skipped
    PROVE  HeldBy(ls, skipped) \in S \cup {"none"}
  <1>1. CASE \A i \in 1..Len(ls) : ls[i] \in skipped
    BY <1>1, HeldByNone
  <1>2. ASSUME NEW p, LastKept(ls, skipped, p) PROVE HeldBy(ls, skipped) \in S \cup {"none"}
    <2>1. HeldBy(ls, skipped) = ls[p] /\ p \in 1..Len(ls)
      BY <1>2, HeldByLast DEF LastKept
    <2> QED BY <2>1
  <1> QED BY <1>1, <1>2, LastExists

-----------------------------------------------------------------------------
(* One step of getAll().                                                   *)
ForwardStep(f, ls, n) ==
    IF n = 0 THEN "none"
    ELSE IF n \notin DOMAIN ls \/ ~ Valued(ls[n]) THEN f[n - 1]
    ELSE IF ls[n] = "nested" THEN "dropped" ELSE ls[n]

LEMMA ForwardExists ==
    ASSUME NEW ls, MaxLayers \in Nat
    PROVE  \E f : f = [n \in 0..MaxLayers |-> ForwardStep(f, ls, n)]
  <1> DEFINE T == {n \in 0..MaxLayers : \E f : f = [m \in 0..n |-> ForwardStep(f, ls, m)]}
  <1>1. MaxLayers \in Nat
    OBVIOUS
  <1>2. 0 \in T
    <2> DEFINE f == [m \in 0..0 |-> "none"]
    <2>1. f = [m \in 0..0 |-> ForwardStep(f, ls, m)]
      BY DEF ForwardStep
    <2> QED BY <1>1, <2>1
  <1>3. ASSUME NEW n \in 0..(MaxLayers - 1), n \in T
        PROVE  n + 1 \in T
    <2>1. PICK f : f = [m \in 0..n |-> ForwardStep(f, ls, m)]
      BY <1>3
    <2> DEFINE g == [m \in 0..(n + 1) |-> IF m = n + 1 THEN ForwardStep(f, ls, m) ELSE f[m]]
    <2>2. \A m \in 0..(n + 1) : g[m] = ForwardStep(g, ls, m)
      <3> SUFFICES ASSUME NEW m \in 0..(n + 1) PROVE g[m] = ForwardStep(g, ls, m)
        OBVIOUS
      <3>1. m # 0 => m - 1 \in 0..n /\ g[m - 1] = f[m - 1]
        OBVIOUS
      <3>2. ForwardStep(g, ls, m) = ForwardStep(f, ls, m)
        BY <3>1 DEF ForwardStep
      <3>3. m # n + 1 => f[m] = ForwardStep(f, ls, m)
        BY <2>1
      <3>4. g[m] = IF m = n + 1 THEN ForwardStep(f, ls, m) ELSE f[m]
        OBVIOUS
      <3> QED BY <3>2, <3>3, <3>4
    <2>3. g = [m \in 0..(n + 1) |-> g[m]]
      OBVIOUS
    <2> HIDE DEF g
    <2>4. g = [m \in 0..(n + 1) |-> ForwardStep(g, ls, m)]
      BY <2>2, <2>3
    <2>5. n + 1 \in 0..MaxLayers
      BY <1>1
    <2> QED BY <2>4, <2>5
  <1> HIDE DEF T
  <1>4. MaxLayers \in T
    <2>1. \A n \in 0..MaxLayers : n \in T
      BY <1>1, <1>2, <1>3, InductionUpTo
    <2> QED BY <1>1, <2>1
  <1> QED BY <1>4 DEF T

LEMMA ForwardIs == \A n \in 0..MaxLayers : Forward[n] = ForwardStep(Forward, layers, n)
  <1>1. MaxLayers \in Nat
    BY ConfigAssumption
  <1>2. Forward = CHOOSE f : f = [n \in 0..MaxLayers |-> ForwardStep(f, layers, n)]
    BY DEF Forward, ForwardStep
  <1>3. \E f : f = [n \in 0..MaxLayers |-> ForwardStep(f, layers, n)]
    BY <1>1, ForwardExists
  <1>4. Forward = [n \in 0..MaxLayers |-> ForwardStep(Forward, layers, n)]
    BY <1>2, <1>3
  <1> QED BY <1>4

(* Going forward gives the last valued layer too.                          *)
Seen(c) == IF c = "nested" THEN "dropped" ELSE c

LEMMA ForwardFindsLast ==
    ASSUME LayersInv
    PROVE  /\ (\A i \in 1..Len(layers) : ~Valued(layers[i])) => GetAll = "none"
           /\ \A p \in 1..Len(layers) :
                Valued(layers[p]) /\ (\A j \in 1..Len(layers) : j > p => ~Valued(layers[j]))
                  => GetAll = Seen(layers[p])
  <1> DEFINE l == Len(layers)
             F == Forward
             T == {n \in 0..l :
                     /\ (\A i \in 1..n : ~Valued(layers[i])) => F[n] = "none"
                     /\ \A p \in 1..n :
                          Valued(layers[p]) /\ (\A j \in 1..n : j > p => ~Valued(layers[j]))
                            => F[n] = Seen(layers[p])}
  <1>0. l \in Nat /\ l <= MaxLayers /\ MaxLayers \in Nat /\ DOMAIN layers = 1..l
    BY ConfigAssumption DEF LayersInv
  <1>1. \A n \in 0..l : F[n] = ForwardStep(F, layers, n)
    <2>1. \A n \in 0..l : n \in 0..MaxLayers
      BY <1>0
    <2> HIDE DEF l
    <2> QED BY <2>1, ForwardIs
  <1> HIDE DEF F
  <1>2. 0 \in T
    <2>1. 0 \in 0..l /\ F[0] = "none"
      BY <1>0, <1>1 DEF ForwardStep
    <2> QED BY <2>1
  <1>3. ASSUME NEW n \in 0..(l - 1), n \in T
        PROVE  n + 1 \in T
    <2> HIDE DEF l
    <2>1. n + 1 \in 0..l /\ n + 1 # 0 /\ n + 1 \in 1..l /\ n + 1 - 1 = n
      BY <1>0
    <2>2. F[n + 1] = IF ~Valued(layers[n + 1]) THEN F[n] ELSE Seen(layers[n + 1])
      BY <1>0, <1>1, <2>1 DEF ForwardStep, Seen
    <2>3. \A i \in 1..(n + 1) : i = n + 1 \/ i \in 1..n
      BY <1>0
    <2>4. \A i \in 1..n : i \in 1..(n + 1) /\ i < n + 1
      BY <1>0
    <2>5. n + 1 \in 1..(n + 1)
      BY <1>0
    <2>6. (\A i \in 1..(n + 1) : ~Valued(layers[i])) => F[n + 1] = "none"
      <3> SUFFICES ASSUME \A i \in 1..(n + 1) : ~Valued(layers[i]) PROVE F[n + 1] = "none"
        OBVIOUS
      <3>1. \A i \in 1..n : ~Valued(layers[i])
        BY <2>4
      <3>2. F[n] = "none"
        BY <1>3, <3>1
      <3> QED BY <2>2, <2>5, <3>2
    <2>7. ASSUME NEW p \in 1..(n + 1), Valued(layers[p]),
                 \A j \in 1..(n + 1) : j > p => ~Valued(layers[j])
          PROVE  F[n + 1] = Seen(layers[p])
      <3>1. CASE p = n + 1
        BY <2>2, <2>7, <3>1
      <3>2. CASE p # n + 1
        <4>1. p \in 1..n /\ n + 1 > p
          BY <2>3, <2>4, <3>2
        <4>2. ~Valued(layers[n + 1])
          BY <2>5, <2>7, <4>1
        <4>3. \A j \in 1..n : j > p => ~Valued(layers[j])
          BY <2>4, <2>7
        <4>4. F[n] = Seen(layers[p])
          BY <1>3, <2>7, <4>1, <4>3
        <4> QED BY <2>2, <4>2, <4>4
      <3> QED BY <3>1, <3>2
    <2> QED BY <2>1, <2>6, <2>7
  <1>4. l \in T
    <2> HIDE DEF T, l
    <2>1. \A n \in 0..l : n \in T
      BY <1>0, <1>2, <1>3, InductionUpTo
    <2> QED BY <1>0, <2>1
  <1>5. GetAll = F[l]
    BY DEF GetAll, F
  <1> HIDE DEF l
  <1> QED BY <1>4, <1>5 DEF l

LEMMA LookupsDo == LayersInv => LookupsAgree
  <1> SUFFICES ASSUME LayersInv PROVE LookupsAgree
    OBVIOUS
  <1> DEFINE skipped == {"null", "none"}
  <1>0. layers \in Seq(Held) /\ \A c : Valued(c) <=> c \notin skipped
    BY DEF LayersInv, Valued
  <1>1. \A c \in Held : c \notin {"dumped", "dropped"}
    BY ConfigAssumption DEF Held
  <1>2. GetAll = IF LastValue(layers) = "dumped" THEN "dropped" ELSE LastValue(layers)
    <2>1. CASE \A i \in 1..Len(layers) : layers[i] \in skipped
      <3>1. HeldBy(layers, skipped) = "none"
        BY <1>0, <2>1, HeldByNone
      <3>2. GetAll = "none"
        BY <1>0, <2>1, ForwardFindsLast
      <3> QED BY <3>1, <3>2 DEF LastValue
    <2>2. ASSUME NEW p, LastKept(layers, skipped, p)
          PROVE  GetAll = IF LastValue(layers) = "dumped" THEN "dropped" ELSE LastValue(layers)
      <3>1. HeldBy(layers, skipped) = layers[p]
        BY <1>0, <2>2, HeldByLast
      <3>2. p \in 1..Len(layers) /\ layers[p] \in Held
        BY <1>0, <2>2 DEF LastKept
      <3>3. GetAll = Seen(layers[p])
        BY <1>0, <2>2, <3>2, ForwardFindsLast DEF LastKept
      <3> QED BY <1>1, <3>1, <3>2, <3>3 DEF LastValue, Seen
    <2> HIDE DEF skipped
    <2> QED BY <1>0, <2>1, <2>2, LastExists
  <1>3. KeyIsPlain /\ GetValue # "dumped" => GetValue = GetGroup
    <2>1. CASE FromEnvironment # "none"
      BY <2>1 DEF GetValue, GetGroup
    <2>2. CASE FromEnvironment = "none"
      BY <1>2, <2>2 DEF GetValue, GetGroup
    <2> QED BY <2>1, <2>2
  <1> QED BY <1>2, <1>3 DEF LookupsAgree

-----------------------------------------------------------------------------
(* What loading a range of files gives.                                    *)
Numbers(first, last) == [i \in 1..(last - first + 1) |-> first + i - 1]

LEMMA LayersOfIs ==
    ASSUME LayersInv, NEW first \in Nat \ {0}, NEW last \in Nat, last <= FileCount, first <= last + 1
    PROVE  \E r \in Seq(first..last) :
              /\ Range(r) = {f \in first..last : Readable(disk[f])}
              /\ \A i, j \in 1..Len(r) : i < j => r[i] < r[j]
              /\ LayersOf(first, last) = [i \in 1..Len(r) |-> disk[r[i]]]
              /\ LayersOf(first, last) \in Seq(Held)
  <1> DEFINE s == Numbers(first, last)
             D == {f \in first..last : Readable(disk[f])}
             r == Only(s, D)
             n == last - first + 1
  <1>1. n \in Nat /\ s = [i \in 1..n |-> first + i - 1]
    BY DEF Numbers
  <1>2. \A i \in 1..n : first + i - 1 \in first..last
    BY <1>1
  <1>3. s \in Seq(first..last) /\ Len(s) = n /\ \A i \in 1..n : s[i] = first + i - 1
    <2> HIDE DEF n, s
    <2> QED BY <1>1, <1>2
  <1>4. Range(s) = first..last
    <2>1. \A f \in first..last : f - first + 1 \in 1..n /\ first + (f - first + 1) - 1 = f
      OBVIOUS
    <2> HIDE DEF n, s
    <2>2. Range(s) = {first + i - 1 : i \in 1..n}
      BY <1>1 DEF Range
    <2> QED BY <1>2, <2>1, <2>2
  <1>5. s \in Seq(Int) /\ \A i, j \in 1..Len(s) : i < j => s[i] < s[j]
    <2>1. s \in Seq(Int)
      BY <1>3
    <2> HIDE DEF n, s
    <2> QED BY <1>1, <1>3, <2>1
  <1> HIDE DEF s
  <1>6. r \in Seq(first..last) /\ Range(r) = (first..last) \cap D
    <2> HIDE DEF D
    <2> QED BY <1>3, <1>4, OnlyKeeps
  <1>7. \A i, j \in 1..Len(r) : i < j => r[i] < r[j]
    <2> HIDE DEF D
    <2> QED BY <1>5, OnlyRises
  <1>8. LayersOf(first, last) = [i \in DOMAIN r |-> disk[r[i]]]
    BY DEF LayersOf, s, Numbers
  <1>9. Range(r) = D
    BY <1>6
  <1> HIDE DEF r
  <1>10. DOMAIN r = 1..Len(r) /\ Len(r) \in Nat /\ \A i \in 1..Len(r) : r[i] \in first..last
    BY <1>6
  <1>11. first..last \subseteq 1..FileCount /\ \A f \in 1..FileCount : disk[f] \in Held
    BY ConfigAssumption DEF LayersInv, FileCount
  <1>12. [i \in 1..Len(r) |-> disk[r[i]]] \in Seq(Held)
    BY <1>10, <1>11
  <1> QED BY <1>6, <1>7, <1>8, <1>9, <1>10, <1>12

LEMMA SavedDo == LayersInv /\ SavedInv => SavedIsRead
  <1> SUFFICES ASSUME LayersInv, SavedInv, promised \notin {"none", "nested"},
                      \A f \in (ConfigJson + 1)..MainFiles : ~ Valued(disk[f]) \/ ~ Readable(disk[f])
               PROVE  LastValue(LayersOf(1, MainFiles)) = promised
    BY DEF SavedIsRead
  <1>1. /\ ConfigJson \in 1..MainFiles /\ MainFiles \in Nat /\ MainFiles <= FileCount /\ 1 <= MainFiles + 1
        /\ 1 \in Nat \ {0}
    BY ConfigAssumption DEF FileCount
  <1>2. disk[ConfigJson] = promised /\ Valued(promised) /\ Readable(promised)
    BY DEF SavedInv
  <1>3. PICK r \in Seq(1..MainFiles) :
              /\ Range(r) = {f \in 1..MainFiles : Readable(disk[f])}
              /\ \A i, j \in 1..Len(r) : i < j => r[i] < r[j]
              /\ LayersOf(1, MainFiles) = [i \in 1..Len(r) |-> disk[r[i]]]
              /\ LayersOf(1, MainFiles) \in Seq(Held)
    BY <1>1, LayersOfIs
  <1>4. DOMAIN r = 1..Len(r) /\ Len(r) \in Nat /\ \A i \in 1..Len(r) : r[i] \in 1..MainFiles
    BY SeqMembers
  <1>5. ConfigJson \in Range(r)
    BY <1>1, <1>2, <1>3
  <1>6. PICK p \in 1..Len(r) : r[p] = ConfigJson
    BY <1>4, <1>5 DEF Range
  <1> DEFINE ls == LayersOf(1, MainFiles)
             skipped == {"null", "none"}
  <1>7. ls \in Seq(Held) /\ ls = [i \in 1..Len(r) |-> disk[r[i]]]
    BY <1>3
  <1> HIDE DEF ls
  <1>8. Len(ls) = Len(r) /\ \A i \in 1..Len(r) : ls[i] = disk[r[i]]
    BY <1>4, <1>7
  <1>9. ASSUME NEW j \in 1..Len(ls), j > p PROVE ls[j] \in skipped
    <2>1. j \in 1..Len(r) /\ ls[j] = disk[r[j]]
      BY <1>8, <1>9
    <2>2. r[p] < r[j]
      BY <1>3, <1>9, <2>1
    <2>3. r[j] \in (ConfigJson + 1)..MainFiles
      BY <1>1, <1>4, <1>6, <2>1, <2>2
    <2>4. r[j] \in Range(r)
      BY <1>4, <2>1 DEF Range
    <2>5. Readable(disk[r[j]])
      BY <1>3, <2>4
    <2> QED BY <2>1, <2>3, <2>5 DEF Valued
  <1>10. ls[p] = promised /\ promised \notin skipped
    BY <1>2, <1>6, <1>8 DEF Valued
  <1>11. LastKept(ls, skipped, p)
    BY <1>8, <1>9, <1>10 DEF LastKept
  <1>12. HeldBy(ls, skipped) = promised
    <2> HIDE DEF skipped
    <2> QED BY <1>7, <1>10, <1>11, HeldByLast
  <1> QED BY <1>12 DEF LastValue, ls

LEMMA DefaultsDo == DefaultsValid
  BY DEF DefaultsValid, Validate, ApplyDefaults

LEMMA ConfigInvGives == ConfigInv => ConfigSound
  BY LookupsDo, SavedDo, DefaultsDo DEF ConfigInv, ListenersInv, ConfigSound

-----------------------------------------------------------------------------
(* The steps.                                                              *)

LEMMA ConfigStarts == ConfigInit => ConfigInv
  <1> SUFFICES ASSUME ConfigInit PROVE ConfigInv
    OBVIOUS
  <1>1. LayersInv
    <2>1. <<>> \in Seq(Held) /\ Len(<<>>) = 0
      OBVIOUS
    <2> QED BY <2>1, ConfigAssumption DEF ConfigInit, LayersInv, Held
  <1>2. SavedInv
    BY DEF ConfigInit, SavedInv
  <1>3. ListenersInv
    BY ConfigAssumption DEF ConfigInit, ListenersInv, ListenersCurrent
  <1> QED BY <1>1, <1>2, <1>3 DEF ConfigInv

(* Layers are added while there is room.                                   *)
LEMMA LoadedLayers ==
    ASSUME LayersInv, NEW first \in Nat \ {0}, NEW last \in Nat, last <= FileCount, first <= last + 1,
           Len(layers) + Len(LayersOf(first, last)) <= MaxLayers,
           layers' = layers \o LayersOf(first, last), UNCHANGED disk
    PROVE  LayersInv'
  <1>1. LayersOf(first, last) \in Seq(Held)
    BY LayersOfIs
  <1> DEFINE l == LayersOf(first, last)
  <1> HIDE DEF l
  <1>2. layers \in Seq(Held) /\ l \in Seq(Held)
    BY <1>1 DEF LayersInv, l
  <1>3. layers \o l \in Seq(Held) /\ Len(layers \o l) = Len(layers) + Len(l)
    BY <1>2
  <1> QED BY <1>3 DEF LayersInv, l

(* A range of one file gives one layer.                                    *)
LEMMA OneLayer ==
    ASSUME LayersInv, NEW f \in 1..FileCount
    PROVE  Len(LayersOf(f, f)) <= 1
  <1>1. f \in Nat \ {0} /\ f \in Nat /\ f <= FileCount /\ f <= f + 1
    BY ConfigAssumption DEF FileCount
  <1>2. PICK r \in Seq(f..f) :
              /\ \A i, j \in 1..Len(r) : i < j => r[i] < r[j]
              /\ LayersOf(f, f) = [i \in 1..Len(r) |-> disk[r[i]]]
    BY <1>1, LayersOfIs
  <1>3. Len(r) \in Nat /\ \A i \in 1..Len(r) : r[i] = f
    BY <1>1
  <1>4. Len(r) <= 1
    <2> SUFFICES ASSUME Len(r) >= 2 PROVE FALSE
      BY <1>3
    <2>1. 1 \in 1..Len(r) /\ 2 \in 1..Len(r) /\ 1 < 2
      BY <1>3
    <2> QED BY <1>1, <1>2, <1>3, <2>1
  <1>5. Len([i \in 1..Len(r) |-> disk[r[i]]]) = Len(r)
    BY <1>3
  <1> QED BY <1>2, <1>4, <1>5

(* A file is written over, or the layers are all replaced.                 *)
LEMMA WrittenFile ==
    ASSUME LayersInv, NEW c \in Held, NEW f \in 1..FileCount, disk' = [disk EXCEPT ![f] = c]
    PROVE  disk' \in [1..FileCount -> Held] /\ disk'[f] = c /\ \A g \in 1..FileCount : g # f => disk'[g] = disk[g]
  BY DEF LayersInv

LEMMA SameLayer ==
    ASSUME LayersInv, NEW c \in Held, layers' = [i \in DOMAIN layers |-> c]
    PROVE  layers' \in Seq(Held) /\ Len(layers') <= MaxLayers
  <1>1. layers \in Seq(Held) /\ Len(layers) \in Nat /\ DOMAIN layers = 1..Len(layers)
    BY DEF LayersInv
  <1>2. [i \in 1..Len(layers) |-> c] \in Seq(Held) /\ Len([i \in 1..Len(layers) |-> c]) = Len(layers)
    BY <1>1
  <1> QED BY <1>1, <1>2 DEF LayersInv

LEMMA StoredLayers ==
    ASSUME LayersInv, NEW v \in Settings
    PROVE  Stored(v) \in Seq(Held) /\ Len(Stored(v)) <= MaxLayers
  <1>1. v \in Held /\ MaxLayers \in Nat \ {0} /\ layers \in Seq(Held) /\ Len(layers) <= MaxLayers
    BY ConfigAssumption DEF Held, LayersInv
  <1>2. CASE layers = << >>
    <2>1. <<v>> \in Seq(Held) /\ Len(<<v>>) = 1
      BY <1>1
    <2> QED BY <1>1, <1>2, <2>1 DEF Stored
  <1>3. CASE layers # << >>
    <2> DEFINE l == [layers EXCEPT ![Len(layers)] = v]
    <2>1. l \in Seq(Held) /\ Len(l) = Len(layers)
      BY <1>1, <1>3
    <2> QED BY <1>1, <1>3, <2>1 DEF Stored
  <1> QED BY <1>2, <1>3

LEMMA ConfigFile == ConfigJson \in 1..FileCount
  BY ConfigAssumption DEF FileCount

(* A save: the file holds what was written, and that is promised.          *)
LEMMA Writes ==
    ASSUME LayersInv, NEW c \in Held, Write(c)
    PROVE  disk' \in [1..FileCount -> Held] /\ SavedInv'
  <1>1. disk' = [disk EXCEPT ![ConfigJson] = c] /\ promised' = IF Valued(c) /\ Readable(c) THEN c ELSE "none"
    BY DEF Write
  <1>2. disk' \in [1..FileCount -> Held] /\ disk'[ConfigJson] = c
    BY <1>1, ConfigFile, WrittenFile
  <1> QED BY <1>1, <1>2 DEF SavedInv

LEMMA LayersStay == ASSUME ConfigInv, ConfigNext PROVE LayersInv' /\ SavedInv'
  <1>0. LayersInv /\ SavedInv
    BY DEF ConfigInv
  <1>a. Merged \in Held /\ "broken" \in Held /\ "none" \in Held
    <2>1. layers \in Seq(Held) /\ "broken" \in Held /\ "none" \in Held
      BY <1>0 DEF LayersInv, Held
    <2>2. HeldBy(layers, {"none"}) \in Held \cup {"none"}
      BY <2>1, HeldByType
    <2> QED BY <2>1, <2>2 DEF Merged
  <1>b. UNCHANGED <<disk, layers, promised>> => LayersInv' /\ SavedInv'
    BY <1>0 DEF LayersInv, SavedInv
  <1>c. UNCHANGED <<disk, promised>> => SavedInv'
    BY <1>0 DEF SavedInv
  <1>d. UNCHANGED disk /\ layers' \in Seq(Held) /\ Len(layers') <= MaxLayers => LayersInv'
    BY <1>0 DEF LayersInv
  <1>e. disk' \in [1..FileCount -> Held] /\ UNCHANGED layers => LayersInv'
    BY <1>0 DEF LayersInv
  <1>f. /\ 1 \in Nat \ {0} /\ MainFiles \in Nat /\ MainFiles <= FileCount /\ 1 <= MainFiles + 1
        /\ MainFiles + 1 \in Nat \ {0} /\ FileCount \in Nat /\ FileCount <= FileCount
        /\ MainFiles + 1 <= FileCount + 1
        /\ ProfileJson \in 1..FileCount
    BY ConfigAssumption DEF FileCount
  <1>1. CASE LoadFromDirectory
    BY <1>0, <1>1, <1>c, <1>f, LoadedLayers DEF LoadFromDirectory, LoadAll
  <1>2. CASE LoadEnvironment
    BY <1>0, <1>2, <1>c, <1>f, LoadedLayers DEF LoadEnvironment, LoadAll
  <1>3. CASE AddPaths
    BY <1>3, <1>b DEF AddPaths, sourceVars
  <1>4. ASSUME NEW f \in 1..FileCount, LoadFile(f) PROVE LayersInv' /\ SavedInv'
    <2>1. f \in Nat \ {0} /\ f \in Nat /\ f <= FileCount /\ f <= f + 1
      BY ConfigAssumption DEF FileCount
    <2>2. /\ Len(layers) < MaxLayers /\ layers' = layers \o LayersOf(f, f) /\ UNCHANGED disk
          /\ UNCHANGED promised
      BY <1>4 DEF LoadFile
    <2>3. Len(LayersOf(f, f)) <= 1
      BY <1>0, OneLayer
    <2>4. Len(layers) \in Nat /\ MaxLayers \in Nat /\ Len(LayersOf(f, f)) \in Nat
      <3>1. LayersOf(f, f) \in Seq(Held)
        BY <1>0, <2>1, LayersOfIs
      <3> QED BY <1>0, <3>1, ConfigAssumption DEF LayersInv
    <2>5. Len(layers) + Len(LayersOf(f, f)) <= MaxLayers
      BY <2>2, <2>3, <2>4
    <2> QED BY <1>0, <1>c, <2>1, <2>2, <2>5, LoadedLayers
  <1>5. CASE LoadProfile
    BY <1>4, <1>5, <1>f DEF LoadProfile
  <1>6. CASE RemoveKey
    <2>1. layers' = [i \in DOMAIN layers |-> "none"] /\ UNCHANGED <<disk, promised>>
      BY <1>6 DEF RemoveKey
    <2> QED BY <1>0, <1>a, <1>c, <1>d, <2>1, SameLayer
  <1>7. CASE SaveAll
    <2>1. Write(Merged) /\ UNCHANGED layers
      BY <1>7 DEF SaveAll, sourceVars
    <2> QED BY <1>0, <1>a, <1>e, <2>1, Writes
  <1>8. ASSUME NEW c \in Held, Write(c), RestartConfig PROVE LayersInv' /\ SavedInv'
    <2>1. layers' = <<>>
      BY <1>8 DEF RestartConfig
    <2>2. <<>> \in Seq(Held) /\ Len(<<>>) = 0
      OBVIOUS
    <2>3. layers' \in Seq(Held) /\ Len(layers') <= MaxLayers
      BY <2>1, <2>2, ConfigAssumption
    <2> QED BY <1>0, <1>8, <2>3, Writes DEF LayersInv
  <1>9. CASE ShutdownAndRestart
    BY <1>8, <1>9, <1>a DEF ShutdownAndRestart
  <1>10. CASE CrashWhileSaving
    BY <1>8, <1>10, <1>a DEF CrashWhileSaving
  <1>11. CASE AddChangeCallback
    BY <1>11, <1>b DEF AddChangeCallback, sourceVars
  <1>12. ASSUME NEW f \in 1..FileCount, OnFileChanged(f) PROVE LayersInv' /\ SavedInv'
    <2>1. /\ layers' = (IF Readable(disk[f]) THEN [i \in DOMAIN layers |-> disk[f]] ELSE layers)
          /\ UNCHANGED <<disk, promised>>
      BY <1>12 DEF OnFileChanged
    <2>2. disk[f] \in Held
      BY <1>0 DEF LayersInv
    <2>3. layers' \in Seq(Held) /\ Len(layers') <= MaxLayers
      <3>1. CASE Readable(disk[f])
        BY <1>0, <2>1, <2>2, <3>1, SameLayer
      <3>2. CASE ~Readable(disk[f])
        BY <1>0, <2>1, <3>2 DEF LayersInv
      <3> QED BY <3>1, <3>2
    <2> QED BY <1>c, <1>d, <2>1, <2>3
  <1>13. ASSUME NEW f \in 1..FileCount, NEW c \in Edits, EditFile(f, c) PROVE LayersInv' /\ SavedInv'
    <2>1. /\ disk' = [disk EXCEPT ![f] = c] /\ UNCHANGED layers
          /\ promised' = IF f = ConfigJson THEN "none" ELSE promised
      BY <1>13 DEF EditFile, sourceVars
    <2>2. c \in Held
      BY DEF Held
    <2>3. disk' \in [1..FileCount -> Held] /\ \A g \in 1..FileCount : g # f => disk'[g] = disk[g]
      BY <1>0, <2>1, <2>2, WrittenFile
    <2>4. SavedInv'
      BY <1>0, <2>1, <2>3, ConfigFile DEF SavedInv
    <2> QED BY <1>e, <2>1, <2>3, <2>4
  <1>14. ASSUME NEW t \in Setters, NEW v \in Settings, SetValue(t, v) PROVE LayersInv' /\ SavedInv'
    <2>1. layers' = Stored(v) /\ UNCHANGED <<disk, promised>>
      BY <1>14 DEF SetValue
    <2>2. layers' \in Seq(Held) /\ Len(layers') <= MaxLayers
      BY <1>0, <2>1, StoredLayers
    <2> QED BY <1>c, <1>d, <2>1, <2>2
  <1>15. ASSUME NEW t \in Setters \cup {Watcher}, CallCallback(t) PROVE LayersInv' /\ SavedInv'
    BY <1>15, <1>b DEF CallCallback, sourceVars
  <1>16. ASSUME NEW b \in BOOLEAN, SetHotReload(b) PROVE LayersInv' /\ SavedInv'
    BY <1>16, <1>b DEF SetHotReload, sourceVars
  <1>17. ASSUME NEW p \in EnvPrefixes, SetEnvPrefix(p) PROVE LayersInv' /\ SavedInv'
    BY <1>17, <1>b DEF SetEnvPrefix, sourceVars
  <1>18. ASSUME NEW n \in 1..MaxTokens, RemoveChangeCallback(n) PROVE LayersInv' /\ SavedInv'
    BY <1>18, <1>b DEF RemoveChangeCallback, sourceVars
  <1> QED BY <1>1, <1>2, <1>3, <1>4, <1>5, <1>6, <1>7, <1>9, <1>10, <1>11, <1>12, <1>13, <1>14,
             <1>15, <1>16, <1>17, <1>18 DEF ConfigNext

(* What a change leaves to be told: every callback that is registered.     *)
LEMMA Tells ==
    ASSUME ListenersInv, NEW t \in Setters \cup {Watcher}, notices[t] = {}, Tell(t)
    PROVE  ListenersInv'
  <1>1. /\ changes' = changes + 1 /\ notices' = [notices EXCEPT ![t] = listening]
        /\ UNCHANGED <<listening, tokens, seen>>
    BY DEF Tell
  <1>2. listening \subseteq Nat /\ notices \in [Setters \cup {Watcher} -> SUBSET Nat]
    BY DEF ListenersInv
  <1>3. notices' \in [Setters \cup {Watcher} -> SUBSET Nat] /\ notices'[t] = listening
    BY <1>1, <1>2
  <1>4. ListenersCurrent'
    BY <1>1, <1>3 DEF ListenersCurrent
  <1> QED BY <1>1, <1>3, <1>4 DEF ListenersInv

LEMMA ListenersStay == ASSUME ConfigInv, ConfigNext PROVE ListenersInv'
  <1>0. ListenersInv
    BY DEF ConfigInv
  <1>b. UNCHANGED callbackVars => ListenersInv'
    BY <1>0 DEF ListenersInv, ListenersCurrent, callbackVars
  <1>1. CASE LoadFromDirectory \/ LoadEnvironment \/ AddPaths \/ LoadProfile \/ RemoveKey \/ SaveAll
    BY <1>1, <1>b DEF LoadFromDirectory, LoadEnvironment, LoadAll, AddPaths, LoadProfile, LoadFile, RemoveKey, SaveAll
  <1>2. CASE ShutdownAndRestart \/ CrashWhileSaving
    <2>1. /\ listening' = {} /\ notices' = [t \in DOMAIN notices |-> {}]
          /\ UNCHANGED <<tokens, changes, seen>>
      BY <1>2 DEF ShutdownAndRestart, CrashWhileSaving, RestartConfig
    <2> QED BY <1>0, <2>1 DEF ListenersInv, ListenersCurrent
  <1>3. CASE AddChangeCallback
    <2>1. /\ tokens < MaxTokens /\ tokens' = tokens + 1
          /\ listening' = listening \cup {tokens + 1}
          /\ seen' = [seen EXCEPT ![tokens + 1] = changes]
          /\ UNCHANGED <<notices, changes>>
      BY <1>3 DEF AddChangeCallback
    <2>2. /\ tokens \in 0..MaxTokens /\ MaxTokens \in Nat /\ listening \subseteq 1..tokens
          /\ changes \in Nat /\ seen \in [1..MaxTokens -> Nat]
      BY <1>0, ConfigAssumption DEF ListenersInv
    <2>3. tokens + 1 \in 1..MaxTokens /\ tokens' \in 0..MaxTokens /\ listening' \subseteq 1..tokens'
      BY <2>1, <2>2
    <2>4. seen' \in [1..MaxTokens -> Nat] /\ seen'[tokens + 1] = changes
          /\ \A n \in 1..MaxTokens : n # tokens + 1 => seen'[n] = seen[n]
      BY <2>1, <2>2, <2>3
    <2>5. ASSUME NEW n \in listening', \A t \in DOMAIN notices' : n \notin notices'[t] PROVE seen'[n] = changes'
      <3>1. CASE n = tokens + 1
        BY <2>1, <2>4, <3>1
      <3>2. CASE n # tokens + 1
        <4>1. n \in listening /\ n \in 1..MaxTokens
          BY <2>1, <2>2, <3>2
        <4>2. seen[n] = changes
          BY <1>0, <2>1, <2>5, <4>1 DEF ListenersInv, ListenersCurrent
        <4> QED BY <2>1, <2>4, <3>2, <4>1, <4>2
      <3> QED BY <3>1, <3>2
    <2> QED BY <1>0, <2>1, <2>3, <2>4, <2>5 DEF ListenersInv, ListenersCurrent
  <1>4. ASSUME NEW f \in 1..FileCount, LoadFile(f) \/ \E c \in Edits : EditFile(f, c) PROVE ListenersInv'
    BY <1>4, <1>b DEF LoadFile, EditFile
  <1>5. ASSUME NEW f \in 1..FileCount, OnFileChanged(f) PROVE ListenersInv'
    BY <1>0, <1>5, Tells DEF OnFileChanged
  <1>6. ASSUME NEW t \in Setters, NEW v \in Settings, SetValue(t, v) PROVE ListenersInv'
    BY <1>0, <1>6, Tells DEF SetValue
  <1>7. ASSUME NEW t \in Setters \cup {Watcher}, CallCallback(t) PROVE ListenersInv'
    <2>1. PICK n \in notices[t] :
             /\ notices' = [notices EXCEPT ![t] = @ \ {n}]
             /\ seen' = [seen EXCEPT ![n] = changes]
             /\ UNCHANGED <<listening, tokens, changes>>
      BY <1>7 DEF CallCallback
    <2>2. /\ tokens \in 0..MaxTokens /\ MaxTokens \in Nat /\ listening \subseteq 1..tokens
          /\ changes \in Nat /\ seen \in [1..MaxTokens -> Nat]
          /\ notices \in [Setters \cup {Watcher} -> SUBSET Nat]
      BY <1>0, ConfigAssumption DEF ListenersInv
    <2>3. notices' \in [Setters \cup {Watcher} -> SUBSET Nat] /\ seen' \in [1..MaxTokens -> Nat]
      BY <2>1, <2>2
    <2>4. ASSUME NEW m \in listening, \A u \in DOMAIN notices' : m \notin notices'[u] PROVE seen'[m] = changes
      <3>1. m \in 1..MaxTokens
        BY <2>2
      <3>2. CASE m = n
        BY <2>1, <2>2, <3>1, <3>2
      <3>3. CASE m # n
        <4>1. \A u \in DOMAIN notices : m \notin notices[u]
          BY <2>1, <2>2, <2>4, <3>3
        <4>2. seen[m] = changes
          BY <1>0, <4>1 DEF ListenersInv, ListenersCurrent
        <4> QED BY <2>1, <2>2, <3>1, <3>3, <4>2
      <3> QED BY <3>2, <3>3
    <2>5. ListenersCurrent'
      BY <2>1, <2>4 DEF ListenersCurrent
    <2> QED BY <1>0, <2>1, <2>3, <2>5 DEF ListenersInv
  <1>8. ASSUME NEW b \in BOOLEAN, SetHotReload(b) PROVE ListenersInv'
    BY <1>8, <1>b DEF SetHotReload
  <1>9. ASSUME NEW p \in EnvPrefixes, SetEnvPrefix(p) PROVE ListenersInv'
    BY <1>9, <1>b DEF SetEnvPrefix
  <1>10. ASSUME NEW n \in 1..MaxTokens, RemoveChangeCallback(n) PROVE ListenersInv'
    BY <1>0, <1>10 DEF RemoveChangeCallback, ListenersInv, ListenersCurrent
  <1> QED BY <1>1, <1>2, <1>3, <1>4, <1>5, <1>6, <1>7, <1>8, <1>9, <1>10 DEF ConfigNext

(* The configuration is sound: a look-up through the layers, backward or   *)
(* forward, gives one answer, what was saved is what a restart reads, and  *)
(* no callback misses a change (config.cpp, config_schema.cpp).            *)
THEOREM ConfigCorrect == StartupSpec => []ConfigSound
  <1>1. StartupInit => ConfigInv
    BY ConfigStarts DEF StartupInit
  <1>2. ConfigInv /\ [StartupNext]_<<subject, vars, configVars, remoteVars>> => ConfigInv'
    <2> SUFFICES ASSUME ConfigInv, [StartupNext]_<<subject, vars, configVars, remoteVars>> PROVE ConfigInv'
      OBVIOUS
    <2>1. CASE ConfigNext
      BY <2>1, LayersStay, ListenersStay DEF ConfigInv
    <2>2. CASE UNCHANGED configVars
      BY <2>2 DEF configVars, sourceVars, callbackVars, ConfigInv, LayersInv, SavedInv, ListenersInv, ListenersCurrent
    <2> QED BY <2>1, <2>2 DEF StartupNext
  <1> QED BY <1>1, <1>2, ConfigInvGives, PTL DEF StartupSpec

=============================================================================
