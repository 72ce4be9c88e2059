----------------------------- MODULE Scaffold -----------------------------
(***************************************************************************)
(* sc::Scaffold (scaffold.h, scaffold.cpp): modules are registered, sorted *)
(* by dependency and priority, initialised and started in that order, and  *)
(* stopped and cleaned up in the reverse one.  A hook that fails rolls the *)
(* modules back; a hook that throws leaves run() at once, and whoever      *)
(* catches the exception may call run() again or destroy the scaffold.     *)
(*                                                                         *)
(* A step is one hook call or one turn of a loop.  Positions in m_modules  *)
(* stand for the pointers that the local vectors and m_sortedModules hold. *)
(* A std::exception out of onStop() or cleanup() is caught and logged, so  *)
(* such a call looks like one that returns.  run() in a state other than   *)
(* Uninitialized, run() with an unknown dependency and use(nullptr) change *)
(* nothing and are not steps.  Hooks do not call run() or shutdown().      *)
(***************************************************************************)
EXTENDS Integers, FiniteSets, Sequences

CONSTANTS
    Modules,       \* module objects
    Names,         \* what name() and dependsOn() speak of
    Declarations,  \* possible name, dependsOn and priority of the modules
    MaxUses,       \* bound on the calls of use()
    RunsFrom       \* bound on run() after exceptions: the values of threw it is called in

ASSUME DeclarationsAssumption ==
    Declarations \subseteq
        [Modules -> [name : Names, dependsOn : SUBSET Names, priority : Int]]
ASSUME NamesAssumption == IsFiniteSet(Names)
ASSUME MaxUsesAssumption == MaxUses \in Nat

VARIABLES
    decl,         \* what the modules declare
    modules,      \* m_modules
    sorted,       \* m_sortedModules
    initialized,  \* m_initialized
    state,        \* m_state
    phase,        \* where the thread is in run() or shutdown()
    back,         \* where it goes when shutdown() returns
    enabled,      \* enabledModules
    pending,      \* those that topoSortWithPriority has not visited
    indegree,     \* its count of dependencies not yet visited
    order,        \* its result
    pos,          \* position in sorted of the running loop
    life,         \* what the hooks called so far made of each module
    threw         \* history: "never", "once" a hook threw, run() "again" after that

memberVars == <<decl, modules, sorted, initialized, state, threw>>
sortVars == <<enabled, pending, indegree, order>>
vars == <<memberVars, phase, back, sortVars, pos, life>>

Uses == 1..MaxUses
Phases == {"idle", "sort", "init", "start", "loop", "unstart", "undo",
           "stop", "clean", "gone"}

(* Life of a module as module.h describes it.  "wrong" is where a hook     *)
(* called out of turn leads.                                               *)
Lives == {"down", "up", "started", "stopped", "wrong"}

(* The members of Scaffold and the locals of run(); the sort never places  *)
(* an index that is not in m_modules (scaffold.cpp).                       *)
TypeOK ==
    /\ decl \in Declarations
    /\ modules \in Seq(Modules) /\ Len(modules) <= MaxUses
    /\ sorted \in Seq(1..Len(modules))
    /\ initialized \in BOOLEAN
    /\ state \in {"Uninitialized", "Running", "Shutdown"}
    /\ phase \in Phases
    /\ back \in {"idle", "loop", "gone"}
    /\ enabled \in SUBSET (1..Len(modules))
    /\ pending \in SUBSET enabled
    /\ indegree \in [Uses -> Nat]
    /\ order \in Seq(1..Len(modules))
    /\ pos \in 0..Len(sorted) + 1
    /\ life \in [Modules -> Lives]
    /\ threw \in {"never", "once", "again"}

Init ==
    /\ decl \in Declarations
    /\ modules = <<>> /\ sorted = <<>>
    /\ initialized = FALSE /\ state = "Uninitialized"
    /\ phase = "idle" /\ back = "idle"
    /\ enabled = {} /\ pending = {} /\ order = <<>>
    /\ indegree = [i \in Uses |-> 0]
    /\ pos = 0
    /\ life = [m \in Modules |-> "down"] /\ threw = "never"

-----------------------------------------------------------------------------
Name(i) == decl[modules[i]].name
DependsOn(i) == decl[modules[i]].dependsOn
Priority(i) == decl[modules[i]].priority

(* use() and scan(), also from hooks and from the event loop *)
Use(m) ==
    /\ phase \in {"idle", "init", "start", "loop"}
    /\ Len(modules) < MaxUses
    /\ modules' = Append(modules, m)
    /\ UNCHANGED <<decl, sorted, initialized, state, phase, back, sortVars, pos, life, threw>>

(* nameToIdx: of several modules with one name, the last registered *)
Provides(i, n, among) ==
    /\ i \in among /\ Name(i) = n
    /\ \A j \in among : Name(j) = n => j <= i

(* The edge i -> j of the graph *)
Needs(j, i, among) == \E n \in DependsOn(j) : Provides(i, n, among)

(* run() up to the sort; on is the set of modules whose isEnabled() holds *)
RunBegin(on) ==
    /\ phase = "idle" /\ state = "Uninitialized" /\ threw \in RunsFrom
    /\ enabled' = {i \in 1..Len(modules) : modules[i] \in on}
    /\ \A i \in enabled' : \A n \in DependsOn(i) :
         \E j \in enabled' : Provides(j, n, enabled')
    /\ pending' = enabled'
    /\ indegree' = [i \in Uses |-> IF i \in enabled' THEN Cardinality(DependsOn(i)) ELSE 0]
    /\ order' = <<>>
    /\ phase' = "sort"
    /\ threw' = IF threw = "never" THEN "never" ELSE "again"
    /\ UNCHANGED <<decl, modules, sorted, initialized, state, back, pos, life>>

Candidates == {i \in pending : indegree[i] = 0}

(* A mistaken Best: priority alone decides *)
BestPriorityOnly(i) ==
    /\ i \in pending
    /\ \A j \in pending :
         Priority(j) < Priority(i) \/ (Priority(j) = Priority(i) /\ i <= j)

(* A mistaken Best: ">=" in the comparison, the last of equals wins *)
BestLast(i) ==
    /\ i \in Candidates
    /\ \A j \in Candidates :
         Priority(j) < Priority(i) \/ (Priority(j) = Priority(i) /\ j <= i)

(* Highest priority first, then the order of registration *)
Best(i) ==
    /\ i \in Candidates
    /\ \A j \in Candidates :
         Priority(j) < Priority(i) \/ (Priority(j) = Priority(i) /\ i <= j)

(* A mistaken SortPick: the edges out of the picked module are forgotten *)
SortPickKeepDegrees ==
    /\ phase = "sort"
    /\ \E b \in pending :
         /\ Best(b)
         /\ pending' = pending \ {b}
         /\ order' = Append(order, b)
    /\ UNCHANGED <<memberVars, phase, back, enabled, indegree, pos, life>>

(* A mistaken SortPick: the picked module is not marked as visited *)
SortPickAgain ==
    /\ phase = "sort" /\ pending # {} /\ Candidates # {}
    /\ UNCHANGED vars

SortPick ==
    /\ phase = "sort"
    /\ \E b \in pending :
         /\ Best(b)
         /\ pending' = pending \ {b}
         /\ order' = Append(order, b)
         /\ indegree' = [i \in Uses |->
              IF i \in enabled /\ Needs(i, b, enabled) /\ indegree[i] > 0
              THEN indegree[i] - 1 ELSE indegree[i]]
    /\ UNCHANGED <<memberVars, phase, back, enabled, pos, life>>

SortFail ==
    /\ phase = "sort" /\ pending # {} /\ Candidates = {}
    /\ phase' = "idle"
    /\ enabled' = {} /\ pending' = {} /\ order' = <<>>
    /\ indegree' = [i \in Uses |-> 0]
    /\ UNCHANGED <<memberVars, back, pos, life>>

SortDone ==
    /\ phase = "sort" /\ pending = {}
    /\ sorted' = order
    /\ phase' = "init" /\ pos' = 1
    /\ enabled' = {} /\ order' = <<>> /\ indegree' = [i \in Uses |-> 0]
    /\ UNCHANGED <<decl, modules, initialized, state, back, pending, life, threw>>

-----------------------------------------------------------------------------
Current == modules[sorted[pos]]

(* The hook under way finds the module in a life of from and leaves it in to *)
Hook(from, to) ==
    life' = [life EXCEPT ![Current] = IF life[Current] \in from THEN to ELSE "wrong"]

InitOk ==
    /\ phase = "init" /\ pos <= Len(sorted)
    /\ Hook({"down"}, "up")
    /\ pos' = pos + 1
    /\ UNCHANGED <<memberVars, phase, back, sortVars>>

(* A mistaken InitFail: the module that failed is rolled back too *)
InitFailInclusive ==
    /\ phase = "init" /\ pos <= Len(sorted)
    /\ Hook({"down"}, "down")
    /\ phase' = "undo" /\ pos' = pos
    /\ UNCHANGED <<memberVars, back, sortVars>>

InitFail ==
    /\ phase = "init" /\ pos <= Len(sorted)
    /\ Hook({"down"}, "down")
    /\ phase' = "undo" /\ pos' = pos - 1
    /\ UNCHANGED <<memberVars, back, sortVars>>

(* A mistaken InitDone: m_initialized is set before the modules start *)
InitDoneEarly ==
    /\ phase = "init" /\ pos > Len(sorted)
    /\ phase' = "start" /\ pos' = 1
    /\ initialized' = TRUE
    /\ UNCHANGED <<decl, modules, sorted, state, back, sortVars, life, threw>>

InitDone ==
    /\ phase = "init" /\ pos > Len(sorted)
    /\ phase' = "start" /\ pos' = 1
    /\ UNCHANGED <<memberVars, back, sortVars, life>>

StartOk ==
    /\ phase = "start" /\ pos <= Len(sorted)
    /\ Hook({"up"}, "started")
    /\ pos' = pos + 1
    /\ UNCHANGED <<memberVars, phase, back, sortVars>>

StartFail ==
    /\ phase = "start" /\ pos <= Len(sorted)
    /\ Hook({"up"}, "up")
    /\ phase' = "unstart" /\ pos' = pos - 1
    /\ UNCHANGED <<memberVars, back, sortVars>>

StartDone ==
    /\ phase = "start" /\ pos > Len(sorted)
    /\ initialized' = TRUE /\ state' = "Running"
    /\ phase' = "loop" /\ pos' = 0
    /\ UNCHANGED <<decl, modules, sorted, back, sortVars, life, threw>>

(* init() or onStart() throws: nothing in run() catches it.  m_state is    *)
(* still Uninitialized, so run() may be called again, and m_initialized is *)
(* false, so that neither shutdown() nor the destructor cleans up.         *)
HookThrow ==
    /\ phase \in {"init", "start"} /\ pos <= Len(sorted)
    /\ phase' = "idle"
    /\ threw' = IF threw = "never" THEN "once" ELSE threw
    /\ UNCHANGED <<decl, modules, sorted, initialized, state, back, sortVars, pos, life>>

(* Roll back: onStop() in reverse, *)
Unstart ==
    /\ phase = "unstart" /\ pos > 0
    /\ Hook({"started"}, "stopped")
    /\ pos' = pos - 1
    /\ UNCHANGED <<memberVars, phase, back, sortVars>>

(* A mistaken UnstartDone: the modules that were stopped are not cleaned up *)
UnstartDoneShort ==
    /\ phase = "unstart" /\ pos = 0
    /\ phase' = "idle"
    /\ UNCHANGED <<memberVars, back, sortVars, pos, life>>

UnstartDone ==
    /\ phase = "unstart" /\ pos = 0
    /\ phase' = "undo" /\ pos' = Len(sorted)
    /\ UNCHANGED <<memberVars, back, sortVars, life>>

(* then cleanup() in reverse *)
Undo ==
    /\ phase = "undo" /\ pos > 0
    /\ Hook({"up", "stopped"}, "down")
    /\ pos' = pos - 1
    /\ UNCHANGED <<memberVars, phase, back, sortVars>>

(* A mistaken UndoDone: the index steps below its range *)
UndoDoneBelow ==
    /\ phase = "undo" /\ pos = 0
    /\ phase' = "idle" /\ pos' = pos - 1
    /\ UNCHANGED <<memberVars, back, sortVars, life>>

UndoDone ==
    /\ phase = "undo" /\ pos = 0
    /\ phase' = "idle"
    /\ UNCHANGED <<memberVars, back, sortVars, pos, life>>

(* The event loop ends and run() returns *)
LoopQuit ==
    /\ phase = "loop"
    /\ phase' = "idle"
    /\ UNCHANGED <<memberVars, back, sortVars, pos, life>>

-----------------------------------------------------------------------------
(* shutdown() from the event loop or after run(), and from the destructor *)
ShutdownBegin(to) ==
    /\ initialized
    /\ phase \in {"idle", "loop"} /\ to \in {phase, "gone"}
    /\ to = "gone" => phase = "idle"
    /\ phase' = "stop" /\ back' = to /\ pos' = Len(sorted)
    /\ UNCHANGED <<memberVars, sortVars, life>>

ShutdownStop ==
    /\ phase = "stop" /\ pos > 0
    /\ Hook({"started"}, "stopped")
    /\ phase' = "clean"
    /\ UNCHANGED <<memberVars, back, sortVars, pos>>

ShutdownClean ==
    /\ phase = "clean"
    /\ Hook({"up", "stopped"}, "down")
    /\ phase' = "stop" /\ pos' = pos - 1
    /\ UNCHANGED <<memberVars, back, sortVars>>

ShutdownEnd ==
    /\ phase = "stop" /\ pos = 0
    /\ initialized' = FALSE /\ state' = "Shutdown"
    /\ phase' = back /\ back' = "idle"
    /\ UNCHANGED <<decl, modules, sorted, sortVars, pos, life, threw>>

(* The destructor when shutdown() returns at once *)
Destroy ==
    /\ phase = "idle" /\ ~initialized
    /\ phase' = "gone"
    /\ UNCHANGED <<memberVars, back, sortVars, pos, life>>

RunStep ==
    \/ SortPick \/ SortFail \/ SortDone
    \/ InitOk \/ InitFail \/ InitDone
    \/ StartOk \/ StartFail \/ StartDone \/ HookThrow
    \/ Unstart \/ UnstartDone \/ Undo \/ UndoDone

ShutdownStep == ShutdownStop \/ ShutdownClean \/ ShutdownEnd

Ended == phase = "gone" /\ UNCHANGED vars

Next ==
    \/ \E m \in Modules : Use(m)
    \/ \E on \in SUBSET Modules : RunBegin(on)
    \/ RunStep
    \/ LoopQuit
    \/ \E to \in {"idle", "loop", "gone"} : ShutdownBegin(to)
    \/ ShutdownStep
    \/ Destroy
    \/ Ended

Spec == Init /\ [][Next]_vars
FairSpec == Spec /\ WF_vars(RunStep) /\ WF_vars(ShutdownStep)

-----------------------------------------------------------------------------
(* No module object was registered twice *)
Distinct == \A i, j \in 1..Len(modules) : modules[i] = modules[j] => i = j

IsUp(m) == life[m] \in {"up", "started", "stopped"}

(* Every hook is called in its turn: init() on a module that is down,      *)
(* onStart() after it, onStop() only on a started module, cleanup() once   *)
(* per init() and never on a module that is still started (module.h's life *)
(* cycle), whatever fails, whenever shutdown() and use() are called and    *)
(* run() is repeated.  The one way to break it is run() again after a hook *)
(* threw, which initialises modules that are up (scaffold.cpp:105, 138).   *)
HooksInTurn == Distinct /\ threw # "again" => \A m \in Modules : life[m] # "wrong"

(* A module is up only while each name it depends on is provided by a      *)
(* module that is up, and runs only while those run: the sort, the roll    *)
(* back, shutdown() and an exception respect the dependencies.             *)
DependenciesFirst ==
    Distinct /\ threw # "again" =>
        \A m \in Modules : \A n \in decl[m].dependsOn :
            /\ IsUp(m) =>
                 \E d \in Modules : decl[d].name = n /\ IsUp(d)
            /\ life[m] = "started" =>
                 \E d \in Modules : decl[d].name = n /\ life[d] = "started"

(* When run() has failed with -1, after shutdown() and after destruction   *)
(* no module is left up, as long as no hook threw.                         *)
NothingLeftUp ==
    Distinct /\ threw = "never" /\ ~initialized /\ phase \in {"idle", "loop", "gone"} =>
        \A m \in Modules : life[m] = "down"

(* What an exception leaves: the modules up are the first ones of the      *)
(* list, those initialised before it, and they stay up after the           *)
(* destructor too, although module.h:53 has a cleanup() for every init().  *)
ThrownLeavesUp ==
    Distinct /\ threw = "once" =>
        /\ phase \in {"idle", "gone"} /\ ~initialized
        /\ \E k \in 0..Len(sorted) : \A m \in Modules :
             IsUp(m) <=> \E j \in 1..k : modules[sorted[j]] = m

(* Only modules that are up and started are on the list of a running       *)
(* scaffold, and all of them: modules added by use() after run() are not   *)
(* touched by shutdown().                                                  *)
RunningMeansStarted ==
    Distinct /\ threw # "again" /\ initialized /\ phase \in {"idle", "loop"} =>
        \A m \in Modules :
            life[m] = "started" <=> \E k \in 1..Len(sorted) : modules[sorted[k]] = m

(* Each hook in its turn, no module up without its dependencies, none left *)
(* up by a run() that failed or by shutdown(), and a running scaffold that *)
(* lists what it started; a hook that throws leaves the modules before it  *)
(* up for good, and after run() is called again nothing is promised        *)
(* (scaffold.cpp:103-228).                                                 *)
LifecycleSound ==
    HooksInTurn /\ DependenciesFirst /\ NothingLeftUp /\ ThrownLeavesUp /\ RunningMeansStarted

(* The result of the sort against its specification: a module all of whose *)
(* dependencies come before position j, and that itself comes after j, has *)
(* a lower priority than the one at j, or the same and a later             *)
(* registration (module.h:61-63).                                          *)
PriorityOrder ==
    phase = "init" =>
        \A j, k \in 1..Len(sorted) :
            (j < k /\ \A h \in 1..Len(sorted) :
                        Name(sorted[h]) \in DependsOn(sorted[k]) => h < j)
            => \/ Priority(sorted[j]) > Priority(sorted[k])
               \/ Priority(sorted[j]) = Priority(sorted[k]) /\ sorted[j] < sorted[k]

CircularSet(S, among) == S # {} /\ \A i \in S : \E j \in S : Needs(i, j, among)

(* The sort of scaffold.cpp gives up only if there is a circle of modules, *)
(* each of which needs another of the circle.                              *)
FailsOnCycleOnly ==
    [][phase = "sort" /\ phase' = "idle" =>
         \E S \in SUBSET enabled : CircularSet(S, enabled)]_vars

(* Once run() is under way it reaches the event loop or returns: the sort  *)
(* and the roll back end.                                                  *)
RunReturns == (phase = "sort") ~> (phase \in {"loop", "idle"})

(* The sort of scaffold.cpp:47-100: the members keep their types, of the   *)
(* modules that may come next the one of the highest priority does, and it *)
(* gives up only on a cycle.                                               *)
SortSound == [](TypeOK /\ PriorityOrder) /\ FailsOnCycleOnly
=============================================================================
