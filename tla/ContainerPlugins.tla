-------------------------- MODULE ContainerPlugins --------------------------
(***************************************************************************)
(* Owners of what others use: the dependency injection container and the   *)
(* plug-in manager.                                                        *)
(***************************************************************************)
EXTENDS Naturals, Sequences, FiniteSets, SequencesExt

(***************************************************************************)
(* di::Container: registrations by type and by type and name, the three    *)
(* lifetimes, scopes, and who frees what a creator made.  A registration's *)
(* key is <<type, name>>, with the name NoName for the unnamed one.        *)
(*                                                                         *)
(* The mutex is recursive and held while a creator runs, and a creator may *)
(* use the container itself: resolutions nest (frames), and every other    *)
(* call may come from inside a creator.  One that unregisters its own type *)
(* or clears the container returns to a registration that is gone: info is *)
(* a dangling reference then, and what is written through it is lost, ends *)
(* in a new registration at the same address, or ends the process.         *)
(*                                                                         *)
(* A creator gives its object away, except the scheduler module's: the     *)
(* closure it registers owns the object through a shared_ptr, and whoever  *)
(* deletes the instance has it deleted again with the closure.             *)
(***************************************************************************)
CONSTANTS
    Types, Names, NoName,
    Offers,             \* the bindings the program may make: <<key, lifetime>>
    MaxObjects, MaxScopes, MaxNesting

VARIABLES
    regs,               \* m_registrations and m_namedRegistrations
    primary,            \* m_primaryImpls
    resolved,           \* m_resolvedInstances
    scopes, scope,      \* m_scopes and m_currentScopeId (0: none)
    nextScope,
    made,               \* objects made, each with who owns it besides: "none" or "closure"
    freed,              \* how often each object was freed
    clients,            \* objects a client's shared_ptr owns
    frames              \* running creators, innermost last: [key, lifetime, gone]

diVars == <<regs, primary, resolved, scopes, scope, nextScope, made, freed, clients, frames>>

NoReg == [lifetime |-> "none", inst |-> 0, owned |-> FALSE, lent |-> FALSE]

DiKeys == Types \X (Names \cup {NoName})

DiInit ==
    /\ regs = [k \in DiKeys |-> NoReg]
    /\ primary = [t \in Types |-> NoName]
    /\ resolved = [t \in Types |-> 0]
    /\ scopes = [s \in {} |-> 0] /\ scope = 0 /\ nextScope = 1
    /\ made = << >> /\ freed = << >> /\ clients = {}
    /\ frames = << >>

\* bind(), bindSingleton(), bindScoped(), bindTransient() and bindNamed().
Bind(k, lifetime) ==
    /\ <<k, lifetime>> \in Offers /\ regs[k] = NoReg
    /\ regs' = [regs EXCEPT ![k] = [lifetime |-> lifetime, inst |-> 0, owned |-> TRUE, lent |-> FALSE]]
    /\ UNCHANGED <<primary, resolved, scopes, scope, nextScope, made, freed, clients, frames>>

\* SchedulerModule::init(): a singleton whose creator lends what it owns.
BindLent(t) ==
    LET k == <<t, NoName>> IN
    /\ <<k, "lent">> \in Offers /\ regs[k] = NoReg
    /\ regs' = [regs EXCEPT ![k] = [lifetime |-> "singleton", inst |-> 0, owned |-> TRUE, lent |-> TRUE]]
    /\ UNCHANGED <<primary, resolved, scopes, scope, nextScope, made, freed, clients, frames>>

\* The caller keeps the object: the registration does not own it.
BindInstance(t) ==
    LET k == <<t, NoName>> IN
    /\ <<k, "instance">> \in Offers /\ regs[k] = NoReg /\ Len(made) < MaxObjects
    /\ made' = Append(made, "none") /\ freed' = Append(freed, 0)
    /\ regs' = [regs EXCEPT ![k] = [lifetime |-> "singleton", inst |-> Len(made) + 1, owned |-> FALSE, lent |-> FALSE]]
    /\ UNCHANGED <<primary, resolved, scopes, scope, nextScope, clients, frames>>

SetPrimary(t, n) ==
    /\ regs[<<t, n>>] # NoReg
    /\ primary' = [primary EXCEPT ![t] = n]
    /\ UNCHANGED <<regs, resolved, scopes, scope, nextScope, made, freed, clients, frames>>

\* What a resolution finds without a creator: the singleton, or what the
\* current scope holds for the type, under whatever name it was made.
Cached(k) ==
    CASE regs[k].lifetime = "singleton" -> regs[k].inst
      [] regs[k].lifetime = "scoped" /\ scope # 0 -> scopes[scope][k[1]]
      [] OTHER -> 0

\* The key resolve<T>() stands for: the unnamed registration, or the primary.
Asked(t) ==
    IF regs[<<t, NoName>>] = NoReg /\ primary[t] # NoName THEN <<t, primary[t]>> ELSE <<t, NoName>>

\* resolve() and resolveNamed(): what is cached is handed out and nothing
\* changes; otherwise the creator runs.
ResolveKey(k) ==
    /\ regs[k] # NoReg /\ Cached(k) = 0 /\ ~ regs[k].lent
    /\ Len(frames) < MaxNesting
    /\ frames' = Append(frames, [key |-> k, lifetime |-> regs[k].lifetime, gone |-> FALSE])
    /\ UNCHANGED <<regs, primary, resolved, scopes, scope, nextScope, made, freed, clients>>

\* The scheduler module's creator uses nothing of the container's: it runs
\* and returns in one step.
ResolveLent(t) ==
    LET k == <<t, NoName>>
        o == Len(made) + 1
    IN  /\ regs[k].lent /\ Cached(k) = 0 /\ Len(made) < MaxObjects
        /\ made' = Append(made, "closure") /\ freed' = Append(freed, 0)
        /\ regs' = [regs EXCEPT ![k].inst = o]
        /\ resolved' = [resolved EXCEPT ![t] = o]
        /\ UNCHANGED <<primary, scopes, scope, nextScope, clients, frames>>

Resolve(t) == ResolveKey(Asked(t)) \/ ResolveLent(t)

ResolveNamed(t, n) == ResolveKey(<<t, n>>)

CreatorFails ==
    /\ frames # << >>
    /\ frames' = Front(frames)
    /\ UNCHANGED <<regs, primary, resolved, scopes, scope, nextScope, made, freed, clients>>

\* The creator returns a new object: a singleton stays in its registration,
\* a scoped one in the scope that is current now, any other is the client's.
\* Where the registration is gone, the singleton is in no registration, or
\* in the one that took its place.
CreatorReturns ==
    LET f == Last(frames)
        k == f.key
        o == Len(made) + 1
        single == f.lifetime = "singleton"
        inScope == f.lifetime = "scoped" /\ scope # 0
    IN  /\ frames # << >> /\ Len(made) < MaxObjects
        /\ frames' = Front(frames)
        /\ made' = Append(made, "none") /\ freed' = Append(freed, 0)
        /\ \E written \in BOOLEAN :
               /\ single /\ ~ f.gone => written
               /\ written => single /\ regs[k] # NoReg
               /\ regs' = IF written THEN [regs EXCEPT ![k].inst = o] ELSE regs
        /\ resolved' = IF single /\ k[2] = NoName THEN [resolved EXCEPT ![k[1]] = o] ELSE resolved
        /\ scopes' = IF inScope THEN [scopes EXCEPT ![scope][k[1]] = o] ELSE scopes
        /\ clients' = IF single \/ inScope THEN clients ELSE clients \cup {o}
        /\ UNCHANGED <<primary, scope, nextScope>>

\* The write through info, or the closure that was destroyed while it ran,
\* ends the process; the next one has a container of its own.
CreatorLost ==
    /\ frames # << >> /\ Last(frames).gone
    /\ regs' = [k \in DiKeys |-> NoReg]
    /\ primary' = [t \in Types |-> NoName]
    /\ resolved' = [t \in Types |-> 0]
    /\ scopes' = [s \in {} |-> 0] /\ scope' = 0 /\ nextScope' = 1
    /\ made' = << >> /\ freed' = << >> /\ clients' = {}
    /\ frames' = << >>

\* The closure that still owns an object deletes it after the container did.
Deletions(o) == IF made[o] = "closure" THEN 2 ELSE 1

Free(S) == [o \in DOMAIN freed |-> IF o \in S THEN freed[o] + Deletions(o) ELSE freed[o]]

\* The last shared_ptr of a client goes.
ClientDrops(o) ==
    /\ o \in clients
    /\ clients' = clients \ {o}
    /\ freed' = Free({o})
    /\ UNCHANGED <<regs, primary, resolved, scopes, scope, nextScope, made, frames>>

CreateScope ==
    /\ nextScope <= MaxScopes
    /\ scopes' = [s \in DOMAIN scopes \cup {nextScope} |->
                    IF s = nextScope THEN [t \in Types |-> 0] ELSE scopes[s]]
    /\ scope' = nextScope /\ nextScope' = nextScope + 1
    /\ UNCHANGED <<regs, primary, resolved, made, freed, clients, frames>>

\* tryDeleteScopeInstance(): some registration of the type, unnamed or
\* named, must still own a deleter; without one the object is leaked.
Deletable(t) == \E n \in Names \cup {NoName} : regs[<<t, n>>].owned

ScopeObjects(S) == {scopes[s][t] : s \in S, t \in {u \in Types : Deletable(u)}} \ {0}

DisposeScope(s) ==
    /\ s \in DOMAIN scopes
    /\ freed' = Free(ScopeObjects({s}))
    /\ scopes' = [r \in DOMAIN scopes \ {s} |-> scopes[r]]
    /\ scope' = IF scope = s THEN 0 ELSE scope
    /\ UNCHANGED <<regs, primary, resolved, nextScope, made, clients, frames>>

\* The singletons of the keys in K that the container deletes.
Owned(K) == {regs[k].inst : k \in {j \in K : regs[j].lifetime = "singleton" /\ regs[j].owned}} \ {0}

\* The creators of the keys in K that are running lose their registration.
Orphaned(K) ==
    [i \in DOMAIN frames |-> [frames[i] EXCEPT !.gone = frames[i].gone \/ frames[i].key \in K]]

\* The mistake of forgetting m_resolvedInstances.
UnregisterHalf(t) ==
    LET k == <<t, NoName>> IN
    /\ regs[k] # NoReg
    /\ freed' = Free(Owned({k}))
    /\ regs' = [regs EXCEPT ![k] = NoReg]
    /\ frames' = Orphaned({k})
    /\ UNCHANGED <<primary, resolved, scopes, scope, nextScope, made, clients>>

Unregister(t) ==
    LET k == <<t, NoName>> IN
    /\ regs[k] # NoReg
    /\ freed' = Free(Owned({k}))
    /\ regs' = [regs EXCEPT ![k] = NoReg]
    /\ resolved' = [resolved EXCEPT ![t] = 0]
    /\ frames' = Orphaned({k})
    /\ UNCHANGED <<primary, scopes, scope, nextScope, made, clients>>

ClearContainer ==
    /\ freed' = Free(ScopeObjects(DOMAIN scopes) \cup Owned(DiKeys))
    /\ regs' = [k \in DiKeys |-> NoReg]
    /\ primary' = [t \in Types |-> NoName]
    /\ resolved' = [t \in Types |-> 0]
    /\ scopes' = [s \in {} |-> 0] /\ scope' = 0
    /\ frames' = Orphaned(DiKeys)
    /\ UNCHANGED <<nextScope, made, clients>>

DiNext ==
    \/ \E k \in DiKeys, l \in {"transient", "singleton", "scoped"} : Bind(k, l)
    \/ \E t \in Types : BindInstance(t) \/ BindLent(t) \/ Resolve(t) \/ Unregister(t)
    \/ \E t \in Types, n \in Names : SetPrimary(t, n) \/ ResolveNamed(t, n)
    \/ CreatorReturns \/ CreatorFails \/ CreatorLost
    \/ \E o \in DOMAIN made : ClientDrops(o)
    \/ CreateScope \/ ClearContainer
    \/ \E s \in DOMAIN scopes : DisposeScope(s)

-----------------------------------------------------------------------------
(***************************************************************************)
(* Nothing the container still holds, in a registration, in                *)
(* m_resolvedInstances or in a scope, has been freed, whatever scopes were *)
(* opened and disposed and whatever was unregistered or cleared while      *)
(* creators were running: what resolve() hands out is alive then.  How     *)
(* long it stays so is another matter: a client of a singleton or a scoped *)
(* object holds a shared_ptr that does nothing, and unregister(), clear()  *)
(* and disposeScope() delete the object under it.  No object is freed      *)
(* twice, except one its creator's closure owns too: the scheduler's goes  *)
(* a second time with its registration.                                    *)
(***************************************************************************)
HeldIsAlive ==
    /\ \A o \in DOMAIN freed : freed[o] <= Deletions(o)
    /\ \A o \in {regs[k].inst : k \in DiKeys} \cup {resolved[t] : t \in Types}
                \cup {scopes[s][t] : s \in DOMAIN scopes, t \in Types} :
           o # 0 => freed[o] = 0

-----------------------------------------------------------------------------
(***************************************************************************)
(* PluginManager: libraries opened by path, registered by the id their     *)
(* metadata gives, initialised, shut down and closed.  Every operation     *)
(* holds m_mutex, so each is one step.  A library is described by what it  *)
(* exports: its id, whether its metadata and ABI version are accepted,     *)
(* whether pluginInitialize exists and succeeds and pluginShutdown exists. *)
(* The loader counts its opens (external); a library whose count drops to  *)
(* zero leaves memory, with the state pluginInitialize() built in it.      *)
(***************************************************************************)
CONSTANTS
    Libraries,          \* paths
    PluginIds,
    LibraryOf,          \* path |-> [id, accepted, inits, shuts, creates]
    Unopenable,         \* paths dlopen() refuses
    MaxLive             \* bound on initialisations without a shutdown

ASSUME PluginAssumption ==
    /\ "" \notin Libraries
    /\ LibraryOf \in [Libraries -> [id : PluginIds, accepted : BOOLEAN, inits : BOOLEAN,
                                    shuts : BOOLEAN, creates : BOOLEAN]]

VARIABLES
    plugins,            \* m_plugins: id |-> its handle
    opens,              \* loader: how often each library is open
    live,               \* per library: pluginInitialize() calls not yet shut down
    lent                \* plugins (IPlugin pointers) handed to clients

pluginVars == <<plugins, opens, live, lent>>

NoPlugin == [path |-> "", initialized |-> FALSE]

PluginInit ==
    /\ plugins = [i \in PluginIds |-> NoPlugin]
    /\ opens = [l \in Libraries |-> 0]
    /\ live = [l \in Libraries |-> 0]
    /\ lent = {}

Loaded(i) == plugins[i] # NoPlugin

\* The mistake of returning on a duplicate id without closing the library.
LoadPluginLeaky(l) ==
    /\ l \notin Unopenable
    /\ IF LibraryOf[l].accepted /\ ~ Loaded(LibraryOf[l].id)
       THEN plugins' = [plugins EXCEPT ![LibraryOf[l].id] = [path |-> l, initialized |-> FALSE]]
       ELSE UNCHANGED plugins
    /\ opens' = [opens EXCEPT ![l] = IF LibraryOf[l].accepted THEN @ + 1 ELSE @]
    /\ UNCHANGED <<live, lent>>

\* loadNativePlugin(): opened; then closed again unless the metadata, the
\* ABI version and the id are all in order.
LoadPlugin(l) ==
    /\ l \notin Unopenable
    /\ LibraryOf[l].accepted /\ ~ Loaded(LibraryOf[l].id)
    /\ plugins' = [plugins EXCEPT ![LibraryOf[l].id] = [path |-> l, initialized |-> FALSE]]
    /\ opens' = [opens EXCEPT ![l] = @ + 1]
    /\ UNCHANGED <<live, lent>>

\* The libraries of a directory, in the order it lists them: of two with
\* the same id the first stays.
LoadAllPlugins(dir) ==
    LET good == {l \in dir \ Unopenable : LibraryOf[l].accepted /\ ~ Loaded(LibraryOf[l].id)}
    IN  \E first \in SUBSET good :
            /\ good # {}
            /\ \A l \in good : \E k \in first : LibraryOf[k].id = LibraryOf[l].id
            /\ \A k, l \in first : LibraryOf[k].id = LibraryOf[l].id => k = l
            /\ plugins' = [i \in PluginIds |->
                             IF \E l \in first : LibraryOf[l].id = i
                             THEN [path |-> CHOOSE l \in first : LibraryOf[l].id = i, initialized |-> FALSE]
                             ELSE plugins[i]]
            /\ opens' = [l \in Libraries |-> IF l \in first THEN opens[l] + 1 ELSE opens[l]]
            /\ UNCHANGED <<live, lent>>

\* initializePluginLocked() of the plugins in S that can be initialised.
Initialized(S) ==
    LET new == {i \in S : Loaded(i) /\ ~ plugins[i].initialized /\ LibraryOf[plugins[i].path].inits}
    IN  /\ new # {} /\ \A i \in new : live[plugins[i].path] < MaxLive
        /\ plugins' = [i \in PluginIds |-> IF i \in new THEN [plugins[i] EXCEPT !.initialized = TRUE]
                                           ELSE plugins[i]]
        /\ live' = [l \in Libraries |-> live[l] + Cardinality({i \in new : plugins[i].path = l})]
        /\ UNCHANGED <<opens, lent>>

InitializePlugin(i) == Initialized({i})

InitializeAllPlugins == Initialized(PluginIds)

\* pluginShutdown() of the initialised plugins in S, where it is exported.
ShutCalls(S) ==
    [l \in Libraries |->
        live[l] - Cardinality({i \in S : /\ plugins[i].path = l /\ plugins[i].initialized
                                         /\ LibraryOf[l].shuts /\ live[l] > 0})]

ShutDown(S) ==
    /\ \E i \in S : plugins[i].initialized
    /\ live' = ShutCalls(S)
    /\ plugins' = [i \in PluginIds |-> IF i \in S THEN [plugins[i] EXCEPT !.initialized = FALSE]
                                       ELSE plugins[i]]
    /\ UNCHANGED <<opens, lent>>

ShutdownPlugin(i) == ShutDown({i})

ShutdownAllPlugins == ShutDown(PluginIds)

\* Handles destroyed: shut down if need be, then closed; the last close of a
\* library drops what it still kept.
Destroyed(S) ==
    LET closed(l) == Cardinality({i \in S : plugins[i].path = l})
    IN  /\ plugins' = [i \in PluginIds |-> IF i \in S THEN NoPlugin ELSE plugins[i]]
        /\ opens' = [l \in Libraries |-> opens[l] - closed(l)]
        /\ live' = [l \in Libraries |-> IF opens'[l] = 0 THEN 0 ELSE ShutCalls(S)[l]]
        /\ lent' = {i \in lent : i \notin S}

UnloadPlugin(i) == Loaded(i) /\ Destroyed({i})

DestroyManager == (\E i \in PluginIds : Loaded(i)) /\ Destroyed({i \in PluginIds : Loaded(i)})

\* The pointer keeps neither the handle nor the library alive.
GetPlugin(i) ==
    /\ Loaded(i) /\ LibraryOf[plugins[i].path].creates
    /\ lent' = lent \cup {i}
    /\ UNCHANGED <<plugins, opens, live>>

PluginNext ==
    \/ \E l \in Libraries : LoadPlugin(l)
    \/ \E dir \in SUBSET Libraries : LoadAllPlugins(dir)
    \/ \E i \in PluginIds : \/ InitializePlugin(i) \/ ShutdownPlugin(i)
                            \/ UnloadPlugin(i) \/ GetPlugin(i)
    \/ InitializeAllPlugins \/ ShutdownAllPlugins \/ DestroyManager

-----------------------------------------------------------------------------
(***************************************************************************)
(* A library is open exactly once for each plugin registered from it, so   *)
(* that no refused load keeps it in memory and no unload closes it under   *)
(* another; and between pluginInitialize() and pluginShutdown() its code   *)
(* is in memory, initialised once, for the libraries that export both.     *)
(***************************************************************************)
OpensBalance ==
    \A l \in Libraries :
        /\ opens[l] = Cardinality({i \in PluginIds : plugins[i].path = l})
        /\ live[l] > 0 => opens[l] > 0
        /\ LibraryOf[l].shuts =>
               live[l] = Cardinality({i \in PluginIds : plugins[i].path = l /\ plugins[i].initialized})
=============================================================================
