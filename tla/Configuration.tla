--------------------------- MODULE Configuration ----------------------------
(***************************************************************************)
(* The layers of a configuration, and the remote sources that keep a copy  *)
(* up to date.                                                             *)
(***************************************************************************)
EXTENDS Integers, Sequences, FiniteSets, Lists

(***************************************************************************)
(* Config: JSON files as layers of which a later one overrides an earlier  *)
(* one, below the environment.  One key is followed: no operation relates  *)
(* two keys.  A file holds a value of the key, a null, an array with an    *)
(* object in it ("nested"), no such key, is not a JSON object ("broken")   *)
(* or is missing.  The calls of m_changeCallbacks are made after the       *)
(* unlock, from a copy, by the thread that changed something: one of       *)
(* Setters, or the one of the file watcher.  The mutex is recursive, so    *)
(* that saveAll() may call saveToFile().                                   *)
(***************************************************************************)
CONSTANTS
    MainFiles,          \* number of files of the directory: 1..MainFiles, in its order
    EnvironmentFiles,   \* number of those in its subdirectory, which follow
    ProfileJson,        \* the file loadProfile() loads
    ConfigJson,         \* the file saveAll() writes
    Settings,           \* values of the key
    Contents, Edits,    \* what the files hold at first; what others write
    EnvPrefixes,        \* environment prefixes,
    SetUnder, EnvValue, \* those under which the variable is set, and its value
    KeyIsPlain,         \* the key is in lower case and without "_"
    Setters, Watcher,   \* threads that call setters; the thread of the watcher
    MaxLayers, MaxEdits, MaxTokens, MaxChanges

ASSUME ConfigAssumption ==
    /\ MainFiles \in Nat /\ EnvironmentFiles \in Nat /\ {ProfileJson, ConfigJson} \subseteq 1..MainFiles
    /\ MaxLayers \in Nat \ {0} /\ {MaxEdits, MaxTokens, MaxChanges} \subseteq Nat
    /\ (Settings \cup Contents \cup Edits) \cap {"dumped", "dropped"} = {}   \* names of look-ups

VARIABLES
    disk,               \* file |-> what it holds of the key
    layers,             \* m_configSources: what each holds of the key
    dirKnown,           \* m_configDir is set
    hot,                \* m_hotReloadEnabled
    arming, watched,    \* files to be watched, and those of m_fileWatcher
    changed,            \* files with a fileChanged signal not yet handled
    prefix,             \* m_envPrefix
    listening, tokens,  \* m_changeCallbacks, the tokens given out
    notices,            \* per thread: the callbacks of its copy still to call
    changes, seen,      \* changes told of so far; how many each callback saw
    promised, edits     \* what the last save wrote; edits by other programs

sourceVars == <<layers, dirKnown>>
watchVars == <<hot, arming, watched, changed>>
callbackVars == <<listening, tokens, notices, changes, seen>>
configVars == <<disk, sourceVars, watchVars, prefix, callbackVars, promised, edits>>

FileCount == MainFiles + EnvironmentFiles
Readable(c) == c \notin {"broken", "missing"}
Valued(c) == c \notin {"null", "none"}

ConfigInit ==
    /\ disk \in [1..FileCount -> Contents]
    /\ layers = << >> /\ dirKnown = FALSE
    /\ hot = FALSE /\ arming = {} /\ watched = {} /\ changed = {}
    /\ prefix \in EnvPrefixes
    /\ listening = {} /\ tokens = 0
    /\ notices = [t \in Setters \cup {Watcher} |-> {}]
    /\ changes = 0 /\ seen = [n \in 1..MaxTokens |-> 0]
    /\ promised = "none" /\ edits = 0

\* The layers that loadJsonFileLocked() pushes for the files of a range.
LayersOf(first, last) ==
    LET readable == Only([i \in 1..(last - first + 1) |-> first + i - 1],
                         {f \in first..last : Readable(disk[f])})
    IN  [i \in DOMAIN readable |-> disk[readable[i]]]

\* The locked part of loading a directory, and what it leaves to watch.
LoadAll(first, last) ==
    /\ Len(layers) + Len(LayersOf(first, last)) <= MaxLayers
    /\ layers' = layers \o LayersOf(first, last)
    /\ arming' = IF hot THEN arming \cup first..last ELSE arming
    /\ UNCHANGED <<disk, hot, watched, changed, prefix, callbackVars, promised, edits>>

LoadFromDirectory == LoadAll(1, MainFiles) /\ dirKnown' = TRUE

\* Without a known directory, QDir("") is the working directory, which is
\* taken to have none for the environment.
LoadEnvironment == dirKnown /\ LoadAll(MainFiles + 1, FileCount) /\ UNCHANGED dirKnown

\* After the unlock: addPath(), which refuses a file that does not exist.
AddPaths ==
    /\ arming # {} /\ arming' = {}
    /\ watched' = watched \cup {f \in arming : disk[f] # "missing"}
    /\ UNCHANGED <<disk, sourceVars, hot, changed, prefix, callbackVars, promised, edits>>

LoadFile(f) ==
    /\ Len(layers) < MaxLayers /\ Readable(disk[f])
    /\ layers' = layers \o LayersOf(f, f)
    /\ UNCHANGED <<disk, dirKnown, watchVars, prefix, callbackVars, promised, edits>>

\* loadProfile(): only a known directory has a file to load.  m_profile is
\* kept for profile() to report.
LoadProfile == dirKnown /\ LoadFile(ProfileJson)

\* What the last of the layers holds, without those that hold one of skipped.
HeldBy(ls, skipped) ==
    LET is == {i \in DOMAIN ls : ls[i] \notin skipped}
    IN  IF is = {} THEN "none" ELSE ls[CHOOSE i \in is : \A j \in is : j <= i]

\* The mistake of taking the last layer that has the key for the answer.
LastLayerOnly(ls) ==
    LET c == HeldBy(ls, {"none"})
    IN  CASE c = "null" -> "none" [] c = "nested" -> "dumped" [] OTHER -> c

\* getValueLocked() below the environment: the last layer with a value; a
\* null falls through to an earlier layer, what is nested becomes its text.
LastValue(ls) == LET c == HeldBy(ls, {"null", "none"}) IN IF c = "nested" THEN "dumped" ELSE c

FromEnvironment == IF prefix \in SetUnder THEN EnvValue ELSE "none"
GetValue == IF FromEnvironment # "none" THEN FromEnvironment ELSE LastValue(layers)

\* getAll() goes forward and lets a later value replace an earlier one,
\* except that a null replaces nothing and what is nested is left out of
\* its array.
Forward[i \in 0..MaxLayers] ==
    IF i = 0 THEN "none"
    ELSE IF i \notin DOMAIN layers \/ ~ Valued(layers[i]) THEN Forward[i - 1]
    ELSE IF layers[i] = "nested" THEN "dropped" ELSE layers[i]

GetAll == Forward[Len(layers)]

\* getGroup() puts the environment on top, under the variable's name in
\* lower case with "." for "_", which is the key only when that is plain.
GetGroup == IF FromEnvironment # "none" /\ KeyIsPlain THEN FromEnvironment ELSE GetAll

\* saveToFile()'s merge copies nulls like any value.
Merged == HeldBy(layers, {"none"})

\* setValueLocked(): into the last layer, a new one when there is none.
Stored(v) ==
    IF layers = << >> THEN <<v>>
    ELSE [layers EXCEPT ![Len(layers)] = v]

\* Under the lock with the change itself: the copy of m_changeCallbacks.
Tell(t) ==
    /\ changes < MaxChanges /\ changes' = changes + 1
    /\ notices' = [notices EXCEPT ![t] = listening]
    /\ UNCHANGED <<listening, tokens, seen>>

SetValue(t, v) ==
    /\ notices[t] = {}
    /\ layers' = Stored(v) /\ Tell(t)
    /\ UNCHANGED <<disk, dirKnown, watchVars, prefix, promised, edits>>

\* The next callback of the copy, by its token; it reads the configuration.
CallCallback(t) ==
    \E n \in notices[t] :
        /\ \A m \in notices[t] : n <= m
        /\ notices' = [notices EXCEPT ![t] = @ \ {n}]
        /\ seen' = [seen EXCEPT ![n] = changes]
        /\ UNCHANGED <<disk, sourceVars, watchVars, prefix, listening, tokens, changes, promised, edits>>

\* remove() tells nobody.
RemoveKey ==
    /\ layers # << >>
    /\ layers' = [i \in DOMAIN layers |-> "none"]
    /\ UNCHANGED <<disk, dirKnown, watchVars, prefix, callbackVars, promised, edits>>

\* What is written over config.json; its watcher sees a change.
Write(c) ==
    /\ disk' = [disk EXCEPT ![ConfigJson] = c]
    /\ promised' = IF Valued(c) /\ Readable(c) THEN c ELSE "none"

\* A file that cannot be opened is left as it is.
SaveAll ==
    /\ dirKnown /\ layers # << >>
    /\ Write(Merged)
    /\ changed' = changed \cup ({ConfigJson} \cap watched)
    /\ UNCHANGED <<sourceVars, hot, arming, watched, prefix, callbackVars, edits>>

\* The process ends and another starts from the files.
RestartConfig ==
    /\ layers' = << >> /\ dirKnown' = FALSE
    /\ hot' = FALSE /\ arming' = {} /\ watched' = {} /\ changed' = {}
    /\ listening' = {} /\ notices' = [t \in DOMAIN notices |-> {}]
    /\ UNCHANGED <<prefix, tokens, changes, seen, edits>>

\* shutdown() saves.
ShutdownAndRestart == dirKnown /\ layers # << >> /\ Write(Merged) /\ RestartConfig

\* A crash between the open that empties the file and the write.
CrashWhileSaving == dirKnown /\ layers # << >> /\ Write("broken") /\ RestartConfig

\* onFileChanged(): every layer loads the changed file.
OnFileChanged(f) ==
    /\ f \in changed /\ notices[Watcher] = {}
    /\ changed' = changed \ {f}
    /\ layers' = IF Readable(disk[f])
                 THEN [i \in DOMAIN layers |-> disk[f]] ELSE layers
    /\ Tell(Watcher)
    /\ UNCHANGED <<disk, dirKnown, hot, arming, watched, prefix, promised, edits>>

SetHotReload(b) ==
    /\ hot # b /\ hot' = b
    /\ UNCHANGED <<disk, sourceVars, arming, watched, changed, prefix, callbackVars, promised, edits>>

SetEnvPrefix(p) ==
    /\ prefix # p /\ prefix' = p
    /\ UNCHANGED <<disk, sourceVars, watchVars, callbackVars, promised, edits>>

\* Who adds a callback reads the configuration then.
AddChangeCallback ==
    /\ tokens < MaxTokens /\ tokens' = tokens + 1
    /\ listening' = listening \cup {tokens + 1}
    /\ seen' = [seen EXCEPT ![tokens + 1] = changes]
    /\ UNCHANGED <<disk, sourceVars, watchVars, prefix, notices, changes, promised, edits>>

\* A copy made before may still call it.
RemoveChangeCallback(n) ==
    /\ n \in listening /\ listening' = listening \ {n}
    /\ UNCHANGED <<disk, sourceVars, watchVars, prefix, tokens, notices, changes, seen, promised, edits>>

\* Another program writes, damages or deletes a file; the watcher reports
\* it, and forgets a deleted one.
EditFile(f, c) ==
    /\ edits < MaxEdits /\ edits' = edits + 1
    /\ disk[f] # c /\ disk' = [disk EXCEPT ![f] = c]
    /\ changed' = changed \cup ({f} \cap watched)
    /\ watched' = IF c = "missing" THEN watched \ {f} ELSE watched
    /\ promised' = IF f = ConfigJson THEN "none" ELSE promised
    /\ UNCHANGED <<sourceVars, hot, arming, prefix, callbackVars>>

ConfigNext ==
    \/ LoadFromDirectory \/ LoadEnvironment \/ AddPaths \/ LoadProfile \/ RemoveKey
    \/ SaveAll \/ ShutdownAndRestart \/ CrashWhileSaving \/ AddChangeCallback
    \/ \E f \in 1..FileCount : \/ LoadFile(f) \/ OnFileChanged(f)
                        \/ \E c \in Edits : EditFile(f, c)
    \/ \E t \in Setters, v \in Settings : SetValue(t, v)
    \/ \E t \in Setters \cup {Watcher} : CallCallback(t)
    \/ \E b \in BOOLEAN : SetHotReload(b)
    \/ \E p \in EnvPrefixes : SetEnvPrefix(p)
    \/ \E n \in 1..MaxTokens : RemoveChangeCallback(n)

-----------------------------------------------------------------------------
\* ConfigSchema over a map that may hold the key: a field has a default or
\* "none", and says which values canConvert() and the validator accept.
Texts == Settings \cup {EnvValue}
Fields == [required : BOOLEAN, converts : SUBSET Texts, accepted : {Texts, {EnvValue}},
           default : Texts \cup {"none"}]
ApplyDefaults(field, c) == IF c = "none" THEN field.default ELSE c
Validate(field, c) ==
    IF c = "none" THEN ~ field.required ELSE c \in field.converts /\ c \in field.accepted

(***************************************************************************)
(* A single lookup, which goes backward through the layers, agrees with    *)
(* getAll() and, for a plain key, getGroup(), which go forward, nulls and  *)
(* the environment included, and what is nested is text in the one and     *)
(* left out in the other; a value saved by saveAll() or shutdown() is what *)
(* the next start reads, unless a file the directory lists after           *)
(* config.json has the key; a callback that waits for no call has seen     *)
(* every change since it was added; and valid defaults leave a valid       *)
(* configuration valid (config.cpp, config_schema.cpp).                    *)
(***************************************************************************)
LookupsAgree ==
    /\ GetAll = IF LastValue(layers) = "dumped" THEN "dropped" ELSE LastValue(layers)
    /\ KeyIsPlain /\ GetValue # "dumped" => GetValue = GetGroup

SavedIsRead ==
    /\ promised \notin {"none", "nested"}
    /\ \A f \in (ConfigJson + 1)..MainFiles : ~ Valued(disk[f]) \/ ~ Readable(disk[f])
    => LastValue(LayersOf(1, MainFiles)) = promised

ListenersCurrent ==
    \A n \in listening : (\A t \in DOMAIN notices : n \notin notices[t]) => seen[n] = changes

DefaultsValid ==
    \A field \in Fields :
        /\ Validate(field, GetAll)
        /\ field.default = "none" \/ Validate(field, field.default)
        => Validate(field, ApplyDefaults(field, GetAll))

ConfigSound == LookupsAgree /\ SavedIsRead /\ ListenersCurrent /\ DefaultsValid

-----------------------------------------------------------------------------
(***************************************************************************)
(* RemoteConfiguration over a polling source (etcd or Nacos), in the one   *)
(* thread whose event loop it uses.  A fetch waits in a nested event loop, *)
(* in which further calls and the watch timer run, so the calls form a     *)
(* stack: only the top one can return.  sync() keeps m_mutex while it      *)
(* waits; the watch callback takes the mutex after its fetch, and taking   *)
(* it twice in one thread never returns.  Configurations are the server's  *)
(* versions; 0 is whatever the client holds of its own.                    *)
(***************************************************************************)
CONSTANTS Source, MaxVersions, MaxCalls, MaxLocal, MaxTimers

ASSUME SourceAssumption == Source \in {"etcd", "nacos"}

VARIABLES
    version,            \* server: the published configuration
    fetched,            \* m_config
    pendingCalls,       \* stack of fetches: [kind, timer, got], got = 0 while waiting
    timer, timers,      \* m_watchTimer, 0 when null; timers made so far
    halted,             \* "no", or why the thread goes no further
    localEdits

remoteVars == <<version, fetched, pendingCalls, timer, timers, halted, localEdits>>

RemoteInit ==
    /\ version = 1 /\ fetched = 0 /\ pendingCalls = << >>
    /\ timer = 0 /\ timers = 0 /\ halted = "no" /\ localEdits = 0

Locked == \E i \in DOMAIN pendingCalls : pendingCalls[i].kind = "sync"
Fetch(kind, n) == pendingCalls' = Append(pendingCalls, [kind |-> kind, timer |-> n, got |-> 0])
TopCall == pendingCalls[Len(pendingCalls)]
PopCall == SubSeq(pendingCalls, 1, Len(pendingCalls) - 1)

\* What a lookup that fails leaves: nothing to use.
NotFound == MaxVersions + 1

\* The keys of etcd in the order of their bytes: publishConfig() puts
\* "/config/ns"; fetchConfig() asks for the range from "/config/ns/" up to,
\* and without, "/config/ns\0".  Nacos uses one dataId for both.
PublishedKey == 1
RangeEnd == 2
RangeKey == 3
Answer ==
    IF Source = "nacos" \/ (RangeKey <= PublishedKey /\ PublishedKey < RangeEnd)
    THEN version ELSE NotFound

\* A call that takes m_mutex.
Locking(effect, unchanged) ==
    IF Locked THEN halted' = "mutex" /\ UNCHANGED unchanged ELSE effect /\ UNCHANGED halted

SyncBegin ==
    /\ halted = "no" /\ Len(pendingCalls) < MaxCalls
    /\ Locking(Fetch("sync", 0), pendingCalls)
    /\ UNCHANGED <<version, fetched, timer, timers, localEdits>>

\* watch(): watchConfig() replaces the timer.
WatchConfig ==
    /\ halted = "no" /\ timers < MaxTimers
    /\ Locking(timer' = timers + 1 /\ timers' = timers + 1, <<timer, timers>>)
    /\ UNCHANGED <<version, fetched, pendingCalls, localEdits>>

\* The timer fires; Qt does not fire it again inside its own handler.
WatchTick ==
    /\ halted = "no" /\ timer # 0 /\ Len(pendingCalls) < MaxCalls
    /\ \A i \in DOMAIN pendingCalls : pendingCalls[i].timer # timer
    /\ Fetch("watch", timer)
    /\ UNCHANGED <<version, fetched, timer, timers, halted, localEdits>>

\* The server answers a waiting fetch with what is published then.
Reply(i) ==
    /\ i \in DOMAIN pendingCalls /\ pendingCalls[i].got = 0
    /\ pendingCalls' = [pendingCalls EXCEPT ![i].got = Answer]
    /\ UNCHANGED <<version, fetched, timer, timers, halted, localEdits>>

\* configSynced is emitted under the lock: a slot that reads never returns.
SyncReturns(slotReads) ==
    /\ halted = "no" /\ pendingCalls # << >>
    /\ TopCall.kind = "sync" /\ TopCall.got \in 1..MaxVersions
    /\ fetched' = TopCall.got /\ pendingCalls' = PopCall
    /\ halted' = IF slotReads THEN "mutex" ELSE halted
    /\ UNCHANGED <<version, timer, timers, localEdits>>

\* The mistake of a watch that fills an empty copy only.
WatchReturnsOnce(slotReads) ==
    /\ halted = "no" /\ pendingCalls # << >>
    /\ TopCall.kind = "watch" /\ TopCall.got \in 1..MaxVersions
    /\ pendingCalls' = PopCall
    /\ fetched' = IF timer # 0 /\ ~ Locked /\ fetched = 0 THEN TopCall.got ELSE fetched
    /\ halted' = CASE timer = 0 -> "exception" [] Locked \/ slotReads -> "mutex" [] OTHER -> halted
    /\ UNCHANGED <<version, timer, timers, localEdits>>

\* The callback of the watch takes the mutex; one that disconnectFromServer()
\* cleared during the fetch throws when it is called.
WatchReturns(slotReads) ==
    /\ halted = "no" /\ pendingCalls # << >>
    /\ TopCall.kind = "watch" /\ TopCall.got \in 1..MaxVersions
    /\ pendingCalls' = PopCall
    /\ fetched' = IF timer # 0 /\ ~ Locked THEN TopCall.got ELSE fetched
    /\ halted' = CASE timer = 0 -> "exception" [] Locked \/ slotReads -> "mutex" [] OTHER -> halted
    /\ UNCHANGED <<version, timer, timers, localEdits>>

DisconnectFromServer ==
    /\ halted = "no" /\ timer # 0 /\ timer' = 0
    /\ UNCHANGED <<version, fetched, pendingCalls, timers, halted, localEdits>>

\* The time-out quits the loop, or the answer cannot be used: the call
\* returns an error, and the timer goes on.
FetchFails ==
    /\ halted = "no" /\ pendingCalls # << >> /\ TopCall.got \in {0, NotFound}
    /\ pendingCalls' = PopCall
    /\ UNCHANGED <<version, fetched, timer, timers, halted, localEdits>>

\* publishConfig() of some client.
PublishConfig ==
    /\ version < MaxVersions /\ version' = version + 1
    /\ UNCHANGED <<fetched, pendingCalls, timer, timers, halted, localEdits>>

\* load(), the setters and remove() change the copy only.
ChangeLocally ==
    /\ halted = "no" /\ localEdits < MaxLocal
    /\ localEdits' = localEdits + 1
    /\ Locking(fetched' = 0, fetched)
    /\ UNCHANGED <<version, pendingCalls, timer, timers>>

RemoteNext ==
    \/ SyncBegin \/ WatchConfig \/ WatchTick \/ FetchFails
    \/ PublishConfig \/ ChangeLocally \/ DisconnectFromServer
    \/ \E i \in 1..MaxCalls : Reply(i)
    \/ \E slotReads \in BOOLEAN : SyncReturns(slotReads) \/ WatchReturns(slotReads)

\* Timers fire, a time-out ends every fetch, and the server answers a client
\* that keeps asking.
RemoteFairness ==
    /\ WF_remoteVars(WatchTick) /\ WF_remoteVars(FetchFails)
    /\ \A i \in 1..MaxCalls : SF_remoteVars(Reply(i))
    /\ SF_remoteVars(\E slotReads \in BOOLEAN : SyncReturns(slotReads))
    /\ SF_remoteVars(\E slotReads \in BOOLEAN : WatchReturns(slotReads))

\* Either part while the other is idle.
ConfigSpec ==
    ConfigInit /\ RemoteInit /\ [][ConfigNext /\ UNCHANGED remoteVars]_<<configVars, remoteVars>>
RemoteSpec ==
    /\ ConfigInit /\ RemoteInit
    /\ [][RemoteNext /\ UNCHANGED configVars]_<<configVars, remoteVars>>
    /\ RemoteFairness

-----------------------------------------------------------------------------
(***************************************************************************)
(* Once watched, the copy ends up as the server's last version, although a *)
(* reply of an outer fetch is applied after a newer one of an inner fetch  *)
(* and single fetches fail; unless the watch ends, or the thread locked    *)
(* itself out or called a cleared callback.                                *)
(***************************************************************************)
WatchedCatchesUp == []<>(halted # "no" \/ timer = 0 \/ fetched = version)
=============================================================================
