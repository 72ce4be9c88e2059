------------------------------ MODULE Collector -----------------------------
(***************************************************************************)
(* ResourcePoolMetricsCollector and the registry it samples.  start() and  *)
(* stop() change m_running by compare-and-swap, then the stop flag, then   *)
(* the thread under m_threadMutex: three steps each.  Threads that are     *)
(* created are numbered; the last is m_thread.                             *)
(***************************************************************************)
EXTENDS Naturals, FiniteSets

CONSTANTS
    Operators,          \* threads that call start() and stop()
    Monitors,           \* names of pool monitors
    MaxSpawned          \* bound on collector threads

VARIABLES
    collecting,         \* m_running
    stopFlag,           \* m_stopFlag
    opPc,               \* per operator: "idle", "start1", "start2", "stop1", "stop2"
    spawned, loops,     \* threads created so far, and those in runLoop()
    joinable,           \* m_thread.joinable()
    holder,             \* operator that holds m_threadMutex while it joins, or "none"
    monitors,           \* m_monitors
    utilization,        \* monitors above the threshold now (external)
    alerted             \* alerts of the last collectOnce()

collectorVars == <<collecting, stopFlag, opPc, spawned, loops, joinable, holder, monitors, utilization, alerted>>
threadState == <<collecting, stopFlag, opPc, spawned, loops, joinable, holder>>

CollectorInit ==
    /\ collecting = FALSE /\ stopFlag = FALSE
    /\ opPc = [o \in Operators |-> "idle"]
    /\ spawned = 0 /\ loops = {} /\ joinable = FALSE /\ holder = "none"
    /\ monitors = {} /\ utilization = {} /\ alerted = {}

Step(o, from, to) == opPc[o] = from /\ opPc' = [opPc EXCEPT ![o] = to]

StartCas(o) ==
    /\ spawned < MaxSpawned /\ ~ collecting /\ collecting' = TRUE
    /\ Step(o, "idle", "start1")
    /\ UNCHANGED <<stopFlag, spawned, loops, joinable, holder, monitors, utilization, alerted>>

StartFlag(o) ==
    /\ Step(o, "start1", "start2") /\ stopFlag' = FALSE
    /\ UNCHANGED <<collecting, spawned, loops, joinable, holder, monitors, utilization, alerted>>

StopCas(o) ==
    /\ collecting /\ collecting' = FALSE
    /\ Step(o, "idle", "stop1")
    /\ UNCHANGED <<stopFlag, spawned, loops, joinable, holder, monitors, utilization, alerted>>

StopFlag(o) ==
    /\ Step(o, "stop1", "stop2") /\ stopFlag' = TRUE
    /\ UNCHANGED <<collecting, spawned, loops, joinable, holder, monitors, utilization, alerted>>

\* The mutex is taken, and kept while the last thread is joined.
TakeMutex(o) ==
    /\ holder = "none" /\ opPc[o] \in {"start2", "stop2"} /\ holder' = o
    /\ UNCHANGED <<collecting, stopFlag, opPc, spawned, loops, joinable, monitors, utilization, alerted>>

Joined == joinable => spawned \notin loops

\* The mistake of starting a thread over one that still runs.
StartThreadUnjoined(o) ==
    /\ holder = o
    /\ Step(o, "start2", "idle") /\ holder' = "none"
    /\ spawned' = spawned + 1 /\ loops' = loops \cup {spawned'} /\ joinable' = TRUE
    /\ UNCHANGED <<collecting, stopFlag, monitors, utilization, alerted>>

StartThread(o) ==
    /\ holder = o /\ Joined
    /\ Step(o, "start2", "idle") /\ holder' = "none"
    /\ spawned' = spawned + 1 /\ loops' = loops \cup {spawned'} /\ joinable' = TRUE
    /\ UNCHANGED <<collecting, stopFlag, monitors, utilization, alerted>>

StopJoin(o) ==
    /\ holder = o /\ Joined
    /\ Step(o, "stop2", "idle") /\ holder' = "none" /\ joinable' = FALSE
    /\ UNCHANGED <<collecting, stopFlag, spawned, loops, monitors, utilization, alerted>>

\* runLoop(): collectOnce() unless the flag is up.
CollectOnce(t) ==
    /\ t \in loops /\ ~ stopFlag
    /\ alerted' = monitors \cap utilization
    /\ UNCHANGED <<collecting, stopFlag, opPc, spawned, loops, joinable, holder, monitors, utilization>>

LoopEnds(t) ==
    /\ t \in loops /\ stopFlag /\ loops' = loops \ {t}
    /\ UNCHANGED <<collecting, stopFlag, opPc, spawned, joinable, holder, monitors, utilization, alerted>>

RegisterMonitor(m) ==
    /\ monitors' = monitors \cup {m} /\ monitors' # monitors
    /\ UNCHANGED <<threadState, utilization, alerted>>

UnregisterMonitor(m) ==
    /\ monitors' = monitors \ {m} /\ monitors' # monitors
    /\ UNCHANGED <<threadState, utilization, alerted>>

LoadChanges(m) ==
    /\ utilization' = IF m \in utilization THEN utilization \ {m} ELSE utilization \cup {m}
    /\ UNCHANGED <<threadState, monitors, alerted>>

CollectorNext ==
    \/ \E o \in Operators : \/ StartCas(o) \/ StartFlag(o) \/ StopCas(o) \/ StopFlag(o)
                            \/ TakeMutex(o) \/ StartThread(o) \/ StopJoin(o)
    \/ \E t \in 1..MaxSpawned : CollectOnce(t) \/ LoopEnds(t)
    \/ \E m \in Monitors : RegisterMonitor(m) \/ UnregisterMonitor(m) \/ LoadChanges(m)

CollectorSpec == CollectorInit /\ [][CollectorNext]_collectorVars

-----------------------------------------------------------------------------
(***************************************************************************)
(* However start() and stop() interleave, no second thread collects and    *)
(* no std::thread is overwritten while its thread runs.                    *)
(***************************************************************************)
OneCollector ==
    /\ Cardinality(loops) <= 1
    /\ loops # {} => joinable /\ loops = {spawned}

(***************************************************************************)
(* Between calls, a collector that isRunning() denies has no thread left   *)
(* that goes on collecting.                                                *)
(***************************************************************************)
StoppedMeansStopped ==
    (~ collecting /\ \A o \in Operators : opPc[o] = "idle") => (loops = {} \/ stopFlag)

=============================================================================
