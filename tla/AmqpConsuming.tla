--------------------------- MODULE AmqpConsuming ---------------------------
(***************************************************************************)
(* The dispatch thread of InMemoryAmqpBackend (inmemory_amqp_backend.cpp): *)
(* startConsuming(), stopConsuming(), disconnect() and the waits and       *)
(* wake-ups of dispatchLoop().  What is dispatched is AmqpBroker's         *)
(* concern: here the queues are a number of messages.                      *)
(*                                                                         *)
(* A step is a critical section of m_mutex or one access to an atomic.     *)
(* Between the test of the wait's predicate and the wait the dispatcher    *)
(* holds m_mutex, but m_consuming is written without it.                   *)
(***************************************************************************)
EXTENDS Integers, FiniteSets

CONSTANTS
    Callers,      \* threads that start, stop and disconnect
    Dispatchers,  \* identities of std::thread objects
    MaxWork,      \* bound on the messages waiting in the queues
    None

ASSUME NoneAssumption == None \notin Dispatchers
ASSUME MaxWorkAssumption == MaxWork \in Nat

VARIABLES
    attached,   \* m_connected
    consuming,   \* m_consuming
    handle,      \* m_dispatchThread, None if not joinable
    work,        \* messages in m_queues
    dpc,         \* where each dispatch thread is
    cpc,         \* where each caller is
    joins,       \* the thread a caller has taken out of m_dispatchThread
    closing,     \* callers whose stopConsuming() is part of disconnect()
    terminated,  \* std::terminate: a joinable thread was assigned to
    crossed      \* history: a start and a stop overlapped, and all has not come to rest since

memberVars == <<attached, consuming, handle, work>>
callerVars == <<cpc, joins, closing, crossed>>
consumingVars == <<memberVars, dpc, callerVars, terminated>>

Free == {d \in Dispatchers : dpc[d] = "unborn"}
Alive == {d \in Dispatchers : dpc[d] \notin {"unborn", "ended"}}

(* The members of InMemoryAmqpBackend that start and stop the dispatch     *)
(* thread, and where the threads are.                                      *)
ConsumingTypeOK ==
    /\ attached \in BOOLEAN /\ consuming \in BOOLEAN /\ terminated \in BOOLEAN /\ crossed \in BOOLEAN
    /\ handle \in Dispatchers \cup {None}
    /\ work \in 0..MaxWork
    /\ dpc \in [Dispatchers -> {"unborn", "head", "test", "blocking", "waiting",
                                "callback", "nap", "ended"}]
    /\ cpc \in [Callers -> {"idle", "starting", "stopping", "stored", "notified",
                              "joining", "clearing"}]
    /\ joins \in [Callers -> Dispatchers \cup {None}]
    /\ closing \in SUBSET Callers

ConsumingInit ==
    /\ attached = FALSE /\ consuming = FALSE /\ terminated = FALSE /\ crossed = FALSE
    /\ handle = None
    /\ work = 0
    /\ dpc = [d \in Dispatchers |-> "unborn"]
    /\ cpc = [c \in Callers |-> "idle"]
    /\ joins = [c \in Callers |-> None]
    /\ closing = {}

-----------------------------------------------------------------------------
MutexFree == \A d \in Dispatchers : dpc[d] # "blocking"

(* m_cv.notify_all(): out of the predicate's wait and out of wait_for() *)
NotifyAll ==
    dpc' = [d \in Dispatchers |->
              CASE dpc[d] = "waiting" -> "test"
                [] dpc[d] = "nap" -> "head"
                [] OTHER -> dpc[d]]

ConsumingConnect ==
    /\ ~attached /\ attached' = TRUE
    /\ UNCHANGED <<consuming, handle, work, dpc, callerVars, terminated>>

(* The exchanges are there until disconnect() clears them *)
Open == attached \/ closing # {}

(* A mistaken PublishWork: without m_mutex *)
PublishUnlocked ==
    /\ Open /\ work < MaxWork
    /\ work' = work + 1
    /\ NotifyAll
    /\ UNCHANGED <<attached, consuming, handle, callerVars, terminated>>

(* publish() and a requeueing nack(), from any thread.  Both test          *)
(* m_connected before they lock: a call under way outlasts disconnect()    *)
(* until the exchanges are cleared.                                        *)
PublishWork ==
    /\ Open /\ MutexFree /\ work < MaxWork
    /\ work' = work + 1
    /\ NotifyAll
    /\ UNCHANGED <<attached, consuming, handle, callerVars, terminated>>

Starting == {c \in Callers : cpc[c] = "starting"}
Stopping == {c \in Callers : cpc[c] \in {"stored", "notified", "joining"}}

(* startConsuming(): the exchange, then the thread under m_mutex *)
Start(c) ==
    /\ cpc[c] = "idle" /\ ~consuming
    /\ consuming' = TRUE
    /\ cpc' = [cpc EXCEPT ![c] = "starting"]
    /\ crossed' = (crossed \/ Stopping # {})
    /\ UNCHANGED <<attached, handle, work, dpc, joins, closing, terminated>>

StartThread(c) ==
    /\ cpc[c] = "starting" /\ MutexFree
    /\ \E d \in Free :
         /\ dpc' = [dpc EXCEPT ![d] = "head"]
         /\ handle' = d
    /\ terminated' = (handle # None)
    /\ cpc' = [cpc EXCEPT ![c] = "idle"]
    /\ UNCHANGED <<attached, consuming, work, joins, closing, crossed>>

(* disconnect(): m_connected first, then stopConsuming() *)
ConsumingDisconnect(c) ==
    /\ cpc[c] = "idle" /\ attached
    /\ attached' = FALSE
    /\ closing' = closing \cup {c}
    /\ cpc' = [cpc EXCEPT ![c] = "stopping"]
    /\ UNCHANGED <<consuming, handle, work, dpc, joins, crossed, terminated>>

(* stopConsuming(), alone or as part of disconnect(): the flag, which      *)
(* m_mutex does not guard, then the notification                           *)
Stop(c) ==
    /\ cpc[c] \in {"idle", "stopping"}
    /\ consuming' = FALSE
    /\ cpc' = [cpc EXCEPT ![c] = "stored"]
    /\ crossed' = (crossed \/ Starting # {})
    /\ UNCHANGED <<attached, handle, work, dpc, joins, closing, terminated>>

StopNotify(c) ==
    /\ cpc[c] = "stored"
    /\ NotifyAll
    /\ cpc' = [cpc EXCEPT ![c] = "notified"]
    /\ UNCHANGED <<memberVars, joins, closing, crossed, terminated>>

TakeThread(c) ==
    /\ cpc[c] = "notified" /\ MutexFree
    /\ joins' = [joins EXCEPT ![c] = handle]
    /\ handle' = None
    /\ cpc' = [cpc EXCEPT ![c] = "joining"]
    /\ UNCHANGED <<attached, consuming, work, dpc, closing, crossed, terminated>>

(* A mistaken Join: the thread is detached *)
JoinAtOnce(c) ==
    /\ cpc[c] = "joining"
    /\ joins' = [joins EXCEPT ![c] = None]
    /\ cpc' = [cpc EXCEPT ![c] = IF c \in closing THEN "clearing" ELSE "idle"]
    /\ crossed' = (crossed /\ (handle # None \/ Starting # {} \/ Stopping # {c}))
    /\ UNCHANGED <<memberVars, dpc, closing, terminated>>

Join(c) ==
    /\ cpc[c] = "joining"
    /\ joins[c] \in {None} \cup {d \in Dispatchers : dpc[d] = "ended"}
    /\ joins' = [joins EXCEPT ![c] = None]
    /\ dpc' = [d \in Dispatchers |-> IF d = joins[c] THEN "unborn" ELSE dpc[d]]
    /\ cpc' = [cpc EXCEPT ![c] = IF c \in closing THEN "clearing" ELSE "idle"]
    /\ crossed' = (crossed /\ (handle # None \/ Starting # {} \/ Stopping # {c}))
    /\ UNCHANGED <<memberVars, closing, terminated>>

(* The end of disconnect() *)
Clear(c) ==
    /\ cpc[c] = "clearing" /\ MutexFree
    /\ work' = 0
    /\ closing' = closing \ {c}
    /\ cpc' = [cpc EXCEPT ![c] = "idle"]
    /\ UNCHANGED <<attached, consuming, handle, dpc, joins, crossed, terminated>>

-----------------------------------------------------------------------------
Goto(d, p) == dpc' = [dpc EXCEPT ![d] = p]

(* dispatchLoop(): the condition of the outer loop *)
LoopHead(d) ==
    /\ dpc[d] = "head"
    /\ Goto(d, IF consuming THEN "test" ELSE "ended")
    /\ UNCHANGED <<memberVars, callerVars, terminated>>

(* Lock m_mutex, evaluate the predicate; leave, scan the queues, or wait *)
LeaveLoop(d) ==
    /\ dpc[d] = "test" /\ MutexFree /\ ~consuming
    /\ Goto(d, "ended")
    /\ UNCHANGED <<memberVars, callerVars, terminated>>

StartWait(d) ==
    /\ dpc[d] = "test" /\ MutexFree /\ consuming /\ work = 0
    /\ Goto(d, "blocking")
    /\ UNCHANGED <<memberVars, callerVars, terminated>>

Block(d) ==
    /\ dpc[d] = "blocking"
    /\ Goto(d, "waiting")
    /\ UNCHANGED <<memberVars, callerVars, terminated>>

(* A message is popped, m_mutex is released and its callback runs; after   *)
(* that the scan goes on                                                   *)
DeliverWork(d) ==
    /\ \/ dpc[d] = "test" /\ consuming
       \/ dpc[d] = "callback"
    /\ MutexFree /\ work > 0
    /\ work' = work - 1
    /\ Goto(d, "callback")
    /\ UNCHANGED <<attached, consuming, handle, callerVars, terminated>>

(* The scan ends: no consumer, prefetch used up, or queues empty.  A scan  *)
(* that dispatched nothing naps for 10 ms                                  *)
LoopScanEnd(d) ==
    /\ \/ dpc[d] = "callback" /\ Goto(d, "head")
       \/ dpc[d] = "test" /\ consuming /\ work > 0 /\ Goto(d, "nap")
    /\ MutexFree
    /\ UNCHANGED <<memberVars, callerVars, terminated>>

NapOver(d) ==
    /\ dpc[d] = "nap"
    /\ Goto(d, "head")
    /\ UNCHANGED <<memberVars, callerVars, terminated>>

SpuriousWakeup(d) ==
    /\ dpc[d] = "waiting"
    /\ Goto(d, "test")
    /\ UNCHANGED <<memberVars, callerVars, terminated>>

(* std::terminate ends the process, and with it every thread *)
CallerStep(c) ==
    /\ ~terminated
    /\ \/ cpc[c] = "stopping" /\ Stop(c)
       \/ StartThread(c) \/ StopNotify(c) \/ TakeThread(c) \/ Join(c) \/ Clear(c)

LoopStep(d) ==
    /\ ~terminated
    /\ \/ LoopHead(d) \/ LeaveLoop(d) \/ StartWait(d) \/ Block(d)
       \/ DeliverWork(d) \/ LoopScanEnd(d) \/ NapOver(d)

ConsumingNext ==
    /\ ~terminated
    /\ \/ ConsumingConnect \/ PublishWork
       \/ \E c \in Callers : Start(c) \/ Stop(c) \/ ConsumingDisconnect(c) \/ CallerStep(c)
       \/ \E d \in Dispatchers : LoopStep(d) \/ SpuriousWakeup(d)

(* Threads run, callbacks return.  Spurious wake-ups need not happen.      *)
ConsumingFairness ==
    /\ \A c \in Callers : WF_consumingVars(CallerStep(c))
    /\ \A d \in Dispatchers : WF_consumingVars(LoopStep(d))

ConsumingSpec == ConsumingInit /\ [][ConsumingNext]_consumingVars

FairConsumingSpec == ConsumingSpec /\ ConsumingFairness

-----------------------------------------------------------------------------
(* While a thread waits on m_cv no message waits in the queues: a message  *)
(* is never left to the next publish() or to luck.                         *)
NoMissedMessage == \A d \in Dispatchers : dpc[d] = "waiting" => work = 0

(* Every dispatch thread is the one of m_dispatchThread or one that a      *)
(* stopConsuming() is joining: none is forgotten.  When nobody is starting *)
(* or stopping, m_consuming is true only over a thread that runs.  Both    *)
(* hold however calls from several threads overlap.                        *)
ThreadsOwned ==
    /\ ~terminated => Alive \subseteq {handle} \cup {joins[c] : c \in Callers}
    /\ ~terminated /\ consuming /\ Starting = {} /\ Stopping = {} => Alive = {handle}

(* After stopConsuming() or disconnect() no callback runs any more, and    *)
(* startConsuming() does not assign over a thread that was not joined,     *)
(* which calls std::terminate.  This does NOT hold when a start and a stop *)
(* overlap, whatever the header says of thread safety                      *)
(* (inmemory_amqp_backend.h:44): the exchange, the flag and the thread are *)
(* not one critical section.  It holds again when a later stopConsuming()  *)
(* returns and nobody else is starting or stopping.                        *)
StoppedUnlessCrossed ==
    ~crossed => /\ ~terminated
                /\ ~consuming /\ Starting = {} /\ Stopping = {} => Alive = {}

(* No message is slept through and no dispatch thread forgotten, whatever  *)
(* startConsuming(), stopConsuming(), disconnect() and publish() of any    *)
(* threads do between two steps of dispatchLoop(); and a stop is a stop    *)
(* unless a start overlapped with it.                                      *)
DispatcherSound == ConsumingTypeOK /\ NoMissedMessage /\ ThreadsOwned /\ StoppedUnlessCrossed

(* A message that waits is looked at unless consuming is stopped, another  *)
(* thread's disconnect() clears the queues or the process is terminated.   *)
MessagesAreSeen ==
    (work > 0 /\ consuming) ~>
        \/ ~consuming \/ work = 0 \/ terminated
        \/ \E d \in Dispatchers : dpc[d] \in {"callback", "nap"}
=============================================================================
