---------------------------- MODULE ThreadPool ----------------------------
(***************************************************************************)
(* sc::ThreadPool (thread_pool.h, thread_pool.cpp): three priority queues  *)
(* served by std::thread workers, with a QThreadPool as a fallback for     *)
(* callers that submit before init() or after shutdown().                  *)
(*                                                                         *)
(* A step is one critical section of m_queueMutex or m_initMutex, or one   *)
(* access to an atomic outside them.  m_queueMutex is explicit because a   *)
(* worker keeps it from the predicate of m_queueCv.wait() until it blocks, *)
(* while shutdown() writes m_running and notifies without it; every other  *)
(* critical section is a single step that needs the mutex free.            *)
(* The starvation counter of a Low task is left out: dequeueTask() raises  *)
(* it only when it removes the task, so it never influences an outcome.    *)
(***************************************************************************)
EXTENDS Naturals, Sequences, FiniteSets

CONSTANTS
    Clients,      \* threads that use the pool
    Owner,        \* the client that calls init() and shutdown()
    Tasks,        \* closures; one may be submitted again once it has run
    Workers,      \* identities of std::thread workers
    MaxThreads,   \* the argument of init()
    Pools,        \* identities of QThreadPool objects
    None          \* nullptr

ASSUME OwnerAssumption == Owner \in Clients
ASSUME ThreadsAssumption == MaxThreads \in Nat \ {0}
ASSUME WorkersAssumption == IsFiniteSet(Workers)
ASSUME NoneAssumption == None \notin Tasks \cup Workers \cup Pools

Priority == {"High", "Normal", "Low"}

VARIABLES
    initialized,  \* m_initialized
    nativePool,   \* m_threadPool: the current QThreadPool or None
    nativeTasks,  \* tasks handed to each QThreadPool and not finished
    running,      \* m_running
    workers,      \* m_workers
    queue,        \* m_highQueue, m_normalQueue, m_lowQueue
    active,       \* m_activeCount
    mutex,        \* holder of m_queueMutex between two steps, or None
    wpc,          \* where each worker is
    wtask,        \* the task a worker has taken from a queue
    cpc,          \* where each client is
    ctask,        \* the task a client is submitting
    cprio,        \* its priority
    cpool,        \* the QThreadPool a client waits for
    joining       \* the local vector 'workers' of shutdown()

poolVars == <<initialized, nativePool, nativeTasks>>
workVars == <<running, workers, queue, active, mutex, wpc, wtask>>
callVars == <<cpc, ctask, cprio, cpool, joining>>
vars == <<poolVars, workVars, callVars>>

WorkerPc == {"none", "loop", "dequeue", "blocking", "wait", "taken", "active", "exited"}
ClientPc == {"idle", "start_check", "start_native", "start_push", "start_notify",
             "init_run", "init_spawn", "sd_notify", "sd_take", "sd_join",
             "sd_pool", "sd_drain", "wd_check", "wd_poll", "wd_pool", "wd_drain"}

(* The members of ThreadPool and the locals of its callers and workers;    *)
(* m_activeCount is never decremented below zero (thread_pool.cpp).        *)
TypeOK ==
    /\ initialized \in BOOLEAN
    /\ nativePool \in Pools \cup {None}
    /\ nativeTasks \in [Pools -> SUBSET Tasks]
    /\ running \in BOOLEAN
    /\ workers \in SUBSET Workers
    /\ queue \in [Priority -> Seq(Tasks)]
    /\ active \in Nat
    /\ mutex \in Workers \cup {None}
    /\ wpc \in [Workers -> WorkerPc]
    /\ wtask \in [Workers -> Tasks \cup {None}]
    /\ cpc \in [Clients -> ClientPc]
    /\ ctask \in [Clients -> Tasks \cup {None}]
    /\ cprio \in [Clients -> Priority]
    /\ cpool \in [Clients -> Pools \cup {None}]
    /\ joining \in SUBSET Workers

Init ==
    /\ initialized = FALSE
    /\ nativePool = None
    /\ nativeTasks = [p \in Pools |-> {}]
    /\ running = FALSE
    /\ workers = {}
    /\ queue = [p \in Priority |-> <<>>]
    /\ active = 0
    /\ mutex = None
    /\ wpc = [w \in Workers |-> "none"]
    /\ wtask = [w \in Workers |-> None]
    /\ cpc = [c \in Clients |-> "idle"]
    /\ ctask = [c \in Clients |-> None]
    /\ cprio = [c \in Clients |-> "Normal"]
    /\ cpool = [c \in Clients |-> None]
    /\ joining = {}

-----------------------------------------------------------------------------
(* Where a task is.  A task that is nowhere may be submitted (again).      *)

Queued(t) == \E p \in Priority : \E i \in 1..Len(queue[p]) : queue[p][i] = t
InHand(t) == \E c \in Clients : ctask[c] = t
InNative(t) == \E p \in Pools : t \in nativeTasks[p]
WithWorker(t) == \E w \in Workers : wtask[w] = t
InFlight(t) == Queued(t) \/ InHand(t) \/ InNative(t) \/ WithWorker(t)

QueuesEmpty == \A p \in Priority : queue[p] = <<>>
Waiting == {w \in Workers : wpc[w] = "wait"}

(* A QThreadPool nobody refers to: the identity of the next one.           *)
FreePools == {p \in Pools : /\ p # nativePool
                            /\ nativeTasks[p] = {}
                            /\ \A c \in Clients : cpool[c] # p}

(* make_shared<QThreadPool>() when there is none; sets m_initialized.      *)
EnsurePool ==
    /\ initialized' = TRUE
    /\ IF nativePool = None THEN nativePool' \in FreePools
                            ELSE UNCHANGED nativePool

Goto(c, pc) == cpc' = [cpc EXCEPT ![c] = pc]

-----------------------------------------------------------------------------
(* start(task, priority)                                                   *)

Start(c, t, p) ==
    /\ cpc[c] = "idle" /\ ~InFlight(t)
    /\ ctask' = [ctask EXCEPT ![c] = t]
    /\ cprio' = [cprio EXCEPT ![c] = p]
    /\ Goto(c, "start_check")
    /\ UNCHANGED <<poolVars, workVars, cpool, joining>>

(* First critical section: fallback = m_workers.empty().                   *)
StartCheck(c) ==
    /\ cpc[c] = "start_check" /\ mutex = None
    /\ Goto(c, IF workers = {} THEN "start_native" ELSE "start_push")
    /\ UNCHANGED <<poolVars, workVars, ctask, cprio, cpool, joining>>

StartNative(c) ==
    /\ cpc[c] = "start_native"
    /\ EnsurePool
    /\ nativeTasks' = [nativeTasks EXCEPT ![nativePool'] = @ \cup {ctask[c]}]
    /\ ctask' = [ctask EXCEPT ![c] = None]
    /\ Goto(c, "idle")
    /\ UNCHANGED <<workVars, cprio, cpool, joining>>

(* Second critical section: push, whatever became of the workers.          *)
StartPush(c) ==
    /\ cpc[c] = "start_push" /\ mutex = None
    /\ queue' = [queue EXCEPT ![cprio[c]] = Append(@, ctask[c])]
    /\ ctask' = [ctask EXCEPT ![c] = None]
    /\ Goto(c, "start_notify")
    /\ UNCHANGED <<poolVars, running, workers, active, mutex, wpc, wtask, cprio, cpool, joining>>

(* Fault: start() returns without notify_one().                            *)
StartNoNotify(c) ==
    /\ cpc[c] = "start_notify"
    /\ Goto(c, "idle")
    /\ UNCHANGED <<poolVars, workVars, ctask, cprio, cpool, joining>>

(* m_queueCv.notify_one(), after the mutex was released.                   *)
StartNotify(c) ==
    /\ cpc[c] = "start_notify"
    /\ \/ \E w \in Waiting : wpc' = [wpc EXCEPT ![w] = "dequeue"]
       \/ Waiting = {} /\ UNCHANGED wpc
    /\ Goto(c, "idle")
    /\ UNCHANGED <<poolVars, running, workers, queue, active, mutex, wtask, ctask, cprio, cpool, joining>>

(* setMaxThreadCount, setExpiryTimeout, reserveThread, nativeThreadPool.   *)
Configure(c) ==
    /\ cpc[c] = "idle" /\ ~initialized
    /\ EnsurePool
    /\ UNCHANGED <<nativeTasks, workVars, callVars>>

-----------------------------------------------------------------------------
(* init(maxThreads)                                                        *)

InitPool(c) ==
    /\ c = Owner /\ cpc[c] = "idle" /\ ~initialized
    /\ nativePool' \in FreePools
    /\ initialized' = TRUE
    /\ Goto(c, "init_run")
    /\ UNCHANGED <<nativeTasks, workVars, ctask, cprio, cpool, joining>>

InitRun(c) ==
    /\ cpc[c] = "init_run"
    /\ running' = TRUE
    /\ Goto(c, "init_spawn")
    /\ UNCHANGED <<poolVars, workers, queue, active, mutex, wpc, wtask, ctask, cprio, cpool, joining>>

InitSpawn(c) ==
    /\ cpc[c] = "init_spawn" /\ mutex = None
    /\ \E new \in SUBSET {w \in Workers : wpc[w] = "none"} :
          /\ Cardinality(new) = MaxThreads
          /\ workers' = workers \cup new
          /\ wpc' = [w \in Workers |-> IF w \in new THEN "loop" ELSE wpc[w]]
    /\ Goto(c, "idle")
    /\ UNCHANGED <<poolVars, running, queue, active, mutex, wtask, ctask, cprio, cpool, joining>>

-----------------------------------------------------------------------------
(* shutdown()                                                              *)

(* m_running = false, without m_queueMutex.                                *)
Shutdown(c) ==
    /\ c = Owner /\ cpc[c] = "idle"
    /\ running' = FALSE
    /\ Goto(c, "sd_notify")
    /\ UNCHANGED <<poolVars, workers, queue, active, mutex, wpc, wtask, ctask, cprio, cpool, joining>>

(* m_queueCv.notify_all(), without m_queueMutex.                           *)
ShutdownNotify(c) ==
    /\ cpc[c] = "sd_notify"
    /\ wpc' = [w \in Workers |-> IF w \in Waiting THEN "dequeue" ELSE wpc[w]]
    /\ Goto(c, "sd_take")
    /\ UNCHANGED <<poolVars, running, workers, queue, active, mutex, wtask, ctask, cprio, cpool, joining>>

ShutdownTake(c) ==
    /\ cpc[c] = "sd_take" /\ mutex = None
    /\ joining' = workers
    /\ workers' = {}
    /\ Goto(c, "sd_join")
    /\ UNCHANGED <<poolVars, running, queue, active, mutex, wpc, wtask, ctask, cprio, cpool>>

(* Fault: shutdown() goes on without join().                               *)
ShutdownDetach(c) ==
    /\ cpc[c] = "sd_join"
    /\ joining' = {}
    /\ Goto(c, "sd_pool")
    /\ UNCHANGED <<poolVars, workVars, ctask, cprio, cpool>>

ShutdownJoin(c) ==
    /\ cpc[c] = "sd_join"
    /\ \A w \in joining : wpc[w] = "exited"
    /\ wpc' = [w \in Workers |-> IF w \in joining THEN "none" ELSE wpc[w]]
    /\ joining' = {}
    /\ Goto(c, "sd_pool")
    /\ UNCHANGED <<poolVars, running, workers, queue, active, mutex, wtask, ctask, cprio, cpool>>

ShutdownPool(c) ==
    /\ cpc[c] = "sd_pool"
    /\ \/ /\ ~initialized \/ nativePool = None
          /\ Goto(c, "idle")
          /\ UNCHANGED <<poolVars, cpool>>
       \/ /\ initialized /\ nativePool # None
          /\ cpool' = [cpool EXCEPT ![c] = nativePool]
          /\ nativePool' = None
          /\ initialized' = FALSE
          /\ Goto(c, "sd_drain")
          /\ UNCHANGED nativeTasks
    /\ UNCHANGED <<workVars, ctask, cprio, joining>>

(* pool->waitForDone(); then the last reference to the QThreadPool goes.   *)
ShutdownDrain(c) ==
    /\ cpc[c] = "sd_drain"
    /\ nativeTasks[cpool[c]] = {}
    /\ cpool' = [cpool EXCEPT ![c] = None]
    /\ Goto(c, "idle")
    /\ UNCHANGED <<poolVars, workVars, ctask, cprio, joining>>

-----------------------------------------------------------------------------
(* waitForDone(msecs)                                                      *)

WaitForDone(c) ==
    /\ cpc[c] = "idle"
    /\ Goto(c, "wd_check")
    /\ UNCHANGED <<poolVars, workVars, ctask, cprio, cpool, joining>>

WaitCheck(c) ==
    /\ cpc[c] = "wd_check" /\ mutex = None
    /\ Goto(c, IF workers # {} THEN "wd_poll" ELSE "wd_pool")
    /\ UNCHANGED <<poolVars, workVars, ctask, cprio, cpool, joining>>

(* Queues empty and m_activeCount = 0: return true.                        *)
WaitDone(c) ==
    /\ cpc[c] = "wd_poll" /\ mutex = None
    /\ QueuesEmpty /\ active = 0
    /\ Goto(c, "idle")
    /\ UNCHANGED <<poolVars, workVars, ctask, cprio, cpool, joining>>

(* The deadline passed: return false.                                      *)
WaitTimeout(c) ==
    /\ cpc[c] \in {"wd_poll", "wd_drain"}
    /\ cpool' = [cpool EXCEPT ![c] = None]
    /\ Goto(c, "idle")
    /\ UNCHANGED <<poolVars, workVars, ctask, cprio, joining>>

WaitPool(c) ==
    /\ cpc[c] = "wd_pool"
    /\ IF initialized
       THEN Goto(c, "wd_drain") /\ cpool' = [cpool EXCEPT ![c] = nativePool]
       ELSE Goto(c, "idle") /\ UNCHANGED cpool
    /\ UNCHANGED <<poolVars, workVars, ctask, cprio, joining>>

WaitDrain(c) ==
    /\ cpc[c] = "wd_drain"
    /\ cpool[c] # None => nativeTasks[cpool[c]] = {}
    /\ cpool' = [cpool EXCEPT ![c] = None]
    /\ Goto(c, "idle")
    /\ UNCHANGED <<poolVars, workVars, ctask, cprio, joining>>

-----------------------------------------------------------------------------
(* workerLoop() and dequeueTask()                                          *)

WorkerGoto(w, pc) == wpc' = [wpc EXCEPT ![w] = pc]

LoopCheck(w) ==
    /\ wpc[w] = "loop"
    /\ WorkerGoto(w, IF running THEN "dequeue" ELSE "exited")
    /\ UNCHANGED <<poolVars, running, workers, queue, active, mutex, wtask, callVars>>

(* Lock, predicate true because the pool stops: dequeueTask returns null.  *)
DequeueStopped(w) ==
    /\ wpc[w] = "dequeue" /\ mutex = None
    /\ ~running
    /\ WorkerGoto(w, "loop")
    /\ UNCHANGED <<poolVars, running, workers, queue, active, mutex, wtask, callVars>>

(* The queue dequeueTask() serves: High, then Normal, then Low.            *)
Served == CASE queue["High"] # <<>> -> "High"
            [] queue["High"] = <<>> /\ queue["Normal"] # <<>> -> "Normal"
            [] OTHER -> "Low"

(* Fault: front() without pop_front().                                     *)
DequeueNoPop(w) ==
    /\ wpc[w] = "dequeue" /\ mutex = None
    /\ running /\ ~QueuesEmpty
    /\ wtask' = [wtask EXCEPT ![w] = Head(queue[Served])]
    /\ WorkerGoto(w, "taken")
    /\ UNCHANGED <<poolVars, running, workers, queue, active, mutex, callVars>>

DequeueTask(w) ==
    /\ wpc[w] = "dequeue" /\ mutex = None
    /\ running /\ ~QueuesEmpty
    /\ wtask' = [wtask EXCEPT ![w] = Head(queue[Served])]
    /\ queue' = [queue EXCEPT ![Served] = Tail(@)]
    /\ WorkerGoto(w, "taken")
    /\ UNCHANGED <<poolVars, running, workers, active, mutex, callVars>>

(* Lock, predicate false: the worker is about to block and keeps the lock. *)
DequeueEmpty(w) ==
    /\ wpc[w] = "dequeue" /\ mutex = None
    /\ running /\ QueuesEmpty
    /\ mutex' = w
    /\ WorkerGoto(w, "blocking")
    /\ UNCHANGED <<poolVars, running, workers, queue, active, wtask, callVars>>

(* m_queueCv.wait: release the mutex and block, atomically.                *)
Block(w) ==
    /\ wpc[w] = "blocking"
    /\ mutex' = None
    /\ WorkerGoto(w, "wait")
    /\ UNCHANGED <<poolVars, running, workers, queue, active, wtask, callVars>>

(* A condition variable may wake up unasked.                               *)
SpuriousWakeup(w) ==
    /\ wpc[w] = "wait"
    /\ WorkerGoto(w, "dequeue")
    /\ UNCHANGED <<poolVars, running, workers, queue, active, mutex, wtask, callVars>>

(* Fault: the task runs without fetch_add().                               *)
RunUncounted(w) ==
    /\ wpc[w] = "taken"
    /\ WorkerGoto(w, "active")
    /\ UNCHANGED <<poolVars, running, workers, queue, active, mutex, wtask, callVars>>

RunTask(w) ==
    /\ wpc[w] = "taken"
    /\ active' = active + 1
    /\ WorkerGoto(w, "active")
    /\ UNCHANGED <<poolVars, running, workers, queue, mutex, wtask, callVars>>

(* Fault: the task returns without fetch_sub().                            *)
FinishUncounted(w) ==
    /\ wpc[w] = "active"
    /\ wtask' = [wtask EXCEPT ![w] = None]
    /\ WorkerGoto(w, "loop")
    /\ UNCHANGED <<poolVars, running, workers, queue, active, mutex, callVars>>

FinishTask(w) ==
    /\ wpc[w] = "active"
    /\ active' = active - 1
    /\ wtask' = [wtask EXCEPT ![w] = None]
    /\ WorkerGoto(w, "loop")
    /\ UNCHANGED <<poolVars, running, workers, queue, mutex, callVars>>

(* QThreadPool runs a task on a thread of its own (external).              *)
NativeFinish(p, t) ==
    /\ t \in nativeTasks[p]
    /\ nativeTasks' = [nativeTasks EXCEPT ![p] = @ \ {t}]
    /\ UNCHANGED <<initialized, nativePool, workVars, callVars>>

-----------------------------------------------------------------------------
WorkerStep(w) ==
    \/ LoopCheck(w) \/ DequeueStopped(w) \/ DequeueTask(w) \/ DequeueEmpty(w)
    \/ Block(w) \/ RunTask(w) \/ FinishTask(w)

(* The rest of a call a client has begun.                                  *)
CallStep(c) ==
    \/ StartCheck(c) \/ StartNative(c) \/ StartPush(c) \/ StartNotify(c)
    \/ InitRun(c) \/ InitSpawn(c)
    \/ ShutdownNotify(c) \/ ShutdownTake(c) \/ ShutdownJoin(c)
    \/ ShutdownPool(c) \/ ShutdownDrain(c)
    \/ WaitCheck(c) \/ WaitDone(c) \/ WaitPool(c) \/ WaitDrain(c)

Call(c) ==
    \/ \E t \in Tasks, p \in Priority : Start(c, t, p)
    \/ Configure(c) \/ InitPool(c) \/ Shutdown(c) \/ WaitForDone(c)

Next ==
    \/ \E c \in Clients : Call(c) \/ CallStep(c) \/ WaitTimeout(c)
    \/ \E w \in Workers : WorkerStep(w) \/ SpuriousWakeup(w)
    \/ \E p \in Pools, t \in Tasks : NativeFinish(p, t)

Spec == Init /\ [][Next]_vars

(* Every thread that can run is scheduled: a call that was begun goes on,  *)
(* a worker goes on, and tasks return.  Nobody has to begin a call, and a  *)
(* wakeup of a condition variable comes only from a notify.                *)
Fairness ==
    /\ \A c \in Clients : WF_vars(CallStep(c))
    /\ \A w \in Workers : WF_vars(WorkerStep(w))
    /\ \A p \in Pools, t \in Tasks : WF_vars(NativeFinish(p, t))

FairSpec == Spec /\ Fairness

-----------------------------------------------------------------------------
(* Safety                                                                  *)

QueuedAt(t, p) == \E i \in 1..Len(queue[p]) : queue[p][i] = t

QueuePlacesDistinct ==
    \A p, q \in Priority :
        \A i \in 1..Len(queue[p]), j \in 1..Len(queue[q]) :
            queue[p][i] = queue[q][j] => p = q /\ i = j

HoldersDistinct ==
    /\ \A c, d \in Clients : ctask[c] = ctask[d] /\ ctask[c] # None => c = d
    /\ \A w, x \in Workers : wtask[w] = wtask[x] /\ wtask[w] # None => w = x
    /\ \A p, q \in Pools, t \in Tasks :
          t \in nativeTasks[p] /\ t \in nativeTasks[q] => p = q

KindsDisjoint ==
    \A t \in Tasks :
        /\ InHand(t) => ~Queued(t) /\ ~InNative(t) /\ ~WithWorker(t)
        /\ Queued(t) => ~InNative(t) /\ ~WithWorker(t)
        /\ InNative(t) => ~WithWorker(t)

(* A submitted closure has exactly one owner at any time - the submitting  *)
(* thread, one position of one queue, one QThreadPool or one worker - so   *)
(* start(), dequeueTask() and workerLoop() never run it twice, whatever    *)
(* init() and shutdown() do between the two critical sections of start().  *)
TaskHasOneOwner == QueuePlacesDistinct /\ HoldersDistinct /\ KindsDisjoint

Live == {w \in Workers : wpc[w] \notin {"none", "exited"}}

(* While the pool runs and a task is queued, the workers are not all       *)
(* asleep unless a notify_one() of start() is still to come: the push is   *)
(* made under m_queueMutex, which a worker keeps from its look at the      *)
(* queues until it sleeps.                                                 *)
NoLostWakeup ==
    running /\ ~QueuesEmpty /\ Live # {} =>
        \/ \E w \in Live : wpc[w] # "wait"
        \/ \E c \in Clients : cpc[c] = "start_notify"

(* m_activeCount, kept by unsynchronised fetch_add/fetch_sub, is the       *)
(* number of workers inside a task: it neither drifts nor goes below zero  *)
(* over any sequence of init() and shutdown().                             *)
ActiveCountExact == active = Cardinality({w \in Workers : wpc[w] = "active"})

(* When shutdown() has joined, no worker is left anywhere, nobody holds    *)
(* m_queueMutex and no task is being executed, until the next init().      *)
NoWorkerOutlivesShutdown ==
    ~running /\ cpc[Owner] \notin {"sd_notify", "sd_take", "sd_join"} =>
        /\ workers = {} /\ mutex = None
        /\ \A w \in Workers : wpc[w] = "none" /\ wtask[w] = None

-----------------------------------------------------------------------------
(* What makes the safety properties inductive                              *)

(* start() carries its closure until one of the two branches takes it, and *)
(* a worker has a task exactly between the dequeue and the end of the run. *)
TaskCarried ==
    /\ \A c \in Clients :
          cpc[c] \in {"start_check", "start_native", "start_push"} => ctask[c] # None
    /\ \A w \in Workers : wtask[w] # None <=> wpc[w] \in {"taken", "active"}

(* A worker keeps m_queueMutex only while it is about to block, and then   *)
(* there is nothing in the queues it has just looked at.                   *)
MutexInv ==
    /\ \A w \in Workers : wpc[w] = "blocking" <=> mutex = w
    /\ mutex # None => QueuesEmpty

OwnerPc == {"init_run", "init_spawn", "sd_notify", "sd_take", "sd_join", "sd_pool", "sd_drain"}

(* The phases of init() and shutdown(), run by one thread: which threads   *)
(* exist, and what m_running and m_initialized say, in each of them.       *)
LifecycleInv ==
    /\ \A c \in Clients : cpc[c] \in OwnerPc => c = Owner
    /\ initialized <=> nativePool # None
    /\ running => initialized
    /\ cpc[Owner] \in {"init_run", "init_spawn"} => initialized
    /\ cpc[Owner] = "init_spawn" => running
    /\ cpc[Owner] \in OwnerPc \ {"init_spawn"} => ~running
    /\ \A w \in Workers : wpc[w] # "none" <=> w \in workers \cup joining
    /\ \A w \in Workers : wpc[w] = "exited" => ~running
    /\ joining # {} => cpc[Owner] = "sd_join"
    /\ cpc[Owner] \in {"sd_join", "init_spawn"} => workers = {}
    /\ ~running /\ cpc[Owner] \notin {"sd_notify", "sd_take", "sd_join"} => workers = {}

-----------------------------------------------------------------------------
(* Liveness, and what the comments of thread_pool.h and .cpp promise       *)

(* The bookkeeping of the pool is right: the members have their types,     *)
(* m_activeCount is the number of tasks being run and the join of          *)
(* shutdown() leaves no worker behind.                                     *)
WorkersAccounted == TypeOK /\ ActiveCountExact /\ NoWorkerOutlivesShutdown

(* A task on the High queue of a running pool reaches a worker: the wakeup *)
(* of start() is not lost and dequeueTask() serves High before the rest.   *)
HighReachesWorker ==
    \A t \in Tasks : QueuedAt(t, "High") ~> (WithWorker(t) \/ ~running)

(* "First notify the workers to exit, then join outside the lock"          *)
(* (thread_pool.cpp, lines 50-52): shutdown() does not wait forever.       *)
ShutdownReturns == cpc[Owner] = "sd_notify" ~> cpc[Owner] = "idle"
=============================================================================
