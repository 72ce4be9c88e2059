------------------------------ MODULE Futures -------------------------------
(***************************************************************************)
(* Futures with their continuations and callbacks, and the tasks and       *)
(* dispatchers of soul/async.                                              *)
(***************************************************************************)
EXTENDS Integers, Sequences, FiniteSets

(***************************************************************************)
(* sc::Future: a result produced on a pool thread, callbacks that any      *)
(* thread registers and an event loop runs, and a chain of then()          *)
(* continuations, each of which occupies a thread of the then pool while   *)
(* it waits for the one before it.  QFuture, its watcher and the pools are *)
(* external: a watcher set on a future posts one finished event, to a      *)
(* thread that runs a loop, and a pool starts its tasks in order.          *)
(***************************************************************************)
CONSTANTS
    MaxThen,            \* length of the then() chain after future 0
    ThenThreads,        \* maxThreadCount of the then pool
    Successes,          \* onSuccess() callbacks
    Failures,           \* onFailure() callbacks
    Raisers             \* callbacks that throw

VARIABLES
    outcome,            \* per future: "none", "running", "ok", "failed", "cancelled"
    cancelRequested,    \* cancel() was called on future 0
    thenQueue, thenBusy,\* the then pool: waiting continuations, occupied threads
    registered,         \* m_data: callbacks, in order of registration
    registering,        \* the callback between the test and the push, or "none"
    watcher,            \* m_watcher: "none", "set", "spent"
    calls,              \* how often each callback ran
    released,           \* the Future object is gone, its watcher with it
    late                \* history: callbacks pushed after the watcher had fired

futureVars ==
    <<outcome, cancelRequested, thenQueue, thenBusy, registered, registering, watcher, calls, released, late>>

Callbacks == Successes \cup Failures
Chain == 0..MaxThen
Settled(i) == outcome[i] \in {"ok", "failed", "cancelled"}

FuturesInit ==
    /\ outcome = [i \in Chain |-> "none"]
    /\ cancelRequested = FALSE
    /\ thenQueue = << >> /\ thenBusy = {}
    /\ registered = << >> /\ registering = "none" /\ watcher = "none"
    /\ calls = [c \in Callbacks |-> 0] /\ released = FALSE /\ late = {}

\* async() hands the function to the global pool.
Async ==
    /\ outcome[0] = "none" /\ outcome' = [outcome EXCEPT ![0] = "running"]
    /\ UNCHANGED <<cancelRequested, thenQueue, thenBusy, registered, registering, watcher, calls, released, late>>

\* The function returned or threw.
Produce(o) ==
    /\ outcome[0] = "running"
    /\ outcome' = [outcome EXCEPT ![0] = IF cancelRequested THEN "cancelled" ELSE o]
    /\ UNCHANGED <<cancelRequested, thenQueue, thenBusy, registered, registering, watcher, calls, released, late>>

Cancel ==
    /\ ~ released /\ ~ cancelRequested /\ outcome[0] = "running" /\ cancelRequested' = TRUE
    /\ UNCHANGED <<outcome, thenQueue, thenBusy, registered, registering, watcher, calls, released, late>>

\* What a continuation makes of its predecessor: it may throw itself.  The
\* result of a cancelled future is undefined, and may be a value.
Continued(i) == IF outcome[i - 1] = "failed" THEN {"failed"} ELSE {"ok", "failed"}

\* then(): at once after a finished future, else through the pool.
Then(i) ==
    /\ ~ released /\ i \in 1..MaxThen
    /\ outcome[i] = "none" /\ outcome[i - 1] # "none"
    /\ \/ /\ Settled(i - 1)
          /\ \E o \in Continued(i) : outcome' = [outcome EXCEPT ![i] = o]
          /\ UNCHANGED thenQueue
       \/ /\ ~ Settled(i - 1)
          /\ outcome' = [outcome EXCEPT ![i] = "running"]
          /\ thenQueue' = Append(thenQueue, i)
    /\ UNCHANGED <<cancelRequested, thenBusy, registered, registering, watcher, calls, released, late>>

\* The mistake of a pool that starts the newest task first.
ThenStartNewest ==
    /\ thenQueue # << >> /\ Cardinality(thenBusy) < ThenThreads
    /\ thenBusy' = thenBusy \cup {thenQueue[Len(thenQueue)]}
    /\ thenQueue' = SubSeq(thenQueue, 1, Len(thenQueue) - 1)
    /\ UNCHANGED <<outcome, cancelRequested, registered, registering, watcher, calls, released, late>>

ThenStart ==
    /\ thenQueue # << >> /\ Cardinality(thenBusy) < ThenThreads
    /\ thenBusy' = thenBusy \cup {Head(thenQueue)} /\ thenQueue' = Tail(thenQueue)
    /\ UNCHANGED <<outcome, cancelRequested, registered, registering, watcher, calls, released, late>>

\* originalFuture.result() returns and the continuation runs.
ThenRun(i) ==
    /\ i \in thenBusy /\ Settled(i - 1)
    /\ \E o \in Continued(i) : outcome' = [outcome EXCEPT ![i] = o]
    /\ thenBusy' = thenBusy \ {i}
    /\ UNCHANGED <<cancelRequested, thenQueue, registered, registering, watcher, calls, released, late>>

\* The callbacks of a list that a finished future calls: those of its kind,
\* in order, and no success callback after one that throws.  Asking a
\* cancelled future for a result is undefined.
Called(list) ==
    LET kind == IF outcome[0] = "ok" THEN Successes ELSE Failures
        raised(k) == \E j \in 1..(k - 1) : list[j] \in kind \cap Raisers
    IN  {list[k] : k \in {j \in DOMAIN list : list[j] \in kind /\ ~ raised(j)}}

CallsAfter(list, new) ==
    \/ /\ outcome[0] # "cancelled"
       /\ new = [c \in Callbacks |-> IF c \in Called(list) THEN calls[c] + 1 ELSE calls[c]]
    \/ /\ outcome[0] = "cancelled"
       /\ \E S \in SUBSET {list[k] : k \in DOMAIN list} :
              new = [c \in Callbacks |-> IF c \in S THEN calls[c] + 1 ELSE calls[c]]

Fresh(c) == calls[c] = 0 /\ registering # c /\ \A k \in DOMAIN registered : registered[k] # c

\* onSuccess(), onFailure(): called at once on a finished future.
OnFinished(c) ==
    /\ ~ released /\ Fresh(c) /\ Settled(0)
    /\ CallsAfter(<<c>>, calls')
    /\ UNCHANGED <<outcome, cancelRequested, thenQueue, thenBusy, registered, registering, watcher, released, late>>

\* Otherwise it is kept; the future may finish, and its watcher fire in
\* another thread, between the test and the push.
OnUnfinished(c) ==
    /\ ~ released /\ registering = "none" /\ Fresh(c) /\ outcome[0] = "running"
    /\ registering' = c
    /\ UNCHANGED <<outcome, cancelRequested, thenQueue, thenBusy, registered, watcher, calls, released, late>>

EnsureWatcher ==
    /\ registering # "none"
    /\ registered' = Append(registered, registering)
    /\ watcher' = IF watcher = "none" THEN "set" ELSE watcher
    /\ registering' = "none"
    /\ late' = IF watcher = "spent" THEN late \cup {registering} ELSE late
    /\ UNCHANGED <<outcome, cancelRequested, thenQueue, thenBusy, calls, released>>

\* executeCallbacksStatic() empties the list before it calls.
ExecuteCallbacks ==
    /\ CallsAfter(registered, calls') /\ registered' = << >>
    /\ UNCHANGED <<outcome, cancelRequested, thenQueue, thenBusy, registering, released, late>>

WatcherFinished ==
    /\ ~ released /\ watcher = "set" /\ Settled(0)
    /\ watcher' = "spent" /\ ExecuteCallbacks

WaitForFinished ==
    /\ ~ released /\ Settled(0) /\ registered # << >>
    /\ UNCHANGED watcher /\ ExecuteCallbacks

DropFuture ==
    /\ ~ released /\ outcome[0] # "none" /\ registering = "none" /\ released' = TRUE
    /\ UNCHANGED <<outcome, cancelRequested, thenQueue, thenBusy, registered, registering, watcher, calls, late>>

FuturesNext ==
    \/ \E o \in {"ok", "failed"} : Produce(o)
    \/ Async \/ Cancel \/ ThenStart \/ EnsureWatcher \/ WatcherFinished \/ WaitForFinished \/ DropFuture
    \/ \E i \in 1..MaxThen : Then(i) \/ ThenRun(i)
    \/ \E c \in Callbacks : OnFinished(c) \/ OnUnfinished(c)

\* Pool threads run what they are given, the owner returns to its loop.
FuturesFairness ==
    /\ WF_futureVars(\E o \in {"ok", "failed"} : Produce(o))
    /\ WF_futureVars(ThenStart)
    /\ \A i \in 1..MaxThen : WF_futureVars(ThenRun(i))
    /\ WF_futureVars(EnsureWatcher) /\ WF_futureVars(WatcherFinished)

-----------------------------------------------------------------------------
Listed(c) == registering = c \/ \E k \in DOMAIN registered : registered[k] = c

(***************************************************************************)
(* No callback runs twice, although both the watcher and waitForFinished() *)
(* execute them; none stays registered with a future that its owner keeps, *)
(* but for one: a thread that found the future unfinished and pushed its   *)
(* callback only after the watcher had fired in another (future.h:112-126) *)
(* is told by nobody, unless somebody calls waitForFinished() or result(). *)
(* And every then() finishes, even when the pool has fewer threads than    *)
(* the chain has links, as a continuation starts after the one it waits    *)
(* for.                                                                    *)
(***************************************************************************)
FuturesSettle ==
    <>[](/\ \A c \in Callbacks : calls[c] <= 1 /\ (Listed(c) => released \/ c \in late)
         /\ \A i \in Chain : outcome[i] # "running")

-----------------------------------------------------------------------------
(***************************************************************************)
(* TaskRunner, CancelableTask and the helpers that post results to the     *)
(* main thread, over QThreadPool (external: a queue and worker threads).   *)
(* A job is one of the runner's functions, which may throw, a run() of the *)
(* cancelable task, which the pool may hold twice, or an AsyncRunner task  *)
(* with its result callback.                                               *)
(***************************************************************************)
CONSTANTS MaxJobs, MaxWorkers, MaxStarts

VARIABLES
    poolQueue,          \* jobs waiting in the pool: "runner", "cancelable", "posting"
    executing,          \* how many of each are on worker threads
    activeTasks,        \* TaskRunner::m_activeTasks
    cancelFlag,         \* CancelableTask::m_cancelled
    runFlag,            \* CancelableTask::m_running
    starts, ended,      \* start() calls and ends of run()
    mainQueue,          \* results posted to the main thread
    posted, told        \* AsyncRunner tasks begun; callbacks run
taskVars == <<poolQueue, executing, activeTasks, cancelFlag, runFlag, starts, ended, mainQueue, posted, told>>

Kinds == {"runner", "cancelable", "posting"}
BusyWorkers == executing["runner"] + executing["cancelable"] + executing["posting"]

TasksInit ==
    /\ poolQueue = << >> /\ executing = [job \in Kinds |-> 0]
    /\ activeTasks = 0 /\ cancelFlag = FALSE /\ runFlag = FALSE
    /\ starts = 0 /\ ended = 0
    /\ mainQueue = << >> /\ posted = 0 /\ told = 0

Enqueue(job) ==
    /\ Len(poolQueue) + BusyWorkers < MaxJobs
    /\ poolQueue' = Append(poolQueue, job)

RunnerRun ==
    /\ Enqueue("runner") /\ activeTasks' = activeTasks + 1
    /\ UNCHANGED <<executing, cancelFlag, runFlag, starts, ended, mainQueue, posted, told>>

\* A second start() before run() was reached revives a cancelled task.
StartCancelable ==
    /\ starts < MaxStarts /\ Enqueue("cancelable")
    /\ cancelFlag' = FALSE /\ runFlag' = TRUE /\ starts' = starts + 1
    /\ UNCHANGED <<executing, activeTasks, ended, mainQueue, posted, told>>

CancelTask ==
    /\ ~ cancelFlag /\ cancelFlag' = TRUE
    /\ UNCHANGED <<poolQueue, executing, activeTasks, runFlag, starts, ended, mainQueue, posted, told>>

RunAsync ==
    /\ posted < MaxStarts /\ Enqueue("posting") /\ posted' = posted + 1
    /\ UNCHANGED <<executing, activeTasks, cancelFlag, runFlag, starts, ended, mainQueue, told>>

Finish(job) == executing[job] > 0 /\ executing' = [executing EXCEPT ![job] = @ - 1]

\* A worker takes the first job; a cancelled run() returns at once.
TakeJob ==
    /\ poolQueue # << >> /\ BusyWorkers < MaxWorkers
    /\ poolQueue' = Tail(poolQueue)
    /\ IF Head(poolQueue) = "cancelable" /\ cancelFlag
       THEN runFlag' = FALSE /\ ended' = ended + 1 /\ UNCHANGED executing
       ELSE executing' = [executing EXCEPT ![Head(poolQueue)] = @ + 1] /\ UNCHANGED <<runFlag, ended>>
    /\ UNCHANGED <<activeTasks, cancelFlag, starts, mainQueue, posted, told>>

\* The mistake of counting a task down on the way without exception only.
RunnerEndsUnthrown(throws) ==
    /\ Finish("runner")
    /\ activeTasks' = IF throws THEN activeTasks ELSE activeTasks - 1
    /\ UNCHANGED <<poolQueue, cancelFlag, runFlag, starts, ended, mainQueue, posted, told>>

\* The function returned or threw: its future is finished and the task
\* counted down either way.
RunnerEnds(throws) ==
    /\ Finish("runner")
    /\ activeTasks' = activeTasks - 1
    /\ UNCHANGED <<poolQueue, cancelFlag, runFlag, starts, ended, mainQueue, posted, told>>

CancelableEnds ==
    /\ Finish("cancelable")
    /\ runFlag' = FALSE /\ ended' = ended + 1
    /\ UNCHANGED <<poolQueue, activeTasks, cancelFlag, starts, mainQueue, posted, told>>

\* task() then callback(true), or callback(false) after an exception.
PostResult(ok) ==
    /\ Finish("posting")
    /\ mainQueue' = Append(mainQueue, ok)
    /\ UNCHANGED <<poolQueue, activeTasks, cancelFlag, runFlag, starts, ended, posted, told>>

MainRuns ==
    /\ mainQueue # << >> /\ mainQueue' = Tail(mainQueue) /\ told' = told + 1
    /\ UNCHANGED <<poolQueue, executing, activeTasks, cancelFlag, runFlag, starts, ended, posted>>

TasksNext ==
    \/ RunnerRun \/ StartCancelable \/ CancelTask \/ RunAsync \/ TakeJob
    \/ \E t \in BOOLEAN : RunnerEnds(t) \/ PostResult(t)
    \/ CancelableEnds \/ MainRuns

-----------------------------------------------------------------------------
InPool(job) ==
    Cardinality({i \in DOMAIN poolQueue : poolQueue[i] = job}) + executing[job]

(***************************************************************************)
(* activeTaskCount() is what the pool holds of the runner, whichever way   *)
(* the functions end, so that it is 0 once waitForAll() succeeded; every   *)
(* run() started has ended or is in the pool, with isRunning() true for    *)
(* the last; and each AsyncRunner task tells its callback once.            *)
(***************************************************************************)
TasksAccounted ==
    /\ activeTasks = InPool("runner")
    /\ starts = ended + InPool("cancelable")
    /\ runFlag => InPool("cancelable") > 0
    /\ (starts = 1 /\ InPool("cancelable") = 1) => runFlag
    /\ posted = told + Len(mainQueue) + InPool("posting")
=============================================================================
