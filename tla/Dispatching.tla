---------------------------- MODULE Dispatching -----------------------------
(***************************************************************************)
(* Who is called when: the event buses, the scheduler with its tasks and   *)
(* timers, and the search for the next time of a cron expression.          *)
(***************************************************************************)
EXTENDS Integers, Sequences, FiniteSets, SequencesExt, Lists

(***************************************************************************)
(* DefaultEventBus and TypedEventBus: handlers per key, Subscription       *)
(* handles, and publishers that call a copy of the list after the unlock.  *)
(* A key is a topic, or a payload type and a topic on the typed bus.  The  *)
(* two differ when a handler throws: the plain bus lets the exception end  *)
(* the loop, the typed bus logs it; and only the typed bus can hand a      *)
(* single handler to the thread pool.                                      *)
(*                                                                         *)
(* unsubscribe() has two steps, the exchange of m_valid and the erasure    *)
(* under the lock, so that a publisher can copy the list in between.       *)
(***************************************************************************)
CONSTANTS
    Handlers,           \* subscriptions: one handler pointer each
    Throwers,           \* handlers that throw
    Pooled,             \* handlers of DispatchPolicy::Async (typed bus only)
    Keys, Publishers,
    MaxPooled           \* bound on the handlers waiting in the thread pool

VARIABLES
    busKind,            \* "plain" or "typed"
    handlersOf,         \* m_handlers: key |-> handler pointers in order
    keyOf, handle,      \* the key and the Subscription of each handler
    standing,           \* history: handlers subscribed and not being removed
    pub,                \* publishers: what is left of their copy
    poolJobs            \* single handlers dispatched to the thread pool

busVars == <<busKind, handlersOf, keyOf, handle, standing, pub, poolJobs>>

Quiet == [state |-> "idle", left |-> << >>, must |-> {}, got |-> << >>, pool |-> FALSE]

BusInit ==
    /\ busKind \in {"plain", "typed"}
    /\ handlersOf = [k \in Keys |-> << >>]
    /\ keyOf \in [Handlers -> {CHOOSE k \in Keys : TRUE}]
    /\ handle = [h \in Handlers |-> "none"]
    /\ standing = {}
    /\ pub = [p \in Publishers |-> Quiet]
    /\ poolJobs = << >>

Subscribe(h, k) ==
    /\ handle[h] = "none"
    /\ handlersOf' = [handlersOf EXCEPT ![k] = Append(@, h)]
    /\ keyOf' = [keyOf EXCEPT ![h] = k]
    /\ handle' = [handle EXCEPT ![h] = "valid"]
    /\ standing' = standing \cup {h}
    /\ UNCHANGED <<busKind, pub, poolJobs>>

\* Nobody still under way owes the handlers in gone a call.
Released(gone) == [p \in Publishers |-> [pub[p] EXCEPT !.must = @ \ gone]]

\* m_valid.exchange(false): of two calls, or of a call and the destructor,
\* only one goes on to the unsubscribe function.
Unsubscribe(h) ==
    /\ handle[h] = "valid"
    /\ handle' = [handle EXCEPT ![h] = "leaving"]
    /\ standing' = standing \ {h}
    /\ pub' = Released({h})
    /\ UNCHANGED <<busKind, handlersOf, keyOf, poolJobs>>

IndexFirst(list, h) == CHOOSE i \in DOMAIN list : list[i] = h

\* The mistake of erasing from the handler found to the end of the list.
TailErased(list, h) == IF h \in ToSet(list) THEN SubSeq(list, 1, IndexFirst(list, h) - 1) ELSE list

Without(list, h) == Only(list, Range(list) \ {h})

UnsubscribeFn(h) ==
    /\ handle[h] = "leaving"
    /\ handlersOf' = [handlersOf EXCEPT ![keyOf[h]] = Without(@, h)]
    /\ handle' = [handle EXCEPT ![h] = "gone"]
    /\ UNCHANGED <<busKind, keyOf, standing, pub, poolJobs>>

\* clear() exists on the typed bus only; the handles stay valid.
ClearBus ==
    /\ busKind = "typed"
    /\ handlersOf' = [k \in Keys |-> << >>]
    /\ standing' = {}
    /\ pub' = Released(Handlers)
    /\ UNCHANGED <<busKind, keyOf, handle, poolJobs>>

\* The copy under the lock.
Publish(p, k, pooled) ==
    /\ pub[p].state # "calling" /\ Len(poolJobs) < MaxPooled
    /\ pooled => busKind = "plain"
    /\ pub' = [pub EXCEPT ![p] =
                 [state |-> "calling", left |-> handlersOf[k],
                  must |-> {h \in standing : keyOf[h] = k}, got |-> << >>, pool |-> pooled]]
    /\ UNCHANGED <<busKind, handlersOf, keyOf, handle, standing, poolJobs>>

\* One handler of the copy: called, or handed to the pool.
CallHandler(p) ==
    LET h == Head(pub[p].left) IN
    /\ pub[p].state = "calling" /\ pub[p].left # << >>
    /\ pub' = [pub EXCEPT ![p] =
                 [state |-> IF busKind = "plain" /\ h \in Throwers THEN "thrown" ELSE "calling",
                  left |-> Tail(@.left), must |-> @.must, got |-> Append(@.got, h), pool |-> @.pool]]
    /\ poolJobs' = IF busKind = "typed" /\ h \in Pooled THEN Append(poolJobs, h) ELSE poolJobs
    /\ UNCHANGED <<busKind, handlersOf, keyOf, handle, standing>>

PublishReturns(p) ==
    /\ pub[p].state = "calling" /\ pub[p].left = << >>
    /\ pub' = [pub EXCEPT ![p].state = "done"]
    /\ UNCHANGED <<busKind, handlersOf, keyOf, handle, standing, poolJobs>>

\* A pool thread runs a dispatched handler; what it throws is logged.
PoolRuns ==
    /\ poolJobs # << >>
    /\ poolJobs' = Tail(poolJobs)
    /\ UNCHANGED <<busKind, handlersOf, keyOf, handle, standing, pub>>

BusNext ==
    \/ \E h \in Handlers : \/ \E k \in Keys : Subscribe(h, k)
                           \/ Unsubscribe(h)
                           \/ UnsubscribeFn(h)
    \/ ClearBus
    \/ \E p \in Publishers : \/ \E k \in Keys, b \in BOOLEAN : Publish(p, k, b)
                             \/ CallHandler(p)
                             \/ PublishReturns(p)
    \/ PoolRuns

-----------------------------------------------------------------------------
(***************************************************************************)
(* A publish() that runs to its end has called every handler that was      *)
(* subscribed to its key from before it began until it ended, however many *)
(* others were removed under it.  It never calls a handler twice, or one   *)
(* of another key, and until the end those it owes a call are among the    *)
(* ones left.  It may stop there: on the plain bus a handler that throws   *)
(* ends the loop, and the ones behind it get nothing (event_bus.cpp:77).   *)
(***************************************************************************)
StandingServed ==
    \A p \in Publishers :
        /\ pub[p].must \subseteq ToSet(pub[p].got) \cup ToSet(pub[p].left)
        /\ IsInjective(pub[p].got)
        /\ \A h, g \in ToSet(pub[p].got) : keyOf[h] = keyOf[g]
        /\ pub[p].state = "done" => pub[p].must \subseteq ToSet(pub[p].got)

-----------------------------------------------------------------------------
(***************************************************************************)
(* Scheduler and ScheduledTask.  A task is run by its single-shot timer,   *)
(* which onTimerTick() arms again after the callback, or by triggerNow()   *)
(* from any thread.  The callback runs with no lock held, so that start(), *)
(* stop() and the scheduler's operations interleave with it, also from     *)
(* inside the callback.                                                    *)
(*                                                                         *)
(* start() and stop() reach the QTimer from the task's own thread only: Qt *)
(* refuses to start or stop a timer from another one, and m_running is     *)
(* then set without the timer following it (ForeignStart).                 *)
(***************************************************************************)
CONSTANTS
    Scheduled, TaskNames, NameOf,
    BadCron,            \* tasks whose cron expression matches nothing or does not parse
    Unparsable,         \* those of BadCron whose parsing throws
    Distant,            \* tasks with cron times 2^31 ms or more apart
    MaxRuns

ASSUME SchedulingAssumption ==
    /\ NameOf \in [Scheduled -> TaskNames]
    /\ Unparsable \subseteq BadCron /\ BadCron \subseteq Scheduled
    /\ Distant \subseteq Scheduled

VARIABLES
    tasks,              \* m_tasks of the scheduler
    taskRunning, armed, \* m_running and the QTimer of each task
    runner,             \* m_executing: "none", or who is in the callback
    runs,               \* m_executionCount
    dropped             \* history: a callback threw out of onTimerTick(), another
                        \* thread moved m_running past the timer, or the time
                        \* to wait did not fit in an int

schedVars == <<tasks, taskRunning, armed, runner, runs, dropped>>

SchedInit ==
    /\ tasks = << >>
    /\ taskRunning = [t \in Scheduled |-> FALSE] /\ armed = [t \in Scheduled |-> FALSE]
    /\ runner = [t \in Scheduled |-> "none"] /\ runs = [t \in Scheduled |-> 0]
    /\ dropped = {}

\* scheduleNext() of the tasks in S, of which those in on get a timer.
\* Without a next cron time it leaves the timer alone.  The milliseconds to
\* a distant one are narrowed from qint64 to int: QTimer stops and refuses a
\* negative interval, and takes any other, which is too short.
ScheduleNext(S) ==
    \E on \in SUBSET (S \ BadCron) :
        /\ S \ (BadCron \cup Distant) \subseteq on
        /\ armed' = [t \in Scheduled |-> IF t \in S \ BadCron THEN t \in on ELSE armed[t]]
        /\ dropped' = (dropped \ S) \cup (S \ (BadCron \cup on))

\* start() of every task in S: nothing for one that runs, else m_running and
\* scheduleNext().
Started(S) ==
    LET new == {t \in S : ~ taskRunning[t]}
    IN  taskRunning' = [t \in Scheduled |-> taskRunning[t] \/ t \in new] /\ ScheduleNext(new)

Stopped(S) ==
    /\ taskRunning' = [t \in Scheduled |-> taskRunning[t] /\ t \notin S]
    /\ armed' = [t \in Scheduled |-> armed[t] /\ t \notin S]
    /\ dropped' = dropped \ S

TaskStart(t) == Started({t}) /\ UNCHANGED <<tasks, runner, runs>>

TaskStop(t) == Stopped({t}) /\ UNCHANGED <<tasks, runner, runs>>

\* The same calls from a thread that does not own the timer.
ForeignStart(t) ==
    /\ ~ taskRunning[t]
    /\ taskRunning' = [taskRunning EXCEPT ![t] = TRUE]
    /\ dropped' = dropped \cup {t}
    /\ UNCHANGED <<tasks, armed, runner, runs>>

ForeignStop(t) ==
    /\ taskRunning' = [taskRunning EXCEPT ![t] = FALSE]
    /\ dropped' = dropped \cup {t}
    /\ UNCHANGED <<tasks, armed, runner, runs>>

Named(n) == {t \in ToSet(tasks) : NameOf[t] = n}

\* A task of the same name is stopped and replaced where it stands.
AddTask(t) ==
    /\ tasks' = IF Named(NameOf[t]) = {} THEN Append(tasks, t)
                ELSE [i \in DOMAIN tasks |-> IF NameOf[tasks[i]] = NameOf[t] THEN t ELSE tasks[i]]
    /\ Stopped(Named(NameOf[t]))
    /\ UNCHANGED <<runner, runs>>

RemoveTask(n) ==
    /\ Named(n) # {}
    /\ tasks' = SelectSeq(tasks, LAMBDA t : NameOf[t] # n)
    /\ Stopped(Named(n))
    /\ UNCHANGED <<runner, runs>>

\* A parsing error thrown by start() leaves the loop of startAll().
StartAll ==
    LET breaks == {i \in DOMAIN tasks : tasks[i] \in Unparsable /\ ~ taskRunning[tasks[i]]}
        reached == {i \in DOMAIN tasks : \A j \in breaks : i <= j}
    IN  Started({tasks[i] : i \in reached}) /\ UNCHANGED <<tasks, runner, runs>>

StopAll == Stopped(ToSet(tasks)) /\ UNCHANGED <<tasks, runner, runs>>

StartTask(n) == Started(Named(n)) /\ UNCHANGED <<tasks, runner, runs>>

StopTask(n) == Stopped(Named(n)) /\ UNCHANGED <<tasks, runner, runs>>

\* onTimerTick() up to the callback: a task already in its callback is not
\* run a second time, but its timer is armed again.
Tick(t) ==
    /\ armed[t] /\ runs[t] < MaxRuns
    /\ \/ /\ taskRunning[t] /\ runner[t] = "none"
          /\ runner' = [runner EXCEPT ![t] = "timer"]
          /\ armed' = [armed EXCEPT ![t] = FALSE] /\ UNCHANGED dropped
       \/ /\ taskRunning[t] /\ runner[t] # "none"
          /\ ScheduleNext({t}) /\ UNCHANGED runner
       \/ /\ ~ taskRunning[t]
          /\ armed' = [armed EXCEPT ![t] = FALSE] /\ UNCHANGED <<runner, dropped>>
    /\ UNCHANGED <<tasks, taskRunning, runs>>

TriggerNow(t) ==
    /\ runner[t] = "none" /\ runs[t] < MaxRuns
    /\ runner' = [runner EXCEPT ![t] = "caller"]
    /\ UNCHANGED <<tasks, taskRunning, armed, runs, dropped>>

\* The mistake of not scheduling the next run.
CallbackReturnsOnce(t) ==
    /\ runner[t] # "none"
    /\ runner' = [runner EXCEPT ![t] = "none"]
    /\ runs' = [runs EXCEPT ![t] = @ + 1]
    /\ UNCHANGED <<tasks, taskRunning, armed, dropped>>

CallbackReturns(t) ==
    /\ runner[t] # "none"
    /\ runner' = [runner EXCEPT ![t] = "none"]
    /\ runs' = [runs EXCEPT ![t] = @ + 1]
    /\ ScheduleNext(IF runner[t] = "timer" /\ taskRunning[t] THEN {t} ELSE {})
    /\ UNCHANGED <<tasks, taskRunning>>

\* The exception is rethrown; out of onTimerTick() it skips scheduleNext().
CallbackThrows(t) ==
    /\ runner[t] # "none"
    /\ runner' = [runner EXCEPT ![t] = "none"]
    /\ dropped' = IF runner[t] = "timer" /\ taskRunning[t] /\ ~ armed[t] THEN dropped \cup {t} ELSE dropped
    /\ UNCHANGED <<tasks, taskRunning, armed, runs>>

SchedNext ==
    \/ \E t \in Scheduled : \/ TaskStart(t) \/ TaskStop(t) \/ AddTask(t)
                        \/ ForeignStart(t) \/ ForeignStop(t)
                        \/ Tick(t) \/ TriggerNow(t)
                        \/ CallbackReturns(t) \/ CallbackThrows(t)
    \/ \E n \in TaskNames : RemoveTask(n) \/ StartTask(n) \/ StopTask(n)
    \/ StartAll \/ StopAll

-----------------------------------------------------------------------------
(***************************************************************************)
(* A task that says it is running has its timer armed or its timer         *)
(* callback in progress, whatever was started, stopped, replaced or        *)
(* triggered meanwhile; and a task that was stopped, removed or replaced   *)
(* has no timer left to fire.  There are four exceptions: a cron           *)
(* expression without a next time; a callback that threw out of the        *)
(* timer's slot (scheduled_task.cpp:117); a start() or stop() from another *)
(* thread than the task's, which the header allows (scheduled_task.h:27)   *)
(* and QTimer refuses; and a cron time more than 24.8 days away, whose     *)
(* milliseconds do not fit in the int they are cast to                     *)
(* (scheduled_task.cpp:137).  The next scheduleNext() of a task ends the   *)
(* exception.                                                              *)
(***************************************************************************)
RunningIsArmed ==
    \A t \in Scheduled :
        /\ taskRunning[t] /\ t \notin BadCron \cup dropped => armed[t] \/ runner[t] = "timer"
        /\ armed[t] /\ t \notin dropped => taskRunning[t]

-----------------------------------------------------------------------------
(***************************************************************************)
(* The cron expressions of ScheduledTask: nextCronTime() tries one minute  *)
(* after the other from the minute after now until all five fields match.  *)
(* A time is the number of its minute in a small calendar; an expression   *)
(* gives for each field "*" (the empty list) or the list of its parts, a   *)
(* part [lo, hi, step] being a number, a range or "*", each with its step. *)
(***************************************************************************)
CONSTANTS
    Radix,              \* minutes per hour, hours per day, days per month, months per year
    WeekDays,           \* days per week
    Expressions,        \* expressions to try: [1..5 -> lists of parts]
    Starts,             \* times to start from
    MaxIterations       \* bound of the search

\* No field of a time exceeds 59, and no step is zero: matchCronField()
\* divides by it.
ASSUME CronAssumption ==
    /\ {Radix[1], Radix[2], WeekDays} \subseteq 1..60 /\ {Radix[3], Radix[4]} \subseteq 1..59
    /\ Starts \subseteq Nat /\ MaxIterations \in Nat
    /\ \A e \in Expressions : \A f \in 1..5 : \A i \in DOMAIN e[f] :
          e[f][i].lo \in Nat /\ e[f][i].hi \in Nat /\ e[f][i].step \in Nat \ {0}

VARIABLES cronExpr, cronFrom, candidate, tried, cronDone

cronVars == <<cronExpr, cronFrom, candidate, tried, cronDone>>

\* The fields of a time: minute, hour, day of the month, month, day of the
\* week.  Days and months count from 1.
FieldOf(time, f) ==
    LET day == time \div (Radix[1] * Radix[2]) IN
    CASE f = 1 -> time % Radix[1]
      [] f = 2 -> (time \div Radix[1]) % Radix[2]
      [] f = 3 -> 1 + (day % Radix[3])
      [] f = 4 -> 1 + ((day \div Radix[3]) % Radix[4])
      [] f = 5 -> day % WeekDays

\* The mistake of counting steps from zero and not from the range's start.
PartMatchesFromZero(value, part) ==
    value >= part.lo /\ value <= part.hi /\ (part.step = 1 \/ value % part.step = 0)

PartMatches(value, part) ==
    value >= part.lo /\ value <= part.hi /\ (part.step = 1 \/ (value - part.lo) % part.step = 0)

MatchCronField(value, field) ==
    field = << >> \/ \E i \in DOMAIN field : PartMatches(value, field[i])

CronMatches(time) == \A f \in 1 .. 5 : MatchCronField(FieldOf(time, f), cronExpr[f])

CronInit ==
    /\ cronExpr \in Expressions /\ cronFrom \in Starts
    /\ candidate = cronFrom + 1 /\ tried = 0 /\ cronDone = "no"

\* One round of the search.
NextCronTime ==
    /\ cronDone = "no"
    /\ \/ tried = MaxIterations /\ cronDone' = "none" /\ UNCHANGED <<candidate, tried>>
       \/ /\ tried < MaxIterations
          /\ IF CronMatches(candidate)
             THEN cronDone' = "found" /\ UNCHANGED <<candidate, tried>>
             ELSE candidate' = candidate + 1 /\ tried' = tried + 1 /\ UNCHANGED cronDone
    /\ UNCHANGED <<cronExpr, cronFrom>>

-----------------------------------------------------------------------------
\* What a field stands for: the values its parts list.
Denotes(field, universe) ==
    IF field = << >> THEN universe
    ELSE UNION {{v \in universe : \E n \in 0 .. 59 : v = field[i].lo + n * field[i].step /\ v <= field[i].hi}
                  : i \in DOMAIN field}

Due(time) == \A f \in 1 .. 5 : FieldOf(time, f) \in Denotes(cronExpr[f], 0 .. 59)

(***************************************************************************)
(* The time nextCronTime() returns is the first one after now at which the *)
(* expression is due, counted by what its fields list; and it returns none *)
(* only when the expression is not due in the span it searches.            *)
(***************************************************************************)
NextIsFirstDue ==
    /\ cronDone = "found" => /\ candidate > cronFrom /\ Due(candidate)
                             /\ \A t \in cronFrom + 1 .. candidate - 1 : ~ Due(t)
    /\ cronDone = "none" => \A t \in cronFrom + 1 .. cronFrom + MaxIterations : ~ Due(t)
=============================================================================
