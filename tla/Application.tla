---------------------------- MODULE Application ----------------------------
(***************************************************************************)
(* sc::Application (core/application.cpp) and the CrashHandler             *)
(* (core/crash_handler.h): how a process starts, ends in order, or ends    *)
(* with a signal.                                                          *)
(*                                                                         *)
(* The application belongs to the main thread, which runs its callbacks    *)
(* one after the other.  A crash handler takes no lock: it runs in the     *)
(* thread that was hit, between any two steps of install() and             *)
(* uninstall() in another.                                                 *)
(***************************************************************************)
EXTENDS Integers, Sequences, FiniteSets, SequencesExt

CONSTANTS
    Threads,       \* threads a signal can hit
    Signals,       \* the signals CrashHandler handles
    MaxCallbacks,  \* bound on the callbacks added
    MaxLaunches,       \* bound on the calls of run()
    MaxInstalls    \* bound on the calls of install()

ASSUME ApplicationAssumption ==
    {MaxCallbacks, MaxLaunches, MaxInstalls} \subseteq Nat /\ IsFiniteSet(Signals)

VARIABLES
    phase,      \* what the main thread is doing with the application
    instance,   \* s_instance is set
    startups,   \* size of m_startupCallbacks
    shutdowns,  \* size of m_shutdownCallbacks
    index,      \* callback to be called next
    launches,       \* calls of run()
    returned,   \* what the last run() returned: "none", "ok" or "failed"
    done        \* history: the shutdown callbacks called

VARIABLES
    installed,    \* m_installed
    setting,      \* the signals install() or uninstall() still has to set
    disposition,  \* per signal: "default" or "handler"
    entered,       \* per thread: the handlers it is in, the innermost first
    alive,        \* the process is
    installs,     \* calls of install() that had an effect
    handled       \* history: how often a thread was taken to the handler for
                  \* a signal

applicationVars == <<phase, instance, startups, shutdowns, index, launches, returned, done>>
crashVars == <<installed, setting, disposition, entered, alive, installs, handled>>

ApplicationInit ==
    /\ phase = "built" /\ instance = TRUE
    /\ startups = 0 /\ shutdowns = 0 /\ index = 1
    /\ launches = 0 /\ returned = "none" /\ done = <<>>

CrashInit ==
    /\ installed = FALSE /\ setting = <<>>
    /\ disposition = [s \in Signals |-> "default"]
    /\ entered = [t \in Threads |-> <<>>]
    /\ alive = TRUE /\ installs = 0
    /\ handled = [t \in Threads |-> [s \in Signals |-> 0]]

-----------------------------------------------------------------------------
(* Between run() and the destructor.  A callback that adds another one     *)
(* changes the vector it is called from, which C++ leaves undefined.       *)
AddStartupCallback ==
    /\ phase = "built" /\ startups < MaxCallbacks
    /\ startups' = startups + 1
    /\ UNCHANGED <<phase, instance, shutdowns, index, launches, returned, done>>

AddShutdownCallback ==
    /\ phase \in {"built", "running"} /\ shutdowns < MaxCallbacks
    /\ shutdowns' = shutdowns + 1
    /\ UNCHANGED <<phase, instance, startups, index, launches, returned, done>>

Run ==
    /\ phase = "built" /\ launches < MaxLaunches
    /\ phase' = "starting" /\ index' = 1 /\ launches' = launches + 1
    /\ UNCHANGED <<instance, startups, shutdowns, returned, done>>

(* executeStartupCallbacks() stops at the first that says no.  One that    *)
(* throws ends run() through the handler for what it threw.                *)
StartupCallback(ok) ==
    /\ phase = "starting" /\ index <= startups
    /\ IF ok THEN index' = index + 1 /\ UNCHANGED <<phase, returned>>
             ELSE phase' = "built" /\ returned' = "failed" /\ UNCHANGED index
    /\ UNCHANGED <<instance, startups, shutdowns, launches, done>>

(* The event loop, which may also end with an exception *)
Exec ==
    /\ phase = "starting" /\ index > startups
    /\ phase' = "running"
    /\ UNCHANGED <<instance, startups, shutdowns, index, launches, returned, done>>

ExecReturns(ok) ==
    /\ phase = "running"
    /\ phase' = "built" /\ returned' = IF ok THEN "ok" ELSE "failed"
    /\ UNCHANGED <<instance, startups, shutdowns, index, launches, done>>

(* The destructor *)
Destroy ==
    /\ phase = "built"
    /\ phase' = "closing" /\ index' = 1
    /\ UNCHANGED <<instance, startups, shutdowns, launches, returned, done>>

(* A mistaken ShutdownCallback: one that throws ends the loop *)
ShutdownCallbackGivesUp(threw) ==
    /\ phase = "closing" /\ index <= shutdowns /\ threw # "other"
    /\ done' = Append(done, index)
    /\ index' = IF threw = "nothing" THEN index + 1 ELSE shutdowns + 1
    /\ UNCHANGED <<phase, instance, startups, shutdowns, launches, returned>>

(* executeShutdownCallbacks(): a std::exception is logged and the next one *)
(* called; anything else leaves the destructor and ends the process.       *)
ShutdownCallback(threw) ==
    /\ phase = "closing" /\ index <= shutdowns
    /\ done' = Append(done, index)
    /\ index' = index + 1
    /\ phase' = IF threw = "other" THEN "terminated" ELSE phase
    /\ UNCHANGED <<instance, startups, shutdowns, launches, returned>>

Vanished ==
    /\ phase = "closing" /\ index > shutdowns
    /\ phase' = "gone" /\ instance' = FALSE
    /\ UNCHANGED <<startups, shutdowns, index, launches, returned, done>>

ApplicationNext ==
    \/ AddStartupCallback \/ AddShutdownCallback \/ Run \/ Exec \/ Destroy \/ Vanished
    \/ \E ok \in BOOLEAN : StartupCallback(ok) \/ ExecReturns(ok)
    \/ \E threw \in {"nothing", "std", "other"} : ShutdownCallback(threw)

-----------------------------------------------------------------------------
(* install() and uninstall() hold m_mutex until every signal is set *)
Install ==
    /\ alive /\ setting = <<>> /\ ~installed /\ installs < MaxInstalls
    /\ installed' = TRUE /\ installs' = installs + 1
    /\ setting' = SetToSeq(Signals)
    /\ UNCHANGED <<disposition, entered, alive, handled>>

Uninstall ==
    /\ alive /\ setting = <<>> /\ installed
    /\ installed' = FALSE
    /\ setting' = SetToSeq(Signals)
    /\ UNCHANGED <<disposition, entered, alive, installs, handled>>

SetSignal ==
    /\ alive /\ setting # <<>>
    /\ setting' = Tail(setting)
    /\ disposition' = [disposition EXCEPT ![Head(setting)] =
                         IF installed THEN "handler" ELSE "default"]
    /\ UNCHANGED <<installed, entered, alive, installs, handled>>

(* The handler of s is entered in t; s is blocked there until it returns.  *)
Enter(t, s, below) ==
    /\ entered' = [entered EXCEPT ![t] = <<[signal |-> s, at |-> "report"]>> \o below]
    /\ handled' = [handled EXCEPT ![t][s] = @ + 1]
    /\ UNCHANGED alive

Die == alive' = FALSE /\ UNCHANGED <<entered, handled>>

Blocked(t, s) == \E i \in DOMAIN entered[t] : entered[t][i].signal = s

(* The code of t, or the callback it is in, is hit by s.  A fault whose    *)
(* signal is blocked ends the process.                                     *)
Hit(t, s) ==
    /\ alive
    /\ entered[t] # <<>> => Head(entered[t]).at = "callback"
    /\ IF disposition[s] = "handler" /\ ~Blocked(t, s) THEN Enter(t, s, entered[t]) ELSE Die
    /\ UNCHANGED <<installed, setting, disposition, installs>>

(* signalHandler(): the report first, then the callback, ... *)
Report(t) ==
    /\ alive /\ entered[t] # <<>> /\ Head(entered[t]).at = "report"
    /\ entered' = [entered EXCEPT ![t][1].at = "callback"]
    /\ UNCHANGED <<installed, setting, disposition, alive, installs, handled>>

(* ... and the default disposition before the signal is raised again *)
Reset(t) ==
    /\ alive /\ entered[t] # <<>> /\ Head(entered[t]).at = "callback"
    /\ disposition' = [disposition EXCEPT ![Head(entered[t]).signal] = "default"]
    /\ entered' = [entered EXCEPT ![t][1].at = "raised"]
    /\ UNCHANGED <<installed, setting, alive, installs, handled>>

(* A mistaken Leave: the handler returns to what was hit *)
LeaveQuietly(t) ==
    /\ alive /\ entered[t] # <<>> /\ Head(entered[t]).at = "raised"
    /\ entered' = [entered EXCEPT ![t] = Tail(@)]
    /\ UNCHANGED <<installed, setting, disposition, alive, installs, handled>>

(* The raised signal is delivered when the handler returns, as it is       *)
(* disposed of by then: another thread may have installed the handler again. *)
Leave(t) ==
    /\ alive /\ entered[t] # <<>> /\ Head(entered[t]).at = "raised"
    /\ LET s == Head(entered[t]).signal
       IN  IF disposition[s] = "handler" THEN Enter(t, s, Tail(entered[t])) ELSE Die
    /\ UNCHANGED <<installed, setting, disposition, installs>>

CrashNext ==
    \/ Install \/ Uninstall \/ SetSignal
    \/ \E t \in Threads : Report(t) \/ Reset(t) \/ Leave(t)
    \/ \E t \in Threads, s \in Signals : Hit(t, s)

-----------------------------------------------------------------------------
(* Whatever run() came to - a callback that said no or threw, an event     *)
(* loop that failed, no run() at all - the destructor calls every shutdown *)
(* callback once and in order, unless one of them ends the process, and    *)
(* nothing is found under instance() afterwards (application.cpp:17-21).   *)
ShutdownComplete ==
    /\ phase = "gone" => done = [i \in 1..shutdowns |-> i] /\ ~instance
    /\ phase # "gone" => instance
    /\ phase = "terminated" => done = [i \in 1..(index - 1) |-> i]

(* A thread that was hit never comes back to what it did: while the        *)
(* process lives it is in a handler.  With one install() no signal is      *)
(* reported twice by a thread; and when install() and uninstall() are at   *)
(* rest, a signal that was not raised is disposed of as m_installed says   *)
(* (crash_handler.h:116-127).                                              *)
CrashIsFinal ==
    /\ \A t \in Threads, s \in Signals :
           /\ alive /\ handled[t][s] > 0 => entered[t] # <<>>
           /\ handled[t][s] <= installs
    /\ \A s \in Signals :
           setting = <<>> /\ (\A t \in Threads : handled[t][s] = 0)
           => disposition[s] = (IF installed THEN "handler" ELSE "default")

=============================================================================
