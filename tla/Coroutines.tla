----------------------------- MODULE Coroutines -----------------------------
(***************************************************************************)
(* Task, the coroutine type which a caller waits for with get() and        *)
(* another Task with co_await, for T and for void; and Generator, which a  *)
(* loop advances.  Both start suspended (initial_suspend is                *)
(* suspend_always).  A coroutine that is resumed runs until it awaits,     *)
(* yields or ends; a Task that ends resumes the coroutine that awaits it.  *)
(* Task keeps its handle to itself: co_await leaves the awaiting handle    *)
(* with the awaited Task and does not resume that one, and neither does    *)
(* get().  Resumed names the Tasks that something else resumes first,      *)
(* which in this library is none.                                          *)
(*                                                                         *)
(* A step ends where m_mutex of a promise is released; the coroutines of   *)
(* different threads interleave between such steps.                        *)
(***************************************************************************)
EXTENDS Naturals

CONSTANTS
    Awaiting, Awaited,  \* an outer Task and the Task it awaits
    Caller,             \* the Task whose get() is called
    Resumed,            \* Tasks whose handle something resumes at first
    Throwing,           \* coroutines whose body throws in the end
    Yields              \* values the generator yields

Coros == {Awaiting, Awaited}

VARIABLES
    at,                 \* per Task: where its frame is
    coroReady,          \* m_ready
    failed,             \* m_exception is set
    continuation,       \* m_continuation, or "none"
    getter,             \* get(): "none", "waiting", "returned", "threw"
    generator           \* [at, seen]: values the loop has seen

coroVars == <<at, coroReady, failed, continuation, getter, generator>>

CoroInit ==
    /\ at = [c \in Coros |-> "initial"]
    /\ coroReady = [c \in Coros |-> FALSE]
    /\ failed = [c \in Coros |-> FALSE]
    /\ continuation = [c \in Coros |-> "none"]
    /\ getter = "none"
    /\ generator = [at |-> "initial", seen |-> 0]

Goto(c, place) == at' = [at EXCEPT ![c] = place]

Resume(c) ==
    /\ c \in Resumed /\ at[c] = "initial" /\ Goto(c, "body")
    /\ UNCHANGED <<coroReady, failed, continuation, getter, generator>>

\* co_await in the body of the outer Task: await_ready() under the lock,
AwaitReady ==
    /\ at[Awaiting] = "body"
    /\ Goto(Awaiting, IF coroReady[Awaited] THEN "resuming" ELSE "suspending")
    /\ UNCHANGED <<coroReady, failed, continuation, getter, generator>>

\* then await_suspend() under the lock again,
AwaitSuspend ==
    /\ at[Awaiting] = "suspending" /\ Goto(Awaiting, "suspended")
    /\ continuation' = [continuation EXCEPT ![Awaited] = Awaiting]
    /\ UNCHANGED <<coroReady, failed, getter, generator>>

\* and await_resume(), which throws what the awaited body threw.
AwaitResume ==
    /\ at[Awaiting] = "resuming"
    /\ Goto(Awaiting, IF failed[Awaited] THEN "throwing" ELSE "ending")
    /\ UNCHANGED <<coroReady, failed, continuation, getter, generator>>

\* return_value(), return_void() or unhandled_exception().
Finish(c) ==
    /\ at[c] \in {"ending", "throwing"} \/ (c = Awaited /\ at[c] = "body")
    /\ coroReady' = [coroReady EXCEPT ![c] = TRUE]
    /\ failed' = [failed EXCEPT ![c] = at[c] = "throwing" \/ c \in Throwing]
    /\ Goto(c, "finishing")
    /\ UNCHANGED <<continuation, getter, generator>>

\* final_suspend(): whoever awaits goes on.
FinalSuspend(c) ==
    /\ at[c] = "finishing"
    /\ at' = [d \in Coros |-> IF d = c THEN "final"
                              ELSE IF d = continuation[c] THEN "resuming" ELSE at[d]]
    /\ UNCHANGED <<coroReady, failed, continuation, getter, generator>>

\* get() waits for m_ready.
GetCall ==
    /\ getter = "none" /\ getter' = "waiting"
    /\ UNCHANGED <<at, coroReady, failed, continuation, generator>>

GetReturn ==
    /\ getter = "waiting" /\ coroReady[Caller]
    /\ getter' = IF failed[Caller] THEN "threw" ELSE "returned"
    /\ UNCHANGED <<at, coroReady, failed, continuation, generator>>

\* begin() and operator++ resume the generator to its next yield or its
\* end; an exception ends it like a return.
GeneratorResume ==
    /\ generator.at # "final"
    /\ generator' = IF generator.seen < Yields
                    THEN [at |-> "yielded", seen |-> generator.seen + 1]
                    ELSE [generator EXCEPT !.at = "final"]
    /\ UNCHANGED <<at, coroReady, failed, continuation, getter>>

CoroNext ==
    \/ AwaitReady \/ AwaitSuspend \/ AwaitResume \/ GetCall \/ GetReturn \/ GeneratorResume
    \/ \E c \in Coros : Resume(c) \/ Finish(c) \/ FinalSuspend(c)

\* Whatever can run does.
CoroSpec ==
    /\ CoroInit /\ [][CoroNext]_coroVars
    /\ WF_coroVars(AwaitReady) /\ WF_coroVars(AwaitSuspend) /\ WF_coroVars(AwaitResume)
    /\ WF_coroVars(GetReturn) /\ WF_coroVars(GeneratorResume)
    /\ \A c \in Coros : WF_coroVars(Resume(c)) /\ WF_coroVars(Finish(c)) /\ WF_coroVars(FinalSuspend(c))

-----------------------------------------------------------------------------
(***************************************************************************)
(* get() returns, with the value or the exception, as the tests of Task    *)
(* expect.                                                                 *)
(***************************************************************************)
GetReturns == getter = "waiting" ~> getter \in {"returned", "threw"}

=============================================================================
