-------------------------- MODULE CircuitBreaker --------------------------
(***************************************************************************)
(* sc::network::CircuitBreaker (circuit_breaker.h, circuit_breaker.cpp):   *)
(* the Closed / Open / HalfOpen state machine around a remote call.        *)
(*                                                                         *)
(* onSuccess(), onFailure(), reset(), forceOpen() and the Open branch of   *)
(* allowRequest() run under m_mutex, but m_state and m_halfOpenCalls are   *)
(* atomics that allowRequest() also reads and raises without it.  So a     *)
(* locked handler that changes m_state takes two steps or more: what it    *)
(* does before transitionTo(), the exchange of m_state, and what follows.  *)
(*                                                                         *)
(* Time is a counter with the bound MaxTime.  The state-change callback is *)
(* not modelled: it changes nothing of the breaker by itself.              *)
(***************************************************************************)
EXTENDS Integers, Sequences, FiniteSets

CONSTANTS
    Callers,      \* threads that make calls through the breaker
    None,         \* m_mutex is free
    MaxTime,      \* bound of the clock
    BreakerConfigs,      \* the configurations the constructor is given
    SetterValues       \* values the setters are called with, by field

Fields == {"failureThreshold", "resetTimeout", "halfOpenMaxCalls", "window"}
CircuitBreakerConfig == [Fields -> Int]

ASSUME CallersAssumption == IsFiniteSet(Callers) /\ None \notin Callers
ASSUME TimeAssumption == MaxTime \in Nat
ASSUME ConfigsAssumption ==
    BreakerConfigs \subseteq CircuitBreakerConfig /\ SetterValues \in [Fields -> SUBSET Int]

VARIABLES
    breakerState,   \* m_state
    halfOpenCalls,  \* m_halfOpenCalls
    failures,       \* m_failureTimestamps; m_failureCount is its length
    openedAt,       \* m_openedAt
    breakerConfig,  \* m_config
    mutex,          \* the holder of m_mutex between two steps, or None
    now,            \* the steady clock
    callerAt,       \* where each caller is
    seenAt          \* the time at which a caller read m_state as Open

breakerVars == <<breakerState, halfOpenCalls, failures, openedAt, breakerConfig>>
callerVars == <<mutex, callerAt, seenAt>>
circuitVars == <<breakerVars, callerVars, now>>

CircuitBreakerState == {"Closed", "Open", "HalfOpen"}

(* "half", "count", "close" and "open" are the places of the holder of the *)
(* mutex: before transitionTo(HalfOpen), before the fetch_add after it,    *)
(* before transitionTo(Closed) and before transitionTo(Open).              *)
Holding == {"half", "count", "close", "open"}
CallerPc == {"idle", "sawOpen", "sawHalfOpen", "calling"} \cup Holding

(* The members of CircuitBreaker and where each caller is; the fetch_sub   *)
(* of m_halfOpenCalls never takes it below zero (circuit_breaker.cpp).     *)
BreakerTypeOK ==
    /\ breakerState \in CircuitBreakerState
    /\ halfOpenCalls \in Nat
    /\ failures \in Seq(0..MaxTime)
    /\ openedAt \in 0..MaxTime
    /\ breakerConfig \in CircuitBreakerConfig
    /\ mutex \in Callers \cup {None}
    /\ now \in 0..MaxTime
    /\ callerAt \in [Callers -> CallerPc]
    /\ seenAt \in [Callers -> 0..MaxTime]

BreakerInit ==
    /\ breakerState = "Closed"
    /\ halfOpenCalls = 0
    /\ failures = <<>>
    /\ openedAt = 0
    /\ breakerConfig \in BreakerConfigs
    /\ mutex = None
    /\ now = 0
    /\ callerAt = [c \in Callers |-> "idle"]
    /\ seenAt = [c \in Callers |-> 0]

CallerGoto(c, p) == callerAt' = [callerAt EXCEPT ![c] = p]
InFlight == {c \in Callers : callerAt[c] = "calling"}

-----------------------------------------------------------------------------
(* The setters: a value that is not positive is ignored.                   *)
SetBreakerConfig(f, v) ==
    /\ mutex = None
    /\ breakerConfig' = IF v > 0 THEN [breakerConfig EXCEPT ![f] = v] ELSE breakerConfig
    /\ UNCHANGED <<breakerState, halfOpenCalls, failures, openedAt, callerVars, now>>

(* allowRequest(): the load of m_state, without the mutex.                 *)
AllowRequest(c) ==
    /\ callerAt[c] = "idle"
    /\ CallerGoto(c, CASE breakerState = "Closed" -> "calling"
                 [] breakerState = "Open" -> "sawOpen"
                 [] breakerState = "HalfOpen" -> "sawHalfOpen")
    /\ seenAt' = [seenAt EXCEPT ![c] = now]
    /\ UNCHANGED <<breakerVars, mutex, now>>

(* Fault: m_halfOpenCalls is not cleared.                                  *)
AllowOpenKeepCount(c) ==
    /\ callerAt[c] = "sawOpen" /\ mutex = None
    /\ \E t \in seenAt[c]..now :
          IF t - openedAt >= breakerConfig.resetTimeout
          THEN mutex' = c /\ CallerGoto(c, "half")
          ELSE CallerGoto(c, "idle") /\ UNCHANGED mutex
    /\ UNCHANGED <<breakerVars, seenAt, now>>

(* The Open branch.  The clock is read between the load and the lock, and  *)
(* m_state is not read again under the lock.                               *)
AllowOpen(c) ==
    /\ callerAt[c] = "sawOpen" /\ mutex = None
    /\ \E t \in seenAt[c]..now :
          IF t - openedAt >= breakerConfig.resetTimeout
          THEN halfOpenCalls' = 0 /\ mutex' = c /\ CallerGoto(c, "half")
          ELSE CallerGoto(c, "idle") /\ UNCHANGED <<halfOpenCalls, mutex>>
    /\ UNCHANGED <<breakerState, failures, openedAt, breakerConfig, seenAt, now>>

(* Fault: the probe of the caller that half-opens is not counted.          *)
AllowOpenUncounted(c) ==
    /\ callerAt[c] = "count"
    /\ mutex' = None
    /\ CallerGoto(c, "calling")
    /\ UNCHANGED <<breakerVars, seenAt, now>>

AllowOpenCount(c) ==
    /\ callerAt[c] = "count"
    /\ halfOpenCalls' = halfOpenCalls + 1
    /\ mutex' = None
    /\ CallerGoto(c, "calling")
    /\ UNCHANGED <<breakerState, failures, openedAt, breakerConfig, seenAt, now>>

(* The HalfOpen branch: the loop of compare_exchange_weak, lock-free.      *)
AllowHalfOpen(c) ==
    /\ callerAt[c] = "sawHalfOpen"
    /\ IF halfOpenCalls < breakerConfig.halfOpenMaxCalls
       THEN /\ halfOpenCalls' = halfOpenCalls + 1
            /\ CallerGoto(c, "calling")
       ELSE CallerGoto(c, "idle") /\ UNCHANGED halfOpenCalls
    /\ UNCHANGED <<breakerState, failures, openedAt, breakerConfig, mutex, seenAt, now>>

-----------------------------------------------------------------------------
(* onSuccess() and onFailure(), when the call of a caller returns.         *)

(* Fault: the failures of the past stay recorded.                          *)
OnSuccessKeepFailures(c) ==
    /\ callerAt[c] = "calling" /\ mutex = None
    /\ halfOpenCalls' = IF breakerState = "HalfOpen" THEN halfOpenCalls - 1 ELSE halfOpenCalls
    /\ IF breakerState = "HalfOpen" /\ halfOpenCalls - 1 <= 0
       THEN mutex' = c /\ CallerGoto(c, "close")
       ELSE CallerGoto(c, "idle") /\ UNCHANGED mutex
    /\ UNCHANGED <<breakerState, failures, openedAt, breakerConfig, seenAt, now>>

OnSuccess(c) ==
    /\ callerAt[c] = "calling" /\ mutex = None
    /\ LET recovered == breakerState = "HalfOpen" /\ halfOpenCalls - 1 <= 0 IN
          /\ halfOpenCalls' = IF breakerState = "HalfOpen" THEN halfOpenCalls - 1 ELSE halfOpenCalls
          /\ failures' = IF recovered \/ breakerState = "Closed" THEN <<>> ELSE failures
          /\ IF recovered THEN mutex' = c /\ CallerGoto(c, "close")
                          ELSE CallerGoto(c, "idle") /\ UNCHANGED mutex
    /\ UNCHANGED <<breakerState, openedAt, breakerConfig, seenAt, now>>

(* The new failure is recorded and pruneExpiredFailures() pops the front   *)
(* of the queue while it is outside the window.                            *)
PruneExpiredFailures ==
    LET all == Append(failures, now)
        expired(i) == now - all[i] >= breakerConfig.window
    IN  \E k \in 1..(Len(all) + 1) :
           /\ \A i \in 1..(k - 1) : expired(i)
           /\ k <= Len(all) => ~expired(k)
           /\ failures' = SubSeq(all, k, Len(all))

OnFailure(c) ==
    /\ callerAt[c] = "calling" /\ mutex = None
    /\ PruneExpiredFailures
    /\ halfOpenCalls' = IF breakerState = "HalfOpen" THEN 0 ELSE halfOpenCalls
    /\ IF \/ breakerState = "HalfOpen"
          \/ breakerState = "Closed" /\ Len(failures') >= breakerConfig.failureThreshold
       THEN mutex' = c /\ CallerGoto(c, "open")
       ELSE CallerGoto(c, "idle") /\ UNCHANGED mutex
    /\ UNCHANGED <<breakerState, openedAt, breakerConfig, seenAt, now>>

(* reset() and forceOpen(), by hand.                                       *)
Reset(c) ==
    /\ callerAt[c] = "idle" /\ mutex = None
    /\ failures' = <<>>
    /\ halfOpenCalls' = 0
    /\ mutex' = c
    /\ CallerGoto(c, "close")
    /\ UNCHANGED <<breakerState, openedAt, breakerConfig, seenAt, now>>

ForceOpen(c) ==
    /\ callerAt[c] = "idle" /\ mutex = None
    /\ mutex' = c
    /\ CallerGoto(c, "open")
    /\ UNCHANGED <<breakerVars, seenAt, now>>

-----------------------------------------------------------------------------
(* transitionTo(): exchange m_state and, on a change to Open, restart the  *)
(* reset timeout; the caller that made it still holds the mutex.           *)
TransitionTo(new) ==
    /\ breakerState' = new
    /\ openedAt' = IF new = "Open" /\ breakerState # "Open" THEN now ELSE openedAt

ToHalfOpen(c) ==
    /\ callerAt[c] = "half"
    /\ TransitionTo("HalfOpen")
    /\ CallerGoto(c, "count")
    /\ UNCHANGED <<halfOpenCalls, failures, breakerConfig, mutex, seenAt, now>>

ToClosed(c) ==
    /\ callerAt[c] = "close"
    /\ TransitionTo("Closed")
    /\ mutex' = None
    /\ CallerGoto(c, "idle")
    /\ UNCHANGED <<halfOpenCalls, failures, breakerConfig, seenAt, now>>

ToOpen(c) ==
    /\ callerAt[c] = "open"
    /\ TransitionTo("Open")
    /\ mutex' = None
    /\ CallerGoto(c, "idle")
    /\ UNCHANGED <<halfOpenCalls, failures, breakerConfig, seenAt, now>>

BreakerTick ==
    /\ now < MaxTime
    /\ now' = now + 1
    /\ UNCHANGED <<breakerVars, callerVars>>

-----------------------------------------------------------------------------
(* The rest of a request that was begun, with the call it guards.          *)
RequestStep(c) ==
    \/ AllowOpen(c) \/ AllowOpenCount(c) \/ AllowHalfOpen(c)
    \/ OnSuccess(c) \/ OnFailure(c)
    \/ ToHalfOpen(c) \/ ToClosed(c) \/ ToOpen(c)

BreakerNext ==
    \/ \E c \in Callers :
          AllowRequest(c) \/ RequestStep(c) \/ Reset(c) \/ ForceOpen(c)
    \/ \E f \in Fields : \E v \in SetterValues[f] : SetBreakerConfig(f, v)
    \/ BreakerTick

BreakerSpec == BreakerInit /\ [][BreakerNext]_circuitVars

(* A request that was begun goes on and its call returns.  Nobody has to   *)
(* begin a request, and time need not pass.                                *)
BreakerFairness == \A c \in Callers : WF_circuitVars(RequestStep(c))

-----------------------------------------------------------------------------
(* A half-open breaker is waiting for a call that is really in flight:     *)
(* m_halfOpenCalls is positive, so the last success closes the breaker,    *)
(* and it never exceeds the calls under way, so a full count cannot reject *)
(* every request for ever.  The lock-free increments of allowRequest() and *)
(* late results of calls let through earlier do not upset the count.       *)
ProbesInFlight ==
    breakerState = "HalfOpen" /\ mutex = None =>
        halfOpenCalls \in 1..Cardinality(InFlight)

(* A breaker that closes, by recovery or by reset(), forgets the failures  *)
(* recorded before, those of late calls and of earlier rounds included: it *)
(* takes failureThreshold new ones to open it again.                       *)
ClosesWithCleanWindow ==
    [][breakerState # "Closed" /\ breakerState' = "Closed" => failures' = <<>>]_circuitVars

(* The members have their types, a half-open breaker waits for calls that  *)
(* are in flight, and one that closes starts afresh, however               *)
(* allowRequest() overtakes the locked calls.                              *)
BreakerSound == [](BreakerTypeOK /\ ProbesInFlight) /\ ClosesWithCleanWindow

(* A full set of probes comes to an end: some result is reported, and a    *)
(* slot is free again or the breaker has left HalfOpen.                    *)
SlotsComeBack ==
    (breakerState = "HalfOpen" /\ halfOpenCalls >= breakerConfig.halfOpenMaxCalls) ~>
        (breakerState # "HalfOpen" \/ halfOpenCalls < breakerConfig.halfOpenMaxCalls)

-----------------------------------------------------------------------------
(* What makes these properties inductive                                   *)

MutexInv == \A c \in Callers : callerAt[c] \in Holding <=> mutex = c

Recovering == mutex # None /\ callerAt[mutex] \in {"half", "count"}

CountInv ==
    /\ breakerState = "HalfOpen" \/ Recovering => halfOpenCalls \in 0..Cardinality(InFlight)
    /\ breakerState = "HalfOpen" /\ mutex = None => halfOpenCalls >= 1
    /\ \A c \in Callers : callerAt[c] = "count" => breakerState = "HalfOpen"

(* Between the clearing of the failures and the exchange of m_state the    *)
(* mutex is held, so none is recorded.                                     *)
CleanInv == \A c \in Callers : callerAt[c] = "close" => failures = <<>>

=============================================================================
