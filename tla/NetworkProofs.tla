--------------------------- MODULE NetworkProofs ---------------------------
(***************************************************************************)
(* Proofs about CircuitBreaker for any number of callers, any configuration*)
(* and any bound of the clock, about RateLimiter for any number of threads,*)
(* rates and bursts, about ConnectionPool for any number of clients, URLs  *)
(* and connections, and about ConnectionManager for all its configurations *)
(* and any number of retries and timers; then about what goes over the     *)
(* connections (HttpRequests, Transfers), for any number of requests,      *)
(* chains, interceptors, chunks, cookies and recorders.                    *)
(*                                                                         *)
(* The breaker's inductive invariant joins the types, the places of the    *)
(* mutex holder, the count of probes and the clean window of a closing     *)
(* breaker.  The limiter's says how many permits the threads that moved    *)
(* the window, and have not yet reset its count, can still hide.  Each     *)
(* exchange has an invariant of its own; ExchangesInv is all of them.      *)
(***************************************************************************)
EXTENDS MCNetwork, TLAPS, FiniteSetTheorems, SequenceTheorems

USE DEF CircuitBreakerState, Fields, CircuitBreakerConfig, Holding, CallerPc,
        breakerVars, callerVars

Calls == Cardinality(InFlight)

BreakerInv == BreakerTypeOK /\ MutexInv /\ CountInv /\ CleanInv

(* The two ways in which the recorded failures shrink.                     *)
LEMMA SeqFacts ==
    ASSUME NEW S
    PROVE  /\ <<>> \in Seq(S)
           /\ \A s \in Seq(S) : \A k \in 1..(Len(s) + 1) : SubSeq(s, k, Len(s)) \in Seq(S)
  <1>1. <<>> \in Seq(S)
    OBVIOUS
  <1>2. ASSUME NEW s \in Seq(S), NEW k \in 1..(Len(s) + 1)
        PROVE  SubSeq(s, k, Len(s)) \in Seq(S)
    BY SubSeqProperties
  <1> QED BY <1>1, <1>2

(* The calls in flight are finitely many.                                  *)
LEMMA CallsFinite == IsFiniteSet(InFlight) /\ Calls \in Nat
  BY CallersAssumption, FS_Subset, FS_CardinalityType DEF InFlight, Calls

(* A step that neither starts nor ends a call keeps their number.          *)
LEMMA CallsKept ==
    ASSUME \A c \in Callers : callerAt'[c] = "calling" <=> callerAt[c] = "calling"
    PROVE  Calls' = Calls
  BY DEF Calls, InFlight

(* A caller that is let through adds one call, one whose call returns      *)
(* removes one.                                                            *)
LEMMA CallsAdded ==
    ASSUME BreakerTypeOK, NEW c \in Callers, callerAt[c] # "calling", callerAt' = [callerAt EXCEPT ![c] = "calling"]
    PROVE  Calls' = Calls + 1
  <1>1. InFlight' = InFlight \cup {c} /\ c \notin InFlight
    BY DEF InFlight, BreakerTypeOK
  <1> QED BY <1>1, CallsFinite, FS_AddElement DEF Calls

LEMMA CallsRemoved ==
    ASSUME BreakerTypeOK, NEW c \in Callers, NEW p, callerAt[c] = "calling", p # "calling",
           callerAt' = [callerAt EXCEPT ![c] = p]
    PROVE  Calls' = Calls - 1
  <1>1. InFlight' = InFlight \ {c} /\ c \in InFlight
    BY DEF InFlight, BreakerTypeOK
  <1> QED BY <1>1, CallsFinite, FS_RemoveElement DEF Calls

LEMMA BreakerInvInit == BreakerInit => BreakerInv
  <1> SUFFICES ASSUME BreakerInit PROVE BreakerInv
    OBVIOUS
  <1>1. InFlight = {}
    BY DEF BreakerInit, InFlight
  <1>2. BreakerTypeOK
    BY ConfigsAssumption, TimeAssumption DEF BreakerInit, BreakerTypeOK
  <1>3. MutexInv /\ CountInv /\ CleanInv
    BY CallersAssumption DEF BreakerInit, MutexInv, CountInv, CleanInv, Recovering
  <1> QED BY <1>2, <1>3 DEF BreakerInv

(* Steps that touch neither the callers nor what CountInv speaks about.    *)
LEMMA BreakerInvKept ==
    ASSUME BreakerInv, BreakerTypeOK', UNCHANGED <<breakerState, halfOpenCalls, failures, mutex, callerAt>>
    PROVE  BreakerInv'
  <1>1. MutexInv' /\ CleanInv'
    BY DEF BreakerInv, MutexInv, CleanInv
  <1>2. CountInv'
    BY CallsKept DEF BreakerInv, CountInv, Recovering, Calls
  <1> QED BY <1>1, <1>2 DEF BreakerInv

(* allowRequest(): the lock-free load, and the branch of an Open breaker.  *)
LEMMA InvAllow ==
    ASSUME BreakerInv, NEW c \in Callers, AllowRequest(c)
    PROVE  BreakerInv'
  <1> USE CallersAssumption DEF BreakerInv, BreakerTypeOK, CallerGoto
  <1>1. /\ UNCHANGED <<breakerState, halfOpenCalls, failures, openedAt, breakerConfig, mutex, now>>
        /\ callerAt[c] = "idle"
        /\ seenAt' = [seenAt EXCEPT ![c] = now]
    BY DEF AllowRequest
  <1>2. \/ breakerState = "Closed" /\ callerAt' = [callerAt EXCEPT ![c] = "calling"]
        \/ breakerState # "Closed" /\ callerAt' = [callerAt EXCEPT ![c] = "sawOpen"]
        \/ breakerState # "Closed" /\ callerAt' = [callerAt EXCEPT ![c] = "sawHalfOpen"]
    BY DEF AllowRequest
  <1>3. BreakerTypeOK'
    BY <1>1, <1>2
  <1>4. MutexInv' /\ CleanInv'
    BY <1>1, <1>2 DEF MutexInv, CleanInv
  <1>5. Recovering' = Recovering
    BY <1>1, <1>2 DEF Recovering, MutexInv
  <1>6. Calls' \in {Calls, Calls + 1}
    <2>1. CASE callerAt' = [callerAt EXCEPT ![c] = "calling"]
      BY <1>1, <2>1, CallsAdded
    <2>2. CASE callerAt'[c] # "calling"
      BY <1>1, <1>2, <2>2, CallsKept
    <2> QED BY <1>2, <2>1, <2>2
  <1>7. CountInv'
    BY <1>1, <1>2, <1>5, <1>6, CallsFinite DEF CountInv, Calls
  <1> QED BY <1>3, <1>4, <1>7

LEMMA InvAllowOpen ==
    ASSUME BreakerInv, NEW c \in Callers, AllowOpen(c)
    PROVE  BreakerInv'
  <1> USE CallersAssumption DEF BreakerInv, BreakerTypeOK, CallerGoto
  <1>1. /\ UNCHANGED <<breakerState, failures, openedAt, breakerConfig, seenAt, now>>
        /\ callerAt[c] = "sawOpen" /\ mutex = None
    BY DEF AllowOpen
  <1>2. \/ halfOpenCalls' = 0 /\ mutex' = c /\ callerAt' = [callerAt EXCEPT ![c] = "half"]
        \/ UNCHANGED <<halfOpenCalls, mutex>> /\ callerAt' = [callerAt EXCEPT ![c] = "idle"]
    BY DEF AllowOpen
  <1>3. BreakerTypeOK'
    <2>1. CASE halfOpenCalls' = 0 /\ mutex' = c /\ callerAt' = [callerAt EXCEPT ![c] = "half"]
      BY <1>1, <2>1
    <2>2. CASE UNCHANGED <<halfOpenCalls, mutex>> /\ callerAt' = [callerAt EXCEPT ![c] = "idle"]
      BY <1>1, <2>2
    <2> QED BY <1>2, <2>1, <2>2
  <1>4. MutexInv' /\ CleanInv'
    BY <1>1, <1>2 DEF MutexInv, CleanInv
  <1>5. Calls' = Calls
    BY <1>1, <1>2, CallsKept
  <1>6. CountInv'
    BY <1>1, <1>2, <1>5, CallsFinite DEF CountInv, Recovering, Calls
  <1> QED BY <1>3, <1>4, <1>6

(* The fetch_add of the caller that half-opened the breaker.               *)
LEMMA InvAllowOpenCount ==
    ASSUME BreakerInv, NEW c \in Callers, AllowOpenCount(c)
    PROVE  BreakerInv'
  <1> USE CallersAssumption DEF BreakerInv, BreakerTypeOK, CallerGoto
  <1>1. /\ UNCHANGED <<breakerState, failures, openedAt, breakerConfig, seenAt, now>>
        /\ callerAt[c] = "count" /\ halfOpenCalls' = halfOpenCalls + 1 /\ mutex' = None
        /\ callerAt' = [callerAt EXCEPT ![c] = "calling"]
    BY DEF AllowOpenCount
  <1>2. BreakerTypeOK'
    BY <1>1
  <1>3. MutexInv' /\ CleanInv'
    BY <1>1 DEF MutexInv, CleanInv
  <1>4. Calls' = Calls + 1
    BY <1>1, CallsAdded
  <1>5. mutex = c /\ Recovering
    BY <1>1 DEF MutexInv, Recovering
  <1>6. CountInv'
    BY <1>1, <1>4, <1>5, CallsFinite DEF CountInv, Recovering, Calls, MutexInv
  <1> QED BY <1>2, <1>3, <1>6

(* The lock-free increment, in any state the breaker has meanwhile.        *)
LEMMA InvAllowHalfOpen ==
    ASSUME BreakerInv, NEW c \in Callers, AllowHalfOpen(c)
    PROVE  BreakerInv'
  <1> USE CallersAssumption DEF BreakerInv, BreakerTypeOK, CallerGoto
  <1>1. /\ UNCHANGED <<breakerState, failures, openedAt, breakerConfig, mutex, seenAt, now>>
        /\ callerAt[c] = "sawHalfOpen"
    BY DEF AllowHalfOpen
  <1>2. \/ /\ halfOpenCalls' = halfOpenCalls + 1
           /\ callerAt' = [callerAt EXCEPT ![c] = "calling"]
        \/ UNCHANGED halfOpenCalls /\ callerAt' = [callerAt EXCEPT ![c] = "idle"]
    BY DEF AllowHalfOpen
  <1>3. BreakerTypeOK'
    <2>1. halfOpenCalls' \in Nat
      BY <1>2
    <2>2. callerAt' \in [Callers -> CallerPc]
      BY <1>2
    <2> QED BY <1>1, <2>1, <2>2
  <1>4. MutexInv' /\ CleanInv'
    BY <1>1, <1>2 DEF MutexInv, CleanInv
  <1>5. Recovering' = Recovering
    BY <1>1, <1>2 DEF Recovering, MutexInv
  <1>6. CASE halfOpenCalls' = halfOpenCalls + 1 /\ callerAt' = [callerAt EXCEPT ![c] = "calling"]
    <2>1. Calls' = Calls + 1
      BY <1>1, <1>6, CallsAdded
    <2> QED BY <1>1, <1>3, <1>4, <1>5, <1>6, <2>1, CallsFinite DEF CountInv, Calls
  <1>7. CASE UNCHANGED halfOpenCalls /\ callerAt' = [callerAt EXCEPT ![c] = "idle"]
    <2>1. Calls' = Calls
      BY <1>1, <1>7, CallsKept
    <2> QED BY <1>1, <1>3, <1>4, <1>5, <1>7, <2>1, CallsFinite DEF CountInv, Calls
  <1> QED BY <1>2, <1>6, <1>7

(* onSuccess(): a result is reported only while nobody holds the mutex.    *)
LEMMA InvOnSuccess ==
    ASSUME BreakerInv, NEW c \in Callers, OnSuccess(c)
    PROVE  BreakerInv'
  <1> USE CallersAssumption DEF BreakerInv, BreakerTypeOK, CallerGoto
  <1> DEFINE recovered == breakerState = "HalfOpen" /\ halfOpenCalls - 1 <= 0
  <1>1. /\ UNCHANGED <<breakerState, openedAt, breakerConfig, seenAt, now>>
        /\ callerAt[c] = "calling" /\ mutex = None
    BY DEF OnSuccess
  <1>2. failures' \in {failures, <<>>}
    BY DEF OnSuccess
  <1>3. /\ breakerState = "HalfOpen" => halfOpenCalls' = halfOpenCalls - 1
        /\ breakerState # "HalfOpen" => halfOpenCalls' = halfOpenCalls
    BY DEF OnSuccess
  <1>4. \/ recovered /\ failures' = <<>> /\ mutex' = c /\ callerAt' = [callerAt EXCEPT ![c] = "close"]
        \/ ~recovered /\ mutex' = None /\ callerAt' = [callerAt EXCEPT ![c] = "idle"]
    BY DEF OnSuccess
  <1>5. breakerState = "HalfOpen" => halfOpenCalls >= 1 /\ halfOpenCalls <= Calls
    BY <1>1 DEF CountInv, Calls
  <1>6. BreakerTypeOK'
    <2>1. halfOpenCalls' \in Nat
      BY <1>3, <1>5
    <2>2. failures' \in Seq(0..MaxTime)
      <3>1. <<>> \in Seq(0..MaxTime)
        BY SeqFacts
      <3>2. failures \in Seq(0..MaxTime)
        OBVIOUS
      <3> QED BY ONLY <1>2, <3>1, <3>2
    <2> QED BY <1>1, <1>2, <1>4, <2>1, <2>2
  <1>7. MutexInv' /\ CleanInv'
    <2>1. \A d \in Callers : callerAt[d] \notin Holding
      BY <1>1 DEF MutexInv
    <2> QED BY <1>1, <1>4, <2>1 DEF MutexInv, CleanInv
  <1>8. Calls' = Calls - 1
    BY <1>1, <1>4, CallsRemoved
  <1>9. CountInv'
    <2>1. \A d \in Callers : callerAt'[d] # "count" /\ callerAt'[d] # "half"
      BY <1>1, <1>4 DEF MutexInv
    <2>2. ~Recovering'
      BY <2>1, <1>1, <1>4 DEF Recovering
    <2>3. breakerState' = "HalfOpen" => halfOpenCalls' >= 0 /\ halfOpenCalls' <= Calls'
      BY <1>1, <1>3, <1>5, <1>8, CallsFinite
    <2>4. breakerState' = "HalfOpen" /\ mutex' = None => halfOpenCalls' >= 1
      BY <1>1, <1>3, <1>4, <1>5
    <2> QED BY <2>1, <2>2, <2>3, <2>4, <1>6, <1>8, CallsFinite DEF CountInv, Calls
  <1> QED BY <1>6, <1>7, <1>9

LEMMA InvOnFailure ==
    ASSUME BreakerInv, NEW c \in Callers, OnFailure(c)
    PROVE  BreakerInv'
  <1> USE CallersAssumption DEF BreakerInv, BreakerTypeOK, CallerGoto
  <1>1. /\ UNCHANGED <<breakerState, openedAt, breakerConfig, seenAt, now>>
        /\ callerAt[c] = "calling" /\ mutex = None
    BY DEF OnFailure
  <1>2. failures' \in Seq(0..MaxTime)
    <2>1. PruneExpiredFailures /\ Append(failures, now) \in Seq(0..MaxTime)
      BY DEF OnFailure
    <2>2. PICK k \in 1..(Len(Append(failures, now)) + 1) :
              failures' = SubSeq(Append(failures, now), k, Len(Append(failures, now)))
      BY <2>1 DEF PruneExpiredFailures
    <2> QED BY <2>1, <2>2, SeqFacts
  <1>3. /\ breakerState = "HalfOpen" => halfOpenCalls' = 0
        /\ breakerState # "HalfOpen" => halfOpenCalls' = halfOpenCalls
    BY DEF OnFailure
  <1>4. \/ mutex' = c /\ callerAt' = [callerAt EXCEPT ![c] = "open"]
        \/ breakerState # "HalfOpen" /\ mutex' = None /\ callerAt' = [callerAt EXCEPT ![c] = "idle"]
    BY <1>1 DEF OnFailure
  <1>5. BreakerTypeOK'
    <2>1. halfOpenCalls' \in Nat
      BY <1>3
    <2>2. mutex' \in Callers \cup {None} /\ callerAt' \in [Callers -> CallerPc]
      BY <1>4
    <2> QED BY <1>1, <1>2, <2>1, <2>2
  <1>6. \A d \in Callers : callerAt[d] \notin Holding
    BY <1>1 DEF MutexInv
  <1>7. MutexInv' /\ CleanInv'
    BY <1>1, <1>4, <1>6 DEF MutexInv, CleanInv
  <1>8. Calls' = Calls - 1
    BY <1>1, <1>4, CallsRemoved
  <1>9. CountInv'
    <2>1. \A d \in Callers : callerAt'[d] # "count" /\ callerAt'[d] # "half"
      BY <1>1, <1>4, <1>6
    <2>2. ~Recovering'
      BY <2>1, <1>1, <1>4 DEF Recovering
    <2>3. Calls' \in Nat
      <3>1. InFlight' \subseteq Callers
        BY DEF InFlight
      <3> QED BY <3>1, FS_Subset, FS_CardinalityType DEF Calls
    <2> QED BY <1>1, <1>3, <1>4, <2>1, <2>2, <2>3 DEF CountInv, Calls
  <1> QED BY <1>5, <1>7, <1>9

LEMMA InvByHand ==
    ASSUME BreakerInv, NEW c \in Callers, Reset(c) \/ ForceOpen(c)
    PROVE  BreakerInv'
  <1> USE CallersAssumption DEF BreakerInv, BreakerTypeOK, CallerGoto
  <1>1. /\ UNCHANGED <<breakerState, openedAt, breakerConfig, seenAt, now>>
        /\ callerAt[c] = "idle" /\ mutex = None /\ mutex' = c
    BY DEF Reset, ForceOpen
  <1>2. \/ /\ failures' = <<>> /\ halfOpenCalls' = 0 /\ callerAt' = [callerAt EXCEPT ![c] = "close"]
        \/ UNCHANGED <<failures, halfOpenCalls>> /\ callerAt' = [callerAt EXCEPT ![c] = "open"]
    BY DEF Reset, ForceOpen
  <1>3. BreakerTypeOK'
    <2>1. failures' \in Seq(0..MaxTime) /\ halfOpenCalls' \in Nat
      <3>1. CASE Reset(c)
        BY <3>1, SeqFacts DEF Reset
      <3>2. CASE ForceOpen(c)
        BY <3>2 DEF ForceOpen
      <3> QED BY <3>1, <3>2
    <2>2. callerAt' \in [Callers -> CallerPc]
      BY <1>2
    <2> QED BY <1>1, <2>1, <2>2
  <1>4. \A d \in Callers : callerAt[d] \notin Holding
    BY <1>1 DEF MutexInv
  <1>5. MutexInv' /\ CleanInv'
    BY <1>1, <1>2, <1>4 DEF MutexInv, CleanInv
  <1>6. Calls' = Calls
    BY <1>1, <1>2, CallsKept
  <1>7. CountInv'
    BY <1>1, <1>2, <1>4, <1>6, CallsFinite DEF CountInv, Recovering, Calls
  <1> QED BY <1>3, <1>5, <1>7

(* transitionTo(), by the holder of the mutex.                             *)
LEMMA InvTransition ==
    ASSUME BreakerInv, NEW c \in Callers, ToHalfOpen(c) \/ ToClosed(c) \/ ToOpen(c)
    PROVE  BreakerInv'
  <1> USE CallersAssumption DEF BreakerInv, BreakerTypeOK, CallerGoto
  <1>1. UNCHANGED <<halfOpenCalls, failures, breakerConfig, seenAt, now>>
    BY DEF ToHalfOpen, ToClosed, ToOpen
  <1>2. breakerState' \in CircuitBreakerState /\ openedAt' \in 0..MaxTime
    BY DEF ToHalfOpen, ToClosed, ToOpen, TransitionTo
  <1>3. \/ /\ breakerState' = "HalfOpen" /\ callerAt[c] = "half" /\ UNCHANGED mutex
           /\ callerAt' = [callerAt EXCEPT ![c] = "count"]
        \/ /\ breakerState' \in {"Closed", "Open"} /\ callerAt[c] \in {"close", "open"} /\ mutex' = None
           /\ callerAt' = [callerAt EXCEPT ![c] = "idle"]
    BY DEF ToHalfOpen, ToClosed, ToOpen, TransitionTo
  <1>4. mutex = c
    BY <1>3 DEF MutexInv
  <1>5. BreakerTypeOK'
    BY <1>1, <1>2, <1>3
  <1>6. MutexInv' /\ CleanInv'
    BY <1>1, <1>3, <1>4 DEF MutexInv, CleanInv
  <1>7. Calls' = Calls
    BY <1>3, CallsKept
  <1>8. CountInv'
    BY <1>1, <1>3, <1>4, <1>7, CallsFinite DEF CountInv, Recovering, Calls, MutexInv
  <1> QED BY <1>5, <1>6, <1>8

LEMMA BreakerInvStep == BreakerInv /\ [BreakerNext]_circuitVars => BreakerInv'
  <1> SUFFICES ASSUME BreakerInv, [BreakerNext]_circuitVars PROVE BreakerInv'
    OBVIOUS
  <1>1. ASSUME NEW f \in Fields, NEW v \in SetterValues[f], SetBreakerConfig(f, v) PROVE BreakerInv'
    <2>1. breakerConfig' \in CircuitBreakerConfig
      BY <1>1, ConfigsAssumption DEF SetBreakerConfig, BreakerInv, BreakerTypeOK
    <2>2. UNCHANGED <<breakerState, halfOpenCalls, failures, openedAt, mutex, callerAt, seenAt, now>>
      BY <1>1 DEF SetBreakerConfig
    <2>3. BreakerTypeOK'
      BY <2>1, <2>2 DEF BreakerInv, BreakerTypeOK
    <2> QED BY <2>2, <2>3, BreakerInvKept
  <1>2. CASE BreakerTick
    <2>1. BreakerTypeOK'
      BY <1>2, TimeAssumption DEF BreakerTick, BreakerInv, BreakerTypeOK
    <2> QED BY <1>2, <2>1, BreakerInvKept DEF BreakerTick
  <1>3. CASE UNCHANGED circuitVars
    <2>1. BreakerTypeOK'
      BY <1>3 DEF circuitVars, BreakerInv, BreakerTypeOK
    <2> QED BY <1>3, <2>1, BreakerInvKept DEF circuitVars
  <1> QED
    BY <1>1, <1>2, <1>3, InvAllow, InvAllowOpen, InvAllowOpenCount, InvAllowHalfOpen,
       InvOnSuccess, InvOnFailure, InvByHand, InvTransition
    DEF BreakerNext, RequestStep

(* The invariant the other theorems on the breaker rest on.                *)
THEOREM BreakerInvCorrect == BreakerSpec => []BreakerInv
  BY BreakerInvInit, BreakerInvStep, PTL DEF BreakerSpec

(* m_halfOpenCalls never goes below zero, whatever the callers, the late   *)
(* results and reset() do.                                                 *)
THEOREM BreakerTypeCorrect == BreakerSpec => []BreakerTypeOK
  BY BreakerInvCorrect, PTL DEF BreakerInv

(* A half-open breaker always waits for a call that is really in flight,   *)
(* for any number of callers and any configuration.                        *)
THEOREM HalfOpenWaitsForProbes == BreakerSpec => []ProbesInFlight
  <1>1. BreakerInv => ProbesInFlight
    BY CallsFinite DEF BreakerInv, BreakerTypeOK, CountInv, ProbesInFlight, Calls
  <1> QED BY <1>1, BreakerInvCorrect, PTL

(* A breaker that closes has no failure recorded: only ToClosed changes    *)
(* m_state to Closed.                                                      *)
THEOREM ClosingForgetsFailures == BreakerSpec => ClosesWithCleanWindow
  <1>1. BreakerInv /\ [BreakerNext]_circuitVars => [breakerState # "Closed" /\ breakerState' = "Closed" => failures' = <<>>]_circuitVars
    <2> SUFFICES ASSUME BreakerInv, BreakerNext, breakerState # "Closed", breakerState' = "Closed"
                 PROVE  failures' = <<>>
      BY DEF circuitVars
    <2>1. PICK c \in Callers : ToClosed(c)
      BY DEF BreakerNext, RequestStep, SetBreakerConfig, BreakerTick, AllowRequest, AllowOpen, AllowOpenCount,
             AllowHalfOpen, OnSuccess, OnFailure, Reset, ForceOpen, ToHalfOpen, ToOpen,
             TransitionTo
    <2> QED BY <2>1 DEF ToClosed, BreakerInv, CleanInv
  <1> QED BY <1>1, BreakerInvCorrect, PTL DEF BreakerSpec, ClosesWithCleanWindow

(* The three together, as the run of the breaker checks them:              *)
(* allowRequest() raises m_halfOpenCalls without the mutex                 *)
(* (circuit_breaker.cpp).                                                  *)
THEOREM BreakerCorrect == BreakerSpec => BreakerSound
  BY BreakerTypeCorrect, HalfOpenWaitsForProbes, ClosingForgetsFailures, PTL DEF BreakerSound
-----------------------------------------------------------------------------
LimiterPlaces == {"idle", "time", "load", "loop", "reset", "add"}

Locals == [permits : Nat, now : Int, max : Nat, expected : Int, current : Nat]

(* The members of RateLimiter and the locals of the threads *)
LimiterTypeOK ==
    /\ clock \in Nat /\ lastRefill \in Nat /\ lastRefill <= clock
    /\ rate \in Rates /\ burst \in Nat /\ tokens \in Nat /\ taken \in Nat
    /\ windowStart \in Int /\ windowCount \in Nat /\ inWindow \in Nat
    /\ at \in [Threads -> LimiterPlaces]
    /\ local \in [Threads -> Locals]

(* Threads between the move of the window and the reset of its count *)
Resetting == {t \in Threads : at[t] = "reset"}

(* What a thread may add fits; permits given since the window was moved    *)
(* are counted, or were counted before one of the resets that have         *)
(* happened since.                                                         *)
WindowInv ==
    \A top \in Rates : TopRate(top) =>
        LET most == WholeTokens(top)
            N == Cardinality(Threads)
            R == Cardinality(Resetting)
        IN  /\ windowCount <= most
            /\ \A t \in Threads : local[t].max <= most
            /\ \A t \in Threads : at[t] = "add" => local[t].current + local[t].permits <= most
            /\ R = N => inWindow = 0
            /\ R < N => inWindow <= windowCount + most * (N - 1 - R)

LimiterInv == LimiterTypeOK /\ BucketBounded /\ WindowInv

(* A larger factor makes a larger product.                                 *)
LEMMA TimesMonotone ==
    ASSUME NEW d \in Nat, NEW a \in Nat, NEW b \in Nat, a <= b
    PROVE  d * a \in Nat /\ d * b \in Nat /\ d * a <= d * b
<1> DEFINE c == b - a
<1>1. c \in Nat /\ b = a + c
  OBVIOUS
<1>2. d * c \in Nat /\ d * a \in Nat /\ d * b \in Nat
  BY <1>1
<1>3. d * b = d * a + d * c
  BY <1>1
<1> QED
  BY <1>2, <1>3

(* Whole tokens grow with the parts and never exceed them.                 *)
LEMMA WholeTokensNat ==
    ASSUME NEW r \in Nat, NEW top \in Nat, r <= top
    PROVE  /\ WholeTokens(r) \in Nat /\ WholeTokens(r) <= WholeTokens(top)
           /\ WholeTokens(r) * Parts \in Nat /\ WholeTokens(r) * Parts <= r
BY LimiterAssumption DEF WholeTokens

(* The constructor sets every member to a value of its type.               *)
LEMMA LimiterTypeInit == LimiterInit => LimiterTypeOK
<1> SUFFICES ASSUME LimiterInit PROVE LimiterTypeOK
  OBVIOUS
<1>1. rate \in Nat /\ WholeTokens(rate) \in Nat
  BY WholeTokensNat, LimiterAssumption DEF LimiterInit
<1>2. burst \in Nat /\ Parts \in Nat
  BY <1>1, LimiterAssumption DEF LimiterInit
<1>3. burst * Parts \in Nat
  BY <1>2
<1>4. NoLocals \in Locals
  BY DEF NoLocals, Locals
<1> QED
  BY <1>2, <1>3, <1>4, LimiterAssumption DEF LimiterInit, LimiterTypeOK, LimiterPlaces

(* refillTokens() earns at most the largest rate for the time elapsed.     *)
LEMMA RefilledBounded ==
    ASSUME LimiterTypeOK, NEW top \in Rates, TopRate(top)
    PROVE  /\ Refilled \in Nat
           /\ Refilled <= tokens + (top * clock - top * lastRefill)
<1> DEFINE d == clock - lastRefill
<1>1. d \in Nat /\ clock = lastRefill + d /\ rate \in Nat /\ top \in Nat /\ rate <= top
  BY LimiterAssumption DEF LimiterTypeOK, TopRate
<1>2. d * rate \in Nat /\ d * rate <= d * top /\ d * top \in Nat
  BY <1>1, TimesMonotone
<1>3. top * clock = top * lastRefill + top * d /\ top * lastRefill \in Nat
  BY <1>1 DEF LimiterTypeOK
<1>4. top * d = d * top
  BY <1>1
<1>5. burst * Parts \in Nat
  BY LimiterAssumption DEF LimiterTypeOK
<1> HIDE DEF d
<1>6. Refilled = LeastOf(tokens + d * rate, burst * Parts)
  BY DEF Refilled, d
<1>7. tokens \in Nat /\ top * clock - top * lastRefill = d * top
  BY <1>1, <1>2, <1>3, <1>4 DEF LimiterTypeOK
<1> QED
  BY <1>2, <1>5, <1>6, <1>7 DEF LeastOf

(* Every step of the limiter keeps the types.                              *)
LEMMA LimiterTypeStep ==
    ASSUME LimiterTypeOK, [LimiterNext]_limiterVars
    PROVE  LimiterTypeOK'
<1> USE DEF LimiterTypeOK, LimiterPlaces, Locals
<1> PICK r0 \in Rates : TRUE
  BY LimiterAssumption
<1>1. /\ \A r \in Rates : r \in Nat /\ WholeTokens(r) \in Nat /\ WholeTokens(r) * Parts \in Nat
      /\ NoLocals \in Locals
  BY WholeTokensNat, LimiterAssumption DEF NoLocals
<1>2. Refilled \in Nat
  <2>1. (clock - lastRefill) * rate \in Nat
    BY <1>1
  <2>2. burst * Parts \in Nat
    BY LimiterAssumption
  <2> QED BY <2>1, <2>2 DEF Refilled, LeastOf
<1>3. CASE Tick
  BY <1>3 DEF Tick, bucketVars, windowVars
<1>4. CASE AvailablePermits
  BY <1>4, <1>2 DEF AvailablePermits, windowVars
<1>5. ASSUME NEW p \in Permits, TryAcquireTokenBucket(p) PROVE LimiterTypeOK'
  <2>1. p \in Nat /\ p * Parts \in Nat
    BY LimiterAssumption
  <2> QED BY <1>5, <1>2, <2>1 DEF TryAcquireTokenBucket, windowVars
<1>6. ASSUME NEW r \in Rates, SetPermitsPerSec(r) PROVE LimiterTypeOK'
  BY <1>6, <1>1 DEF SetPermitsPerSec, windowVars, LeastOf
<1>7. ASSUME NEW t \in Threads, WindowStep(t) PROVE LimiterTypeOK'
  <2> USE DEF bucketVars
  <2>1. ASSUME NEW p \in Permits, BeginWindow(t, p) PROVE LimiterTypeOK'
    BY <2>1, <1>1, LimiterAssumption DEF BeginWindow
  <2>2. CASE ReadTime(t)
    BY <2>2 DEF ReadTime
  <2>3. CASE LoadStart(t)
    BY <2>3 DEF LoadStart
  <2>4. CASE MoveWindow(t)
    BY <2>4 DEF MoveWindow
  <2>5. CASE ResetCount(t)
    BY <2>5 DEF ResetCount
  <2>6. CASE LoadCount(t)
    BY <2>6, <1>1 DEF LoadCount
  <2>7. CASE AddCount(t)
    BY <2>7, <1>1 DEF AddCount
  <2> QED
    BY <1>7, <2>1, <2>2, <2>3, <2>4, <2>5, <2>6, <2>7 DEF WindowStep
<1>8. CASE UNCHANGED limiterVars
  BY <1>8 DEF limiterVars
<1> QED
  BY <1>3, <1>4, <1>5, <1>6, <1>7, <1>8 DEF LimiterNext

(* The bucket starts with no more than a burst.                            *)
LEMMA BucketInit == LimiterInit => BucketBounded
<1> SUFFICES ASSUME LimiterInit, NEW top \in Rates, NEW most \in Bursts,
                    TopRate(top), TopBurst(most)
             PROVE  taken * Parts + tokens <= GreatestOf(most * Parts, top) + top * lastRefill
  BY DEF BucketBounded
<1>1. rate \in Nat /\ top \in Nat /\ most \in Nat /\ rate <= top /\ Parts \in Nat
  BY LimiterAssumption DEF LimiterInit, TopRate
<1>2. PICK b \in Bursts : burst = IF b > 0 THEN b ELSE WholeTokens(rate)
  BY DEF LimiterInit
<1>3. b \in Nat /\ b <= most
  BY <1>2, LimiterAssumption DEF TopBurst
<1>4. Parts * b <= Parts * most /\ Parts * b \in Nat /\ Parts * most \in Nat
  BY <1>1, <1>3, TimesMonotone
<1>5. Parts * b = b * Parts /\ Parts * most = most * Parts
  BY <1>1, <1>3
<1>6. WholeTokens(rate) * Parts <= rate /\ WholeTokens(rate) * Parts \in Nat
  BY <1>1, WholeTokensNat
<1>7. tokens <= GreatestOf(most * Parts, top) /\ tokens \in Nat
  BY <1>1, <1>2, <1>4, <1>5, <1>6 DEF LimiterInit, GreatestOf
<1>8. taken * Parts = 0 /\ top * lastRefill = 0 /\ GreatestOf(most * Parts, top) \in Nat
  BY <1>1, <1>4, <1>5 DEF LimiterInit, GreatestOf
<1> QED
  BY <1>7, <1>8

(* What was taken and what is left never outgrows what was earned.         *)
LEMMA BucketStep ==
    ASSUME LimiterTypeOK, BucketBounded, [LimiterNext]_limiterVars
    PROVE  BucketBounded'
<1> SUFFICES ASSUME NEW top \in Rates, NEW most \in Bursts, TopRate(top), TopBurst(most)
             PROVE  taken' * Parts + tokens' <= GreatestOf(most * Parts, top) + top * lastRefill'
  BY DEF BucketBounded, TopRate, TopBurst
<1> DEFINE cap == GreatestOf(most * Parts, top)
<1>1. taken * Parts + tokens <= cap + top * lastRefill
  BY DEF BucketBounded
<1>2. /\ taken \in Nat /\ tokens \in Nat /\ Parts \in Nat /\ taken * Parts \in Nat
      /\ top \in Nat /\ top * clock \in Nat /\ top * lastRefill \in Nat /\ cap \in Nat
  BY LimiterAssumption DEF LimiterTypeOK, GreatestOf
<1>3. /\ Refilled \in Nat
      /\ Refilled <= tokens + (top * clock - top * lastRefill)
  BY RefilledBounded
<1>4. taken * Parts + Refilled <= cap + top * clock
  <2> HIDE DEF cap
  <2> QED BY <1>1, <1>2, <1>3
<1> HIDE DEF cap
<1>5. SUFFICES taken' * Parts + tokens' <= cap + top * lastRefill'
  BY DEF cap
<1>6. CASE AvailablePermits
  BY <1>6, <1>4 DEF AvailablePermits
<1>7. ASSUME NEW p \in Permits, TryAcquireTokenBucket(p)
      PROVE  taken' * Parts + tokens' <= cap + top * lastRefill'
  <2>1. p \in Nat /\ p * Parts \in Nat /\ (taken + p) * Parts = taken * Parts + p * Parts
    BY <1>2, LimiterAssumption
  <2>2. CASE Refilled >= p * Parts
    <3>1. taken' = taken + p /\ tokens' = Refilled - p * Parts /\ lastRefill' = clock
      BY <1>7, <2>2 DEF TryAcquireTokenBucket
    <3> QED BY <3>1, <2>1, <1>2, <1>3, <1>4
  <2>3. CASE ~(Refilled >= p * Parts)
    BY <1>7, <2>3, <1>4 DEF TryAcquireTokenBucket
  <2> QED BY <2>2, <2>3
<1>8. ASSUME NEW r \in Rates, SetPermitsPerSec(r)
      PROVE  taken' * Parts + tokens' <= cap + top * lastRefill'
  <2>1. WholeTokens(r) * Parts \in Nat
    BY WholeTokensNat, LimiterAssumption
  <2>2. tokens' \in Nat /\ tokens' <= tokens /\ taken' = taken /\ lastRefill' = lastRefill
    BY <1>8, <1>2, <2>1 DEF SetPermitsPerSec, LeastOf
  <2> QED BY <2>2, <1>1, <1>2
<1>9. CASE UNCHANGED bucketVars
  BY <1>9, <1>1 DEF bucketVars
<1>10. CASE Tick
  BY <1>9, <1>10 DEF Tick
<1>11. ASSUME NEW t \in Threads, WindowStep(t) PROVE UNCHANGED bucketVars
  BY <1>11 DEF WindowStep, BeginWindow, ReadTime, LoadStart, MoveWindow, ResetCount,
               LoadCount, AddCount
<1>12. CASE UNCHANGED limiterVars
  BY <1>9, <1>12 DEF limiterVars, bucketVars
<1> QED
  BY <1>6, <1>7, <1>8, <1>9, <1>10, <1>11, <1>12 DEF LimiterNext

(* The threads about to reset the count are among all threads.             *)
LEMMA ResettingFinite ==
    LET R == Cardinality(Resetting)
        N == Cardinality(Threads)
    IN  /\ IsFiniteSet(Resetting) /\ R \in Nat /\ N \in Nat /\ R <= N
        /\ R = N => Resetting = Threads
BY FS_Subset, FS_CardinalityType, LimiterAssumption DEF Resetting

(* At the start nothing was admitted.                                      *)
LEMMA WindowInitially == LimiterInit => WindowInv
<1> SUFFICES ASSUME LimiterInit, NEW top \in Rates, TopRate(top)
             PROVE  LET most == WholeTokens(top)
                        N == Cardinality(Threads)
                        R == Cardinality(Resetting)
                    IN  /\ windowCount <= most
                        /\ \A t \in Threads : local[t].max <= most
                        /\ \A t \in Threads : at[t] = "add" => local[t].current + local[t].permits <= most
                        /\ R = N => inWindow = 0
                        /\ R < N => inWindow <= windowCount + most * (N - 1 - R)
  BY DEF WindowInv
<1>1. WholeTokens(top) \in Nat
  BY WholeTokensNat, LimiterAssumption
<1>2. ASSUME Cardinality(Resetting) < Cardinality(Threads)
      PROVE  WholeTokens(top) * (Cardinality(Threads) - 1 - Cardinality(Resetting)) \in Nat
  <2>1. Cardinality(Threads) - 1 - Cardinality(Resetting) \in Nat
    BY <1>2, ResettingFinite
  <2> QED BY <1>1, <2>1
<1>3. /\ windowCount = 0 /\ inWindow = 0
      /\ \A t \in Threads : at[t] = "idle" /\ local[t].max = 0
  BY DEF LimiterInit, NoLocals
<1> QED BY <1>1, <1>2, <1>3

(* Moving the window, resetting the count and adding to it, in any order   *)
(* of the threads, keep the account of the permits admitted.               *)
LEMMA WindowStepKeeps ==
    ASSUME LimiterTypeOK, LimiterTypeOK', WindowInv, [LimiterNext]_limiterVars
    PROVE  WindowInv'
<1> SUFFICES ASSUME NEW top \in Rates, TopRate(top)
             PROVE  LET most == WholeTokens(top)
                        N == Cardinality(Threads)
                        R == Cardinality(Resetting')
                    IN  /\ windowCount' <= most
                        /\ \A t \in Threads : local'[t].max <= most
                        /\ \A t \in Threads : at'[t] = "add" => local'[t].current + local'[t].permits <= most
                        /\ R = N => inWindow' = 0
                        /\ R < N => inWindow' <= windowCount' + most * (N - 1 - R)
  BY DEF WindowInv, TopRate
<1> DEFINE most == WholeTokens(top)
           N == Cardinality(Threads)
           R == Cardinality(Resetting)
           Fits == /\ windowCount <= most
                   /\ \A t \in Threads : local[t].max <= most
                   /\ \A t \in Threads : at[t] = "add" =>
                         local[t].current + local[t].permits <= most
           Counted == /\ R = N => inWindow = 0
                      /\ R < N => inWindow <= windowCount + most * (N - 1 - R)
<1>1. Fits /\ Counted
  BY DEF WindowInv
<1>2. most \in Nat /\ N \in Nat /\ R \in Nat /\ R <= N /\ IsFiniteSet(Resetting)
  BY WholeTokensNat, ResettingFinite, LimiterAssumption
<1>3. WholeTokens(rate) <= most /\ WholeTokens(rate) \in Nat
  BY WholeTokensNat, LimiterAssumption DEF LimiterTypeOK, TopRate
<1>4. SUFFICES Fits' /\ Counted'
  BY DEF WholeTokens
<1> HIDE DEF most, N
<1>5. most' = most /\ N' = N
  BY DEF most, N, WholeTokens
<1> USE DEF LimiterTypeOK, LimiterPlaces, Locals
<1>6. ASSUME UNCHANGED <<windowCount, inWindow>>, Resetting' = Resetting
      PROVE  Counted'
  BY <1>1, <1>5, <1>6
<1>7. ASSUME NEW t \in Threads, WindowStep(t) PROVE Fits' /\ Counted'
  <2>1. ASSUME NEW p \in Permits, BeginWindow(t, p) PROVE Fits' /\ Counted'
    <3>1. Resetting' = Resetting
      BY <2>1 DEF BeginWindow, Resetting
    <3>2. Fits'
      BY <2>1, <1>1, <1>3, <1>5 DEF BeginWindow
    <3> QED BY <2>1, <3>1, <3>2, <1>6 DEF BeginWindow
  <2>2. CASE ReadTime(t)
    <3>1. Resetting' = Resetting
      BY <2>2 DEF ReadTime, Resetting
    <3>2. Fits'
      BY <2>2, <1>1, <1>5 DEF ReadTime
    <3> QED BY <2>2, <3>1, <3>2, <1>6 DEF ReadTime
  <2>3. CASE LoadStart(t)
    <3>1. Resetting' = Resetting
      BY <2>3 DEF LoadStart, Resetting
    <3>2. Fits'
      BY <2>3, <1>1, <1>5 DEF LoadStart
    <3> QED BY <2>3, <3>1, <3>2, <1>6 DEF LoadStart
  <2>4. CASE MoveWindow(t)
    <3>1. Fits'
      BY <2>4, <1>1, <1>5 DEF MoveWindow
    <3>2. CASE windowStart = local[t].expected
      <4>1. inWindow' = 0 /\ windowCount' = windowCount
        BY <2>4, <3>2 DEF MoveWindow
      <4>2. Resetting' \subseteq Threads
        BY DEF Resetting
      <4>3. Cardinality(Resetting') \in Nat /\ Cardinality(Resetting') <= N
        BY <4>2, FS_Subset, FS_CardinalityType, LimiterAssumption DEF N
      <4>4. ASSUME Cardinality(Resetting') < N
            PROVE  most * (N - 1 - Cardinality(Resetting')) \in Nat
        <5>1. N - 1 - Cardinality(Resetting') \in Nat
          BY <4>3, <4>4, <1>2
        <5> QED BY <5>1, <1>2
      <4> QED BY <4>1, <4>4, <3>1, <1>5
    <3>3. CASE windowStart # local[t].expected
      <4>1. Resetting' = Resetting
        BY <2>4, <3>3 DEF MoveWindow, Resetting
      <4> QED BY <2>4, <3>3, <4>1, <3>1, <1>6 DEF MoveWindow
    <3> QED BY <3>2, <3>3
  <2>5. CASE ResetCount(t)
    <3>1. Fits'
      BY <2>5, <1>1, <1>2, <1>5 DEF ResetCount
    <3>2. Resetting' = Resetting \ {t} /\ t \in Resetting
      BY <2>5 DEF ResetCount, Resetting
    <3>3. Cardinality(Resetting') = R - 1 /\ R > 0
      BY <3>2, <1>2, FS_RemoveElement, FS_EmptySet
    <3>4. windowCount' = 0 /\ inWindow' = inWindow
      BY <2>5 DEF ResetCount
    <3>5. inWindow <= most * (N - R)
      <4>1. CASE R = N
        <5>1. inWindow = 0 /\ N - R = 0
          BY <4>1, <1>1, <1>2
        <5>2. most * 0 = 0
          BY <1>2
        <5> QED BY <5>1, <5>2
      <4>2. CASE R < N
        <5> DEFINE k == N - 1 - R
        <5>1. k \in Nat /\ N - R = k + 1
          BY <4>2, <1>2
        <5>2. most * (k + 1) = most * k + most /\ most * k \in Nat
          BY <5>1, <1>2
        <5>3. inWindow <= windowCount + most * k /\ windowCount <= most
          BY <4>2, <1>1
        <5> HIDE DEF k
        <5>4. inWindow <= most * (k + 1)
          BY <5>2, <5>3, <1>2
        <5> QED BY <5>1, <5>4
      <4>3. R = N \/ R < N
        BY <1>2
      <4> QED BY <4>1, <4>2, <4>3
    <3>6. N - 1 - Cardinality(Resetting') = N - R
      BY <3>3, <1>2
    <3>7. Cardinality(Resetting') # N
      BY <3>3, <1>2
    <3> QED BY <3>1, <3>4, <3>5, <3>6, <3>7, <1>2, <1>5
  <2>6. CASE LoadCount(t)
    <3>1. Resetting' = Resetting
      BY <2>6 DEF LoadCount, Resetting
    <3>2. Fits'
      BY <2>6, <1>1, <1>2, <1>5 DEF LoadCount, NoLocals
    <3> QED BY <2>6, <3>1, <3>2, <1>6 DEF LoadCount
  <2>7. CASE AddCount(t)
    <3>1. Resetting' = Resetting /\ Resetting # Threads
      BY <2>7 DEF AddCount, Resetting
    <3>2. R < N
      BY <3>1, <1>2, ResettingFinite DEF N
    <3>3. Fits'
      BY <2>7, <1>1, <1>2, <1>5 DEF AddCount, NoLocals
    <3>4. CASE UNCHANGED <<windowCount, inWindow>>
      BY <3>1, <3>3, <3>4, <1>6
    <3>5. CASE /\ windowCount' = windowCount + local[t].permits
               /\ inWindow' = inWindow + local[t].permits
      <4>1. local[t].permits \in Nat /\ windowCount \in Nat /\ inWindow \in Nat
        OBVIOUS
      <4>2. most * (N - 1 - R) \in Int
        BY <1>2
      <4>3. inWindow <= windowCount + most * (N - 1 - R)
        BY <3>2, <1>1
      <4>4. inWindow' <= windowCount' + most * (N - 1 - R)
        BY <3>5, <4>1, <4>2, <4>3
      <4> QED BY <3>1, <3>2, <3>3, <4>4, <1>2, <1>5
    <3> QED BY <2>7, <3>4, <3>5 DEF AddCount
  <2> QED
    BY <1>7, <2>1, <2>2, <2>3, <2>4, <2>5, <2>6, <2>7 DEF WindowStep
<1>8. CASE UNCHANGED windowVars
  <2>1. Resetting' = Resetting
    BY <1>8 DEF windowVars, Resetting
  <2>2. Fits'
    BY <1>8, <1>1, <1>5 DEF windowVars
  <2> QED BY <1>8, <2>1, <2>2, <1>6 DEF windowVars
<1> QED
  BY <1>7, <1>8 DEF LimiterNext, limiterVars, Tick, AvailablePermits, TryAcquireTokenBucket,
                    SetPermitsPerSec, windowVars

(* The account bounds what one window admits.                              *)
LEMMA WindowInvBounds == LimiterTypeOK /\ WindowInv => WindowBounded
<1> SUFFICES ASSUME LimiterTypeOK, WindowInv, NEW top \in Rates, TopRate(top)
             PROVE  inWindow <= WholeTokens(top) * Cardinality(Threads)
  BY DEF WindowBounded
<1> DEFINE most == WholeTokens(top)
           N == Cardinality(Threads)
           R == Cardinality(Resetting)
<1>1. most \in Nat /\ N \in Nat /\ R \in Nat /\ R <= N
  BY WholeTokensNat, ResettingFinite, LimiterAssumption
<1>2. /\ windowCount <= most
      /\ R = N => inWindow = 0
      /\ R < N => inWindow <= windowCount + most * (N - 1 - R)
  BY DEF WindowInv
<1> HIDE DEF most, N, R
<1>3. most * N \in Nat
  BY <1>1
<1>4. CASE R < N
  <2>1. N - 1 - R \in Nat /\ N - 1 \in Nat /\ N - 1 - R <= N - 1
    BY <1>1, <1>4
  <2>2. most * (N - 1 - R) \in Nat /\ most * (N - 1 - R) <= most * (N - 1) /\ most * (N - 1) \in Nat
    BY <2>1, <1>1, TimesMonotone
  <2>3. most * N = most * (N - 1) + most
    BY <1>1
  <2> QED BY <2>2, <2>3, <1>1, <1>2, <1>4 DEF LimiterTypeOK, most, N
<1> QED BY <1>1, <1>2, <1>3, <1>4 DEF most, N

(* For any number of threads, rates, bursts and requests, and however the  *)
(* rate changes: the bucket hands out no more than its largest burst and   *)
(* what the time earned, and a window admits no more than its permits for  *)
(* each thread (rate_limiter.cpp, tryAcquireTokenBucket() and              *)
(* tryAcquireSlidingWindow()).                                             *)
THEOREM LimitersCorrect == LimiterSpec => []LimitersSound
<1>1. LimiterInit => LimiterInv
  BY LimiterTypeInit, BucketInit, WindowInitially DEF LimiterInv
<1>2. LimiterInv /\ [LimiterNext]_limiterVars => LimiterInv'
  BY LimiterTypeStep, BucketStep, WindowStepKeeps DEF LimiterInv
<1>3. LimiterInv => LimitersSound
  BY WindowInvBounds DEF LimiterInv, LimitersSound
<1> QED
  BY <1>1, <1>2, <1>3, PTL DEF LimiterSpec

-----------------------------------------------------------------------------
HIDE DEF CircuitBreakerState, Fields, CircuitBreakerConfig, Holding, CallerPc,
         breakerVars, callerVars

(* ConnectionPool and ConnectionManager                                    *)
USE DEF ClientPc, poolVars, userVars

PoolInv == PoolTypeOK /\ HeldInv /\ SlotsPresent /\ OneEntry /\ ExclusiveUse /\ NoLeakedEntry

LEMMA CachedDef == \A k : k \in Cached <=> \E u \in Urls : k \in cached[u]
  BY DEF Cached

LEMMA OutsideDef == \A k : k \in Outside <=> k \in detached \/ \E c \in Clients : held[c] = k
  BY DEF Outside

(* notify_one() moves nobody but a waiter.                                 *)
LEMMA NotifyMoves ==
    ASSUME PoolTypeOK, NEW c \in Clients, NEW p \in ClientPc, clientPc[c] # "waiting", GotoAndNotify(c, p)
    PROVE  /\ clientPc' \in [Clients -> ClientPc]
           /\ clientPc'[c] = p
           /\ \A d \in Clients : d # c =>
                 clientPc'[d] = clientPc[d] \/ (clientPc[d] = "waiting" /\ clientPc'[d] = "woken")
  <1>1. CASE Goto(c, p)
    BY <1>1 DEF PoolTypeOK, Goto
  <1>2. ASSUME NEW w \in Waiting, clientPc' = [clientPc EXCEPT ![c] = p, ![w] = "woken"]
        PROVE  /\ clientPc' \in [Clients -> ClientPc]
               /\ clientPc'[c] = p
               /\ \A d \in Clients : d # c =>
                     clientPc'[d] = clientPc[d] \/ (clientPc[d] = "waiting" /\ clientPc'[d] = "woken")
    BY <1>2 DEF PoolTypeOK, Waiting
  <1> QED BY <1>1, <1>2 DEF GotoAndNotify

LEMMA PoolInvInit == PoolInit => PoolInv
  <1> SUFFICES ASSUME PoolInit PROVE PoolInv
    OBVIOUS
  <1>1. PoolTypeOK /\ HeldInv /\ SlotsPresent /\ OneEntry /\ ExclusiveUse
    BY LimitsAssumption DEF PoolInit, PoolTypeOK, HeldInv, SlotsPresent, OneEntry, ExclusiveUse
  <1>2. Cached = {}
    BY CachedDef DEF PoolInit
  <1>3. NoLeakedEntry
    BY <1>2 DEF PoolInit, NoLeakedEntry
  <1> QED BY <1>1, <1>3 DEF PoolInv

(* Nobody gains or loses a connection or an entry.                         *)
LEMMA PoolInvKept ==
    ASSUME PoolInv, PoolTypeOK', UNCHANGED <<cached, busy, held, detached>>,
           \A c \in Clients : clientPc'[c] = "using" <=> clientPc[c] = "using",
           \A c \in slots' : clientPc'[c] = "connecting" /\ url'[c] \in present'
    PROVE  PoolInv'
  <1>1. Cached' = Cached /\ Outside' = Outside
    BY DEF Cached, Outside
  <1>2. HeldInv' /\ SlotsPresent' /\ OneEntry' /\ ExclusiveUse'
    BY DEF PoolInv, HeldInv, SlotsPresent, OneEntry, ExclusiveUse
  <1>3. NoLeakedEntry'
    BY <1>1 DEF PoolInv, NoLeakedEntry
  <1> QED BY <1>2, <1>3 DEF PoolInv

(* An idle entry is handed out, at once or to a woken waiter.              *)
LEMMA InvHandOut ==
    ASSUME PoolInv, PoolTypeOK', NEW c \in Clients, NEW k \in Cached, k \notin busy,
           clientPc[c] \notin {"using", "connecting"},
           busy' = busy \cup {k}, held' = [held EXCEPT ![c] = k],
           clientPc' = [clientPc EXCEPT ![c] = "using"], UNCHANGED <<present, cached, slots, detached>>,
           \A d \in Clients : d # c => url'[d] = url[d]
    PROVE  PoolInv'
  <1> USE NoneAssumption DEF PoolInv, PoolTypeOK
  <1>1. k \notin Outside /\ k \in Conns
    BY CachedDef DEF NoLeakedEntry
  <1>2. Cached' = Cached
    BY DEF Cached
  <1>3. held[c] = NoConn
    BY DEF HeldInv
  <1>4. Outside' \subseteq Outside \cup {k} /\ k \in Outside'
    BY OutsideDef DEF Outside
  <1>5. \A x \in Conns : x \in Outside => x \in Outside'
    BY <1>3 DEF Outside
  <1>6. HeldInv' /\ SlotsPresent' /\ OneEntry'
    BY <1>1 DEF HeldInv, SlotsPresent, OneEntry, NoLeakedEntry
  <1>7. ExclusiveUse'
    BY <1>1, OutsideDef DEF ExclusiveUse
  <1>8. NoLeakedEntry'
    <2>1. Cached \subseteq Conns
      BY CachedDef
    <2> QED BY <1>2, <1>4, <1>5, <2>1 DEF NoLeakedEntry
  <1> QED BY <1>6, <1>7, <1>8

LEMMA InvAcquire ==
    ASSUME PoolInv, NEW c \in Clients, NEW u \in Urls,
           AcquireIdle(c, u) \/ AcquireWait(c, u) \/ AcquireReserve(c, u)
    PROVE  PoolInv'
  <1>1. CASE AcquireIdle(c, u)
    <2>1. PICK k \in Idle(u) : busy' = busy \cup {k} /\ held' = [held EXCEPT ![c] = k]
      BY <1>1 DEF AcquireIdle
    <2>2. k \in Cached /\ k \notin busy /\ k \in Conns
      BY CachedDef DEF Idle, PoolInv, PoolTypeOK
    <2>3. PoolTypeOK'
      BY <1>1, <2>1, <2>2 DEF PoolInv, PoolTypeOK, AcquireIdle, Goto
    <2> QED BY <1>1, <2>1, <2>2, <2>3, InvHandOut DEF AcquireIdle, Goto, PoolInv, PoolTypeOK
  <1>2. CASE AcquireWait(c, u) \/ AcquireReserve(c, u)
    <2>1. PoolTypeOK'
      BY <1>2 DEF PoolInv, PoolTypeOK, AcquireWait, AcquireReserve, Goto
    <2>2. UNCHANGED <<cached, busy, held, detached>>
      BY <1>2 DEF AcquireWait, AcquireReserve
    <2>3. \A d \in Clients : clientPc'[d] = "using" <=> clientPc[d] = "using"
      BY <1>2 DEF PoolInv, PoolTypeOK, AcquireWait, AcquireReserve, Goto
    <2>4. \A d \in slots' : clientPc'[d] = "connecting" /\ url'[d] \in present'
      BY <1>2 DEF PoolInv, PoolTypeOK, NoLeakedEntry, SlotsPresent, AcquireWait, AcquireReserve, Goto
    <2> QED BY <2>1, <2>2, <2>3, <2>4, PoolInvKept
  <1> QED BY <1>1, <1>2

LEMMA InvWait ==
    ASSUME PoolInv, NEW c \in Clients,
           WaitTimeout(c) \/ SpuriousWakeup(c) \/ RetryIdle(c) \/ RetryFail(c)
    PROVE  PoolInv'
  <1>1. CASE RetryIdle(c)
    <2>1. PICK k \in Idle(url[c]) : busy' = busy \cup {k} /\ held' = [held EXCEPT ![c] = k]
      BY <1>1 DEF RetryIdle
    <2>2. k \in Cached /\ k \notin busy /\ k \in Conns
      BY CachedDef DEF Idle, PoolInv, PoolTypeOK
    <2>3. PoolTypeOK'
      BY <1>1, <2>1, <2>2 DEF PoolInv, PoolTypeOK, RetryIdle, Goto
    <2> QED BY <1>1, <2>1, <2>2, <2>3, InvHandOut DEF RetryIdle, Goto
  <1>2. CASE WaitTimeout(c) \/ SpuriousWakeup(c) \/ RetryFail(c)
    <2>1. PoolTypeOK'
      BY <1>2 DEF PoolInv, PoolTypeOK, WaitTimeout, SpuriousWakeup, RetryFail, Goto
    <2>2. UNCHANGED <<cached, busy, held, detached>>
      BY <1>2 DEF WaitTimeout, SpuriousWakeup, RetryFail
    <2>3. \A d \in Clients : clientPc'[d] = "using" <=> clientPc[d] = "using"
      BY <1>2 DEF PoolInv, PoolTypeOK, WaitTimeout, SpuriousWakeup, RetryFail, Goto
    <2>4. \A d \in slots' : clientPc'[d] = "connecting" /\ url'[d] \in present'
      BY <1>2 DEF PoolInv, PoolTypeOK, NoLeakedEntry, SlotsPresent, WaitTimeout, SpuriousWakeup, RetryFail, Goto
    <2> QED BY <2>1, <2>2, <2>3, <2>4, PoolInvKept
  <1> QED BY <1>1, <1>2

(* A placeholder disappears, and no other than one of the same URL.        *)
LEMMA SlotTaken ==
    ASSUME PoolTypeOK, NEW c \in Clients, TakeSlot(c)
    PROVE  slots' \subseteq slots /\ c \notin slots'
  BY DEF PoolTypeOK, TakeSlot, SlotsOf

(* A new connection is handed to the client that made it.                  *)
LEMMA InvConnect ==
    ASSUME PoolInv, NEW c \in Clients, NEW k \in Fresh, ConnectCached(c, k) \/ ConnectUncached(c, k)
    PROVE  PoolInv'
  <1> USE NoneAssumption DEF PoolInv, PoolTypeOK
  <1>1. k \in Conns /\ k \notin Cached /\ k \notin Outside
    BY DEF Fresh
  <1>2. /\ clientPc[c] = "connecting" /\ clientPc' = [clientPc EXCEPT ![c] = "using"]
        /\ held' = [held EXCEPT ![c] = k]
        /\ UNCHANGED <<present, maxConn, url, detached>>
    BY DEF ConnectCached, ConnectUncached, Goto
  <1>3. slots' \subseteq slots /\ c \notin slots'
    BY SlotTaken DEF ConnectCached, ConnectUncached, SlotsPresent
  <1>4. \/ busy' = busy \cup {k} /\ cached' = [cached EXCEPT ![url[c]] = @ \cup {k}]
        \/ UNCHANGED <<busy, cached>>
    BY DEF ConnectCached, ConnectUncached
  <1>5. connected' \in SUBSET Conns
    BY <1>1 DEF ConnectCached, ConnectUncached
  <1>6. PoolTypeOK'
    BY <1>1, <1>2, <1>3, <1>4, <1>5
  <1>7. held[c] = NoConn
    BY <1>2 DEF HeldInv
  <1>8. \A x \in Conns : x \in Outside' <=> x \in Outside \/ x = k
    BY <1>2, <1>7 DEF Outside
  <1>9. \/ busy' = busy \cup {k} /\ Cached' = Cached \cup {k}
        \/ busy' = busy /\ Cached' = Cached
    <2>1. CASE busy' = busy \cup {k} /\ cached' = [cached EXCEPT ![url[c]] = @ \cup {k}]
      <3>1. \A x : x \in Cached' <=> \E u \in Urls : x \in cached'[u]
        BY DEF Cached
      <3>2. \A x : x \in Cached' <=> x \in Cached \/ x = k
        BY <2>1, <3>1, CachedDef
      <3> QED BY <2>1, <3>2
    <2>2. CASE UNCHANGED <<busy, cached>>
      BY <2>2 DEF Cached
    <2> QED BY <1>4, <2>1, <2>2
  <1>10. Cached \subseteq Conns
    BY CachedDef
  <1>11. NoLeakedEntry'
    BY <1>1, <1>2, <1>3, <1>8, <1>9, <1>10 DEF NoLeakedEntry
  <1>12. HeldInv' /\ SlotsPresent'
    BY <1>1, <1>2, <1>3 DEF HeldInv, SlotsPresent
  <1>13. OneEntry'
    BY <1>1, <1>4, CachedDef DEF OneEntry
  <1>14. ExclusiveUse'
    BY <1>1, <1>2, OutsideDef DEF ExclusiveUse
  <1> QED BY <1>6, <1>11, <1>12, <1>13, <1>14

LEMMA InvConnectFail ==
    ASSUME PoolInv, NEW c \in Clients, ConnectFail(c)
    PROVE  PoolInv'
  <1>1. slots' \subseteq slots /\ c \notin slots'
    BY SlotTaken DEF ConnectFail, PoolInv, SlotsPresent
  <1>2. /\ clientPc' \in [Clients -> ClientPc]
        /\ clientPc'[c] = "idle" /\ clientPc[c] = "connecting"
        /\ \A d \in Clients : d # c =>
              clientPc'[d] = clientPc[d] \/ (clientPc[d] = "waiting" /\ clientPc'[d] = "woken")
    BY NotifyMoves DEF ConnectFail, PoolInv
  <1>3. UNCHANGED <<present, cached, busy, maxConn, connected, url, held, detached>>
    BY DEF ConnectFail
  <1>4. PoolTypeOK'
    BY <1>1, <1>2, <1>3 DEF PoolInv, PoolTypeOK
  <1>5. \A d \in Clients : clientPc'[d] = "using" <=> clientPc[d] = "using"
    BY <1>2
  <1>6. \A d \in slots' : clientPc'[d] = "connecting" /\ url'[d] \in present'
    BY <1>1, <1>2, <1>3 DEF PoolInv, PoolTypeOK, NoLeakedEntry, SlotsPresent
  <1> QED BY <1>3, <1>4, <1>5, <1>6, PoolInvKept

(* release() of a guard or by hand: an entry of the pool becomes idle, a   *)
(* connection the pool does not know is dropped.                           *)
LEMMA InvRelease ==
    ASSUME PoolInv, NEW c \in Clients, Release(c)
    PROVE  PoolInv'
  <1> USE NoneAssumption DEF PoolInv, PoolTypeOK
  <1>1. /\ clientPc' \in [Clients -> ClientPc]
        /\ clientPc'[c] = "idle" /\ clientPc[c] = "using"
        /\ \A d \in Clients : d # c =>
              clientPc'[d] = clientPc[d] \/ (clientPc[d] = "waiting" /\ clientPc'[d] = "woken")
    <2>1. clientPc[c] = "using" /\ (Goto(c, "idle") \/ GotoAndNotify(c, "idle"))
      BY DEF Release
    <2>2. CASE Goto(c, "idle")
      BY <2>1, <2>2 DEF Goto
    <2>3. CASE GotoAndNotify(c, "idle")
      BY <2>1, <2>3, NotifyMoves
    <2> QED BY <2>1, <2>2, <2>3
  <1>2. /\ held' = [held EXCEPT ![c] = NoConn]
        /\ UNCHANGED <<present, cached, slots, maxConn, connected, url, detached>>
    BY DEF Release
  <1>3. \/ held[c] \in Cached /\ busy' = busy \ {held[c]}
        \/ held[c] \notin Cached /\ busy' = busy
    BY DEF Release
  <1>4. PoolTypeOK'
    BY <1>1, <1>2, <1>3
  <1>5. held[c] # NoConn /\ held[c] \in Conns
    BY <1>1 DEF HeldInv
  <1>6. Cached' = Cached /\ Cached \subseteq Conns
    BY <1>2, CachedDef DEF Cached
  <1>7. \A x \in Conns : x \in Outside' <=> x \in Outside /\ x # held[c]
    BY <1>2, <1>5 DEF Outside, ExclusiveUse
  <1>8. NoLeakedEntry'
    BY <1>1, <1>2, <1>3, <1>6, <1>7 DEF NoLeakedEntry
  <1>9. HeldInv' /\ SlotsPresent' /\ OneEntry'
    BY <1>1, <1>2 DEF HeldInv, SlotsPresent, OneEntry
  <1>10. ExclusiveUse'
    BY <1>2 DEF ExclusiveUse
  <1> QED BY <1>4, <1>8, <1>9, <1>10

LEMMA InvGuardRelease ==
    ASSUME PoolInv, NEW c \in Clients, GuardRelease(c)
    PROVE  PoolInv'
  <1> USE NoneAssumption DEF PoolInv, PoolTypeOK
  <1>1. /\ clientPc[c] = "using" /\ clientPc' = [clientPc EXCEPT ![c] = "idle"]
        /\ detached' = detached \cup {held[c]} /\ held' = [held EXCEPT ![c] = NoConn]
        /\ UNCHANGED <<present, cached, busy, slots, maxConn, connected, url>>
    BY DEF GuardRelease, Goto
  <1>2. held[c] # NoConn /\ held[c] \in Conns
    BY <1>1 DEF HeldInv
  <1>3. PoolTypeOK'
    BY <1>1, <1>2
  <1>4. Cached' = Cached /\ Cached \subseteq Conns
    BY <1>1, CachedDef DEF Cached
  <1>5. \A x \in Conns : x \in Outside' <=> x \in Outside
    BY <1>1, <1>2 DEF Outside
  <1>6. NoLeakedEntry'
    BY <1>1, <1>4, <1>5 DEF NoLeakedEntry
  <1>7. HeldInv' /\ SlotsPresent' /\ OneEntry'
    BY <1>1 DEF HeldInv, SlotsPresent, OneEntry
  <1>8. ExclusiveUse'
    BY <1>1, <1>2 DEF ExclusiveUse
  <1> QED BY <1>3, <1>6, <1>7, <1>8

(* closeAll() and cleanupIdleConnections() only remove entries.            *)
LEMMA InvRemove ==
    ASSUME PoolInv, (\E c \in Clients : CloseAll(c)) \/ CleanupIdleConnections
    PROVE  PoolInv'
  <1> USE DEF PoolInv, PoolTypeOK
  <1>1. CASE \E c \in Clients : CloseAll(c)
    <2>1. /\ present' = {} /\ busy' = {} /\ slots' = {} /\ cached' = [u \in Urls |-> {}]
          /\ connected' \subseteq connected /\ UNCHANGED <<maxConn, url, held, detached>>
          /\ clientPc' = [d \in Clients |-> IF d \in Waiting THEN "woken" ELSE clientPc[d]]
      BY <1>1 DEF CloseAll
    <2>2. PoolTypeOK'
      BY <2>1
    <2>3. Cached' = {}
      BY <2>1 DEF Cached
    <2>4. HeldInv' /\ SlotsPresent' /\ OneEntry' /\ ExclusiveUse'
      BY <2>1 DEF HeldInv, SlotsPresent, OneEntry, ExclusiveUse, Waiting
    <2>5. NoLeakedEntry'
      BY <2>1, <2>3 DEF NoLeakedEntry
    <2> QED BY <2>2, <2>4, <2>5
  <1>2. CASE CleanupIdleConnections
    <2>1. PICK old \in SUBSET (Cached \ busy) :
              /\ cached' = [u \in Urls |-> cached[u] \ old]
              /\ connected' = connected \ old
              /\ UNCHANGED <<present, busy, slots, maxConn, clientPc, url, held, detached>>
      BY <1>2 DEF CleanupIdleConnections
    <2>2. PoolTypeOK'
      BY <2>1
    <2>3. \A x : x \in Cached' <=> x \in Cached /\ x \notin old
      <3>1. \A x : x \in Cached' <=> \E u \in Urls : x \in cached'[u]
        BY DEF Cached
      <3> QED BY <2>1, <3>1, CachedDef
    <2>4. Outside' = Outside
      BY <2>1 DEF Outside
    <2>5. NoLeakedEntry'
      BY <2>1, <2>3, <2>4 DEF NoLeakedEntry
    <2>6. HeldInv' /\ SlotsPresent' /\ OneEntry' /\ ExclusiveUse'
      BY <2>1 DEF HeldInv, SlotsPresent, OneEntry, ExclusiveUse
    <2> QED BY <2>2, <2>5, <2>6
  <1> QED BY <1>1, <1>2

LEMMA PoolInvStep == PoolInv /\ [PoolNext]_connectionVars => PoolInv'
  <1> SUFFICES ASSUME PoolInv, [PoolNext]_connectionVars PROVE PoolInv'
    OBVIOUS
  <1>1. ASSUME \/ \E m \in Limits : SetConfig(m)
               \/ \E k \in Conns : LinkUp(k) \/ LinkDown(k)
               \/ UNCHANGED connectionVars
        PROVE  PoolInv'
    <2>1. UNCHANGED <<present, cached, busy, slots, clientPc, url, held, detached>>
      BY <1>1 DEF SetConfig, LinkUp, LinkDown, connectionVars
    <2>2. maxConn' \in Nat /\ connected' \in SUBSET Conns
      BY <1>1, LimitsAssumption DEF SetConfig, LinkUp, LinkDown, connectionVars, PoolInv, PoolTypeOK
    <2>3. PoolTypeOK'
      BY <2>1, <2>2 DEF PoolInv, PoolTypeOK
    <2>4. \A c \in slots' : clientPc'[c] = "connecting" /\ url'[c] \in present'
      BY <2>1 DEF PoolInv, NoLeakedEntry, SlotsPresent
    <2> QED BY <2>1, <2>3, <2>4, PoolInvKept
  <1> QED
    BY <1>1, InvAcquire, InvWait, InvConnect, InvConnectFail, InvRelease, InvGuardRelease,
       InvRemove
    DEF PoolNext, AcquireStep

(* The invariant of the pool's entries and its clients, on which the other *)
(* theorems rest.                                                          *)
THEOREM PoolInvariant == PoolSpec => []PoolInv
  BY PoolInvInit, PoolInvStep, PTL DEF PoolSpec

(* No connection is ever used by two clients.                              *)
THEOREM ConnectionsNotShared == PoolSpec => []ExclusiveUse
  BY PoolInvariant, PTL DEF PoolInv

(* No placeholder and no inUse mark outlives its client's use of it.       *)
THEOREM EntriesNotLeaked == PoolSpec => []NoLeakedEntry
  BY PoolInvariant, PTL DEF PoolInv

-----------------------------------------------------------------------------
(* How the set of entries grows                                            *)

(* Connections enter the pool in ConnectCached only, and are new.          *)
LEMMA EntriesGrow ==
    ASSUME PoolInv, PoolNext
    PROVE  \/ Cached' \subseteq Cached
           \/ \E c \in Clients : \E k \in Fresh :
                 ConnectCached(c, k) /\ Cached' = Cached \cup {k}
  <1>1. CASE UNCHANGED cached
    BY <1>1 DEF Cached
  <1>2. ASSUME NEW c \in Clients, NEW k \in Fresh, ConnectCached(c, k)
        PROVE  Cached' = Cached \cup {k}
    <2>1. \A x : x \in Cached' <=> \E u \in Urls : x \in cached'[u]
      BY DEF Cached
    <2>2. \A x : x \in Cached' <=> x \in Cached \/ x = k
      BY <1>2, <2>1, CachedDef DEF ConnectCached, PoolInv, PoolTypeOK
    <2> QED BY <2>2
  <1>3. ASSUME NEW c \in Clients, CloseAll(c) PROVE Cached' \subseteq Cached
    BY <1>3 DEF CloseAll, Cached
  <1>4. CASE CleanupIdleConnections
    <2>1. \A x : x \in Cached' <=> \E u \in Urls : x \in cached'[u]
      BY DEF Cached
    <2> QED BY <1>4, <2>1, CachedDef DEF CleanupIdleConnections
  <1>5. \/ UNCHANGED cached
        \/ \E c \in Clients : CloseAll(c)
        \/ CleanupIdleConnections
        \/ \E c \in Clients : \E k \in Fresh : ConnectCached(c, k)
    BY DEF PoolNext, AcquireStep, AcquireIdle, AcquireWait, AcquireReserve, WaitTimeout,
           SpuriousWakeup, RetryIdle, RetryFail, ConnectUncached, ConnectFail, Release,
           GuardRelease, SetConfig, LinkUp, LinkDown
  <1> QED BY <1>1, <1>2, <1>3, <1>4, <1>5

(* What closeAll() has thrown out stays out.                               *)
THEOREM NothingResurrected == PoolSpec => NeverResurrected
  <1>1. PoolInv /\ [PoolNext]_connectionVars =>
           [\A k \in Conns : k \in Outside \ Cached => k \notin Cached']_connectionVars
    <2> SUFFICES ASSUME PoolInv, PoolNext, NEW x \in Conns, x \in Outside \ Cached
                 PROVE  x \notin Cached'
      OBVIOUS
    <2> QED BY EntriesGrow DEF Fresh
  <1> QED BY <1>1, PoolInvariant, PTL DEF PoolSpec, NeverResurrected

(* The placeholders and the connections are finitely many.                 *)
LEMMA TotalFinite ==
    ASSUME PoolTypeOK
    PROVE  /\ IsFiniteSet(Cached) /\ IsFiniteSet(slots)
           /\ Cardinality(Cached) \in Nat /\ Cardinality(slots) \in Nat
  <1>1. Cached \subseteq Conns /\ slots \subseteq Clients
    BY CachedDef DEF PoolTypeOK
  <1> QED BY <1>1, FiniteAssumption, FS_Subset, FS_CardinalityType

LEMMA OneMore ==
    ASSUME NEW S, IsFiniteSet(S), NEW x
    PROVE  Cardinality(S \cup {x}) <= Cardinality(S) + 1
  <1>1. Cardinality(S) \in Nat
    BY FS_CardinalityType
  <1>2. CASE x \in S
    <2>1. S \cup {x} = S
      BY <1>2
    <2> QED BY <1>1, <2>1
  <1>3. CASE x \notin S
    <2>1. Cardinality(S \cup {x}) = IF x \in S THEN Cardinality(S) ELSE Cardinality(S) + 1
      BY FS_AddElement, Zenon
    <2> QED BY <1>1, <1>3, <2>1
  <1> QED BY <1>2, <1>3

(* Placeholders are added by AcquireReserve only.                          *)
LEMMA SlotsGrow ==
    ASSUME PoolInv, PoolNext
    PROVE  \/ slots' \subseteq slots
           \/ \E c \in Clients, u \in Urls : AcquireReserve(c, u)
  <1>1. ASSUME NEW c \in Clients, TakeSlot(c) PROVE slots' \subseteq slots
    BY <1>1, SlotTaken DEF PoolInv
  <1>2. ASSUME NEW c \in Clients, ConnectFail(c) PROVE slots' \subseteq slots
    BY <1>1, <1>2 DEF ConnectFail
  <1>3. ASSUME NEW c \in Clients, NEW k \in Fresh, ConnectCached(c, k)
        PROVE  slots' \subseteq slots
    BY <1>1, <1>3 DEF ConnectCached
  <1> QED
    BY <1>2, <1>3
    DEF PoolNext, AcquireStep, AcquireIdle, AcquireWait, WaitTimeout, SpuriousWakeup,
        RetryIdle, RetryFail, ConnectUncached, Release, GuardRelease, CloseAll,
        CleanupIdleConnections, SetConfig, LinkUp, LinkDown

(* The pool outgrows maxConnections only by a thread whose placeholder was *)
(* discarded while it connected.                                           *)
THEOREM LimitKept == PoolSpec => PoolGrowsWithinLimit
  <1> DEFINE Orphan == \E c \in Clients \ slots : clientPc[c] = "connecting" /\ clientPc'[c] = "using"
  <1>1. ASSUME PoolInv, PoolInv', PoolNext
        PROVE  Total' <= Total \/ Total' <= maxConn \/ Orphan
    <2>1. /\ IsFiniteSet(Cached) /\ IsFiniteSet(slots)
          /\ Cardinality(Cached) \in Nat /\ Cardinality(slots) \in Nat
      BY <1>1, TotalFinite DEF PoolInv
    <2>2. Cardinality(Cached') \in Nat /\ Cardinality(slots') \in Nat /\ maxConn \in Nat
      <3>1. Cached' \subseteq Conns /\ slots' \subseteq Clients
        BY <1>1 DEF PoolInv, PoolTypeOK, Cached
      <3> QED BY <1>1, <3>1, FiniteAssumption, FS_Subset, FS_CardinalityType DEF PoolInv, PoolTypeOK
    <2>3. CASE Cached' \subseteq Cached /\ slots' \subseteq slots
      BY <2>1, <2>2, <2>3, FS_Subset DEF Total
    <2>4. ASSUME NEW c \in Clients, NEW u \in Urls, AcquireReserve(c, u)
          PROVE  Total' <= maxConn
      <3>1. slots' = slots \cup {c} /\ Cached' = Cached /\ Total < maxConn
        BY <2>4 DEF AcquireReserve, Cached
      <3>2. Cardinality(slots') <= Cardinality(slots) + 1
        BY <2>1, <3>1, OneMore
      <3> QED BY <2>1, <2>2, <3>1, <3>2 DEF Total
    <2>5. ASSUME NEW c \in Clients, NEW k \in Fresh, ConnectCached(c, k),
                 Cached' = Cached \cup {k}
          PROVE  Total' <= Total \/ Orphan
      <3>1. CASE c \in slots
        <4>1. slots' = slots \ {c}
          BY <2>5, <3>1 DEF ConnectCached, TakeSlot, SlotsOf
        <4>2. Cardinality(slots') = Cardinality(slots) - 1
          BY <2>1, <3>1, <4>1, FS_RemoveElement
        <4>3. Cardinality(Cached') <= Cardinality(Cached) + 1
          BY <2>1, <2>5, OneMore
        <4> QED BY <2>1, <2>2, <4>2, <4>3 DEF Total
      <3>2. CASE c \notin slots
        BY <1>1, <2>5, <3>2 DEF ConnectCached, Goto, PoolInv, PoolTypeOK
      <3> QED BY <3>1, <3>2
    <2>6. (\E c \in Clients, u \in Urls : AcquireReserve(c, u)) \/ slots' \subseteq slots
      BY <1>1, SlotsGrow
    <2>7. \/ Cached' \subseteq Cached
          \/ \E c \in Clients : \E k \in Fresh :
                 ConnectCached(c, k) /\ Cached' = Cached \cup {k}
      BY <1>1, EntriesGrow
    <2> QED BY <2>3, <2>4, <2>5, <2>6, <2>7
  <1>2. PoolInv /\ PoolInv' /\ [PoolNext]_connectionVars =>
           [Total' <= Total \/ Total' <= maxConn \/ Orphan]_connectionVars
    BY <1>1
  <1> QED BY <1>2, PoolInvariant, PTL DEF PoolSpec, PoolGrowsWithinLimit

(* For any number of clients, URLs and connections: types, exclusive use,  *)
(* no lost entry (acquire() and its second look-up of the placeholder),    *)
(* and no step of acquire(), release() or closeAll() that revives a        *)
(* connection or outgrows maxConnections but for discarded placeholders.   *)
THEOREM PoolCorrect == PoolSpec => PoolSound
  <1>1. PoolInv => PoolTypeOK
    BY DEF PoolInv
  <1> QED
    BY <1>1, PoolInvariant, ConnectionsNotShared, EntriesNotLeaked, NothingResurrected, LimitKept, PTL
       DEF PoolSound

-----------------------------------------------------------------------------
(* What ManagerSound needs to be kept: a client that is connecting has a   *)
(* socket that is, so no signal of an older attempt can be taken for its   *)
(* own; and a connection nobody wants has neither poll timer nor           *)
(* heartbeat.  Timers that only ask for a reconnection may be left.        *)
ConnectingInv == machine = "Connecting" => socket = "connecting"
QuietInv == ~wanted => polling = FALSE /\ beat = "none"
ClientInv ==
    /\ kind \in {"tcp", "ws"} /\ socket \in Sockets
    /\ ConnectedMeansOpen /\ ConnectingInv
UserInv == wanted \in BOOLEAN /\ DisconnectIsFinal /\ QuietInv

USE DEF States, Sockets

(* connectToHost() starts an attempt only on a client that has none.       *)
LEMMA ClientConnects ==
    ASSUME ClientInv, ConnectToHost, UNCHANGED kind, told' = told \/ told' = "Connecting"
    PROVE  ClientInv'
  <1>1. CASE CanConnect
    BY <1>1 DEF ClientInv, ConnectedMeansOpen, ConnectingInv, ConnectToHost, CanConnect, Open, TcpOpen, WsOpen
  <1>2. CASE ~CanConnect
    BY <1>2 DEF ClientInv, ConnectedMeansOpen, ConnectingInv, ConnectToHost
  <1> QED BY <1>1, <1>2

(* disconnectFromHost() leaves the client Disconnected, or what it was.    *)
LEMMA ClientDisconnects ==
    ASSUME ClientInv, Disconnect
    PROVE  ClientInv'
  <1>1. CASE CanDisconnect
    BY <1>1 DEF ClientInv, ConnectedMeansOpen, ConnectingInv, Disconnect, DisconnectFromHost
  <1>2. CASE ~CanDisconnect
    BY <1>2 DEF ClientInv, ConnectedMeansOpen, ConnectingInv, Disconnect, DisconnectFromHost, CanDisconnect
  <1> QED BY <1>1, <1>2

(* A signal of an attempt that was given up finds a machine that does not  *)
(* listen to it: it is only Connecting for the socket's own attempt.       *)
LEMMA ClientSignalled ==
    ASSUME ClientInv, SocketSignal
    PROVE  ClientInv'
  <1> USE DEF ClientInv, ConnectedMeansOpen, ConnectingInv, Transition
  <1>1. CASE Established
    BY <1>1 DEF Established, OnConnected
  <1>2. CASE Refused
    BY <1>2 DEF Refused, OnError
  <1>3. CASE Lost
    BY <1>3 DEF Lost, OnError
  <1>4. CASE Ended
    BY <1>4 DEF Ended, OnDisconnected
  <1> QED BY <1>1, <1>2, <1>3, <1>4 DEF SocketSignal

LEMMA ClientUnchanged ==
    ASSUME ClientInv, UNCHANGED clientVars
    PROVE  ClientInv'
  BY DEF ClientInv, ConnectedMeansOpen, ConnectingInv, clientVars

LEMMA UserUnchanged ==
    ASSUME UserInv, UNCHANGED <<managed, polling, beat, wanted>>
    PROVE  UserInv'
  BY DEF UserInv, DisconnectIsFinal, QuietInv

LEMMA ManagerInit == NetworkInit => ClientInv /\ UserInv
  BY DEF NetworkInit, ClientInit, ClientInv, UserInv, ConnectedMeansOpen, ConnectingInv, DisconnectIsFinal, QuietInv

LEMMA ManagerStep == ClientInv /\ UserInv /\ [NetworkNext]_networkVars => ClientInv' /\ UserInv'
  <1> SUFFICES ASSUME ClientInv, UserInv, [NetworkNext]_networkVars
               PROVE  ClientInv' /\ UserInv'
    OBVIOUS
  <1> USE DEF UserInv, DisconnectIsFinal, QuietInv
  <1>1. CASE ClientStep
    <2>1. UserInv'
      BY <1>1, UserUnchanged DEF ClientStep, managerVars
    <2>2. CASE SocketSignal
      BY <2>1, <2>2, ClientSignalled
    <2>3. CASE Reconnect
      BY <2>1, <2>3, ClientConnects DEF Reconnect
    <2>4. CASE Send
      BY <2>1, <2>4 DEF Send, ClientInv, ConnectedMeansOpen, ConnectingInv
    <2> QED BY <1>1, <2>2, <2>3, <2>4 DEF ClientStep
  <1>2. ASSUME NEW c \in Configs, Register(c) PROVE ClientInv' /\ UserInv'
    BY <1>2, ClientUnchanged DEF Register
  <1>3. CASE Unregister
    BY <1>3, ClientDisconnects DEF Unregister
  <1>4. CASE Connect
    <2>1. ClientInv'
      BY <1>4, ClientConnects DEF Connect, ConnectTo
    <2> QED BY <1>4, <2>1 DEF Connect
  <1>5. CASE DisconnectManaged
    BY <1>5, ClientDisconnects DEF DisconnectManaged
  <1>6. CASE Poll
    <2>1. wanted = TRUE /\ wanted' = TRUE
      BY <1>6 DEF Poll
    <2> QED BY <1>6, <2>1, ClientUnchanged DEF Poll
  <1>7. CASE Beat
    BY <1>7, ClientUnchanged DEF Beat
  <1>8. CASE BeatTimeout
    <2>1. wanted = TRUE /\ wanted' = TRUE
      BY <1>8 DEF BeatTimeout
    <2> QED BY <1>8, <2>1, ClientDisconnects DEF BeatTimeout
  <1>9. CASE TryReconnect
    <2>1. UserInv'
      BY <1>9, UserUnchanged DEF TryReconnect
    <2>2. CASE managed = "Reconnecting"
      BY <1>9, <2>1, <2>2, ClientConnects DEF TryReconnect, ConnectTo
    <2>3. CASE managed # "Reconnecting"
      BY <1>9, <2>1, <2>3, ClientUnchanged DEF TryReconnect
    <2> QED BY <2>2, <2>3
  <1>10. CASE UNCHANGED networkVars
    BY <1>10, ClientUnchanged, UserUnchanged DEF networkVars, managerVars
  <1> QED
    BY <1>1, <1>2, <1>3, <1>4, <1>5, <1>6, <1>7, <1>8, <1>9, <1>10 DEF NetworkNext

(* Whatever the socket signals and whichever timers are left, for every    *)
(* ConnectionConfig and ReconnectPolicy: Connected is said only of an open *)
(* socket (tcp_client.cpp:93-111), and no timer changes what is reported   *)
(* after disconnect() (connection_manager.cpp:145, :325, :387).            *)
THEOREM ManagerCorrect == NetworkSpec => []ManagerSound
  <1>1. ClientInv /\ UserInv => ManagerSound
    BY DEF ClientInv, UserInv, ManagerSound
  <1> QED BY <1>1, ManagerInit, ManagerStep, PTL DEF NetworkSpec

HIDE DEF ClientPc, poolVars, userVars, States, Sockets

-----------------------------------------------------------------------------
(* HttpClient: a request is answered when it leaves its last flight.       *)
RequestRecord ==
    [at : {"new", "flight", "delay", "stuck", "answered"}, sync : BOOLEAN, retryCount : Nat, maxRetries : Nat]

HttpInv ==
    /\ retryPolicy \in Nat /\ request \in [Requests -> RequestRecord]
    /\ answers \in [Requests -> Nat] /\ AnsweredOnce

LEMMA RetriedIs ==
    ASSUME NEW q \in RequestRecord, NEW limit \in Nat
    PROVE  /\ Retried(q, limit) \in RequestRecord /\ Retried(q, limit).at \in {"stuck", "delay"}
           /\ Retried(q, limit).sync = q.sync /\ Retried(q, limit).retryCount = q.retryCount + 1
           /\ Retried(q, limit).maxRetries = q.maxRetries
           /\ Retried(q, limit).at = "stuck" => q.retryCount + 1 >= limit
  <1>1. PICK place \in {"stuck", "delay"} : /\ place = IF NoDelay(q.retryCount + 1, limit) THEN "stuck" ELSE "delay"
    OBVIOUS
  <1>2. PICK k : k = q.retryCount + 1
    OBVIOUS
  <1>3. k \in Nat
    BY <1>2 DEF RequestRecord
  <1>4. Retried(q, limit) = [q EXCEPT !.retryCount = k, !.at = place]
    BY <1>1, <1>2 DEF Retried
  <1>5. [q EXCEPT !.retryCount = k, !.at = place] \in RequestRecord
    BY <1>3 DEF RequestRecord
  <1>6. /\ [q EXCEPT !.retryCount = k, !.at = place].at = place
        /\ [q EXCEPT !.retryCount = k, !.at = place].sync = q.sync
        /\ [q EXCEPT !.retryCount = k, !.at = place].retryCount = k
        /\ [q EXCEPT !.retryCount = k, !.at = place].maxRetries = q.maxRetries
    BY DEF RequestRecord
  <1>7. place = "stuck" => k >= limit
    BY <1>1, <1>2 DEF NoDelay
  <1> QED BY <1>2, <1>4, <1>5, <1>6, <1>7

LEMMA HttpStays == HttpInv /\ [HttpNext]_httpVars => HttpInv'
  <1> SUFFICES ASSUME HttpInv, [HttpNext]_httpVars PROVE HttpInv'
    OBVIOUS
  <1> USE DEF HttpInv, RequestRecord, AnsweredOnce
  <1>1. ASSUME NEW n \in RetryLimits, SetRetryPolicy(n) PROVE HttpInv'
    BY <1>1, RequestAssumption DEF SetRetryPolicy
  <1>2. ASSUME NEW r \in Requests, NEW sync \in BOOLEAN, SendRequest(r, sync) PROVE HttpInv'
    BY <1>2 DEF SendRequest
  <1>3. ASSUME NEW r \in Requests, request[r].at = "flight", Answer(r), UNCHANGED retryPolicy PROVE HttpInv'
    BY <1>3 DEF Answer
  <1>4. ASSUME NEW r \in Requests, request[r].at = "flight", request[r].retryCount < request[r].maxRetries,
               RetrySync(r) \/ RetryAsync(r), UNCHANGED retryPolicy
        PROVE  HttpInv'
    <2>1. PICK limit \in Nat : /\ request' = [request EXCEPT ![r] = Retried(request[r], limit)]
                               /\ ~request[r].sync => limit = request[r].maxRetries
      BY <1>4 DEF RetrySync, RetryAsync
    <2>2. answers' = answers
      BY <1>4 DEF RetrySync, RetryAsync
    <2>q. request[r] \in RequestRecord
      OBVIOUS
    <2>n. PICK n : n = Retried(request[r], limit)
      OBVIOUS
    <2>6. /\ n \in RequestRecord /\ n.at \in {"stuck", "delay"} /\ n.sync = request[r].sync
          /\ n.retryCount = request[r].retryCount + 1 /\ n.maxRetries = request[r].maxRetries
          /\ n.at = "stuck" => request[r].retryCount + 1 >= limit
      BY <2>q, <2>n, RetriedIs
    <2>7. request' = [request EXCEPT ![r] = n]
      BY <2>1, <2>n
    <2>8. /\ request' \in [Requests -> RequestRecord] /\ \A o \in Requests : o # r => request'[o] = request[o]
          /\ request'[r] = n
      <3> HIDE DEF RequestRecord
      <3> QED BY <2>6, <2>7
    <2>3. /\ request'[r].at \in {"stuck", "delay"} /\ request'[r].sync = request[r].sync
          /\ request'[r].retryCount = request[r].retryCount + 1
          /\ request'[r].maxRetries = request[r].maxRetries
      BY <2>6, <2>8
    <2>4. ~request'[r].sync /\ request'[r].at = "stuck" => request'[r].retryCount = request'[r].maxRetries
      BY <1>4, <2>1, <2>3, <2>6, <2>8, <2>q
    <2> QED BY <1>4, <2>2, <2>3, <2>4, <2>8
  <1>5. ASSUME NEW r \in Requests, HttpStep(r) PROVE HttpInv'
    <2>1. CASE Finished(r)
      BY <1>3, <2>1 DEF Finished
    <2>2. CASE Failed(r)
      <3>1. /\ request[r].at = "flight" /\ UNCHANGED retryPolicy
            /\ \/ Answer(r)
               \/ request[r].retryCount < request[r].maxRetries /\ (RetrySync(r) \/ RetryAsync(r))
        BY <2>2 DEF Failed
      <3> HIDE DEF HttpInv
      <3> QED BY <1>3, <1>4, <3>1
    <2>3. CASE Resend(r)
      <3>1. PICK m \in Nat : request' = [request EXCEPT ![r] = [request[r] EXCEPT !.at = "flight", !.maxRetries = m]]
        <4>1. PICK m \in Nat : m = IF request[r].sync THEN request[r].maxRetries ELSE retryPolicy
          OBVIOUS
        <4> HIDE DEF HttpInv, RequestRecord
        <4>2. request' = [request EXCEPT ![r] = [request[r] EXCEPT !.at = "flight", !.maxRetries = m]]
          BY <2>3, <4>1 DEF Resend
        <4> QED BY <4>2
      <3>2. PICK n : n = [request[r] EXCEPT !.at = "flight", !.maxRetries = m]
        OBVIOUS
      <3>3. request[r] \in RequestRecord
        OBVIOUS
      <3>4. n \in RequestRecord /\ n.at = "flight"
        BY <3>2, <3>3
      <3>5. request' \in [Requests -> RequestRecord] /\ request'[r] = n
            /\ \A o \in Requests : o # r => request'[o] = request[o]
        <4> HIDE DEF RequestRecord
        <4> QED BY <3>1, <3>2, <3>4
      <3>6. answers' = answers /\ retryPolicy' = retryPolicy /\ request[r].at = "delay"
        BY <2>3 DEF Resend
      <3> QED BY <3>4, <3>5, <3>6
    <2> QED BY <1>5, <2>1, <2>2, <2>3 DEF HttpStep
  <1>6. CASE UNCHANGED httpVars
    BY <1>6 DEF httpVars
  <1> QED BY <1>1, <1>2, <1>5, <1>6 DEF HttpNext

-----------------------------------------------------------------------------
(* CookieJar *)
CookieInv == FileIsWhole /\ meant \cap Passing = {}

LEMMA CookiesStay == CookieInv /\ [CookieNext]_cookieVars => CookieInv'
  BY DEF CookieInv, FileIsWhole, CookieNext, cookieVars, SetPersistPath, Load, OpenForSave, Kept,
         WriteCookies, ClearExpired, ClearAll, EndProcess, SetCookie, Pass

-----------------------------------------------------------------------------
(* NetworkAdapterBase: while a message is under way the interceptors its   *)
(* request went through are the first of the chain.                        *)
MessageRecord ==
    [at : {"idle", "flight", "done", "failed"}, sync : BOOLEAN, asked : Seq(Interceptors),
     answered : Seq(Interceptors), timeout : Nat, status : Nat, number : Nat]

Nests(msg, list, n) ==
    /\ msg.at = "flight" => IsPrefix(msg.asked, list)
    /\ msg.at = "done" => IsSuffix(Reverse(msg.asked), msg.answered)
    /\ msg.at # "done" => msg.answered = <<>>
    /\ msg.at # "done" => msg.number = 0
    /\ msg.number <= n

AdapterInv ==
    /\ chain \in Seq(Interceptors) /\ policy \in Nat /\ sequence \in Nat /\ upWanted \in BOOLEAN
    /\ message \in [Messages -> MessageRecord]
    /\ \A m \in Messages : Nests(message[m], chain, sequence)
    /\ AdapterSound

LEMMA ReverseTwice ==
    ASSUME NEW S, NEW s \in Seq(S)
    PROVE  Reverse(s) \in Seq(S) /\ Len(Reverse(s)) = Len(s) /\ Reverse(Reverse(s)) = s
  <1> DEFINE n == Len(s)
             t == Reverse(s)
  <1>1. n \in Nat /\ s = [i \in 1..n |-> s[i]] /\ \A i \in 1..n : s[i] \in S
    OBVIOUS
  <1>2. t = [i \in 1..n |-> s[(n - i) + 1]]
    BY DEF Reverse
  <1> HIDE DEF n, t
  <1>3. \A i \in 1..n : (n - i) + 1 \in 1..n /\ (n - ((n - i) + 1)) + 1 = i
    BY <1>1
  <1>4. t \in [1..n -> S]
    BY <1>1, <1>2, <1>3
  <1>5. t \in Seq(S) /\ Len(t) = n
    BY <1>1, <1>4
  <1>6. Reverse(t) = [i \in 1..n |-> t[(n - i) + 1]]
    BY <1>5 DEF Reverse
  <1>7. \A i \in 1..n : t[(n - i) + 1] = s[i]
    BY <1>2, <1>3
  <1>8. Reverse(t) = s
    BY <1>1, <1>6, <1>7
  <1> QED BY <1>5, <1>8 DEF t, n

(* The answer to a message whose interceptors are the first of the chain   *)
LEMMA AnswerNests ==
    ASSUME chain \in Seq(Interceptors), sequence \in Nat, NEW msg \in MessageRecord, IsPrefix(msg.asked, chain),
           NEW st \in Nat, NEW n \in Nat, n <= sequence'
    PROVE  /\ Answered(msg, st, n) \in MessageRecord /\ Answered(msg, st, n).number = n
           /\ Answered(msg, st, n).at = "done"
           /\ IsSuffix(Reverse(Answered(msg, st, n).asked), Answered(msg, st, n).answered)
  <1> DEFINE a == Answered(msg, st, n)
             b == Reverse(chain)
  <1>1. b \in Seq(Interceptors) /\ Reverse(b) = chain /\ Reverse(Reverse(msg.asked)) = msg.asked
    BY ReverseTwice DEF MessageRecord
  <1>2. a = [msg EXCEPT !.at = "done", !.answered = b, !.status = st, !.number = n]
    BY DEF Answered, ApplyResponseInterceptors
  <1> HIDE DEF b, a
  <1>3. a \in MessageRecord /\ a.at = "done" /\ a.number = n /\ a.asked = msg.asked /\ a.answered = b
    BY <1>1, <1>2 DEF MessageRecord
  <1>4. IsSuffix(Reverse(msg.asked), b)
    BY <1>1 DEF IsSuffix
  <1> QED BY <1>3, <1>4 DEF a

LEMMA PreparedNests ==
    ASSUME chain \in Seq(Interceptors), policy \in Nat, NEW sync \in BOOLEAN
    PROVE  /\ Prepared(sync) \in MessageRecord /\ Prepared(sync).at = "flight" /\ Prepared(sync).number = 0
           /\ Prepared(sync).answered = <<>> /\ IsPrefix(Prepared(sync).asked, chain)
  <1>1. Len(chain) <= Len(chain)
    OBVIOUS
  <1>2. IsPrefix(chain, chain)
    BY <1>1 DEF IsPrefix
  <1>3. NoMessage \in MessageRecord /\ NoMessage.answered = <<>> /\ NoMessage.number = 0
    BY DEF NoMessage, MessageRecord
  <1>4. Prepared(sync) = [NoMessage EXCEPT !.at = "flight", !.sync = sync, !.timeout = policy, !.asked = chain]
    BY DEF Prepared, ApplyRequestInterceptors
  <1> HIDE DEF NoMessage, Prepared
  <1>5. /\ Prepared(sync) \in MessageRecord /\ Prepared(sync).at = "flight" /\ Prepared(sync).number = 0
        /\ Prepared(sync).answered = <<>> /\ Prepared(sync).asked = chain
    BY <1>3, <1>4 DEF MessageRecord
  <1> QED BY <1>2, <1>5

(* One message changes, the interceptors stay *)
LEMMA MessageStep ==
    ASSUME AdapterInv, NEW m \in Messages, NEW msg \in MessageRecord,
           message' = [message EXCEPT ![m] = msg], UNCHANGED <<adapter, chain, policy, upWanted>>,
           sequence' \in Nat, sequence' >= sequence, Nests(msg, chain', sequence'), msg.number = 0 \/ msg.number > sequence,
           adapter = "http" => state' = state
    PROVE  AdapterInv'
  <1> USE DEF AdapterInv
  <1>1. message' \in [Messages -> MessageRecord]
    OBVIOUS
  <1>2. ASSUME NEW o \in Messages, o # m PROVE Nests(message'[o], chain', sequence')
    <2>1. message'[o] = message[o] /\ chain' = chain /\ Nests(message[o], chain, sequence)
      BY <1>2
    <2>2. message[o].number \in Nat /\ sequence \in Nat
      BY DEF MessageRecord
    <2>3. message[o].number <= sequence => message[o].number <= sequence'
      BY <2>2
    <2> HIDE DEF AdapterInv
    <2> QED BY <2>1, <2>3 DEF Nests
  <1>3. Nests(message'[m], chain', sequence')
    BY DEF Nests
  <1>4. AdapterSound'
    <2>1. ASSUME NEW a \in Messages, NEW b \in Messages, message'[a].number # 0,
                 message'[a].number = message'[b].number, a # b
          PROVE  FALSE
      <3>1. /\ a # m => message'[a] = message[a] /\ message[a].number <= sequence
            /\ b # m => message'[b] = message[b] /\ message[b].number <= sequence
            /\ message'[m] = msg
        BY DEF Nests
      <3>2. \A o \in Messages : message[o].number \in Nat
        BY DEF MessageRecord
      <3>3. CASE a # m /\ b # m
        BY <2>1, <3>1, <3>3 DEF AdapterSound
      <3>4. CASE a = m \/ b = m
        <4> DEFINE x == message'[a].number
                   y == message'[b].number
        <4>1. sequence \in Nat /\ msg.number \in Nat
          BY DEF MessageRecord
        <4>2. x # 0 /\ x = y /\ (msg.number = 0 \/ msg.number > sequence)
          BY <2>1
        <4>3. CASE a = m
          <5>1. x = msg.number /\ y <= sequence /\ y \in Nat
            BY <2>1, <3>1, <3>2, <4>3
          <5> HIDE DEF x, y
          <5> QED BY <4>1, <4>2, <5>1
        <4>4. CASE b = m
          <5>1. y = msg.number /\ x <= sequence /\ x \in Nat
            BY <2>1, <3>1, <3>2, <4>4
          <5> HIDE DEF x, y
          <5> QED BY <4>1, <4>2, <5>1
        <4> QED BY <3>4, <4>3, <4>4
      <3> QED BY <3>3, <3>4
    <2>2. (adapter = "http" => (HttpIsConnected <=> upWanted))'
      BY DEF AdapterSound, HttpIsConnected
    <2> QED BY <2>1, <2>2 DEF AdapterSound
  <1> QED BY <1>1, <1>2, <1>3, <1>4

LEMMA AdapterStays == AdapterInv /\ [AdapterNext]_adapterVars => AdapterInv'
  <1> SUFFICES ASSUME AdapterInv, [AdapterNext]_adapterVars PROVE AdapterInv'
    OBVIOUS
  <1>0. /\ chain \in Seq(Interceptors) /\ policy \in Nat /\ sequence \in Nat /\ upWanted \in BOOLEAN
        /\ message \in [Messages -> MessageRecord]
        /\ \A m \in Messages : Nests(message[m], chain, sequence)
    BY DEF AdapterInv
  <1>1. ASSUME NEW i \in Interceptors, AddInterceptor(i) PROVE AdapterInv'
    <2>1. chain' = Append(chain, i) /\ UNCHANGED <<adapter, state, policy, sequence, message, upWanted>>
      BY <1>1 DEF AddInterceptor
    <2>2. chain' \in Seq(Interceptors)
      BY <1>0, <2>1
    <2>3. ASSUME NEW s \in Seq(Interceptors), IsPrefix(s, chain) PROVE IsPrefix(s, chain')
      <3>1. Len(s) \in Nat /\ Len(s) <= Len(chain) /\ SubSeq(s, 1, Len(s)) = SubSeq(chain, 1, Len(s))
        BY <2>3 DEF IsPrefix
      <3>2. Len(chain') = Len(chain) + 1 /\ SubSeq(chain', 1, Len(s)) = SubSeq(chain, 1, Len(s))
        BY <1>0, <2>1, <3>1
      <3>3. Len(s) <= Len(chain')
        BY <1>0, <3>1, <3>2
      <3> QED BY <3>1, <3>2, <3>3 DEF IsPrefix
    <2>4. \A m \in Messages : Nests(message'[m], chain', sequence')
      BY <1>0, <2>1, <2>3 DEF Nests, MessageRecord
    <2>5. AdapterSound'
      BY <2>1 DEF AdapterInv, AdapterSound, HttpIsConnected
    <2> QED BY <1>0, <2>1, <2>2, <2>4, <2>5 DEF AdapterInv
  <1>2. ASSUME UNCHANGED <<adapter, chain, message>>, policy' \in Nat, sequence' \in Nat, sequence' >= sequence,
               upWanted' \in BOOLEAN, adapter = "http" => (HttpIsConnected' <=> upWanted')
        PROVE  AdapterInv'
    <2>1. \A m \in Messages : message[m].number \in Nat
      BY <1>0 DEF MessageRecord
    <2>2. \A m \in Messages : Nests(message'[m], chain', sequence')
      BY <1>0, <1>2, <2>1 DEF Nests
    <2>3. AdapterSound'
      BY <1>2 DEF AdapterInv, AdapterSound
    <2> QED BY <1>0, <1>2, <2>2, <2>3 DEF AdapterInv
  <1>3. adapter = "http" => (HttpIsConnected <=> upWanted)
    BY DEF AdapterInv, AdapterSound
  <1>4. ASSUME NEW t \in Timeouts, SetPolicy(t) PROVE AdapterInv'
    BY <1>0, <1>2, <1>3, <1>4, AdapterAssumption DEF SetPolicy, HttpIsConnected
  <1>5. CASE AdapterConnect
    BY <1>0, <1>2, <1>5 DEF AdapterConnect, HttpConnect, OtherConnect, HttpIsConnected
  <1>6. CASE AdapterDisconnect
    <2>1. state' = "Disconnected" /\ upWanted' = FALSE /\ UNCHANGED <<adapter, chain, policy, sequence, message>>
      BY <1>6 DEF AdapterDisconnect
    <2>2. ~HttpIsConnected'
      BY <2>1 DEF HttpIsConnected
    <2>3. policy' \in Nat /\ sequence' \in Nat /\ sequence' >= sequence
      BY <1>0, <2>1
    <2> QED BY <1>2, <2>1, <2>2, <2>3
  <1>7. CASE TcpReceived
    BY <1>0, <1>2, <1>7 DEF TcpReceived
  <1>8. ASSUME NEW s, ClientSignal(s) PROVE AdapterInv'
    BY <1>0, <1>2, <1>8 DEF ClientSignal, TcpSignal, WsSignal
  <1>9. ASSUME NEW m \in Messages, NEW sync \in BOOLEAN, AdapterSend(m, sync) PROVE AdapterInv'
    <2> DEFINE p == Prepared(sync)
    <2>0. UNCHANGED <<adapter, chain, policy, upWanted>>
      BY <1>9 DEF AdapterSend
    <2>1. /\ p \in MessageRecord /\ p.at = "flight" /\ p.number = 0
          /\ p.answered = <<>> /\ IsPrefix(p.asked, chain)
      BY <1>0, PreparedNests
    <2> HIDE DEF p
    <2>2. CASE HttpSend(m, sync)
      <3>1. message' = [message EXCEPT ![m] = p] /\ UNCHANGED <<sequence, state>>
        BY <2>2 DEF HttpSend, p
      <3>2. Nests(p, chain', sequence')
        BY <1>0, <2>0, <2>1, <3>1 DEF Nests
      <3>3. sequence' \in Nat /\ sequence' >= sequence /\ (adapter = "http" => state' = state)
        BY <1>0, <3>1
      <3> QED BY <2>0, <2>1, <3>1, <3>2, <3>3, MessageStep
    <2>3. CASE MqttSend(m, sync)
      <3> DEFINE e == Erred(p)
      <3>1. message' = [message EXCEPT ![m] = e] /\ UNCHANGED <<sequence, state>>
        BY <2>3 DEF MqttSend, p
      <3>2. e \in MessageRecord /\ e.at = "failed" /\ e.number = 0 /\ e.answered = <<>>
        BY <2>1 DEF Erred, MessageRecord
      <3> HIDE DEF e
      <3>3. Nests(e, chain', sequence')
        BY <1>0, <3>1, <3>2 DEF Nests
      <3>4. sequence' \in Nat /\ sequence' >= sequence /\ (adapter = "http" => state' = state)
        BY <1>0, <3>1
      <3> QED BY <2>0, <3>1, <3>2, <3>3, <3>4, MessageStep
    <2>4. ASSUME NEW n \in Nat, message' = [message EXCEPT ![m] = Answered(p, 0, n)], sequence' \in Nat,
                 sequence' >= sequence, n <= sequence', n = 0 \/ n > sequence, adapter # "http"
          PROVE  AdapterInv'
      <3> DEFINE a == Answered(p, 0, n)
      <3>1. a \in MessageRecord /\ a.number = n /\ a.at = "done" /\ IsSuffix(Reverse(a.asked), a.answered)
        BY <1>0, <2>1, <2>4, AnswerNests
      <3>2. message' = [message EXCEPT ![m] = a]
        BY <2>4
      <3> HIDE DEF a
      <3>3. Nests(a, chain', sequence')
        BY <2>4, <3>1 DEF Nests
      <3> QED BY <2>0, <2>4, <3>1, <3>2, <3>3, MessageStep
    <2>5. CASE TcpSend(m, sync)
      <3>1. /\ adapter = "tcp" /\ sequence' = sequence + 1
            /\ message' = [message EXCEPT ![m] = Answered(p, 0, sequence + 1)]
        BY <2>5 DEF TcpSend, p
      <3>2. sequence + 1 \in Nat /\ sequence + 1 > sequence /\ sequence + 1 >= sequence
        BY <1>0
      <3>3. sequence' \in Nat /\ sequence' >= sequence /\ sequence + 1 <= sequence' /\ adapter # "http"
        BY <1>0, <3>1
      <3> QED BY <2>4, <3>1, <3>2, <3>3
    <2>6. CASE WsSend(m, sync)
      <3>1. /\ adapter = "ws" /\ sequence' = sequence /\ message' = [message EXCEPT ![m] = Answered(p, 0, 0)]
        BY <2>6 DEF WsSend, p
      <3>2. 0 \in Nat /\ 0 <= sequence /\ sequence >= sequence
        BY <1>0
      <3> QED BY <1>0, <2>4, <3>1, <3>2
    <2> QED BY <1>9, <2>2, <2>3, <2>5, <2>6 DEF AdapterSend
  <1>10. ASSUME NEW m \in Messages, HttpAnswers(m) \/ HttpFails(m) PROVE AdapterInv'
    <2> DEFINE msg == message[m]
    <2>0. /\ msg.at = "flight" /\ UNCHANGED <<adapter, state, chain, policy, sequence, upWanted>>
          /\ \/ \E st \in {0, 200} : message' = [message EXCEPT ![m] = Answered(msg, st, 0)]
             \/ message' = [message EXCEPT ![m] = Erred(msg)]
      BY <1>10 DEF HttpAnswers, HttpFails
    <2>1. /\ msg \in MessageRecord /\ IsPrefix(msg.asked, chain)
          /\ msg.answered = <<>> /\ msg.number = 0
      BY <1>0, <2>0 DEF Nests
    <2> HIDE DEF msg
    <2>2. ASSUME NEW st \in {0, 200}, message' = [message EXCEPT ![m] = Answered(msg, st, 0)] PROVE AdapterInv'
      <3> DEFINE a == Answered(msg, st, 0)
      <3>1. 0 \in Nat /\ 0 <= sequence' /\ st \in Nat
        BY <1>0, <2>0
      <3>2. a \in MessageRecord /\ a.number = 0 /\ a.at = "done" /\ IsSuffix(Reverse(a.asked), a.answered)
        BY <1>0, <2>1, <3>1, AnswerNests
      <3>3. message' = [message EXCEPT ![m] = a]
        BY <2>2
      <3> HIDE DEF a
      <3>4. Nests(a, chain', sequence')
        BY <3>1, <3>2 DEF Nests
      <3>5. sequence' \in Nat /\ sequence' >= sequence /\ (adapter = "http" => state' = state)
        BY <1>0, <2>0
      <3> QED BY <2>0, <3>2, <3>3, <3>4, <3>5, MessageStep
    <2>3. CASE message' = [message EXCEPT ![m] = Erred(msg)]
      <3> DEFINE e == Erred(msg)
      <3>1. e \in MessageRecord /\ e.at = "failed" /\ e.number = 0 /\ e.answered = <<>>
        BY <2>1 DEF Erred, MessageRecord
      <3>2. message' = [message EXCEPT ![m] = e]
        BY <2>3
      <3> HIDE DEF e
      <3>3. Nests(e, chain', sequence')
        BY <1>0, <2>0, <3>1 DEF Nests
      <3>4. sequence' \in Nat /\ sequence' >= sequence /\ (adapter = "http" => state' = state)
        BY <1>0, <2>0
      <3> QED BY <2>0, <3>1, <3>2, <3>3, <3>4, MessageStep
    <2> QED BY <2>0, <2>2, <2>3
  <1>11. CASE UNCHANGED adapterVars
    BY <1>0, <1>2, <1>3, <1>11 DEF adapterVars, HttpIsConnected
  <1> QED BY <1>1, <1>4, <1>5, <1>6, <1>7, <1>8, <1>9, <1>10, <1>11 DEF AdapterNext

-----------------------------------------------------------------------------
(* Uploader: as long as no upload was started over another, the request    *)
(* under way and the paused upload are the last one, and not reported.     *)
UploadInv ==
    /\ uploads \in 0..MaxUploads /\ reports \in [1..MaxUploads -> Seq({"failed", "complete"})]
    /\ posted \in 0..uploads
    /\ uploadHeld => posted = 0 /\ uploadRuns /\ uploads # 0
    /\ posted # 0 => uploadRuns
    /\ ~crossed => /\ strays = {} /\ posted \in {0, uploads}
                   /\ \A n \in 1..MaxUploads : Len(reports[n]) <= 1
                   /\ \A n \in 1..MaxUploads : n > uploads => Len(reports[n]) = 0
                   /\ posted # 0 \/ uploadHeld => Len(reports[uploads]) = 0

LEMMA ToldOnce ==
    ASSUME reports \in [1..MaxUploads -> Seq({"failed", "complete"})], NEW n \in 1..MaxUploads,
           NEW what \in {"failed", "complete"}
    PROVE  /\ Told(n, what) \in [1..MaxUploads -> Seq({"failed", "complete"})]
           /\ \A i \in 1..MaxUploads : i # n => Told(n, what)[i] = reports[i]
           /\ Len(reports[n]) = 0 => Len(Told(n, what)[n]) <= 1
  BY DEF Told

LEMMA UploadsStay == UploadInv /\ [UploadNext]_uploadVars => UploadInv'
  <1> SUFFICES ASSUME UploadInv, [UploadNext]_uploadVars PROVE UploadInv'
    OBVIOUS
  <1> USE UploadAssumption
  <1>0. /\ uploads \in 0..MaxUploads /\ reports \in [1..MaxUploads -> Seq({"failed", "complete"})]
        /\ posted \in 0..uploads
        /\ uploadHeld => posted = 0 /\ uploadRuns /\ uploads # 0
        /\ posted # 0 => uploadRuns
    BY DEF UploadInv
  <1>1. ~crossed => /\ strays = {} /\ posted \in {0, uploads}
                    /\ \A n \in 1..MaxUploads : Len(reports[n]) <= 1
                    /\ \A n \in 1..MaxUploads : n > uploads => Len(reports[n]) = 0
                    /\ posted # 0 \/ uploadHeld => Len(reports[uploads]) = 0
    BY DEF UploadInv
  <1>2. \A n \in 1..MaxUploads : Len(reports[n]) \in Nat
    BY <1>0
  <1>3. CASE StartFile
    <2> DEFINE u == uploads + 1
    <2>0. /\ uploads < MaxUploads /\ uploads' = u /\ uploadRuns' = TRUE /\ uploadHeld' = FALSE
          /\ crossed' = (crossed \/ posted # 0) /\ StartUpload(u)
      BY <1>3 DEF StartFile
    <2>1. u \in 1..MaxUploads /\ u > uploads /\ u # 0 /\ \A n \in 1..MaxUploads : n > u => n > uploads /\ n # u
      BY <1>0, <2>0
    <2>2. CASE posted' = u /\ strays' = strays \union ({posted} \ {0}) /\ UNCHANGED reports
      <3>1. ~crossed' => strays' = {} /\ Len(reports[u]) = 0 /\ \A n \in 1..MaxUploads : n > u => Len(reports[n]) = 0
        BY <1>1, <2>0, <2>1, <2>2
      <3>2. uploads' \in 0..MaxUploads /\ posted' \in 0..uploads' /\ posted' = uploads'
        BY <1>0, <2>0, <2>1, <2>2
      <3>3. ~crossed' => \A n \in 1..MaxUploads : Len(reports'[n]) <= 1
        BY <1>1, <2>0, <2>2
      <3>4. reports' \in [1..MaxUploads -> Seq({"failed", "complete"})]
        BY <1>0, <2>2
      <3> HIDE DEF u
      <3> QED BY <2>0, <2>2, <3>1, <3>2, <3>3, <3>4 DEF UploadInv
    <2>3. CASE reports' = Told(u, "failed") /\ UNCHANGED <<posted, strays>>
      <3> HIDE DEF u
      <3>1. /\ reports' \in [1..MaxUploads -> Seq({"failed", "complete"})]
            /\ \A i \in 1..MaxUploads : i # u => reports'[i] = reports[i]
            /\ Len(reports[u]) = 0 => Len(reports'[u]) <= 1
        BY <1>0, <2>1, <2>3, ToldOnce
      <3>2. posted' \in 0..uploads' /\ uploads' \in 0..MaxUploads
        BY <1>0, <2>0, <2>1, <2>3 DEF u
      <3>3. ASSUME ~crossed'
            PROVE  /\ strays' = {} /\ posted' = 0
                   /\ \A n \in 1..MaxUploads : Len(reports'[n]) <= 1
                   /\ \A n \in 1..MaxUploads : n > u => Len(reports'[n]) = 0
        <4>1. ~crossed /\ posted = 0
          BY <2>0, <3>3
        <4>2. Len(reports[u]) = 0 /\ Len(reports'[u]) <= 1
          <5>1. Len(reports[u]) = 0
            BY <1>0, <1>1, <2>1, <4>1
          <5> QED BY <3>1, <5>1, Zenon
        <4>3. \A n \in 1..MaxUploads : n # u => Len(reports'[n]) <= 1 /\ (n > uploads => Len(reports'[n]) = 0)
          BY <1>0, <1>1, <3>1, <4>1
        <4> QED BY <1>0, <1>1, <2>1, <2>3, <4>1, <4>2, <4>3
      <3> QED BY <2>0, <3>1, <3>2, <3>3 DEF UploadInv
    <2> QED BY <2>0, <2>2, <2>3 DEF StartUpload
  <1>4. CASE PauseUpload
    BY <1>0, <1>1, <1>4 DEF PauseUpload, UploadInv
  <1>5. CASE ResumeUpload
    <2>0. /\ uploadHeld /\ uploadHeld' = FALSE /\ StartUpload(uploads) /\ UNCHANGED <<uploadRuns, uploads, crossed>>
      BY <1>5 DEF ResumeUpload
    <2>1. posted = 0 /\ uploadRuns /\ uploads \in 1..MaxUploads
      BY <1>0, <2>0
    <2>2. CASE posted' = uploads /\ strays' = strays \union ({posted} \ {0}) /\ UNCHANGED reports
      BY <1>0, <1>1, <2>0, <2>1, <2>2 DEF UploadInv
    <2>3. CASE reports' = Told(uploads, "failed") /\ UNCHANGED <<posted, strays>>
      <3>1. /\ reports' \in [1..MaxUploads -> Seq({"failed", "complete"})]
            /\ \A i \in 1..MaxUploads : i # uploads => reports'[i] = reports[i]
            /\ Len(reports[uploads]) = 0 => Len(reports'[uploads]) <= 1
        BY <1>0, <2>1, <2>3, ToldOnce
      <3>2. ASSUME ~crossed
            PROVE  /\ \A n \in 1..MaxUploads : Len(reports'[n]) <= 1
                   /\ \A n \in 1..MaxUploads : n > uploads => Len(reports'[n]) = 0
        <4>1. Len(reports'[uploads]) <= 1
          BY <1>1, <2>0, <3>1, <3>2
        <4>2. \A n \in 1..MaxUploads : n # uploads => Len(reports'[n]) <= 1 /\ (n > uploads => Len(reports'[n]) = 0)
          BY <1>0, <1>1, <3>1, <3>2
        <4>3. \A n \in 1..MaxUploads : n > uploads => n # uploads
          BY <1>0
        <4> QED BY <4>1, <4>2, <4>3, Zenon
      <3> QED BY <1>0, <1>1, <2>0, <2>1, <2>3, <3>1, <3>2 DEF UploadInv
    <2> QED BY <2>0, <2>2, <2>3 DEF StartUpload
  <1>6. CASE CancelUpload
    <2>1. /\ posted' = 0 /\ uploadRuns' = FALSE /\ uploadHeld' = FALSE
          /\ strays' \in {strays, {}} /\ UNCHANGED <<uploads, reports, crossed>>
      BY <1>6 DEF CancelUpload
    <2> QED BY <1>0, <1>1, <2>1 DEF UploadInv
  <1>7. ASSUME NEW failed \in BOOLEAN, OnUploadFinished(failed), UNCHANGED <<uploadHeld, uploads, crossed>>,
               strays' \subseteq strays
        PROVE  UploadInv'
    <2>1. CASE posted = 0
      <3>1. UNCHANGED <<posted, uploadRuns, reports>>
        BY <1>7, <2>1 DEF OnUploadFinished
      <3> QED BY <1>0, <1>1, <1>7, <3>1 DEF UploadInv
    <2>2. CASE posted # 0
      <3>1. PICK what \in {"failed", "complete"} :
              posted' = 0 /\ uploadRuns' = (uploadRuns /\ failed) /\ reports' = Told(uploads, what)
        BY <1>7, <2>2 DEF OnUploadFinished
      <3>2. uploads \in 1..MaxUploads /\ ~uploadHeld
        BY <1>0, <2>2
      <3>3. /\ reports' \in [1..MaxUploads -> Seq({"failed", "complete"})]
            /\ \A i \in 1..MaxUploads : i # uploads => reports'[i] = reports[i]
            /\ Len(reports[uploads]) = 0 => Len(reports'[uploads]) <= 1
        BY <1>0, <3>1, <3>2, ToldOnce
      <3>4. ASSUME ~crossed
            PROVE  /\ strays' = {} /\ \A n \in 1..MaxUploads : Len(reports'[n]) <= 1
                   /\ \A n \in 1..MaxUploads : n > uploads => Len(reports'[n]) = 0
        <4>1. Len(reports'[uploads]) <= 1 /\ strays' = {}
          BY <1>1, <1>7, <2>2, <3>3, <3>4
        <4>2. \A n \in 1..MaxUploads : n # uploads => Len(reports'[n]) <= 1 /\ (n > uploads => Len(reports'[n]) = 0)
          BY <1>0, <1>1, <3>3, <3>4
        <4>3. \A n \in 1..MaxUploads : n > uploads => n # uploads
          BY <1>0
        <4> QED BY <4>1, <4>2, <4>3, Zenon
      <3> QED BY <1>0, <1>7, <3>1, <3>2, <3>3, <3>4 DEF UploadInv
    <2> QED BY <2>1, <2>2
  <1>8. CASE UploadFinished
    BY <1>7, <1>8 DEF UploadFinished
  <1>9. ASSUME NEW n \in strays, StrayFinished(n) PROVE UploadInv'
    BY <1>7, <1>9 DEF StrayFinished
  <1>10. CASE UNCHANGED uploadVars
    BY <1>0, <1>1, <1>10 DEF uploadVars, UploadInv
  <1> QED BY <1>3, <1>4, <1>5, <1>6, <1>8, <1>9, <1>10 DEF UploadNext

LEMMA UploadsReported == UploadInv => UploadReportedOnce
  <1> SUFFICES ASSUME UploadInv PROVE UploadReportedOnce
    OBVIOUS
  <1>1. \A n \in 1..MaxUploads : Len(reports[n]) = 0 => reports[n] = <<>>
    BY DEF UploadInv
  <1>2. posted # 0 => posted \in 1..MaxUploads
    BY UploadAssumption DEF UploadInv
  <1> QED BY <1>1, <1>2 DEF UploadInv, UploadReportedOnce

-----------------------------------------------------------------------------
(* Downloader: what is on disk and in the buffer begins the remote file,   *)
(* and the reply goes on from there.                                       *)
WrittenSoFar == Len(disk) + Len(buffer)

TransferInv ==
    spoiled = {} =>
        /\ disk \in Seq(Nat) /\ buffer \in Seq(Nat) /\ WrittenSoFar <= Size
        /\ \A i \in 1..Len(disk) : disk[i] = i
        /\ \A i \in 1..Len(buffer) : buffer[i] = Len(disk) + i
        /\ ~orphan /\ isOpen \in BOOLEAN
        /\ ~isOpen => buffer = <<>> /\ reply = 0
        /\ reply # 0 => reply = WrittenSoFar + 1
        /\ outcome = "complete" => WrittenSoFar = Size

(* The buffer reaches the disk *)
LEMMA Flushed ==
    ASSUME disk \in Seq(Nat), buffer \in Seq(Nat), \A i \in 1..Len(disk) : disk[i] = i,
           \A i \in 1..Len(buffer) : buffer[i] = Len(disk) + i
    PROVE  /\ disk \o buffer \in Seq(Nat) /\ Len(disk \o buffer) = WrittenSoFar
           /\ \A i \in 1..Len(disk \o buffer) : (disk \o buffer)[i] = i
  <1> DEFINE m == Len(disk)
             n == Len(buffer)
             t == disk \o buffer
  <1>1. m \in Nat /\ n \in Nat /\ t \in Seq(Nat) /\ Len(t) = m + n
    OBVIOUS
  <1>2. \A i \in 1..(m + n) : t[i] = IF i <= m THEN disk[i] ELSE buffer[i - m]
    OBVIOUS
  <1> HIDE DEF t
  <1>3. ASSUME NEW i \in 1..(m + n) PROVE t[i] = i
    <2> HIDE DEF m, n
    <2>1. CASE i <= m
      <3>1. i \in 1..m
        BY <1>1, <2>1
      <3> QED BY <1>2, <2>1, <3>1 DEF m
    <2>2. CASE ~(i <= m)
      <3>1. i - m \in 1..n /\ m + (i - m) = i
        BY <1>1, <2>2
      <3>2. buffer[i - m] = m + (i - m)
        BY <3>1 DEF m, n
      <3> QED BY <1>2, <2>2, <3>1, <3>2
    <2> QED BY <2>1, <2>2
  <1> QED BY <1>1, <1>3 DEF t, WrittenSoFar

LEMMA TransferStays == TransferInv /\ [TransferNext]_transferVars => TransferInv'
  <1> SUFFICES ASSUME TransferInv, [TransferNext]_transferVars, spoiled' = {} PROVE TransferInv'
    BY DEF TransferInv
  <1> USE SizeAssumption
  <1>1. spoiled = {}
    BY DEF TransferNext, transferVars, Download, Pause, Resume, Cancel, FlushBuffer, OnReadyRead, ReplyFinished,
           OrphanFinished, ReplyFailed, StartDownload, FinishedWell
  <1>2. /\ disk \in Seq(Nat) /\ buffer \in Seq(Nat) /\ WrittenSoFar <= Size /\ WrittenSoFar \in Nat
        /\ \A i \in 1..Len(disk) : disk[i] = i
        /\ \A i \in 1..Len(buffer) : buffer[i] = Len(disk) + i
        /\ ~orphan /\ isOpen \in BOOLEAN
        /\ ~isOpen => buffer = <<>> /\ reply = 0
        /\ reply # 0 => reply = WrittenSoFar + 1
        /\ outcome = "complete" => WrittenSoFar = Size
    BY <1>1 DEF TransferInv, WrittenSoFar
  <1>3. ASSUME disk' = disk \o buffer, buffer' = <<>>
        PROVE  /\ disk' \in Seq(Nat) /\ buffer' \in Seq(Nat) /\ WrittenSoFar' = WrittenSoFar
               /\ \A i \in 1..Len(disk') : disk'[i] = i
               /\ \A i \in 1..Len(buffer') : buffer'[i] = Len(disk') + i
    <2>1. /\ disk \o buffer \in Seq(Nat) /\ Len(disk \o buffer) = WrittenSoFar
          /\ \A i \in 1..Len(disk \o buffer) : (disk \o buffer)[i] = i
      BY <1>2, Flushed
    <2>2. disk' \in Seq(Nat) /\ Len(disk') = WrittenSoFar /\ \A i \in 1..Len(disk') : disk'[i] = i
      BY <1>3, <2>1, Zenon
    <2>3. buffer' \in Seq(Nat) /\ Len(buffer') = 0 /\ \A i \in 1..Len(buffer') : buffer'[i] = Len(disk') + i
      BY <1>3
    <2>4. WrittenSoFar' = Len(disk') + Len(buffer')
      BY DEF WrittenSoFar
    <2> QED BY <1>2, <2>2, <2>3, <2>4
  <1>4. CASE Download \/ Resume
    <2>1. StartDownload
      BY <1>4 DEF Download, Resume
    <2>2. disk' = disk \o buffer /\ buffer' = <<>> /\ buffer = <<>> /\ reply = 0 /\ ~orphan'
      BY <2>1 DEF StartDownload
    <2>3. WrittenSoFar = Len(disk)
      BY <1>2, <2>2 DEF WrittenSoFar
    <2>4. CASE isOpen' = TRUE /\ reply' = GetExistingFileSize + 1 /\ UNCHANGED outcome
      BY <1>2, <1>3, <2>2, <2>3, <2>4 DEF TransferInv, GetExistingFileSize
    <2>5. CASE isOpen' = FALSE /\ outcome' = "failed" /\ UNCHANGED reply
      BY <1>2, <1>3, <2>2, <2>5 DEF TransferInv
    <2> QED BY <2>1, <2>4, <2>5 DEF StartDownload
  <1>5. CASE Pause
    BY <1>2, <1>5 DEF Pause, TransferInv, WrittenSoFar
  <1>6. CASE Cancel
    <2>1. CASE disk' = disk \o buffer /\ UNCHANGED <<orphan, outcome>>
      BY <1>2, <1>3, <1>6, <2>1 DEF Cancel, TransferInv
    <2>2. CASE reply # 0 /\ orphan' = FALSE /\ outcome' = "none" /\ UNCHANGED disk
      <3>1. /\ buffer' = <<>> /\ disk' = disk /\ reply' = 0 /\ isOpen' = FALSE
            /\ orphan' = FALSE /\ outcome' = "none"
        BY <1>6, <2>2 DEF Cancel
      <3>2. buffer' \in Seq(Nat) /\ Len(buffer') = 0 /\ \A i \in 1..Len(buffer') : buffer'[i] = Len(disk') + i
        BY <3>1
      <3>3. WrittenSoFar' <= Size
        BY <1>2, <3>1, <3>2 DEF WrittenSoFar
      <3> QED BY <1>2, <3>1, <3>2, <3>3 DEF TransferInv
    <2> QED BY <1>6, <2>1, <2>2 DEF Cancel
  <1>7. CASE FlushBuffer
    BY <1>2, <1>3, <1>7 DEF FlushBuffer, TransferInv
  <1>8. CASE OnReadyRead
    <2>1. /\ reply \in 1..Size /\ isOpen /\ buffer' = Append(buffer, reply) /\ reply' = reply + 1
          /\ UNCHANGED <<disk, isOpen, orphan, isRunning, isPaused, outcome, spoiled>>
      BY <1>8 DEF OnReadyRead
    <2>2. reply = WrittenSoFar + 1 /\ outcome # "complete"
      BY <1>2, <2>1
    <2>3. /\ buffer' \in Seq(Nat) /\ Len(buffer') = Len(buffer) + 1 /\ buffer'[Len(buffer) + 1] = reply
          /\ \A i \in 1..Len(buffer) : buffer'[i] = buffer[i]
      BY <1>2, <2>1
    <2>4. reply = Len(disk) + (Len(buffer) + 1) /\ WrittenSoFar' = WrittenSoFar + 1
      BY <1>2, <2>1, <2>2, <2>3 DEF WrittenSoFar
    <2>5. ASSUME NEW i \in 1..Len(buffer') PROVE buffer'[i] = Len(disk') + i
      <3>1. i \in 1..Len(buffer) \/ i = Len(buffer) + 1
        BY <1>2, <2>3
      <3> QED BY <1>2, <2>1, <2>3, <2>4, <3>1
    <2>6. WrittenSoFar' <= Size /\ reply' = WrittenSoFar' + 1
      BY <1>2, <2>1, <2>2, <2>4
    <2> QED BY <1>2, <2>1, <2>2, <2>3, <2>5, <2>6 DEF TransferInv
  <1>9. CASE ReplyFinished
    <2>1. /\ reply = Size + 1 /\ disk' = disk \o buffer /\ buffer' = <<>> /\ UNCHANGED orphan
          /\ isOpen' = FALSE /\ reply' = 0 /\ outcome' = "complete"
      BY <1>9 DEF ReplyFinished, FinishedWell
    <2>2. WrittenSoFar = Size
      BY <1>2, <2>1
    <2> QED BY <1>2, <1>3, <2>1, <2>2 DEF TransferInv
  <1>10. CASE OrphanFinished
    BY <1>2, <1>10 DEF OrphanFinished
  <1>11. CASE ReplyFailed
    <2>1. /\ reply' = 0 /\ outcome' = "failed" /\ UNCHANGED <<disk, isOpen, orphan, buffer>>
      BY <1>11 DEF ReplyFailed
    <2> QED BY <1>2, <2>1 DEF TransferInv, WrittenSoFar
  <1>12. CASE UNCHANGED transferVars
    BY <1>2, <1>12 DEF transferVars, TransferInv, WrittenSoFar
  <1> QED BY <1>4, <1>5, <1>6, <1>7, <1>8, <1>9, <1>10, <1>11, <1>12 DEF TransferNext

LEMMA TransferPrefix == TransferInv => FileIsPrefix
  <1> SUFFICES ASSUME TransferInv, spoiled = {} PROVE PrefixOnDisk
    BY DEF FileIsPrefix
  <1>1. /\ disk \in Seq(Nat) /\ buffer \in Seq(Nat) /\ WrittenSoFar <= Size
        /\ \A i \in 1..Len(disk) : disk[i] = i
        /\ ~isOpen => buffer = <<>>
        /\ outcome = "complete" => WrittenSoFar = Size
    BY DEF TransferInv
  <1>2. Len(disk) \in Nat /\ Len(buffer) \in Nat /\ WrittenSoFar = Len(disk) + Len(buffer)
    BY <1>1 DEF WrittenSoFar
  <1>3. buffer = <<>> => Len(buffer) = 0
    OBVIOUS
  <1> QED BY <1>1, <1>2, <1>3, SizeAssumption DEF PrefixOnDisk

-----------------------------------------------------------------------------
(* HttpApi: what was sent is no newer than what is put together, request   *)
(* by request, and so are the callbacks.                                   *)
Callbacks == [ok : Nat, err : Nat]
Outcomes == {"none", "ok", "status", "error"}
FlightRecord == [sent : [ApiParts -> Nat], hears : Callbacks, sync : BOOLEAN, outcome : Outcomes]

HeardOf(h, i) == {c \in h : c.call = i}

(* Who was told of the flight f *)
Heard(f, hearers) ==
    /\ f.outcome = "none" \/ f.sync => hearers = {}
    /\ \E c : hearers \subseteq {c}
    /\ \A c \in hearers : c.ok = (f.outcome = "ok") /\ c.by >= Hearing(f.hears, f.outcome)
    /\ f.outcome # "none" /\ ~ f.sync /\ Hearing(f.hears, f.outcome) # 0 => hearers # {}

NotNewer(f, a, h, n) ==
    /\ \A p \in ApiParts : f.sent[p] <= a[p] /\ f.sent[p] <= n
    /\ f.hears.ok <= h.ok /\ f.hears.err <= h.err /\ f.sent["body"] <= f.sent["Content-Type"]

ApiInv ==
    /\ api \in [ApiParts -> Nat] /\ hears \in Callbacks /\ flights \in Seq(FlightRecord)
    /\ api["body"] <= api["Content-Type"] /\ \A p \in ApiParts : api[p] <= Chain
    /\ hears.ok <= Chain /\ hears.err <= Chain
    /\ \A i \in 1..Len(flights) : NotNewer(flights[i], api, hears, i) /\ Heard(flights[i], HeardOf(heard, i))
    /\ \A i, j \in 1..Len(flights) : j <= i => \A p \in ApiParts : flights[j].sent[p] <= flights[i].sent[p]
    /\ \A c \in heard : c.call \in 1..Len(flights)

LEMMA PartsThere == "Content-Type" \in ApiParts /\ "body" \in ApiParts /\ "path" \in ApiParts /\ ApiKeys \subseteq ApiParts
  BY ApiAssumption DEF ApiParts

(* param(), header(), jsonBody() and the rest: parts of the chain's number *)
LEMMA Composed ==
    ASSUME ApiInv, UNCHANGED <<flights, heard>>,
           api' \in [ApiParts -> Nat], hears' \in Callbacks,
           \A p \in ApiParts : api'[p] \in {api[p], Chain},
           hears'.ok \in {hears.ok, Chain}, hears'.err \in {hears.err, Chain},
           api'["body"] <= api'["Content-Type"]
    PROVE  ApiInv'
  <1>1. /\ api \in [ApiParts -> Nat] /\ hears \in Callbacks /\ flights \in Seq(FlightRecord)
        /\ \A p \in ApiParts : api[p] <= Chain
        /\ hears.ok <= Chain /\ hears.err <= Chain
        /\ \A i \in 1..Len(flights) : NotNewer(flights[i], api, hears, i)
    BY DEF ApiInv
  <1>2. Chain \in Nat /\ Chain' = Chain
    BY <1>1 DEF Chain
  <1>3. \A p \in ApiParts : api'[p] >= api[p] /\ api'[p] <= Chain /\ api[p] \in Nat /\ api'[p] \in Nat
    BY <1>1, <1>2
  <1>4. /\ hears'.ok >= hears.ok /\ hears'.err >= hears.err /\ hears'.ok <= Chain /\ hears'.err <= Chain
        /\ hears.ok \in Nat /\ hears.err \in Nat /\ hears'.ok \in Nat /\ hears'.err \in Nat
    BY <1>1, <1>2 DEF Callbacks
  <1>5. ASSUME NEW i \in 1..Len(flights) PROVE NotNewer(flights[i], api', hears', i)
    <2> DEFINE f == flights[i]
    <2>1. NotNewer(f, api, hears, i)
      BY <1>1
    <2>2. f \in FlightRecord
      BY <1>1
    <2> HIDE DEF f
    <2>3. /\ \A p \in ApiParts : f.sent[p] \in Nat
          /\ f.hears.ok \in Nat /\ f.hears.err \in Nat
      BY <2>2 DEF FlightRecord, Callbacks
    <2>4. NotNewer(f, api', hears', i)
      <3>1. ASSUME NEW p \in ApiParts PROVE f.sent[p] <= api'[p] /\ f.sent[p] <= i
        <4>1. f.sent[p] <= api[p] /\ f.sent[p] <= i
          BY <2>1 DEF NotNewer
        <4> QED BY <1>3, <2>3, <4>1
      <3>2. f.hears.ok <= hears'.ok /\ f.hears.err <= hears'.err
        <4>1. f.hears.ok <= hears.ok /\ f.hears.err <= hears.err
          BY <2>1 DEF NotNewer
        <4> QED BY <1>4, <2>3, <4>1
      <3>3. f.sent["body"] <= f.sent["Content-Type"]
        BY <2>1 DEF NotNewer
      <3> QED BY <3>1, <3>2, <3>3 DEF NotNewer
    <2> QED BY <2>4 DEF f
  <1> QED BY <1>1, <1>2, <1>3, <1>4, <1>5 DEF ApiInv

LEMMA NothingHeard == \A f : f.outcome = "none" => Heard(f, {})
  BY DEF Heard

(* execute() and executeSync() *)
LEMMA Executed ==
    ASSUME ApiInv, NEW sync \in BOOLEAN, Execute(sync)
    PROVE  ApiInv'
  <1> DEFINE f == [sent |-> api, hears |-> hears, sync |-> sync, outcome |-> "none"]
             n == Len(flights)
  <1>1. flights' = Append(flights, f) /\ UNCHANGED <<api, hears, heard>>
    BY DEF Execute
  <1>2. /\ api \in [ApiParts -> Nat] /\ hears \in Callbacks /\ flights \in Seq(FlightRecord)
        /\ api["body"] <= api["Content-Type"] /\ \A p \in ApiParts : api[p] <= Chain
        /\ hears.ok <= Chain /\ hears.err <= Chain /\ n \in Nat /\ Chain = n + 1
        /\ \A i \in 1..n : NotNewer(flights[i], api, hears, i) /\ Heard(flights[i], HeardOf(heard, i))
        /\ \A i, j \in 1..n : j <= i => \A p \in ApiParts : flights[j].sent[p] <= flights[i].sent[p]
        /\ \A c \in heard : c.call \in 1..n
    BY DEF ApiInv, Chain
  <1>3. f \in FlightRecord /\ f.sent = api /\ f.hears = hears /\ f.outcome = "none"
    BY <1>2 DEF FlightRecord, Outcomes
  <1> HIDE DEF f
  <1>4. /\ flights' \in Seq(FlightRecord) /\ Len(flights') = n + 1 /\ flights'[n + 1] = f
        /\ \A i \in 1..n : flights'[i] = flights[i]
    BY <1>1, <1>2, <1>3
  <1> HIDE DEF n
  <1>5. 1..(n + 1) = (1..n) \cup {n + 1} /\ n + 1 \notin 1..n
    BY <1>2
  <1>6. NotNewer(f, api, hears, n + 1)
    BY <1>2, <1>3 DEF NotNewer, Callbacks
  <1>7. Heard(f, HeardOf(heard, n + 1))
    <2>1. HeardOf(heard, n + 1) = {}
      BY <1>2, <1>5 DEF HeardOf
    <2> QED BY <1>3, <2>1, NothingHeard
  <1>8. \A i \in 1..(n + 1) : NotNewer(flights'[i], api, hears, i) /\ Heard(flights'[i], HeardOf(heard, i))
    <2>1. ASSUME NEW i \in 1..n PROVE NotNewer(flights'[i], api, hears, i) /\ Heard(flights'[i], HeardOf(heard, i))
      BY <1>2, <1>4
    <2>2. NotNewer(flights'[n + 1], api, hears, n + 1) /\ Heard(flights'[n + 1], HeardOf(heard, n + 1))
      BY <1>4, <1>6, <1>7
    <2> QED BY <1>5, <2>1, <2>2, Zenon
  <1>9. ASSUME NEW i \in 1..(n + 1), NEW j \in 1..(n + 1), j <= i, NEW p \in ApiParts
        PROVE  flights'[j].sent[p] <= flights'[i].sent[p]
    <2>1. CASE i \in 1..n
      <3>1. j \in 1..n
        BY <1>2, <1>9, <2>1
      <3> QED BY <1>2, <1>4, <1>9, <2>1, <3>1
    <2>2. CASE i = n + 1 /\ j \in 1..n
      <3>1. flights[j].sent[p] <= api[p]
        BY <1>2, <2>2 DEF NotNewer
      <3> QED BY <1>3, <1>4, <2>2, <3>1
    <2>3. CASE i = n + 1 /\ j = n + 1
      <3>1. api[p] <= api[p]
        BY <1>2
      <3> QED BY <1>3, <1>4, <2>3, <3>1
    <2> QED BY <1>5, <2>1, <2>2, <2>3
  <1>10. Chain' = n + 2 /\ (\A p \in ApiParts : api[p] <= n + 2) /\ hears.ok <= n + 2 /\ hears.err <= n + 2
    BY <1>2, <1>4 DEF Chain, Callbacks
  <1>11. \A c \in heard : c.call \in 1..(n + 1)
    BY <1>2, <1>5
  <1> QED BY <1>1, <1>2, <1>4, <1>8, <1>9, <1>10, <1>11 DEF ApiInv

(* The answer *)
LEMMA ApiAnswered ==
    ASSUME ApiInv, NEW i \in DOMAIN flights, NEW outc \in {"ok", "status", "error"}, AnswerApi(i, outc)
    PROVE  ApiInv'
  <1> DEFINE n == Len(flights)
             f == flights[i]
             g == [f EXCEPT !.outcome = outc]
             by == Hearing(hears, outc)
             c == [call |-> i, ok |-> outc = "ok", by |-> by]
             hearers == {d \in {c} : ~ f.sync /\ d.by # 0}
  <1>1. /\ f.outcome = "none" /\ flights' = [flights EXCEPT ![i].outcome = outc] /\ UNCHANGED <<api, hears>>
        /\ heard' = heard \cup hearers
    BY DEF AnswerApi, FlightEnds
  <1>2. /\ api \in [ApiParts -> Nat] /\ hears \in Callbacks /\ flights \in Seq(FlightRecord)
        /\ api["body"] <= api["Content-Type"] /\ (\A p \in ApiParts : api[p] <= Chain)
        /\ hears.ok <= Chain /\ hears.err <= Chain /\ n \in Nat /\ i \in 1..n
        /\ \A k \in 1..n : NotNewer(flights[k], api, hears, k) /\ Heard(flights[k], HeardOf(heard, k))
        /\ \A k, j \in 1..n : j <= k => \A p \in ApiParts : flights[j].sent[p] <= flights[k].sent[p]
        /\ \A d \in heard : d.call \in 1..n
    BY DEF ApiInv
  <1>3. f \in FlightRecord
    BY <1>2
  <1>4. flights' = [flights EXCEPT ![i] = g]
    BY <1>1, <1>2
  <1> HIDE DEF f
  <1>5. g \in FlightRecord /\ g.sent = f.sent /\ g.hears = f.hears /\ g.sync = f.sync /\ g.outcome = outc
    BY <1>3 DEF FlightRecord, Outcomes
  <1> HIDE DEF g
  <1>6. /\ flights' \in Seq(FlightRecord) /\ Len(flights') = n /\ flights'[i] = g
        /\ \A k \in 1..n : k # i => flights'[k] = flights[k]
    BY <1>2, <1>4, <1>5
  <1>7. \A k \in 1..n : flights'[k].sent = flights[k].sent /\ NotNewer(flights'[k], api, hears, k)
    <2>1. NotNewer(g, api, hears, i)
      <3>1. NotNewer(f, api, hears, i)
        BY <1>2 DEF f
      <3> QED BY <1>5, <3>1 DEF NotNewer
    <2> QED BY <1>2, <1>5, <1>6, <2>1 DEF f
  <1>8. c.call = i /\ c.by = by /\ c.ok = (outc = "ok")
    OBVIOUS
  <1> HIDE DEF c
  <1>9. HeardOf(heard, i) = {} /\ Heard(g, hearers)
    <2>1. Heard(f, HeardOf(heard, i))
      BY <1>2 DEF f
    <2>2. HeardOf(heard, i) = {}
      BY <1>1, <2>1 DEF Heard, f
    <2>3. by \in Nat /\ Hearing(g.hears, outc) \in Nat /\ by >= Hearing(g.hears, outc)
      <3>1. NotNewer(f, api, hears, i)
        BY <1>2 DEF f
      <3>2. f.hears \in Callbacks /\ f.hears.ok <= hears.ok /\ f.hears.err <= hears.err
        BY <1>3, <3>1 DEF NotNewer, FlightRecord
      <3> QED BY <1>2, <1>5, <3>2 DEF Hearing, Callbacks
    <2>4. hearers \subseteq {c} /\ (f.sync => hearers = {}) /\ (~f.sync /\ by # 0 => c \in hearers)
      BY <1>8
    <2> HIDE DEF hearers, by
    <2>5. Hearing(g.hears, outc) # 0 => by # 0
      BY <2>3
    <2>6. \A d \in hearers : d.ok = (g.outcome = "ok") /\ d.by >= Hearing(g.hears, g.outcome)
      BY <1>5, <1>8, <2>3, <2>4, Zenon
    <2>7. g.outcome # "none"
      BY <1>5
    <2>8. \E d : hearers \subseteq {d}
      BY <2>4
    <2> QED BY <1>5, <2>2, <2>4, <2>5, <2>6, <2>7, <2>8 DEF Heard
  <1>10. \A d \in hearers : d.call = i
    BY <1>8
  <1> HIDE DEF hearers
  <1>11. HeardOf(heard', i) = hearers
    BY <1>1, <1>9, <1>10 DEF HeardOf
  <1>12. \A k \in 1..n : k # i => HeardOf(heard', k) = HeardOf(heard, k)
    BY <1>1, <1>10 DEF HeardOf
  <1>13. \A k \in 1..n : Heard(flights'[k], HeardOf(heard', k))
    <2>1. ASSUME NEW k \in 1..n, k # i PROVE Heard(flights'[k], HeardOf(heard', k))
      BY <1>2, <1>6, <1>12, <2>1
    <2>2. Heard(flights'[i], HeardOf(heard', i))
      BY <1>6, <1>9, <1>11
    <2> QED BY <2>1, <2>2, Zenon
  <1>14. Chain' = Chain
    BY <1>6 DEF Chain
  <1>15. \A d \in heard' : d.call \in 1..n
    BY <1>1, <1>2, <1>10
  <1>16. \A k, j \in 1..n : j <= k => \A p \in ApiParts : flights'[j].sent[p] <= flights'[k].sent[p]
    BY <1>2, <1>7
  <1> QED BY <1>1, <1>2, <1>6, <1>7, <1>13, <1>14, <1>15, <1>16 DEF ApiInv

LEMMA ApiStays == ApiInv /\ [ApiNext]_apiVars => ApiInv'
  <1> SUFFICES ASSUME ApiInv, [ApiNext]_apiVars PROVE ApiInv'
    OBVIOUS
  <1>0. /\ api \in [ApiParts -> Nat] /\ hears \in Callbacks /\ Chain \in Nat
        /\ api["body"] <= api["Content-Type"] /\ \A p \in ApiParts : api[p] <= Chain
    BY DEF ApiInv, Chain
  <1>1. ASSUME Compose PROVE ApiInv'
    <2>0. UNCHANGED <<flights, heard>>
      BY <1>1 DEF Compose
    <2>1. CASE (SetPath \/ JsonBody \/ \E k \in ApiKeys : AddPart(k)) /\ UNCHANGED hears
      <3>1. /\ api' \in [ApiParts -> Nat] /\ \A p \in ApiParts : api'[p] \in {api[p], Chain}
        BY <1>0, <2>1 DEF SetPath, JsonBody, AddPart
      <3>2. api'["body"] <= api'["Content-Type"]
        <4>1. CASE SetPath
          BY <1>0, <4>1, PartsThere DEF SetPath
        <4>2. CASE JsonBody
          BY <1>0, <4>2, PartsThere DEF JsonBody
        <4>3. ASSUME NEW k \in ApiKeys, AddPart(k) PROVE api'["body"] <= api'["Content-Type"]
          <5>1. k # "body" /\ api'["body"] = api["body"] /\ api'["Content-Type"] \in {api["Content-Type"], Chain}
            BY <1>0, <4>3, ApiAssumption, PartsThere DEF AddPart
          <5> QED BY <1>0, <5>1, PartsThere
        <4> QED BY <2>1, <4>1, <4>2, <4>3
      <3>3. hears' \in Callbacks /\ hears'.ok \in {hears.ok, Chain} /\ hears'.err \in {hears.err, Chain}
        BY <1>0, <2>1
      <3> QED BY <2>0, <3>1, <3>2, <3>3, Composed
    <2>2. CASE (HearSuccess \/ HearFailure) /\ UNCHANGED api
      <3>1. hears' \in Callbacks /\ hears'.ok \in {hears.ok, Chain} /\ hears'.err \in {hears.err, Chain}
        BY <1>0, <2>2 DEF HearSuccess, HearFailure, Callbacks
      <3>2. /\ api' \in [ApiParts -> Nat] /\ \A p \in ApiParts : api'[p] \in {api[p], Chain}
            /\ api'["body"] <= api'["Content-Type"]
        BY <1>0, <2>2
      <3> QED BY <2>0, <3>1, <3>2, Composed
    <2> QED BY <1>1, <2>1, <2>2 DEF Compose
  <1>2. CASE UNCHANGED apiVars
    BY <1>2 DEF apiVars, ApiInv, Chain
  <1> QED BY <1>1, <1>2, Executed, ApiAnswered DEF ApiNext

LEMMA AtMostOne == \A T, c : T \subseteq {c} => Cardinality(T) <= 1
  <1> SUFFICES ASSUME NEW T, NEW c, T \subseteq {c} PROVE Cardinality(T) <= 1
    OBVIOUS
  <1>1. Cardinality({}) = 0 /\ Cardinality({c}) = 1
    BY FS_EmptySet, FS_Singleton, Zenon
  <1>2. Cardinality({}) <= 1 /\ Cardinality({c}) <= 1
    BY <1>1
  <1>3. T = {} \/ T = {c}
    OBVIOUS
  <1> QED BY <1>2, <1>3, Zenon

LEMMA ApiHeard == ApiInv => ApiAnswersHeard
  <1> SUFFICES ASSUME ApiInv, NEW i \in DOMAIN flights
      PROVE  LET f == flights[i]
                 hearers == {c \in heard : c.call = i}
                 was == Hearing(f.hears, f.outcome)
             IN  /\ Cardinality(hearers) <= 1
                 /\ f.outcome = "none" \/ f.sync => hearers = {}
                 /\ \A c \in hearers : c.ok = (f.outcome = "ok") /\ c.by >= was
                 /\ f.outcome # "none" /\ ~ f.sync /\ was # 0 => hearers # {}
                 /\ f.sent["Content-Type"] >= f.sent["body"]
                 /\ \A j \in 1..i, p \in ApiParts : flights[j].sent[p] <= f.sent[p] /\ f.sent[p] <= i
    BY DEF ApiAnswersHeard
  <1> DEFINE f == flights[i]
             hearers == {c \in heard : c.call = i}
             n == Len(flights)
  <1>1. n \in Nat /\ i \in 1..n /\ f \in FlightRecord
    BY DEF ApiInv
  <1>2. NotNewer(f, api, hears, i) /\ Heard(f, HeardOf(heard, i))
    BY <1>1 DEF ApiInv
  <1>3. Heard(f, hearers)
    BY <1>2 DEF HeardOf
  <1>4. f.sent["Content-Type"] >= f.sent["body"]
    <2>1. f.sent["body"] <= f.sent["Content-Type"] /\ f.sent["body"] \in Nat /\ f.sent["Content-Type"] \in Nat
      BY <1>1, <1>2, PartsThere DEF NotNewer, FlightRecord
    <2> HIDE DEF f
    <2> QED BY <2>1
  <1>5. ASSUME NEW j \in 1..i, NEW p \in ApiParts PROVE flights[j].sent[p] <= f.sent[p] /\ f.sent[p] <= i
    <2>1. j \in 1..n /\ j <= i
      BY <1>1
    <2> QED BY <1>1, <1>2, <2>1 DEF ApiInv, NotNewer
  <1> HIDE DEF hearers, f
  <1>6. Cardinality(hearers) <= 1
    BY <1>3, AtMostOne DEF Heard
  <1>7. /\ f.outcome = "none" \/ f.sync => hearers = {}
        /\ \A c \in hearers : c.ok = (f.outcome = "ok") /\ c.by >= Hearing(f.hears, f.outcome)
        /\ f.outcome # "none" /\ ~ f.sync /\ Hearing(f.hears, f.outcome) # 0 => hearers # {}
    BY <1>3, Zenon DEF Heard
  <1> QED BY <1>4, <1>5, <1>6, <1>7, Zenon DEF hearers, f

-----------------------------------------------------------------------------
(* Metrics: an object agrees with the times s that were recorded.          *)
MetricRecord ==
    [total : Nat, success : Nat, failed : Nat, time : Nat, min : Nat, max : Nat, fresh : BOOLEAN, count : Nat]

IsMost(x, s) == (\E i \in 1..Len(s) : s[i] = x) /\ \A i \in 1..Len(s) : s[i] <= x

(* The last time of 0 before the last time is the one at z *)
Cut(s, z) == (z # 0 => s[z] = 0) /\ \A i \in (z + 1)..(Len(s) - 1) : s[i] # 0
IsLeastFrom(x, s, z) == (\E i \in (z + 1)..Len(s) : s[i] = x) /\ \A i \in (z + 1)..Len(s) : x <= s[i]

Extremes(m, s) ==
    /\ Len(s) = 0 => m.min = Unset /\ m.max = 0
    /\ Len(s) # 0 => IsMost(m.max, s) /\ \E z \in 0..(Len(s) - 1) : Cut(s, z) /\ IsLeastFrom(m.min, s, z)

Right(m, s) ==
    m.success = Len(s) /\ m.time = SumOver(s, DOMAIN s) /\ m.count <= m.total /\ Extremes(m, s)

MetricsInv ==
    /\ metrics \in Seq(MetricRecord) /\ times \in Seq(Seq(Durations)) /\ Len(times) = Len(metrics)
    /\ entry \in 0..Len(metrics) /\ handle \in [Recorders -> 0..Len(metrics)]
    /\ \A o \in 1..Len(metrics) : Right(metrics[o], times[o])

LEMMA MaxIs ==
    ASSUME NEW S, S \subseteq Int, NEW x \in S, \A y \in S : y <= x
    PROVE  Max(S) = x
  <1>1. \A y \in S : x >= y
    OBVIOUS
  <1>2. \A t \in S : (\A y \in S : t >= y) => t = x
    OBVIOUS
  <1> QED BY <1>1, <1>2 DEF Max

LEMMA MinIs ==
    ASSUME NEW S, S \subseteq Int, NEW x \in S, \A y \in S : x <= y
    PROVE  Min(S) = x
  <1>1. \A t \in S : (\A y \in S : t <= y) => t = x
    OBVIOUS
  <1> QED BY <1>1 DEF Min

LEMMA UnsetIs == Unset \in Nat /\ Unset # 0 /\ \A ms \in Durations : ms < Unset
  <1>1. PICK longest \in Durations : \A ms \in Durations : ms <= longest
    BY MetricsAssumption
  <1>2. Durations \subseteq Int /\ Durations \subseteq Nat
    BY MetricsAssumption
  <1>3. Max(Durations) = longest
    BY <1>1, <1>2, MaxIs
  <1> QED BY <1>1, <1>2, <1>3 DEF Unset

LEMMA BlankRight == Blank \in MetricRecord /\ Right(Blank, <<>>)
  <1>1. Blank \in MetricRecord
    BY UnsetIs DEF Blank, MetricRecord
  <1>2. /\ Blank.success = 0 /\ Blank.time = 0 /\ Blank.count = 0 /\ Blank.total = 0
        /\ Blank.min = Unset /\ Blank.max = 0
    BY DEF Blank
  <1>3. DOMAIN <<>> = {} /\ Len(<<>>) = 0
    OBVIOUS
  <1>4. SumOver(<<>>, DOMAIN <<>>) = 0
    BY <1>3, SumOfNone
  <1> HIDE DEF Blank
  <1>5. Extremes(Blank, <<>>)
    BY <1>2, <1>3 DEF Extremes
  <1>6. Blank.count <= Blank.total
    BY <1>2
  <1> QED BY <1>1, <1>2, <1>3, <1>4, <1>5, <1>6, Zenon DEF Right

LEMMA TimesAre ==
    ASSUME NEW s \in Seq(Durations)
    PROVE  /\ Durations \subseteq Nat /\ Len(s) \in Nat /\ DOMAIN s = 1..Len(s)
           /\ \A i \in 1..Len(s) : s[i] \in Durations /\ s[i] \in Nat
  <1>1. Durations \subseteq Nat
    BY MetricsAssumption
  <1>2. Len(s) \in Nat /\ DOMAIN s = 1..Len(s) /\ \A i \in 1..Len(s) : s[i] \in Durations
    OBVIOUS
  <1> QED BY <1>1, <1>2

(* A time is added to the sum *)
LEMMA SumAppended ==
    ASSUME NEW s \in Seq(Durations), NEW ms \in Durations
    PROVE  SumOver(Append(s, ms), DOMAIN Append(s, ms)) = SumOver(s, DOMAIN s) + ms
  <1> DEFINE t == Append(s, ms)
             n == Len(s)
  <1>1. n \in Nat /\ ms \in Nat /\ DOMAIN s = 1..n /\ \A i \in 1..n : s[i] \in Nat
    BY TimesAre
  <1>2. DOMAIN t = 1..(n + 1) /\ t[n + 1] = ms /\ \A i \in 1..n : t[i] = s[i]
    OBVIOUS
  <1> HIDE DEF t, n
  <1>3. 1..(n + 1) = (1..n) \cup {n + 1} /\ (1..n) \cap {n + 1} = {}
    BY <1>1
  <1>4. HasSizes(t, 1..n) /\ HasSizes(t, {n + 1})
    <2>0. 1 \in Int /\ n \in Int
      BY <1>1
    <2>1. IsFiniteSet(1..n) /\ IsFiniteSet({n + 1})
      BY <2>0, FS_Interval, FS_Singleton, Zenon
    <2> QED BY <1>1, <1>2, <2>1 DEF HasSizes
  <1>5. SumOver(t, (1..n) \cup {n + 1}) = SumOver(t, 1..n) + SumOver(t, {n + 1})
    BY <1>3, <1>4, SumOfParts
  <1>6. SumOver(t, {n + 1}) = ms
    BY <1>1, <1>2, SumOfOne
  <1>7. SumOver(t, 1..n) = SumOver(s, 1..n)
    BY <1>2, SumOfSame
  <1> QED BY <1>1, <1>2, <1>3, <1>5, <1>6, <1>7 DEF t

(* recordSuccess() *)
LEMMA SuccessRight ==
    ASSUME NEW m \in MetricRecord, NEW s \in Seq(Durations), NEW ms \in Durations, Right(m, s)
    PROVE  /\ Succeeded(m, ms) \in MetricRecord
           /\ Right(Succeeded(m, ms), Append(s, ms))
  <1> DEFINE d == Succeeded(m, ms)
             t == Append(s, ms)
             n == Len(s)
             least == IF m.min = 0 \/ ms < m.min THEN ms ELSE m.min
             most == IF ms > m.max THEN ms ELSE m.max
  <1>1. n \in Nat /\ ms \in Nat /\ \A i \in 1..n : s[i] \in Durations /\ s[i] \in Nat
    BY TimesAre
  <1>2. Len(t) = n + 1 /\ t[n + 1] = ms /\ \A i \in 1..n : t[i] = s[i]
    OBVIOUS
  <1>3. /\ d \in MetricRecord /\ d.success = m.success + 1 /\ d.time = m.time + ms /\ d.min = least /\ d.max = most
        /\ d.count = m.count /\ d.total = m.total
    <2>1. /\ m.success + 1 \in Nat /\ m.time + ms \in Nat /\ least \in Nat /\ most \in Nat
      BY <1>1 DEF MetricRecord
    <2>2. d = [m EXCEPT !.success = m.success + 1, !.time = m.time + ms, !.min = least, !.max = most]
      BY DEF Succeeded, MetricRecord
    <2> HIDE DEF d, least, most
    <2> QED BY <2>1, <2>2 DEF MetricRecord
  <1>4. /\ m.success = n /\ m.time = SumOver(s, DOMAIN s) /\ m.count <= m.total /\ Extremes(m, s)
        /\ m.min \in Nat /\ m.max \in Nat
    BY DEF Right, MetricRecord
  <1>5. SumOver(t, DOMAIN t) = SumOver(s, DOMAIN s) + ms
    BY SumAppended
  <1> HIDE DEF d, t, n
  <1>6. IsMost(most, t)
    <2>0. \A i \in 1..(n + 1) : i \in 1..n \/ i = n + 1
      BY <1>1
    <2>1. n + 1 \in 1..(n + 1) /\ \A i \in 1..n : i \in 1..(n + 1)
      BY <1>1
    <2>2. CASE n = 0
      <3>1. m.max = 0 /\ most = ms
        BY <1>1, <1>4, <2>2 DEF Extremes, n
      <3>2. 1..n = {}
        BY <2>2
      <3>3. ms <= ms
        BY <1>1
      <3> HIDE DEF most
      <3> QED BY <1>2, <2>0, <2>1, <3>1, <3>2, <3>3 DEF IsMost
    <2>3. CASE n # 0
      <3>1. (\E i \in 1..n : s[i] = m.max) /\ \A i \in 1..n : s[i] <= m.max
        BY <1>4, <2>3 DEF Extremes, IsMost, n
      <3>2. most \in Nat /\ ms <= most /\ m.max <= most /\ most \in {ms, m.max}
        BY <1>1, <1>4
      <3> HIDE DEF most
      <3>3. \A i \in 1..n : s[i] <= most
        BY <1>1, <1>4, <3>1, <3>2
      <3>4. \A i \in 1..(n + 1) : t[i] <= most
        BY <1>2, <2>0, <3>2, <3>3
      <3>5. \E i \in 1..(n + 1) : t[i] = most
        BY <1>2, <2>1, <3>1, <3>2
      <3> QED BY <1>2, <3>4, <3>5 DEF IsMost
    <2> QED BY <2>2, <2>3
  <1>7. \E z \in 0..n : Cut(t, z) /\ IsLeastFrom(least, t, z)
    <2>1. CASE n = 0
      <3>1. m.min = Unset /\ least = ms
        BY <1>4, <2>1, UnsetIs DEF Extremes, n
      <3>2. (0 + 1)..(n + 1) = {n + 1} /\ (0 + 1)..((n + 1) - 1) = {}
        BY <2>1
      <3>3. ms <= ms
        BY <1>1
      <3> HIDE DEF least
      <3>4. Cut(t, 0)
        BY <1>2, <3>2 DEF Cut
      <3>5. IsLeastFrom(least, t, 0)
        BY <1>2, <3>1, <3>2, <3>3 DEF IsLeastFrom
      <3> QED BY <1>1, <3>4, <3>5
    <2>2. CASE n # 0
      <3>0. PICK z \in 0..(n - 1) : Cut(s, z) /\ IsLeastFrom(m.min, s, z)
        BY <1>4, <2>2 DEF Extremes, n
      <3>1. z \in 0..n /\ z \in Nat /\ n \in (z + 1)..n
        BY <1>1, <2>2, <3>0
      <3>2. /\ z # 0 => s[z] = 0
            /\ \A i \in (z + 1)..(n - 1) : s[i] # 0
            /\ \E i \in (z + 1)..n : s[i] = m.min
            /\ \A i \in (z + 1)..n : m.min <= s[i]
        BY <3>0 DEF Cut, IsLeastFrom, n
      <3>3. CASE m.min = 0
        <4>1. least = ms
          BY <3>3
        <4>2. PICK i \in (z + 1)..n : s[i] = 0
          BY <3>2, <3>3
        <4>3. i = n
          BY <1>1, <3>1, <3>2, <4>2
        <4>4. (n + 1)..(n + 1) = {n + 1} /\ (n + 1)..((n + 1) - 1) = {} /\ n \in 1..n
          BY <1>1, <2>2
        <4>5. t[n] = 0
          BY <1>2, <4>2, <4>3, <4>4
        <4>6. Cut(t, n)
          BY <1>2, <4>4, <4>5 DEF Cut
        <4>7. ms <= ms
          BY <1>1
        <4> HIDE DEF least
        <4>8. IsLeastFrom(least, t, n)
          BY <1>2, <4>1, <4>4, <4>7 DEF IsLeastFrom
        <4> QED BY <1>1, <4>6, <4>8
      <3>4. CASE m.min # 0
        <4>1. least \in Nat /\ least <= ms /\ least <= m.min /\ least \in {ms, m.min}
          BY <1>1, <1>4, <3>4
        <4> HIDE DEF least
        <4>2. \A i \in (z + 1)..n : i \in 1..n /\ i \in (z + 1)..(n + 1)
          BY <1>1, <3>1
        <4>3. \A i \in (z + 1)..n : t[i] = s[i] /\ s[i] # 0 /\ least <= s[i]
          <5> SUFFICES ASSUME NEW i \in (z + 1)..n PROVE t[i] = s[i] /\ s[i] # 0 /\ least <= s[i]
            OBVIOUS
          <5>1. s[i] \in Nat /\ m.min <= s[i] /\ t[i] = s[i]
            BY <1>1, <1>2, <3>2, <4>2
          <5> QED BY <1>4, <3>4, <4>1, <5>1
        <4>4. (n + 1) - 1 = n /\ n + 1 \in (z + 1)..(n + 1) /\ \A i \in (z + 1)..(n + 1) : i \in (z + 1)..n \/ i = n + 1
          BY <1>1, <3>1
        <4>5. z # 0 => t[z] = 0
          <5>1. z # 0 => z \in 1..n
            BY <1>1, <3>1
          <5> QED BY <1>2, <3>2, <5>1
        <4>6. Cut(t, z)
          BY <1>2, <4>3, <4>4, <4>5 DEF Cut
        <4>7. \A i \in (z + 1)..(n + 1) : least <= t[i]
          BY <1>2, <4>1, <4>3, <4>4
        <4>8. \E i \in (z + 1)..(n + 1) : t[i] = least
          <5>1. CASE least = ms
            BY <1>2, <4>4, <5>1
          <5>2. CASE least = m.min
            BY <3>2, <4>2, <4>3, <5>2
          <5> QED BY <4>1, <5>1, <5>2
        <4>9. IsLeastFrom(least, t, z)
          BY <1>2, <4>7, <4>8 DEF IsLeastFrom
        <4> QED BY <3>1, <4>6, <4>9
      <3> QED BY <3>3, <3>4
    <2> QED BY <2>1, <2>2
  <1> HIDE DEF least, most
  <1>8. Len(t) # 0 /\ 0..(Len(t) - 1) = 0..n
    BY <1>1, <1>2
  <1>9. Extremes(d, t)
    BY <1>3, <1>6, <1>7, <1>8 DEF Extremes
  <1>10. d.success = Len(t) /\ d.time = SumOver(t, DOMAIN t) /\ d.count <= d.total
    BY <1>2, <1>3, <1>4, <1>5
  <1> QED BY <1>3, <1>9, <1>10 DEF Right, d, t

(* The other changes of an object *)
LEMMA OthersRight ==
    ASSUME NEW m \in MetricRecord, NEW s \in Seq(Durations), Right(m, s)
    PROVE  /\ Requested(m) \in MetricRecord /\ Right(Requested(m), s)
           /\ [m EXCEPT !.failed = @ + 1] \in MetricRecord /\ Right([m EXCEPT !.failed = @ + 1], s)
           /\ [m EXCEPT !.fresh = FALSE] \in MetricRecord /\ Right([m EXCEPT !.fresh = FALSE], s)
  <1>1. ASSUME NEW d \in MetricRecord, d.success = m.success, d.time = m.time, d.min = m.min, d.max = m.max,
               d.count <= d.total
        PROVE  Right(d, s)
    BY <1>1 DEF Right, Extremes
  <1>2. m.count \in Nat /\ m.total \in Nat /\ m.count <= m.total
    BY DEF Right, MetricRecord
  <1>3. ASSUME NEW d, d \in {Requested(m), [m EXCEPT !.failed = @ + 1], [m EXCEPT !.fresh = FALSE]}
        PROVE  /\ d \in MetricRecord /\ d.success = m.success /\ d.time = m.time /\ d.min = m.min /\ d.max = m.max
               /\ d.count <= d.total
    <2>1. CASE d = Requested(m)
      <3> DEFINE c == IF m.fresh THEN m.count + 1 ELSE 1
      <3>1. c \in Nat /\ c <= m.total + 1
        BY <1>2
      <3>2. d = [m EXCEPT !.total = m.total + 1, !.count = c, !.fresh = TRUE]
        BY <2>1 DEF Requested, MetricRecord
      <3> DEFINE q == m.total + 1
      <3>3. q \in Nat /\ c <= q
        BY <1>2, <3>1
      <3>4. d = [m EXCEPT !.total = q, !.count = c, !.fresh = TRUE]
        BY <3>2
      <3> HIDE DEF c, q
      <3>5. d \in MetricRecord
        BY <3>1, <3>3, <3>4 DEF MetricRecord
      <3>6. /\ d.success = m.success /\ d.time = m.time /\ d.min = m.min /\ d.max = m.max
            /\ d.count = c /\ d.total = q
        BY <3>4 DEF MetricRecord
      <3> QED BY <3>3, <3>5, <3>6
    <2>2. CASE d = [m EXCEPT !.failed = @ + 1]
      BY <1>2, <2>2 DEF MetricRecord
    <2>3. CASE d = [m EXCEPT !.fresh = FALSE]
      BY <1>2, <2>3 DEF MetricRecord
    <2> QED BY <1>3, <2>1, <2>2, <2>3
  <1> QED BY <1>1, <1>3

(* One object changes, and with it possibly its times *)
LEMMA ObjectStep ==
    ASSUME MetricsInv, NEW o \in 1..Len(metrics), NEW m \in MetricRecord, NEW s \in Seq(Durations),
           metrics' = [metrics EXCEPT ![o] = m], times' = [times EXCEPT ![o] = s], Right(m, s),
           UNCHANGED <<entry, handle>>
    PROVE  MetricsInv'
  <1> DEFINE n == Len(metrics)
  <1>1. /\ metrics \in Seq(MetricRecord) /\ times \in Seq(Seq(Durations)) /\ Len(times) = n /\ n \in Nat
        /\ entry \in 0..n /\ handle \in [Recorders -> 0..n]
        /\ \A i \in 1..n : Right(metrics[i], times[i])
    BY DEF MetricsInv
  <1>2. /\ metrics' \in Seq(MetricRecord) /\ Len(metrics') = n /\ metrics'[o] = m
        /\ \A i \in 1..n : i # o => metrics'[i] = metrics[i]
    BY <1>1
  <1>3. /\ times' \in Seq(Seq(Durations)) /\ Len(times') = n /\ times'[o] = s
        /\ \A i \in 1..n : i # o => times'[i] = times[i]
    BY <1>1
  <1>4. \A i \in 1..n : Right(metrics'[i], times'[i])
    <2>1. ASSUME NEW i \in 1..n, i # o PROVE Right(metrics'[i], times'[i])
      BY <1>1, <1>2, <1>3, <2>1
    <2>2. Right(metrics'[o], times'[o])
      BY <1>2, <1>3
    <2> QED BY <2>1, <2>2, Zenon
  <1> QED BY <1>1, <1>2, <1>3, <1>4 DEF MetricsInv

LEMMA MadeRight ==
    ASSUME MetricsInv, Make, entry' = Len(metrics) + 1, handle' \in [Recorders -> 0..(Len(metrics) + 1)]
    PROVE  MetricsInv'
  <1> DEFINE n == Len(metrics)
  <1>1. /\ metrics \in Seq(MetricRecord) /\ times \in Seq(Seq(Durations)) /\ Len(times) = n /\ n \in Nat
        /\ \A i \in 1..n : Right(metrics[i], times[i])
    BY DEF MetricsInv
  <1>2. metrics' = Append(metrics, Blank) /\ times' = Append(times, <<>>) /\ Blank \in MetricRecord
    BY BlankRight DEF Make
  <1>3. /\ metrics' \in Seq(MetricRecord) /\ Len(metrics') = n + 1 /\ metrics'[n + 1] = Blank
        /\ \A i \in 1..n : metrics'[i] = metrics[i]
    BY <1>1, <1>2
  <1>4. <<>> \in Seq(Durations)
    OBVIOUS
  <1>5. /\ times' \in Seq(Seq(Durations)) /\ Len(times') = n + 1 /\ times'[n + 1] = <<>>
        /\ \A i \in 1..n : times'[i] = times[i]
    BY <1>1, <1>2, <1>4
  <1>6. \A i \in 1..(n + 1) : i \in 1..n \/ i = n + 1
    BY <1>1
  <1> HIDE DEF n
  <1>7. \A i \in 1..(n + 1) : Right(metrics'[i], times'[i])
    <2>1. ASSUME NEW i \in 1..n PROVE Right(metrics'[i], times'[i])
      BY <1>1, <1>3, <1>5, <2>1
    <2>2. Right(metrics'[n + 1], times'[n + 1])
      BY <1>3, <1>5, BlankRight, Zenon
    <2> QED BY <1>6, <2>1, <2>2, Zenon
  <1>8. entry' \in 0..(n + 1)
    BY <1>1 DEF n
  <1> QED BY <1>3, <1>5, <1>7, <1>8 DEF MetricsInv, n

LEMMA MetricsStay == MetricsInv /\ [MetricsNext]_metricVars => MetricsInv'
  <1> SUFFICES ASSUME MetricsInv, [MetricsNext]_metricVars PROVE MetricsInv'
    OBVIOUS
  <1> DEFINE n == Len(metrics)
  <1>0. /\ metrics \in Seq(MetricRecord) /\ times \in Seq(Seq(Durations)) /\ Len(times) = n /\ n \in Nat
        /\ entry \in 0..n /\ handle \in [Recorders -> 0..n]
        /\ \A i \in 1..n : Right(metrics[i], times[i])
    BY DEF MetricsInv
  <1>1. \A i \in 1..n : metrics[i] \in MetricRecord /\ times[i] \in Seq(Durations) /\ times = [times EXCEPT ![i] = times[i]]
    BY <1>0
  <1>2. CASE RegisterMetrics
    <2>1. Make /\ entry' = n + 1 /\ handle' = handle
      BY <1>2 DEF RegisterMetrics
    <2>2. handle' \in [Recorders -> 0..(n + 1)]
      BY <1>0, <2>1
    <2> QED BY <2>1, <2>2, MadeRight
  <1>3. ASSUME NEW r \in Recorders, GetMetrics(r) PROVE MetricsInv'
    <2>1. handle' = [handle EXCEPT ![r] = entry']
      BY <1>3 DEF GetMetrics
    <2>2. CASE entry # 0
      <3>1. UNCHANGED <<metrics, times, entry>>
        BY <1>3, <2>2 DEF GetMetrics
      <3> QED BY <1>0, <2>1, <3>1 DEF MetricsInv
    <2>3. CASE entry = 0
      <3>1. Make /\ entry' = n + 1
        BY <1>3, <2>3 DEF GetMetrics
      <3>2. handle' \in [Recorders -> 0..(n + 1)]
        BY <1>0, <2>1, <3>1
      <3> QED BY <3>1, <3>2, MadeRight
    <2> QED BY <2>2, <2>3
  <1>4. ASSUME NEW r \in Recorders, handle[r] # 0
        PROVE  /\ handle[r] \in 1..n /\ metrics[handle[r]] \in MetricRecord /\ times[handle[r]] \in Seq(Durations)
               /\ Right(metrics[handle[r]], times[handle[r]])
    BY <1>0, <1>1, <1>4
  <1>5. ASSUME NEW r \in Recorders, RecordRequest(r) \/ RecordFailure(r) PROVE MetricsInv'
    <2> DEFINE o == handle[r]
    <2>1. PICK m \in {Requested(metrics[o]), [metrics[o] EXCEPT !.failed = @ + 1]} :
            o # 0 /\ metrics' = [metrics EXCEPT ![o] = m] /\ UNCHANGED <<entry, handle, times>>
      BY <1>5 DEF RecordRequest, RecordFailure, Update
    <2>2. /\ o \in 1..n /\ metrics[o] \in MetricRecord /\ times[o] \in Seq(Durations) /\ Right(metrics[o], times[o])
      BY <1>4, <2>1
    <2> HIDE DEF o, n
    <2>3. m \in MetricRecord /\ Right(m, times[o])
      BY <2>1, <2>2, OthersRight
    <2>4. times' = [times EXCEPT ![o] = times[o]]
      BY <1>1, <2>1, <2>2
    <2> QED BY <2>1, <2>2, <2>3, <2>4, ObjectStep DEF n
  <1>6. ASSUME NEW r \in Recorders, NEW ms \in Durations, RecordSuccess(r, ms) PROVE MetricsInv'
    <2> DEFINE o == handle[r]
               m == Succeeded(metrics[o], ms)
               s == Append(times[o], ms)
    <2>1. o # 0 /\ metrics' = [metrics EXCEPT ![o] = m] /\ UNCHANGED <<entry, handle>>
      BY <1>6 DEF RecordSuccess, Update
    <2>2. /\ o \in 1..n /\ metrics[o] \in MetricRecord /\ times[o] \in Seq(Durations) /\ Right(metrics[o], times[o])
      BY <1>4, <2>1
    <2>3. times' = [times EXCEPT ![o] = s]
      BY <1>0, <1>6, <2>2 DEF RecordSuccess
    <2>4. s \in Seq(Durations)
      BY <2>2
    <2> HIDE DEF o, n
    <2>5. m \in MetricRecord /\ Right(m, s)
      BY <2>2, SuccessRight
    <2> HIDE DEF m, s
    <2> QED BY <2>1, <2>2, <2>3, <2>4, <2>5, ObjectStep DEF n
  <1>7. ASSUME NEW o \in DOMAIN metrics, WindowEnds(o) PROVE MetricsInv'
    <2> DEFINE m == [metrics[o] EXCEPT !.fresh = FALSE]
    <2>1. o \in 1..n
      BY <1>0
    <2>2. metrics' = [metrics EXCEPT ![o] = m] /\ UNCHANGED <<entry, handle, times>>
      BY <1>0, <1>7, <2>1 DEF WindowEnds
    <2>3. metrics[o] \in MetricRecord /\ times[o] \in Seq(Durations) /\ Right(metrics[o], times[o])
      BY <1>0, <1>1, <2>1
    <2>4. m \in MetricRecord /\ Right(m, times[o])
      BY <2>3, OthersRight
    <2>5. times' = [times EXCEPT ![o] = times[o]]
      BY <1>1, <2>1, <2>2
    <2> HIDE DEF m
    <2> QED BY <2>1, <2>2, <2>3, <2>4, <2>5, ObjectStep
  <1>8. CASE UNCHANGED metricVars
    BY <1>0, <1>8 DEF metricVars, MetricsInv
  <1> QED BY <1>2, <1>3, <1>5, <1>6, <1>7, <1>8 DEF MetricsNext

(* SinceZero starts after the cut *)
LEMMA SinceZeroIs ==
    ASSUME NEW s \in Seq(Durations), Len(s) # 0, NEW z \in 0..(Len(s) - 1), Cut(s, z)
    PROVE  ToSet(SinceZero(s)) = {s[i] : i \in (z + 1)..Len(s)}
  <1> DEFINE n == Len(s)
             zeros == {i \in DOMAIN s : s[i] = 0 /\ i < Len(s)}
             from == 1 + (IF zeros = {} THEN 0 ELSE Max(zeros))
             t == SubSeq(s, from, Len(s))
  <1>1. n \in Nat /\ DOMAIN s = 1..n /\ n # 0 /\ z \in Nat /\ z < n
    OBVIOUS
  <1>2. SinceZero(s) = t
    BY DEF SinceZero
  <1>3. \A i \in zeros : i \in Int /\ i <= z
    <2> SUFFICES ASSUME NEW i \in zeros PROVE i \in Int /\ i <= z
      OBVIOUS
    <2>1. i \in 1..n /\ s[i] = 0 /\ i < n
      BY <1>1
    <2>2. i \notin (z + 1)..(n - 1)
      BY <2>1 DEF Cut
    <2> QED BY <1>1, <2>1, <2>2
  <1>4. from = z + 1
    <2>1. CASE z = 0
      <3>1. zeros = {}
        BY <1>1, <1>3, <2>1
      <3> QED BY <2>1, <3>1
    <2>2. CASE z # 0
      <3>1. z \in zeros
        BY <1>1, <2>2 DEF Cut
      <3>2. zeros \subseteq Int
        BY <1>3
      <3> HIDE DEF zeros
      <3>3. Max(zeros) = z
        BY <1>3, <3>1, <3>2, MaxIs
      <3> QED BY <1>1, <3>1, <3>3
    <2> QED BY <2>1, <2>2
  <1> HIDE DEF zeros, from
  <1>5. DOMAIN t = 1..(n - z) /\ \A i \in 1..(n - z) : t[i] = s[i + z]
    BY <1>1, <1>4
  <1>6. \A i \in 1..(n - z) : i + z \in (z + 1)..n
    BY <1>1
  <1>7. \A i \in (z + 1)..n : i - z \in 1..(n - z) /\ (i - z) + z = i
    BY <1>1
  <1> HIDE DEF t, n
  <1>8. ToSet(t) \subseteq {s[i] : i \in (z + 1)..n}
    BY <1>5, <1>6 DEF ToSet
  <1>9. ASSUME NEW i \in (z + 1)..n PROVE s[i] \in ToSet(t)
    <2>1. t[i - z] = s[i] /\ i - z \in DOMAIN t
      BY <1>5, <1>7
    <2> QED BY <2>1 DEF ToSet
  <1> QED BY <1>2, <1>8, <1>9 DEF n

LEMMA MetricsRight == MetricsInv => MetricsExact
  <1> SUFFICES ASSUME MetricsInv, NEW o \in DOMAIN metrics
      PROVE  LET m == metrics[o]
                 s == times[o]
             IN  /\ m.success = Len(s) /\ m.time = SumOver(s, DOMAIN s) /\ m.count <= m.total
                 /\ s # <<>> => /\ m.max = Max(ToSet(s))
                                /\ MinResponseTime(m) = Min(ToSet(SinceZero(s)))
    BY DEF MetricsExact
  <1> DEFINE m == metrics[o]
             s == times[o]
             n == Len(s)
  <1>1. o \in 1..Len(metrics) /\ s \in Seq(Durations)
    BY DEF MetricsInv
  <1>2. Right(m, s)
    BY <1>1 DEF MetricsInv
  <1> HIDE DEF m, s
  <1>3. m.success = Len(s) /\ m.time = SumOver(s, DOMAIN s) /\ m.count <= m.total
    BY <1>2 DEF Right
  <1>4. ASSUME s # <<>> PROVE m.max = Max(ToSet(s)) /\ MinResponseTime(m) = Min(ToSet(SinceZero(s)))
    <2>1. n # 0 /\ n \in Nat /\ DOMAIN s = 1..n /\ \A i \in 1..n : s[i] \in Durations /\ s[i] \in Nat
      BY <1>1, <1>4, TimesAre
    <2>2. IsMost(m.max, s)
      BY <1>2, <2>1 DEF Right, Extremes
    <2>3. PICK z \in 0..(n - 1) : Cut(s, z) /\ IsLeastFrom(m.min, s, z)
      BY <1>2, <2>1 DEF Right, Extremes
    <2>4. m.max = Max(ToSet(s))
      <3> DEFINE S == ToSet(s)
      <3>1. S \subseteq Int /\ m.max \in S /\ \A y \in S : y <= m.max
        BY <2>1, <2>2 DEF ToSet, IsMost
      <3> HIDE DEF S
      <3>2. Max(S) = m.max
        BY <3>1, MaxIs
      <3> QED BY <3>2 DEF S
    <2>5. ToSet(SinceZero(s)) = {s[i] : i \in (z + 1)..n}
      BY <1>1, <2>1, <2>3, SinceZeroIs
    <2>6. m.min \in Durations /\ Min(ToSet(SinceZero(s))) = m.min
      <3> DEFINE S == {s[i] : i \in (z + 1)..n}
      <3>0. \A i \in (z + 1)..n : i \in 1..n
        BY <2>1, <2>3
      <3>1. S \subseteq Int /\ S \subseteq Durations /\ m.min \in S /\ \A y \in S : m.min <= y
        BY <2>1, <2>3, <3>0 DEF IsLeastFrom
      <3> HIDE DEF S
      <3>2. Min(S) = m.min
        BY <3>1, MinIs
      <3> QED BY <2>5, <3>1, <3>2 DEF S
    <2>7. m.min # Unset
      BY <2>6, UnsetIs, MetricsAssumption
    <2> QED BY <2>4, <2>6, <2>7 DEF MinResponseTime
  <1> QED BY <1>3, <1>4, Zenon DEF m, s

-----------------------------------------------------------------------------
(* The exchanges together: each part has its own variables, and every step *)
(* of the network is one of the part, or leaves it alone.                  *)
ExchangesInv ==
    HttpInv /\ ApiInv /\ TransferInv /\ UploadInv /\ AdapterInv /\ CookieInv /\ MetricsInv

LEMMA HttpStarts == HttpInit => HttpInv
  BY RequestAssumption DEF HttpInit, HttpInv, RequestRecord, AnsweredOnce, Unsent

LEMMA ApiStarts == ApiInit => ApiInv
  <1> SUFFICES ASSUME ApiInit PROVE ApiInv
    OBVIOUS
  <1>1. flights = <<>> /\ heard = {} /\ Len(flights) = 0 /\ Chain = 1 /\ 1..Len(flights) = {}
    BY DEF ApiInit, Chain
  <1>2. api \in [ApiParts -> Nat] /\ hears \in Callbacks /\ hears.ok = 0 /\ hears.err = 0
        /\ \A p \in ApiParts : api[p] = 0
    BY DEF ApiInit, Callbacks
  <1>3. flights \in Seq(FlightRecord)
    BY <1>1
  <1> QED BY <1>1, <1>2, <1>3, PartsThere DEF ApiInv

LEMMA TransferStarts == TransferInit => TransferInv
  <1> SUFFICES ASSUME TransferInit PROVE TransferInv
    OBVIOUS
  <1>1. disk = <<>> /\ buffer = <<>> /\ ~isOpen /\ isOpen \in BOOLEAN /\ reply = 0 /\ ~orphan /\ outcome = "none"
    BY DEF TransferInit
  <1>2. disk \in Seq(Nat) /\ buffer \in Seq(Nat) /\ Len(disk) = 0 /\ Len(buffer) = 0
    BY <1>1
  <1>3. 1..Len(disk) = {} /\ 1..Len(buffer) = {} /\ WrittenSoFar <= Size
    BY <1>2, SizeAssumption DEF WrittenSoFar
  <1> QED BY <1>1, <1>2, <1>3 DEF TransferInv

LEMMA UploadsStart == UploadInit => UploadInv
  BY UploadAssumption DEF UploadInit, UploadInv

LEMMA AdapterStarts == AdapterInit => AdapterInv
  <1> SUFFICES ASSUME AdapterInit PROVE AdapterInv
    OBVIOUS
  <1>0. <<>> \in Seq(Interceptors)
    OBVIOUS
  <1>1. NoMessage \in MessageRecord /\ NoMessage.number = 0 /\ Nests(NoMessage, chain, sequence)
    <2>1. NoMessage.at = "idle" /\ NoMessage.number = 0 /\ NoMessage.answered = <<>> /\ NoMessage.asked = <<>>
      BY DEF NoMessage
    <2>2. NoMessage \in MessageRecord
      BY <1>0 DEF NoMessage, MessageRecord
    <2>3. sequence = 0
      BY DEF AdapterInit
    <2> QED BY <2>1, <2>2, <2>3 DEF Nests
  <1>2. \A m \in Messages : message[m] = NoMessage
    BY DEF AdapterInit
  <1>3. AdapterSound
    BY <1>1, <1>2 DEF AdapterInit, AdapterSound, HttpIsConnected
  <1>4. /\ chain \in Seq(Interceptors) /\ policy \in Nat /\ sequence \in Nat /\ upWanted \in BOOLEAN
        /\ message \in [Messages -> MessageRecord]
    BY <1>0, <1>1 DEF AdapterInit
  <1> QED BY <1>1, <1>2, <1>3, <1>4 DEF AdapterInv

LEMMA CookiesStart == CookieInit => CookieInv
  BY DEF CookieInit, CookieInv, FileIsWhole

LEMMA MetricsStart == MetricsInit => MetricsInv
  <1> SUFFICES ASSUME MetricsInit PROVE MetricsInv
    OBVIOUS
  <1>1. Len(metrics) = 0 /\ Len(times) = 0 /\ 1..Len(metrics) = {} /\ entry = 0 /\ 0 \in 0..Len(metrics)
    BY DEF MetricsInit
  <1>2. metrics \in Seq(MetricRecord) /\ times \in Seq(Seq(Durations))
    BY DEF MetricsInit
  <1>3. handle \in [Recorders -> 0..Len(metrics)]
    BY <1>1 DEF MetricsInit
  <1> QED BY <1>1, <1>2, <1>3 DEF MetricsInv

LEMMA ExchangeParts ==
    [Next]_<<subject, linkVars, policyVars, exchangeVars, recordVars>> =>
        /\ [HttpNext]_httpVars /\ [ApiNext]_apiVars /\ [TransferNext]_transferVars
        /\ [UploadNext]_uploadVars /\ [AdapterNext]_adapterVars
        /\ [CookieNext]_cookieVars /\ [MetricsNext]_metricVars
  BY Zenon DEF Next, LinkStep, PolicyStep, ExchangeStep, RecordStep, exchangeVars, fileVars, recordVars

LEMMA ExchangesHold == ExchangesInv => ExchangesSound
  <1> SUFFICES ASSUME ExchangesInv PROVE ExchangesSound
    OBVIOUS
  <1>1. AnsweredOnce /\ FileIsWhole
    BY DEF ExchangesInv, HttpInv, CookieInv
  <1>2. AnswersNest /\ AdapterSound
    BY DEF ExchangesInv, AdapterInv, Nests, AnswersNest
  <1>3. ApiAnswersHeard /\ FileIsPrefix /\ UploadReportedOnce /\ MetricsExact
    BY ApiHeard, TransferPrefix, UploadsReported, MetricsRight DEF ExchangesInv
  <1> QED BY <1>1, <1>2, <1>3 DEF ExchangesSound

(* Whatever is sent, answered, retried, uploaded, downloaded, intercepted  *)
(* or recorded in whichever order: no request is answered twice, a         *)
(* callback of HttpApi runs at most once and is no older than its request, *)
(* a download that nothing spoiled leaves the file a prefix of the source, *)
(* an upload no other one crossed is reported once, the interceptors of a  *)
(* message answer in the reverse order, the file of the cookies is whole   *)
(* or empty, and the counters of requests are those of the times recorded. *)
THEOREM ExchangesCorrect == Spec => []ExchangesSound
  <1>1. Init => ExchangesInv
    BY HttpStarts, ApiStarts, TransferStarts, UploadsStart, AdapterStarts, CookiesStart, MetricsStart
    DEF Init, ExchangesInv
  <1>2. ExchangesInv /\ [Next]_<<subject, linkVars, policyVars, exchangeVars, recordVars>> => ExchangesInv'
    BY ExchangeParts, HttpStays, ApiStays, TransferStays, UploadsStay, AdapterStays, CookiesStay, MetricsStay
    DEF ExchangesInv
  <1> QED BY <1>1, <1>2, ExchangesHold, PTL DEF Spec
=============================================================================
