---------------------------- MODULE RateLimiter ----------------------------
(***************************************************************************)
(* sc::network::RateLimiter (rate_limiter.h, .cpp): a token bucket under   *)
(* m_mutex, and a window counted by two atomics without it.                *)
(*                                                                         *)
(* A step of the window is one access to an atomic or to what m_mutex      *)
(* guards.  Time is a number of ticks.  Tokens and rates, doubles in the   *)
(* code, are counted in parts of a token.  A compare_exchange_weak that    *)
(* fails for no reason takes the thread around its loop.  The totals of    *)
(* accepted and rejected calls, which nothing reads back, are left out.    *)
(***************************************************************************)
EXTENDS Integers, FiniteSets

CONSTANTS
    Threads,    \* threads that call tryAcquire()
    Parts,      \* the parts of a token
    Rates,      \* values of permitsPerSec: parts earned in a tick
    Bursts,     \* values of the constructor's burstSize, 0 for none given
    Permits,    \* numbers of permits a call asks for
    WindowLen,  \* windowMs, in ticks
    MaxClock    \* bound on the time

ASSUME LimiterAssumption ==
    /\ IsFiniteSet(Threads)
    /\ Parts \in Nat \ {0}
    /\ Rates \subseteq Nat \ {0} /\ Rates # {}
    /\ Bursts \subseteq Nat /\ Permits \subseteq Nat \ {0}
    /\ WindowLen \in Nat \ {0} /\ MaxClock \in Nat

VARIABLES
    algorithm,    \* m_algorithm
    clock,        \* std::chrono::steady_clock
    rate,         \* m_permitsPerSec
    burst,        \* m_burstSize, in whole tokens
    tokens,       \* m_tokens
    lastRefill,   \* m_lastRefillTime
    windowStart,  \* m_windowStartMs
    windowCount,  \* m_windowCount
    at,           \* where each thread is in tryAcquireSlidingWindow()
    local,        \* its locals: permits, nowMs, maxPermits, expected, current
    taken,        \* history: tokens handed out by the bucket
    inWindow      \* history: permits given since m_windowStartMs was set

limiterVars == <<algorithm, clock, rate, burst, tokens, lastRefill, windowStart,
                 windowCount, at, local, taken, inWindow>>
bucketVars == <<burst, tokens, lastRefill, taken>>
windowVars == <<windowStart, windowCount, at, local, inWindow>>

LeastOf(a, b) == IF a < b THEN a ELSE b
GreatestOf(a, b) == IF a > b THEN a ELSE b

(* static_cast<int> of a rate: a rate below one permit becomes 0 *)
WholeTokens(parts) == parts \div Parts

(* The locals of a thread outside the function *)
NoLocals == [permits |-> 0, now |-> 0, max |-> 0, expected |-> 0, current |-> 0]

(* The constructor.  The window starts in the past, at 0. *)
LimiterInit ==
    /\ algorithm \in {"TokenBucket", "SlidingWindow"}
    /\ clock = 0 /\ lastRefill = 0
    /\ rate \in Rates
    /\ \E b \in Bursts : burst = IF b > 0 THEN b ELSE WholeTokens(rate)
    /\ tokens = burst * Parts
    /\ windowStart = 0 - WindowLen /\ windowCount = 0
    /\ at = [t \in Threads |-> "idle"]
    /\ local = [t \in Threads |-> NoLocals]
    /\ taken = 0 /\ inWindow = 0

Tick ==
    /\ clock < MaxClock /\ clock' = clock + 1
    /\ UNCHANGED <<algorithm, rate, bucketVars, windowVars>>

-----------------------------------------------------------------------------
(* refillTokens() *)
Refilled == LeastOf(tokens + (clock - lastRefill) * rate, burst * Parts)

(* A mistaken TryAcquireTokenBucket: a call that takes a token does not  *)
(* move the time of the last refill on.                                    *)
TakenRefillsTwice(p) ==
    /\ algorithm = "TokenBucket"
    /\ IF Refilled >= p * Parts
       THEN tokens' = Refilled - p * Parts /\ taken' = taken + p /\ UNCHANGED lastRefill
       ELSE tokens' = Refilled /\ lastRefill' = clock /\ UNCHANGED taken
    /\ UNCHANGED <<algorithm, clock, rate, burst, windowVars>>

TryAcquireTokenBucket(p) ==
    /\ algorithm = "TokenBucket"
    /\ lastRefill' = clock
    /\ IF Refilled >= p * Parts
       THEN tokens' = Refilled - p * Parts /\ taken' = taken + p
       ELSE tokens' = Refilled /\ UNCHANGED taken
    /\ UNCHANGED <<algorithm, clock, rate, burst, windowVars>>

(* availablePermits() refills the bucket; of the window it reads the count *)
AvailablePermits ==
    /\ algorithm = "TokenBucket"
    /\ lastRefill' = clock /\ tokens' = Refilled
    /\ UNCHANGED <<algorithm, clock, rate, burst, taken, windowVars>>

(* setPermitsPerSec(): the burst becomes the rate.  Tokens earned so far   *)
(* are not credited at the old rate.                                       *)
SetPermitsPerSec(r) ==
    /\ rate' = r /\ burst' = WholeTokens(r)
    /\ tokens' = LeastOf(tokens, WholeTokens(r) * Parts)
    /\ UNCHANGED <<algorithm, clock, lastRefill, taken, windowVars>>

-----------------------------------------------------------------------------
(* tryAcquireSlidingWindow(): permitsPerSec under m_mutex, the time, and   *)
(* m_windowStartMs, one after the other.                                   *)
BeginWindow(t, p) ==
    /\ algorithm = "SlidingWindow" /\ at[t] = "idle"
    /\ at' = [at EXCEPT ![t] = "time"]
    /\ local' = [local EXCEPT ![t] = [permits |-> p, now |-> 0, max |-> WholeTokens(rate),
                                      expected |-> 0, current |-> 0]]
    /\ UNCHANGED <<algorithm, clock, rate, bucketVars, windowStart, windowCount, inWindow>>

ReadTime(t) ==
    /\ at[t] = "time" /\ at' = [at EXCEPT ![t] = "load"]
    /\ local' = [local EXCEPT ![t].now = clock]
    /\ UNCHANGED <<algorithm, clock, rate, bucketVars, windowStart, windowCount, inWindow>>

LoadStart(t) ==
    /\ at[t] = "load" /\ at' = [at EXCEPT ![t] = "loop"]
    /\ local' = [local EXCEPT ![t].expected = windowStart]
    /\ UNCHANGED <<algorithm, clock, rate, bucketVars, windowStart, windowCount, inWindow>>

Expired(t) == local[t].now - local[t].expected >= WindowLen

(* compare_exchange of m_windowStartMs: a success leaves expected as it    *)
(* was, a failure loads it.                                                *)
MoveWindow(t) ==
    /\ at[t] = "loop" /\ Expired(t)
    /\ IF windowStart = local[t].expected
       THEN /\ windowStart' = local[t].now /\ inWindow' = 0
            /\ at' = [at EXCEPT ![t] = "reset"] /\ UNCHANGED local
       ELSE /\ local' = [local EXCEPT ![t].expected = windowStart]
            /\ UNCHANGED <<windowStart, inWindow, at>>
    /\ UNCHANGED <<algorithm, clock, rate, bucketVars, windowCount>>

ResetCount(t) ==
    /\ at[t] = "reset" /\ at' = [at EXCEPT ![t] = "loop"]
    /\ windowCount' = 0
    /\ UNCHANGED <<algorithm, clock, rate, bucketVars, windowStart, local, inWindow>>

(* A mistaken LoadCount: off by one *)
LoadCountOffByOne(t) ==
    /\ at[t] = "loop" /\ ~Expired(t)
    /\ IF windowCount + local[t].permits <= local[t].max + 1
       THEN /\ at' = [at EXCEPT ![t] = "add"]
            /\ local' = [local EXCEPT ![t].current = windowCount]
       ELSE at' = [at EXCEPT ![t] = "idle"] /\ local' = [local EXCEPT ![t] = NoLocals]
    /\ UNCHANGED <<algorithm, clock, rate, bucketVars, windowStart, windowCount, inWindow>>

(* The load of m_windowCount, and the call that is refused *)
LoadCount(t) ==
    /\ at[t] = "loop" /\ ~Expired(t)
    /\ IF windowCount + local[t].permits <= local[t].max
       THEN /\ at' = [at EXCEPT ![t] = "add"]
            /\ local' = [local EXCEPT ![t].current = windowCount]
       ELSE at' = [at EXCEPT ![t] = "idle"] /\ local' = [local EXCEPT ![t] = NoLocals]
    /\ UNCHANGED <<algorithm, clock, rate, bucketVars, windowStart, windowCount, inWindow>>

(* compare_exchange of m_windowCount *)
AddCount(t) ==
    /\ at[t] = "add"
    /\ \/ /\ windowCount = local[t].current
          /\ windowCount' = windowCount + local[t].permits
          /\ inWindow' = inWindow + local[t].permits
          /\ at' = [at EXCEPT ![t] = "idle"] /\ local' = [local EXCEPT ![t] = NoLocals]
       \/ /\ at' = [at EXCEPT ![t] = "loop"]
          /\ local' = [local EXCEPT ![t].current = 0]
          /\ UNCHANGED <<windowCount, inWindow>>
    /\ UNCHANGED <<algorithm, clock, rate, bucketVars, windowStart>>

WindowStep(t) ==
    \/ \E p \in Permits : BeginWindow(t, p)
    \/ ReadTime(t) \/ LoadStart(t) \/ MoveWindow(t) \/ ResetCount(t)
    \/ LoadCount(t) \/ AddCount(t)

LimiterNext ==
    \/ Tick \/ AvailablePermits
    \/ \E p \in Permits : TryAcquireTokenBucket(p)
    \/ \E r \in Rates : SetPermitsPerSec(r)
    \/ \E t \in Threads : WindowStep(t)

LimiterSpec == LimiterInit /\ [][LimiterNext]_limiterVars

-----------------------------------------------------------------------------
TopRate(top) == \A r \in Rates : r <= top
TopBurst(most) == \A b \in Bursts : b <= most

(* The bucket never hands out more than its largest burst and what the     *)
(* elapsed time earns at the largest rate, however the rate is changed and *)
(* however often availablePermits() refills (rate_limiter.cpp:40-65).      *)
BucketBounded ==
    \A top \in Rates, most \in Bursts :
        TopRate(top) /\ TopBurst(most)
            => taken * Parts + tokens <= GreatestOf(most * Parts, top) + top * lastRefill

(* The window is not the exact count that rate_limiter.h:45 promises: the  *)
(* count is zeroed after others were counted in the new window, which are  *)
(* then forgotten (rate_limiter.cpp:107-109).  What holds is that one      *)
(* window admits no more than maxPermits for each thread.                  *)
WindowBounded ==
    \A top \in Rates :
        TopRate(top) => inWindow <= WholeTokens(top) * Cardinality(Threads)

(* However the threads meet, the bucket lets through no more than burst    *)
(* and rate allow, and the window no more than its permits times the       *)
(* number of threads.                                                      *)
LimitersSound == BucketBounded /\ WindowBounded

=============================================================================
