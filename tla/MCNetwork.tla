----------------------------- MODULE MCNetwork -----------------------------
(***************************************************************************)
(* The parts of soul/network that share no state, side by side: a          *)
(* behaviour is one of a single part, its subject.  The parts that are not *)
(* its subject stay in one initial state.                                  *)
(***************************************************************************)
EXTENDS ConnectionManager, RateLimiter, CircuitBreaker, ConnectionPool,
        HttpRequests, Transfers

VARIABLE subject

SomeConfigs == [autoReconnect : BOOLEAN, maxRetries : {0, 1}, heartbeat : BOOLEAN]

BreakerCfg(threshold, timeout, calls, width) ==
    [failureThreshold |-> threshold, resetTimeout |-> timeout,
     halfOpenMaxCalls |-> calls, window |-> width]

(* The number of probes changes while the breaker works; the setter        *)
(* refuses 0, the constructor does not.                                    *)
ManyConfigs == {BreakerCfg(2, 1, 0, 2), BreakerCfg(2, 1, 2, 2)}
ManyChoices == BreakerCfg({2}, {1}, {0, 1, 2}, {2})

Subjects == {"manager", "limiter", "breaker", "pool", "http", "api", "transfer", "upload",
             "adapter", "cookies", "metrics"}

linkVars == <<networkVars, connectionVars>>
policyVars == <<limiterVars, circuitVars>>
fileVars == <<transferVars, uploadVars>>
exchangeVars == <<httpVars, apiVars, fileVars, adapterVars>>
recordVars == <<cookieVars, metricVars>>

Init ==
    /\ subject \in Subjects
    /\ NetworkInit /\ PoolInit /\ LimiterInit /\ BreakerInit
    /\ HttpInit /\ ApiInit /\ TransferInit /\ UploadInit /\ AdapterInit /\ CookieInit /\ MetricsInit
    /\ subject # "manager" => kind = "tcp" /\ config = CHOOSE c \in Configs : TRUE
    /\ subject # "pool" => maxConn = 1 /\ url = [c \in Clients |-> CHOOSE u \in Urls : TRUE]
    /\ subject # "limiter" => algorithm = "TokenBucket" /\ rate = 4 /\ burst = 2 /\ tokens = 4
    /\ subject # "breaker" => breakerConfig = BreakerCfg(2, 1, 2, 2)
    /\ subject # "http" => retryPolicy = 0
    /\ subject # "adapter" => adapter = "http"

LinkStep ==
    \/ subject = "manager" /\ NetworkNext /\ UNCHANGED connectionVars
    \/ subject = "pool" /\ PoolNext /\ UNCHANGED networkVars

PolicyStep ==
    \/ subject = "limiter" /\ LimiterNext /\ UNCHANGED circuitVars
    \/ subject = "breaker" /\ BreakerNext /\ UNCHANGED limiterVars

ExchangeStep ==
    \/ subject = "http" /\ HttpNext /\ UNCHANGED <<apiVars, fileVars, adapterVars>>
    \/ subject = "api" /\ ApiNext /\ UNCHANGED <<httpVars, fileVars, adapterVars>>
    \/ subject = "transfer" /\ TransferNext /\ UNCHANGED <<httpVars, apiVars, uploadVars, adapterVars>>
    \/ subject = "upload" /\ UploadNext /\ UNCHANGED <<httpVars, apiVars, transferVars, adapterVars>>
    \/ subject = "adapter" /\ AdapterNext /\ UNCHANGED <<httpVars, apiVars, fileVars>>

RecordStep ==
    \/ subject = "cookies" /\ CookieNext /\ UNCHANGED metricVars
    \/ subject = "metrics" /\ MetricsNext /\ UNCHANGED cookieVars

Next ==
    /\ UNCHANGED subject
    /\ \/ LinkStep /\ UNCHANGED <<policyVars, exchangeVars, recordVars>>
       \/ PolicyStep /\ UNCHANGED <<linkVars, exchangeVars, recordVars>>
       \/ ExchangeStep /\ UNCHANGED <<linkVars, policyVars, recordVars>>
       \/ RecordStep /\ UNCHANGED <<linkVars, policyVars, exchangeVars>>

Fairness == NetworkFairness /\ BreakerFairness

Spec == Init /\ [][Next]_<<subject, linkVars, policyVars, exchangeVars, recordVars>> /\ Fairness

-----------------------------------------------------------------------------
(* What goes out is answered, reported, recorded and stored once and       *)
(* whole: requests, downloads, uploads, intercepted messages, cookies and  *)
(* the counters of requests.                                               *)
ExchangesSound ==
    /\ AnsweredOnce /\ ApiAnswersHeard /\ FileIsPrefix /\ UploadReportedOnce
    /\ AnswersNest /\ AdapterSound /\ FileIsWhole /\ MetricsExact

(* A lost connection is noticed, and probes of a breaker come back. *)
Recovers == LossNoticed /\ SlotsComeBack

=============================================================================
