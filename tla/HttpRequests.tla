---------------------------- MODULE HttpRequests ----------------------------
(***************************************************************************)
(* Requests of the network stack: the HTTP client with its time-outs and   *)
(* retries, the object that puts requests together, the adapters and their *)
(* interceptors, the cookie jar, and the counters of the monitor.  The     *)
(* parts share no state.                                                   *)
(***************************************************************************)
EXTENDS Integers, Sequences, SequencesExt, FiniteSetsExt, Lists

(***************************************************************************)
(* sc::network::HttpClient (http_client.cpp) with its RetryPolicy          *)
(* (retry_policy.cpp): requests sent with send() and sendAsync(), answered *)
(* by the network or by the timer, and tried again.                        *)
(*                                                                         *)
(* A request is begun by its caller; the event loop delivers finished() or *)
(* the time-out, and the retry timer.  Contents are left out.              *)
(***************************************************************************)
CONSTANTS
    Requests,    \* requests under way at the same time
    RetryLimits  \* values of RetryPolicy::m_maxRetries

ASSUME RequestAssumption == RetryLimits \subseteq Nat /\ RetryLimits # {}

VARIABLES
    retryPolicy,  \* m_retryPolicy.maxRetries()
    request,      \* per request: where it is, its retryCount and maxRetries
    answers       \* history: how often each was answered

httpVars == <<retryPolicy, request, answers>>

Unsent == [at |-> "new", sync |-> FALSE, retryCount |-> 0, maxRetries |-> 0]

HttpInit ==
    /\ retryPolicy \in RetryLimits
    /\ request = [r \in Requests |-> Unsent]
    /\ answers = [r \in Requests |-> 0]

(* RetryPolicy::nextDelay() is negative from the limit on *)
NoDelay(attempt, limit) == attempt >= limit

SetRetryPolicy(n) == retryPolicy' = n /\ UNCHANGED <<request, answers>>

(* send() and sendAsync(): the limit is copied when the request is made *)
SendRequest(r, sync) ==
    /\ request[r].at \in {"new", "answered"}
    /\ request' = [request EXCEPT ![r] =
                     [at |-> "flight", sync |-> sync, retryCount |-> 0, maxRetries |-> retryPolicy]]
    /\ answers' = [answers EXCEPT ![r] = 0]
    /\ UNCHANGED retryPolicy

Answer(r) ==
    /\ request' = [request EXCEPT ![r].at = "answered"]
    /\ answers' = [answers EXCEPT ![r] = @ + 1]

(* One more attempt, which is never made if there is no delay for it: a    *)
(* timer with a negative delay does not fire, and msleep() takes it for a  *)
(* very long one.                                                          *)
Retried(q, limit) ==
    [q EXCEPT !.retryCount = q.retryCount + 1,
              !.at = IF NoDelay(q.retryCount + 1, limit) THEN "stuck" ELSE "delay"]

(* The retry of send(): msleep() with the delay of the policy as it is now *)
RetrySync(r) ==
    /\ request[r].sync
    /\ request' = [request EXCEPT ![r] = Retried(request[r], retryPolicy)]
    /\ UNCHANGED answers

(* A mistaken RetryAsync: the failure is reported as well *)
RetryAndAnswer(r) ==
    /\ ~request[r].sync
    /\ request' = [request EXCEPT ![r] = [@ EXCEPT !.retryCount = @ + 1, !.at = "delay"]]
    /\ answers' = [answers EXCEPT ![r] = @ + 1]

(* The retry of sendAsync(): a single-shot timer with the delay of the     *)
(* policy that was copied                                                  *)
RetryAsync(r) ==
    /\ ~request[r].sync
    /\ request' = [request EXCEPT ![r] = Retried(request[r], request[r].maxRetries)]
    /\ UNCHANGED answers

(* finished() without an error, or with one that shouldRetry() rejects *)
Finished(r) ==
    /\ request[r].at = "flight"
    /\ Answer(r) /\ UNCHANGED retryPolicy

(* The time-out, which aborts the reply, or an error worth a retry *)
Failed(r) ==
    /\ request[r].at = "flight"
    /\ IF request[r].retryCount < request[r].maxRetries
       THEN RetrySync(r) \/ RetryAsync(r)
       ELSE Answer(r)
    /\ UNCHANGED retryPolicy

(* The delay is over: send() goes round its loop, sendAsync() calls itself *)
(* and copies the policy again.                                            *)
Resend(r) ==
    /\ request[r].at = "delay"
    /\ request' = [request EXCEPT ![r] =
                     [request[r] EXCEPT !.at = "flight",
                                        !.maxRetries = IF request[r].sync THEN @ ELSE retryPolicy]]
    /\ UNCHANGED <<retryPolicy, answers>>

HttpStep(r) == Finished(r) \/ Failed(r) \/ Resend(r)

HttpNext ==
    \/ \E n \in RetryLimits : SetRetryPolicy(n)
    \/ \E r \in Requests, sync \in BOOLEAN : SendRequest(r, sync)
    \/ \E r \in Requests : HttpStep(r)

HttpSpec == HttpInit /\ [][HttpNext]_httpVars

-----------------------------------------------------------------------------
(* Whatever the order of time-outs, answers, retries and changes of the    *)
(* policy, nobody is told of a request twice, and one that is over was     *)
(* told of once (http_client.cpp:218).  But not every request is ever      *)
(* over: the last retry a policy allows has no delay (retry_policy.cpp:19) *)
(* and is never sent, and that one alone, so that a request whose every    *)
(* attempt fails is "stuck" with nobody told.                              *)
AnsweredOnce ==
    \A r \in Requests :
        /\ answers[r] = (IF request[r].at = "answered" THEN 1 ELSE 0)
        /\ ~request[r].sync /\ request[r].at = "stuck" =>
               request[r].retryCount = request[r].maxRetries

-----------------------------------------------------------------------------
(***************************************************************************)
(* sc::network::HttpApi (http_api.h): one object that puts a request       *)
(* together call by call, sends it and hands the answer to its callbacks.  *)
(* It is used again and again, also while earlier requests are under way.  *)
(*                                                                         *)
(* What a chain of calls writes is told apart by its number.  The object   *)
(* lives as long as its requests; contents are left out.                   *)
(***************************************************************************)
CONSTANTS
    ApiKeys,   \* names of parameters and headers
    MaxCalls   \* bound on the requests that are executed

ASSUME ApiAssumption ==
    "Content-Type" \in ApiKeys /\ {"path", "body"} \cap ApiKeys = {} /\ MaxCalls \in Nat

VARIABLES
    api,       \* m_request: for each part the chain that wrote it, 0 for none
    hears,     \* m_jsonCallback and m_failureCallback: the chain that set them
    flights,   \* what was executed: the request, hears at that time, the outcome
    heard      \* history: callbacks that ran

apiVars == <<api, hears, flights, heard>>

ApiParts == ApiKeys \union {"path", "body"}
Chain == Len(flights) + 1

ApiInit ==
    /\ api = [p \in ApiParts |-> 0] /\ hears = [ok |-> 0, err |-> 0]
    /\ flights = <<>> /\ heard = {}

(* get(), post(), put() and del(): method and address *)
SetPath == api' = [api EXCEPT !["path"] = Chain]

(* param() and header() *)
AddPart(k) == api' = [api EXCEPT ![k] = Chain]

(* jsonBody() sets the header as well *)
JsonBody == api' = [api EXCEPT !["body"] = Chain, !["Content-Type"] = Chain]

(* onSuccess() and onFailure() *)
HearSuccess == hears' = [hears EXCEPT !.ok = Chain]
HearFailure == hears' = [hears EXCEPT !.err = Chain]

Compose ==
    /\ Chain <= MaxCalls /\ UNCHANGED <<flights, heard>>
    /\ \/ (SetPath \/ JsonBody \/ \E k \in ApiKeys : AddPart(k)) /\ UNCHANGED hears
       \/ (HearSuccess \/ HearFailure) /\ UNCHANGED api

(* execute() and executeSync(): the client copies the request *)
Execute(sync) ==
    /\ Chain <= MaxCalls
    /\ flights' = Append(flights, [sent |-> api, hears |-> hears, sync |-> sync, outcome |-> "none"])
    /\ UNCHANGED <<api, hears, heard>>

Hearing(h, outcome) == IF outcome = "ok" THEN h.ok ELSE h.err

FlightEnds(i, outcome) ==
    /\ flights[i].outcome = "none" /\ flights' = [flights EXCEPT ![i].outcome = outcome]
    /\ UNCHANGED <<api, hears>>

(* A mistaken AnswerApi: an answer with a bad status reaches no callback *)
AnswerApiStatusLost(i, outcome) ==
    /\ FlightEnds(i, outcome)
    /\ heard' = heard \union {c \in {[call |-> i, ok |-> outcome = "ok", by |-> Hearing(hears, outcome)]} :
                                 ~ flights[i].sync /\ c.by # 0 /\ outcome # "status"}

(* The answer: an error or a bad status are for the failure callback, and  *)
(* what runs is the callback the object has now.  executeSync() returns it *)
AnswerApi(i, outcome) ==
    /\ FlightEnds(i, outcome)
    /\ heard' = heard \union {c \in {[call |-> i, ok |-> outcome = "ok", by |-> Hearing(hears, outcome)]} :
                                 ~ flights[i].sync /\ c.by # 0}

ApiNext ==
    \/ Compose
    \/ \E sync \in BOOLEAN : Execute(sync)
    \/ \E i \in DOMAIN flights, outcome \in {"ok", "status", "error"} : AnswerApi(i, outcome)

-----------------------------------------------------------------------------
(* However chains and answers overlap, an answer is heard once, by a       *)
(* callback of its kind that is no older than the one the request was sent *)
(* with, and is lost only if none was set then; and a request carries all  *)
(* that any chain before it asked for, with a header for its body          *)
(* (http_api.h:148-195).                                                   *)
ApiAnswersHeard ==
    \A i \in DOMAIN flights :
        LET f == flights[i]
            told == {c \in heard : c.call = i}
            before == Hearing(f.hears, f.outcome)
        IN  /\ Cardinality(told) <= 1
            /\ f.outcome = "none" \/ f.sync => told = {}
            /\ \A c \in told : c.ok = (f.outcome = "ok") /\ c.by >= before
            /\ f.outcome # "none" /\ ~ f.sync /\ before # 0 => told # {}
            /\ f.sent["Content-Type"] >= f.sent["body"]
            /\ \A j \in 1..i, p \in ApiParts : flights[j].sent[p] <= f.sent[p] /\ f.sent[p] <= i

-----------------------------------------------------------------------------
(***************************************************************************)
(* sc::network::NetworkAdapterBase (core/network_adapter_base.cpp): the    *)
(* frame that takes a message through the policy and the interceptors, the *)
(* adapter's own sending and the interceptors again, for the HTTP, TCP and *)
(* WebSocket adapters and for the ones that are not implemented (MQTT and  *)
(* the like).                                                              *)
(*                                                                         *)
(* Calls come from one thread.  send() of the HTTP adapter waits in an     *)
(* event loop of its own and sendAsync() returns at once, so other calls   *)
(* come between such a request and its answer.  The clients under the      *)
(* adapters are modelled apart (above, and in ConnectionManager); contents *)
(* are left out.                                                           *)
(***************************************************************************)
CONSTANTS
    Interceptors,  \* interceptors there are
    Messages,      \* messages that can be on their way at the same time
    Timeouts,      \* values of TimeoutPolicy::m_timeout
    MaxChain,      \* bound on the number of interceptors added
    MaxSequence    \* bound on the TCP adapter's m_sequence

ASSUME AdapterAssumption == {MaxChain, MaxSequence} \subseteq Nat /\ Timeouts \subseteq Nat \ {0}

VARIABLES
    adapter,   \* class of the adapter
    state,     \* NetworkAdapterBase::m_state
    chain,     \* m_interceptors
    policy,    \* time-out of m_policy, 0 for no policy
    sequence,  \* TcpClientAdapter::m_sequence
    message,   \* per message: where it is and what was done to it
    upWanted     \* history: the last of connectTo() and disconnect() was connectTo()

adapterVars == <<adapter, state, chain, policy, sequence, message, upWanted>>

NoMessage == [at |-> "idle", sync |-> FALSE, asked |-> <<>>, answered |-> <<>>,
         timeout |-> 0, status |-> 0, number |-> 0]

AdapterInit ==
    /\ adapter \in {"http", "tcp", "ws", "mqtt"}
    /\ state = "Created" /\ upWanted = FALSE
    /\ chain = <<>> /\ policy = 0 /\ sequence = 0
    /\ message = [m \in Messages |-> NoMessage]

AddInterceptor(i) ==
    /\ Len(chain) < MaxChain /\ chain' = Append(chain, i)
    /\ UNCHANGED <<adapter, state, policy, sequence, message, upWanted>>

SetPolicy(t) ==
    /\ policy' = t
    /\ UNCHANGED <<adapter, state, chain, sequence, message, upWanted>>

-----------------------------------------------------------------------------
(* connectTo() and disconnect() *)
HttpConnect == adapter = "http" /\ state' = "Connected"
OtherConnect == adapter # "http" /\ state' = "Connecting"

AdapterConnect ==
    /\ HttpConnect \/ OtherConnect
    /\ upWanted' = TRUE
    /\ UNCHANGED <<adapter, chain, policy, sequence, message>>

AdapterDisconnect ==
    /\ state' = "Disconnected" /\ upWanted' = FALSE
    /\ UNCHANGED <<adapter, chain, policy, sequence, message>>

(* HttpClientAdapter::doIsConnected() *)
HttpIsConnected == state = "Connected"

(* The signals of the TCP and the WebSocket client *)
TcpSignal(s) == adapter = "tcp" /\ state' = s
WsSignal(s) == adapter = "ws" /\ state' = s

ClientSignal(s) ==
    /\ TcpSignal(s) \/ WsSignal(s)
    /\ UNCHANGED <<adapter, chain, policy, sequence, message, upWanted>>

(* TcpClientAdapter::onDataReceived(): what is received has a number too *)
TcpReceived ==
    /\ adapter = "tcp" /\ sequence < MaxSequence
    /\ sequence' = sequence + 1
    /\ UNCHANGED <<adapter, state, chain, policy, message, upWanted>>

-----------------------------------------------------------------------------
(* A mistaken ApplyResponseInterceptors: the answer goes the request's way *)
ResponseInOrder == chain

(* applyRequestInterceptors() and applyResponseInterceptors() *)
ApplyRequestInterceptors == chain
ApplyResponseInterceptors == Reverse(chain)

(* applyPolicies(), then the interceptors *)
Prepared(sync) ==
    [NoMessage EXCEPT !.at = "flight", !.sync = sync, !.timeout = policy,
                 !.asked = ApplyRequestInterceptors]

(* An answer goes through the interceptors there are when it comes, an     *)
(* error goes past them.                                                   *)
Answered(msg, status, n) ==
    [msg EXCEPT !.at = "done", !.answered = ApplyResponseInterceptors,
                !.status = status, !.number = n]
Erred(msg) == [msg EXCEPT !.at = "failed"]

(* TcpClientAdapter::doSend() and doSendAsync(): answered at once, whether *)
(* or not the client could write                                           *)
TcpSend(m, sync) ==
    /\ adapter = "tcp" /\ sequence < MaxSequence
    /\ sequence' = sequence + 1 /\ state' = "Working"
    /\ message' = [message EXCEPT ![m] = Answered(Prepared(sync), 0, sequence + 1)]

(* WsClientAdapter::doSend() and doSendAsync(), the same without a number *)
WsSend(m, sync) ==
    /\ adapter = "ws"
    /\ state' = "Working" /\ UNCHANGED sequence
    /\ message' = [message EXCEPT ![m] = Answered(Prepared(sync), 0, 0)]

(* HttpClientAdapter::doSend() and doSendAsync() hand the request, with    *)
(* the metadata as its headers and the policy's time-out, to the client.   *)
HttpSend(m, sync) ==
    /\ adapter = "http"
    /\ message' = [message EXCEPT ![m] = Prepared(sync)]
    /\ UNCHANGED <<sequence, state>>

(* MqttClientAdapter::doSend() and doSendAsync(): NotImplemented *)
MqttSend(m, sync) ==
    /\ adapter = "mqtt"
    /\ message' = [message EXCEPT ![m] = Erred(Prepared(sync))]
    /\ UNCHANGED <<sequence, state>>

AdapterSend(m, sync) ==
    /\ message[m].at # "flight"
    /\ TcpSend(m, sync) \/ WsSend(m, sync) \/ HttpSend(m, sync) \/ MqttSend(m, sync)
    /\ UNCHANGED <<adapter, chain, policy, upWanted>>

(* The client has a response: convertToNetworkMessage() takes its status *)
HttpAnswers(m) ==
    /\ message[m].at = "flight"
    /\ message' = [message EXCEPT ![m] = Answered(message[m], 200, 0)]
    /\ UNCHANGED <<adapter, state, chain, policy, sequence, upWanted>>

(* The client has an error: send() makes a message of status 0 of it, and  *)
(* so an answer; sendAsync() hands the error on.                           *)
HttpFails(m) ==
    /\ message[m].at = "flight"
    /\ message' = [message EXCEPT ![m] = IF message[m].sync THEN Answered(message[m], 0, 0)
                                                            ELSE Erred(message[m])]
    /\ UNCHANGED <<adapter, state, chain, policy, sequence, upWanted>>

AdapterNext ==
    \/ \E i \in Interceptors : AddInterceptor(i)
    \/ \E t \in Timeouts : SetPolicy(t)
    \/ AdapterConnect \/ AdapterDisconnect \/ TcpReceived
    \/ \E s \in {"Connected", "Disconnected"} : ClientSignal(s)
    \/ \E m \in Messages, sync \in BOOLEAN : AdapterSend(m, sync)
    \/ \E m \in Messages : HttpAnswers(m) \/ HttpFails(m)

-----------------------------------------------------------------------------
(* Interceptors nest: an answer comes last through the interceptors its    *)
(* request went through, in the opposite order, also when others were      *)
(* added while it was under way; an error comes through none               *)
(* (network_adapter_base.cpp:80-90).                                       *)
AnswersNest ==
    \A m \in Messages :
        /\ message[m].at = "done" => IsSuffix(Reverse(message[m].asked), message[m].answered)
        /\ message[m].at # "done" => message[m].answered = <<>>

(* No two messages of a TCP adapter have the same number, and an HTTP      *)
(* adapter is connected from connectTo() to disconnect(), whatever is sent *)
(* and answered meanwhile (http_client_adapter.cpp:23).                    *)
AdapterSound ==
    /\ \A m, o \in Messages :
           message[m].number # 0 /\ message[m].number = message[o].number => m = o
    /\ adapter = "http" => (HttpIsConnected <=> upWanted)

-----------------------------------------------------------------------------
(***************************************************************************)
(* sc::network::CookieJar (network/cookie_jar.cpp): the cookies of a       *)
(* process and the file they are kept in from one process to the next.     *)
(*                                                                         *)
(* save() empties the file when it opens it and fills it when it closes    *)
(* it; the process may end in between.  A cookie is a name; what expires   *)
(* and when the clock passes it are choices of the environment.            *)
(***************************************************************************)
CONSTANTS
    Lasting,    \* cookies with an expiration date
    Passing     \* session cookies

VARIABLES
    jar,       \* cookies of QNetworkCookieJar
    stale,     \* cookies whose date has passed
    path,      \* m_persistPath is set
    file,      \* what the file holds
    writing,   \* save() is between open() and close()
    before,    \* history: what the file held when the last save() began
    meant      \* history: what the last save() was to write

cookieVars == <<jar, stale, path, file, writing, before, meant>>

AllCookies == Lasting \cup Passing

CookieInit ==
    /\ jar = {} /\ stale = {} /\ file = {} /\ path = FALSE
    /\ writing = FALSE /\ before = {} /\ meant = {}

SetPersistPath ==
    /\ ~writing /\ path' = TRUE
    /\ UNCHANGED <<jar, stale, file, writing, before, meant>>

SetCookie(c) ==
    /\ ~writing /\ jar' = jar \cup {c} /\ stale' = stale \ {c}
    /\ UNCHANGED <<path, file, writing, before, meant>>

Pass(c) ==
    /\ c \notin stale /\ stale' = stale \cup {c}
    /\ UNCHANGED <<jar, path, file, writing, before, meant>>

(* load() replaces the jar: what was set before it and not saved is gone *)
Load ==
    /\ ~writing /\ path
    /\ jar' = file
    /\ UNCHANGED <<stale, path, file, writing, before, meant>>

(* A mistaken Kept: session cookies are saved as well *)
KeptAll == jar

(* Session cookies are not written *)
Kept == jar \ Passing

(* save(): QFile::open(WriteOnly) truncates, or fails and leaves the file *)
OpenForSave ==
    /\ ~writing /\ path
    /\ writing' = TRUE /\ file' = {} /\ before' = file /\ meant' = Kept
    /\ UNCHANGED <<jar, stale, path>>

WriteCookies ==
    /\ writing /\ writing' = FALSE
    /\ file' = meant
    /\ UNCHANGED <<jar, stale, path, before, meant>>

(* clearExpired() keeps session cookies *)
ClearExpired ==
    /\ ~writing /\ jar' = jar \ (stale \ Passing)
    /\ UNCHANGED <<stale, path, file, writing, before, meant>>

ClearAll ==
    /\ ~writing /\ jar' = {}
    /\ UNCHANGED <<stale, path, file, writing, before, meant>>

(* The process ends, possibly in save(), and a new one begins *)
EndProcess ==
    /\ jar' = {} /\ path' = FALSE /\ writing' = FALSE
    /\ UNCHANGED <<stale, file, before, meant>>

CookieNext ==
    \/ SetPersistPath \/ Load \/ OpenForSave \/ WriteCookies
    \/ ClearExpired \/ ClearAll \/ EndProcess
    \/ \E c \in AllCookies : SetCookie(c)
    \/ \E c \in Lasting : Pass(c)

-----------------------------------------------------------------------------
(* A file is what one save() meant or empty, never a mixture and never     *)
(* with a session cookie, so that no session outlives its process; but an  *)
(* end of the process in save() loses what was saved before                *)
(* (cookie_jar.cpp:54).                                                    *)
FileIsWhole == file \in {meant, {}} /\ file \cap Passing = {}

-----------------------------------------------------------------------------
(***************************************************************************)
(* sc::network::Metrics and Monitor (network/monitor/metrics.cpp,          *)
(* monitor.cpp): what is counted about requests, by whoever holds the      *)
(* Metrics of a key.                                                       *)
(*                                                                         *)
(* Every function runs under the mutex of its object.  The clock counts    *)
(* the seconds of the QPS window.                                          *)
(***************************************************************************)
CONSTANTS
    Recorders,    \* users of the metrics of the one key considered
    MaxObjects,   \* bound on the Metrics objects made
    Durations,    \* response times
    MaxTimes,     \* bound on the successes recorded
    MaxCounted    \* bound on the other counts of an object

ASSUME MetricsAssumption ==
    /\ Durations \subseteq Nat /\ \E longest \in Durations : \A ms \in Durations : ms <= longest
    /\ {MaxObjects, MaxTimes, MaxCounted} \subseteq Nat

VARIABLES
    metrics,   \* the Metrics objects, in the order they were made
    entry,     \* the one m_metricsMap has for the key, 0 for none
    handle,      \* per recorder: the object getMetrics() gave it
    times      \* history: per object the response times recorded

metricVars == <<metrics, entry, handle, times>>

Unset == 1 + Max(Durations)  \* stands for INT64_MAX

(* reset() *)
Blank == [total |-> 0, success |-> 0, failed |-> 0, time |-> 0, min |-> Unset, max |-> 0,
          fresh |-> FALSE, count |-> 0]

MetricsInit ==
    /\ metrics = <<>> /\ entry = 0 /\ times = <<>>
    /\ handle = [r \in Recorders |-> 0]

Make == metrics' = Append(metrics, Blank) /\ times' = Append(times, <<>>)

(* getMetrics(): the object of the key, made on first use *)
GetMetrics(r) ==
    /\ IF entry # 0 THEN UNCHANGED <<metrics, times, entry>>
                    ELSE Len(metrics) < MaxObjects /\ Make /\ entry' = Len(metrics) + 1
    /\ handle' = [handle EXCEPT ![r] = entry']

(* registerMetrics() puts another in its place; who holds the old one      *)
(* keeps recording into it.                                                *)
RegisterMetrics ==
    /\ Len(metrics) < MaxObjects /\ Make
    /\ entry' = Len(metrics) + 1
    /\ UNCHANGED handle

(* recordRequest(): a new window begins when a second has passed *)
Requested(m) ==
    [m EXCEPT !.total = @ + 1, !.count = IF m.fresh THEN @ + 1 ELSE 1, !.fresh = TRUE]

(* A mistaken Succeeded: the maximum is the last *)
SucceededLast(m, ms) ==
    [m EXCEPT !.success = @ + 1, !.time = @ + ms,
              !.min = IF m.min = 0 \/ ms < m.min THEN ms ELSE @,
              !.max = ms]

(* recordSuccess(): a minimum of 0 is taken for one not yet set *)
Succeeded(m, ms) ==
    [m EXCEPT !.success = @ + 1, !.time = @ + ms,
              !.min = IF m.min = 0 \/ ms < m.min THEN ms ELSE @,
              !.max = IF ms > m.max THEN ms ELSE @]

Update(r, m) ==
    /\ metrics' = [metrics EXCEPT ![handle[r]] = m]
    /\ UNCHANGED <<entry, handle>>

RecordRequest(r) ==
    /\ handle[r] # 0 /\ metrics[handle[r]].total < MaxCounted
    /\ Update(r, Requested(metrics[handle[r]])) /\ UNCHANGED times

SumLengths == FoldSeq(LAMBDA s, n : n + Len(s), 0, times)

RecordSuccess(r, ms) ==
    /\ handle[r] # 0 /\ SumLengths < MaxTimes
    /\ Update(r, Succeeded(metrics[handle[r]], ms))
    /\ times' = [times EXCEPT ![handle[r]] = Append(@, ms)]

(* recordFailure(), and in the same way retries, reconnects, time-outs and *)
(* bytes                                                                   *)
RecordFailure(r) ==
    /\ handle[r] # 0 /\ metrics[handle[r]].failed < MaxCounted
    /\ Update(r, [metrics[handle[r]] EXCEPT !.failed = @ + 1]) /\ UNCHANGED times

(* A second passes since the window of o began *)
WindowEnds(o) ==
    /\ metrics[o].fresh
    /\ metrics' = [metrics EXCEPT ![o].fresh = FALSE]
    /\ UNCHANGED <<entry, handle, times>>

MetricsNext ==
    \/ RegisterMetrics
    \/ \E r \in Recorders :
          \/ GetMetrics(r) \/ RecordRequest(r) \/ RecordFailure(r)
          \/ \E ms \in Durations : RecordSuccess(r, ms)
    \/ \E o \in DOMAIN metrics : WindowEnds(o)

-----------------------------------------------------------------------------
(* minResponseTime(), and avgResponseTime() as the sum it divides *)
MinResponseTime(m) == IF m.min = Unset THEN 0 ELSE m.min

(* The times since the last one of 0 before the last *)
SinceZero(s) ==
    LET zeros == {i \in DOMAIN s : s[i] = 0 /\ i < Len(s)}
    IN  SubSeq(s, 1 + (IF zeros = {} THEN 0 ELSE Max(zeros)), Len(s))

(* Sum, count and maximum are those of the times recorded, by all its      *)
(* holders together; the minimum is the one since the last time of 0 ms    *)
(* (metrics.cpp:46); and no window counts more requests than there were.   *)
MetricsExact ==
    \A o \in DOMAIN metrics :
        LET m == metrics[o]
            s == times[o]
        IN  /\ m.success = Len(s) /\ m.time = SumOver(s, DOMAIN s) /\ m.count <= m.total
            /\ s # <<>> => /\ m.max = Max(ToSet(s))
                           /\ MinResponseTime(m) = Min(ToSet(SinceZero(s)))
=============================================================================
