------------------------------ MODULE RabbitMQ ------------------------------
(***************************************************************************)
(* AMQP over a broker: the connection with its timers and nested waits,    *)
(* and the channel with its consumers and deliveries.                      *)
(***************************************************************************)
EXTENDS Integers, Sequences, FiniteSets, SequencesExt

(***************************************************************************)
(* RabbitMQConnection over AmqpCppBackend: connect() with its blocking     *)
(* waits, the heartbeat that looks for a lost connection and the timer     *)
(* that tries again (rabbitmq_connection.cpp, amqpcpp_backend.cpp).        *)
(*                                                                         *)
(* One thread runs all of it.  connect() waits in a nested event loop and  *)
(* holds the connection's mutex, which is not recursive: a timer that      *)
(* fires meanwhile, and asks isConnected() or calls connect(), waits for   *)
(* the mutex of its own thread for ever (blocked).  A timer holds the      *)
(* seconds that are left, or Off; the earlier one fires first.             *)
(***************************************************************************)
CONSTANTS
    Intervals,          \* what heartbeatInterval may be, in seconds; 60 by default
    MaxDelay            \* bound of the reconnect delay in seconds; 30 in the code

ASSUME IntervalAssumption == Intervals \subseteq Nat \ {0} /\ MaxDelay \in Nat

VARIABLES
    backend,            \* "none", "down", or "up" when m_connected
    socketLost,         \* the socket of a backend that is up is gone
    phase,              \* where connect() waits: "idle", "handshake", "channel"
    answer,             \* what has come of that wait: "none", "ok", "error"
    heartbeat, reconnect,   \* m_heartbeatTimer, m_reconnectTimer
    attempts,           \* m_reconnectAttempts
    reconnectEnabled,
    interval,           \* m_config.heartbeatInterval
    beats,              \* the backend's own heartbeat timer runs
    blocked

linkVars == <<backend, socketLost, phase, answer, heartbeat, reconnect, attempts,
              reconnectEnabled, interval, beats, blocked>>
settings == <<reconnectEnabled, interval>>

Off == -1

LinkInit ==
    /\ backend = "none" /\ socketLost = FALSE /\ beats = FALSE /\ blocked = FALSE
    /\ phase = "idle" /\ answer = "none"
    /\ heartbeat = Off /\ reconnect = Off /\ attempts = 0
    /\ reconnectEnabled \in BOOLEAN /\ interval \in Intervals

Deadlock == blocked' = TRUE /\ UNCHANGED <<backend, socketLost, phase, answer, attempts, beats>>

\* A new backend takes the place of the old one, which its destructor
\* disconnects; the socket is opened and the flags are reset.
BeginConnect ==
    /\ backend' = "down" /\ socketLost' = FALSE /\ beats' = FALSE
    /\ phase' = "handshake" /\ answer' = "none"
    /\ attempts' = 0
    /\ UNCHANGED blocked

\* Called by the program, also out of a handler of the nested loop.
LinkConnect ==
    /\ ~ blocked
    /\ IF phase = "idle" THEN BeginConnect ELSE Deadlock
    /\ UNCHANGED <<heartbeat, reconnect, settings>>

LinkDisconnect ==
    /\ ~ blocked
    /\ IF phase = "idle"
       THEN /\ backend' = IF backend = "up" THEN "down" ELSE backend
            /\ beats' = FALSE /\ socketLost' = FALSE
            /\ heartbeat' = Off /\ reconnect' = Off
            /\ UNCHANGED <<phase, answer, attempts, blocked>>
       ELSE Deadlock /\ UNCHANGED <<heartbeat, reconnect>>
    /\ UNCHANGED settings

\* onConnected(), onError() of the socket; onReady(), onError() of the channel.
Answered(a) ==
    /\ ~ blocked /\ phase # "idle" /\ answer = "none"
    /\ answer' = a
    /\ UNCHANGED <<backend, socketLost, phase, heartbeat, reconnect, attempts, settings, beats, blocked>>

HandshakeReturns ==
    /\ ~ blocked /\ phase = "handshake" /\ answer = "ok"
    /\ phase' = "channel" /\ answer' = "none"
    /\ UNCHANGED <<backend, socketLost, heartbeat, reconnect, attempts, settings, beats, blocked>>

ChannelReturns ==
    /\ ~ blocked /\ phase = "channel" /\ answer = "ok"
    /\ backend' = "up" /\ beats' = TRUE
    /\ phase' = "idle" /\ answer' = "none"
    /\ heartbeat' = interval
    /\ UNCHANGED <<socketLost, reconnect, attempts, settings, blocked>>

\* A refusal or the time-out; a channel that cannot be opened is not waited
\* for any shorter.  connect() returns the error and starts no timer.
ConnectFails ==
    /\ ~ blocked /\ phase # "idle" /\ answer # "ok"
    /\ phase' = "idle" /\ answer' = "none"
    /\ UNCHANGED <<backend, socketLost, heartbeat, reconnect, attempts, settings, beats, blocked>>

\* onError() and onClosed() leave m_connected as it is.
SocketLost ==
    /\ ~ blocked /\ backend = "up" /\ ~ socketLost
    /\ socketLost' = TRUE
    /\ UNCHANGED <<backend, phase, answer, heartbeat, reconnect, attempts, settings, beats, blocked>>

\* The mistake of a delay without bound.
DelayUncapped(n) == 2 ^ n

\* scheduleReconnect(): min(30000, 1000 * (1 << min(attempts, 10))).
Delay(n) == IF 2 ^ n < MaxDelay THEN 2 ^ n ELSE MaxDelay

Left(timer, passed) == IF timer = Off THEN Off ELSE timer - passed

\* onHeartbeat(): starting a timer that runs starts it afresh.
HeartbeatFires ==
    LET n == IF attempts < 10 THEN attempts + 1 ELSE 10 IN
    /\ ~ blocked /\ heartbeat # Off /\ (reconnect = Off \/ heartbeat <= reconnect)
    /\ heartbeat' = interval
    /\ IF phase # "idle"
       THEN Deadlock /\ reconnect' = Left(reconnect, heartbeat)
       ELSE /\ IF backend # "up" /\ reconnectEnabled
               THEN attempts' = n /\ reconnect' = Delay(n)
               ELSE attempts' = attempts /\ reconnect' = Left(reconnect, heartbeat)
            /\ UNCHANGED <<backend, socketLost, phase, answer, beats, blocked>>
    /\ UNCHANGED settings

\* onReconnectTimer(): whatever the state of the connection is by now.
ReconnectFires ==
    /\ ~ blocked /\ reconnect # Off /\ (heartbeat = Off \/ reconnect <= heartbeat)
    /\ reconnect' = Off /\ heartbeat' = Left(heartbeat, reconnect)
    /\ CASE ~ reconnectEnabled ->
              UNCHANGED <<backend, socketLost, phase, answer, attempts, beats, blocked>>
         [] reconnectEnabled /\ phase = "idle" -> BeginConnect
         [] OTHER -> Deadlock
    /\ UNCHANGED settings

SetReconnectEnabled(b) ==
    /\ ~ blocked /\ reconnectEnabled' = b
    /\ UNCHANGED <<interval, backend, socketLost, phase, answer, heartbeat, reconnect, attempts, beats, blocked>>

LinkNext ==
    \/ LinkConnect \/ LinkDisconnect
    \/ \E a \in {"ok", "error"} : Answered(a)
    \/ HandshakeReturns \/ ChannelReturns \/ ConnectFails
    \/ SocketLost
    \/ HeartbeatFires \/ ReconnectFires
    \/ \E b \in BOOLEAN : SetReconnectEnabled(b)

\* Timers fire and every wait has a time-out.
LinkFairness ==
    /\ WF_linkVars(HeartbeatFires) /\ WF_linkVars(ReconnectFires)
    /\ WF_linkVars(HandshakeReturns \/ ChannelReturns \/ ConnectFails)

-----------------------------------------------------------------------------
(* Each heartbeat starts the reconnect timer afresh before it can fire *)
Starved == interval <= MaxDelay /\ reconnect >= interval

(***************************************************************************)
(* While the heartbeat runs over a backend that is down, connect() is      *)
(* tried again and again, whatever the number of attempts that were        *)
(* switched off or failed: a heartbeat that is longer than the longest     *)
(* delay never keeps the timer it starts from firing, and a shorter one    *)
(* does not while the delay has not grown to it.  Two cases are left out,  *)
(* for in them nothing is tried any more: heartbeatInterval is not         *)
(* checked, and with one that the delay reaches every heartbeat starts the *)
(* timer anew (Starved; onHeartbeat(), scheduleReconnect()); and a timer   *)
(* that fires within connect()'s nested event loop locks the mutex that    *)
(* connect() holds (blocked).                                              *)
(***************************************************************************)
RetriesGoOn ==
    []<>(phase # "idle" \/ backend = "up" \/ heartbeat = Off \/ ~ reconnectEnabled \/ blocked \/ Starved)

-----------------------------------------------------------------------------
(***************************************************************************)
(* The operations of AmqpCppBackend on its channel, and RabbitMQConsumer   *)
(* and RabbitMQProducer on top of them (amqpcpp_backend.cpp,               *)
(* rabbitmq_consumer.cpp, rabbitmq_producer.cpp).                          *)
(*                                                                         *)
(* An operation that is answered by the broker waits in a nested event     *)
(* loop (pending, innermost last), in which other operations and           *)
(* deliveries run; it returns only when it is the innermost one.  The      *)
(* callbacks of its answer refer to variables on its stack: an answer that *)
(* comes after the time-out writes to a stack that is gone, and nothing is *)
(* said of what follows (damaged).                                         *)
(***************************************************************************)
CONSTANTS
    ChTopics, ChQueues,
    Payloads,           \* messages: [mode, priority]
    MaxTags, MaxPendingOps, MaxMessages

\* Priorities are from 0 to 9 (iamqp_backend.h); on the wire they are octets.
ASSUME PayloadsAssumption == \A m \in Payloads : m.priority \in 0..255

NoQueue == "none"

VARIABLES
    open,               \* m_connected, and a channel that is open
    consumers,          \* m_consumers: queue |-> tag, 0 for none
    registered,         \* <<queue, tag>> of the consumers the broker knows
    lastTag,            \* per queue, the last tag given to the broker
    pendingOps,         \* waiting operations [op, queue, tag, topic, answer]
    unanswered,         \* an operation timed out, and its answer is to come
    subscriptions,      \* m_subscriptions: topic |-> queue
    consumerRuns,       \* RabbitMQConsumer::m_running
    flowing,            \* m_consuming
    wire,               \* messages at the broker
    unsettled,          \* deliveries the broker waits to hear of
    handed,             \* messages given to callbacks
    sent,
    selfLocked,         \* a thread waits for the consumer's mutex it holds
    damaged

channelVars == <<open, consumers, registered, lastTag, pendingOps, unanswered, subscriptions,
                 consumerRuns, flowing, wire, unsettled, handed, sent, selfLocked, damaged>>
messageVars == <<wire, unsettled, handed, sent>>
tagVars == <<consumers, registered, lastTag>>
consumerVars == <<subscriptions, consumerRuns, flowing>>
faultVars == <<selfLocked, damaged>>

ChannelInit ==
    /\ open = TRUE
    /\ consumers = [q \in ChQueues |-> 0] /\ lastTag = [q \in ChQueues |-> 0]
    /\ registered = {} /\ pendingOps = << >> /\ unanswered = FALSE
    /\ subscriptions = [t \in ChTopics |-> NoQueue]
    /\ consumerRuns = FALSE /\ flowing = FALSE
    /\ wire = {} /\ unsettled = {} /\ handed = {} /\ sent = {}
    /\ selfLocked = FALSE /\ damaged = FALSE

Alright == ~ selfLocked /\ ~ damaged

Wait(op, q, tag, topic) ==
    Append(pendingOps, [op |-> op, queue |-> q, tag |-> tag, topic |-> topic, answer |-> "none"])

Innermost == pendingOps[Len(pendingOps)]

\* subscribe() and unsubscribe() hold the consumer's mutex while they wait.
ConsumerLocked == \E i \in DOMAIN pendingOps : pendingOps[i].topic # NoQueue

\* declareExchange(), declareQueue(), bindQueue(), unbindQueue() of the
\* program, or of a producer: asked, waited for, and nothing kept.
Ask(q) ==
    /\ Alright /\ open /\ Len(pendingOps) < MaxPendingOps
    /\ pendingOps' = Wait("ask", q, 0, NoQueue)
    /\ UNCHANGED <<open, tagVars, unanswered, consumerVars, messageVars, faultVars>>

\* consume() does not wait.
Register(q) ==
    /\ lastTag' = [lastTag EXCEPT ![q] = @ + 1]
    /\ registered' = registered \cup {<<q, lastTag[q] + 1>>}
    /\ consumers' = [consumers EXCEPT ![q] = lastTag[q] + 1]

ChConsume(q) ==
    /\ Alright /\ open /\ lastTag[q] < MaxTags
    /\ Register(q)
    /\ UNCHANGED <<open, pendingOps, unanswered, consumerVars, messageVars, faultVars>>

ChCancelConsume(q) ==
    /\ Alright /\ open /\ consumers[q] # 0 /\ Len(pendingOps) < MaxPendingOps
    /\ pendingOps' = Wait("cancel", q, consumers[q], NoQueue)
    /\ UNCHANGED <<open, tagVars, unanswered, consumerVars, messageVars, faultVars>>

\* The consumer's mutex is not recursive.
ConsumerCall(step) ==
    IF ConsumerLocked THEN selfLocked' = TRUE /\ UNCHANGED pendingOps
    ELSE selfLocked' = selfLocked /\ step

SubscribeTopic(t, q) ==
    /\ Alright /\ open /\ Len(pendingOps) < MaxPendingOps
    /\ ConsumerCall(pendingOps' = Wait("declare", q, 0, t))
    /\ UNCHANGED <<open, tagVars, unanswered, consumerVars, messageVars, damaged>>

\* cancelConsume() of the topic's queue; without a consumer or a connection
\* only the subscription goes.
UnsubscribeTopic(t) ==
    LET q == subscriptions[t] IN
    /\ Alright /\ q # NoQueue /\ Len(pendingOps) < MaxPendingOps
    /\ IF ~ ConsumerLocked /\ ~ (open /\ consumers[q] # 0)
       THEN subscriptions' = [subscriptions EXCEPT ![t] = NoQueue] /\ UNCHANGED <<pendingOps, selfLocked>>
       ELSE ConsumerCall(pendingOps' = Wait("cancel", q, consumers[q], t)) /\ UNCHANGED subscriptions
    /\ UNCHANGED <<open, tagVars, unanswered, consumerRuns, flowing, messageVars, damaged>>

\* The broker answers; an accepted cancel takes effect there.
BrokerAnswers(i, a) ==
    LET p == pendingOps[i] IN
    /\ Alright /\ open /\ p.answer = "none"
    /\ pendingOps' = [pendingOps EXCEPT ![i].answer = a]
    /\ registered' = IF p.op = "cancel" /\ a = "ok" THEN registered \ {<<p.queue, p.tag>>} ELSE registered
    /\ UNCHANGED <<open, consumers, lastTag, unanswered, consumerVars, messageVars, faultVars>>

\* The mistake of erasing whatever consumer the queue has by now.
ErasedAny(p) == [consumers EXCEPT ![p.queue] = 0]

\* Another consumer may have taken the queue while the cancel waited.
Erased(p) == IF consumers[p.queue] = p.tag THEN [consumers EXCEPT ![p.queue] = 0] ELSE consumers

\* Whatever came of the cancel, unsubscribe() forgets the topic.
Forgotten(p) ==
    IF p.op = "cancel" /\ p.topic # NoQueue THEN [subscriptions EXCEPT ![p.topic] = NoQueue] ELSE subscriptions

\* The innermost wait ends with a positive answer: subscribe() goes on to
\* bind its queue, and then to consume it.
OpSucceeds ==
    LET p == Innermost
        rest == Front(pendingOps)
    IN  /\ Alright /\ pendingOps # << >> /\ p.answer = "ok"
        /\ p.op = "bind" => lastTag[p.queue] < MaxTags
        /\ CASE p.op = "ask" -> pendingOps' = rest /\ UNCHANGED <<tagVars, subscriptions>>
             [] p.op = "cancel" -> /\ pendingOps' = rest
                                   /\ consumers' = Erased(p) /\ subscriptions' = Forgotten(p)
                                   /\ UNCHANGED <<registered, lastTag>>
             [] p.op = "declare" /\ open ->
                    /\ pendingOps' = Append(rest, [p EXCEPT !.op = "bind", !.answer = "none"])
                    /\ UNCHANGED <<tagVars, subscriptions>>
             [] p.op = "bind" /\ open ->
                    /\ pendingOps' = rest
                    /\ Register(p.queue)
                    /\ subscriptions' = [subscriptions EXCEPT ![p.topic] = p.queue]
             [] OTHER -> pendingOps' = rest /\ UNCHANGED <<tagVars, subscriptions>>
        /\ UNCHANGED <<open, unanswered, consumerRuns, flowing, messageVars, faultVars>>

\* A refusal, or the time-out: the operation returns an error, and the
\* answer to one that timed out is still to come.
OpFails ==
    LET p == Innermost IN
    /\ Alright /\ pendingOps # << >> /\ p.answer # "ok"
    /\ pendingOps' = Front(pendingOps)
    /\ unanswered' = (unanswered \/ (p.answer = "none" /\ open))
    /\ subscriptions' = Forgotten(p)
    /\ UNCHANGED <<open, tagVars, consumerRuns, flowing, messageVars, faultVars>>

LateAnswer ==
    /\ Alright /\ open /\ unanswered
    /\ damaged' = TRUE
    /\ UNCHANGED <<open, tagVars, pendingOps, unanswered, consumerVars, messageVars, selfLocked>>

\* start() and stop() of the consumer.
StartConsumer ==
    /\ Alright /\ (open \/ ConsumerLocked)
    /\ IF ConsumerLocked THEN selfLocked' = TRUE /\ UNCHANGED consumerVars
       ELSE selfLocked' = selfLocked /\ consumerRuns' = TRUE /\ flowing' = TRUE /\ UNCHANGED subscriptions
    /\ UNCHANGED <<open, tagVars, pendingOps, unanswered, messageVars, damaged>>

StopConsumer ==
    /\ Alright /\ (consumerRuns \/ ConsumerLocked)
    /\ IF ConsumerLocked THEN selfLocked' = TRUE /\ UNCHANGED consumerVars
       ELSE /\ consumerRuns' = FALSE /\ flowing' = (flowing /\ ~ open)
            /\ UNCHANGED <<subscriptions, selfLocked>>
    /\ UNCHANGED <<open, tagVars, pendingOps, unanswered, messageVars, damaged>>

\* toAmqpMessage() and fromAmqpMessage().
ToAmqpMessage(m) == [persistent |-> m.mode = 2, priority |-> m.priority % 256]
FromAmqpMessage(w) == [mode |-> IF w.persistent THEN 2 ELSE 1, priority |-> w.priority]

\* RabbitMQProducer::send(): handed to the channel, nothing is confirmed.
Send(m) ==
    LET n == Cardinality(sent) + 1 IN
    /\ Alright /\ open /\ n <= MaxMessages
    /\ sent' = sent \cup {<<n, m>>}
    /\ wire' = wire \cup {<<n, ToAmqpMessage(m)>>}
    /\ UNCHANGED <<open, tagVars, pendingOps, unanswered, consumerVars, unsettled, handed, faultVars>>

\* onReceived(): while m_consuming is false the delivery is neither handed
\* on nor settled.
OnReceived(w) ==
    /\ Alright /\ open /\ registered # {} /\ w \in wire
    /\ wire' = wire \ {w} /\ unsettled' = unsettled \cup {w}
    /\ handed' = IF flowing THEN handed \cup {<<w[1], FromAmqpMessage(w[2])>>} ELSE handed
    /\ UNCHANGED <<open, tagVars, pendingOps, unanswered, consumerVars, sent, faultVars>>

\* ack(), nack() and reject(); with requeue the message is back in its queue.
Settle(S, requeue) ==
    /\ Alright /\ open /\ S # {} /\ S \subseteq unsettled
    /\ unsettled' = unsettled \ S
    /\ wire' = IF requeue THEN wire \cup S ELSE wire
    /\ UNCHANGED <<open, tagVars, pendingOps, unanswered, consumerVars, handed, sent, faultVars>>

\* disconnect(): the broker takes back what was not settled.
CloseChannel ==
    /\ Alright /\ open
    /\ open' = FALSE /\ flowing' = FALSE
    /\ registered' = {} /\ consumers' = [q \in ChQueues |-> 0]
    /\ wire' = wire \cup unsettled /\ unsettled' = {}
    /\ unanswered' = FALSE
    /\ UNCHANGED <<lastTag, pendingOps, subscriptions, consumerRuns, handed, sent, faultVars>>

ChannelNext ==
    \/ \E q \in ChQueues : Ask(q) \/ ChConsume(q) \/ ChCancelConsume(q)
    \/ \E t \in ChTopics : UnsubscribeTopic(t) \/ \E q \in ChQueues : SubscribeTopic(t, q)
    \/ \E i \in DOMAIN pendingOps, a \in {"ok", "error"} : BrokerAnswers(i, a)
    \/ OpSucceeds \/ OpFails \/ LateAnswer
    \/ StartConsumer \/ StopConsumer \/ CloseChannel
    \/ \E m \in Payloads : Send(m)
    \/ \E w \in wire : OnReceived(w)
    \/ \E w \in unsettled, multiple \in BOOLEAN, requeue \in BOOLEAN :
           Settle(IF multiple THEN {u \in unsettled : u[1] <= w[1]} ELSE {w}, requeue)

-----------------------------------------------------------------------------
(***************************************************************************)
(* The consumer the broker registered last for a queue is the one          *)
(* m_consumers names, so that cancelConsume() can still cancel it: also    *)
(* when it was registered while an older one of the queue was being        *)
(* cancelled.  And what a callback is handed is what a producer sent.      *)
(***************************************************************************)
ConsumersKnown ==
    /\ \A q \in ChQueues : <<q, lastTag[q]>> \in registered => consumers[q] = lastTag[q]
    /\ \A h \in handed : \E s \in sent :
           s[1] = h[1] /\ h[2].priority = s[2].priority /\ (h[2].mode = 2 <=> s[2].mode = 2)
=============================================================================
