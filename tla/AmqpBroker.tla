---------------------------- MODULE AmqpBroker ----------------------------
(***************************************************************************)
(* sc::mq::InMemoryAmqpBackend (inmemory_amqp_backend.h, .cpp): exchanges, *)
(* bindings, queues, consumers with a prefetch limit, acknowledgements,    *)
(* and the scans of dispatchLoop(), which drops m_mutex for each callback. *)
(*                                                                         *)
(* A step is a critical section of m_mutex.  The copies routed to a queue  *)
(* are numbered.  The wake-ups, startConsuming() and                       *)
(* stopConsuming() are AmqpConsuming's concern; here a scan may begin      *)
(* whenever none is under way.  The match of topic keys is TopicMatch's    *)
(* concern: the constant Matching is any relation.  Calls that return an   *)
(* error change nothing and are not steps.  Every call tests m_connected   *)
(* before it locks m_mutex, so one that passed the test may still run      *)
(* after disconnect() reset it: what guards a call is that the backend was *)
(* connected once.  m_connected itself is AmqpConsuming's concern.         *)
(***************************************************************************)
EXTENDS Integers, FiniteSets, Sequences

CONSTANTS
    Exchanges, Queues, Keys,
    Matching,     \* pairs of a binding key and a routing key that it matches
    Prefetches,   \* arguments of consume(); 0 means no limit
    MaxCopies, MaxBindings, MaxConsumes,   \* bounds
    MaxRequeueTag \* messages are requeued only while the next tag is at most this

ASSUME MatchingAssumption == Matching \subseteq Keys \X Keys
ASSUME BoundsAssumption ==
    /\ MaxCopies \in Nat /\ MaxBindings \in Nat /\ MaxRequeueTag \in Nat /\ MaxConsumes \in Nat
    /\ Prefetches \subseteq Nat

VARIABLES
    opened,      \* whether connect() was ever called
    exType,      \* m_exchanges: the type of each, "none" if not declared
    boundQs,     \* boundQueues of each exchange
    bindings,    \* m_bindings, each with the number of its place
    declared,    \* the keys of m_queues
    queue,       \* m_queues: copies waiting in each
    consumer,    \* m_consumers: the number of the consume() call, 0 if none
    prefetch, unackedCount,   \* the other fields of ConsumerInfo
    unacked,     \* m_unacked
    nextTag,     \* m_nextDeliveryTag
    routed,      \* number of copies routed to each queue so far
    consumes,    \* consume() calls so far
    requeued,    \* those that came back by nack() or reject()
    done,        \* those acknowledged, dropped or cleared
    scan         \* the scan of dispatchLoop() whose callback is running

routing == <<exType, boundQs, bindings>>
qos == <<consumer, prefetch, unackedCount, consumes>>
copyVars == <<routed, requeued, done>>
brokerVars == <<opened, routing, declared, queue, qos, unacked, nextTag, copyVars, scan>>

Types == {"Direct", "Fanout", "Topic", "Headers"}
Binding == [queue : Queues, exchange : Exchanges, key : Keys]
Placed == [place : 1..MaxBindings, queue : Queues, exchange : Exchanges, key : Keys]
Unlimited == MaxCopies + 1
NoScan == [running |-> FALSE]

Delivery == [tag : 1..nextTag, queue : Queues, copy : 1..MaxCopies, to : 1..consumes]

RoutingType ==
    /\ opened \in BOOLEAN
    /\ exType \in [Exchanges -> Types \cup {"none"}]
    /\ boundQs \in [Exchanges -> SUBSET Queues]
    /\ bindings \in SUBSET Placed
    /\ declared \in SUBSET Queues

CopyType ==
    /\ queue \in [Queues -> Seq(1..MaxCopies)]
    /\ routed \in [Queues -> 0..MaxCopies]
    /\ requeued \in [Queues -> SUBSET (1..MaxCopies)]
    /\ done \in [Queues -> SUBSET (1..MaxCopies)]

QosType ==
    /\ consumes \in 0..MaxConsumes
    /\ consumer \in [Queues -> 0..consumes]
    /\ prefetch \in [Queues -> Nat] /\ unackedCount \in [Queues -> Nat]

DeliveryType == nextTag \in Nat \ {0} /\ unacked \in SUBSET Delivery

ScanType ==
    scan = NoScan \/ scan \in [running : {TRUE}, at : Queues, rest : SUBSET Queues,
                               limit : Nat, to : 1..consumes]

(* The members of InMemoryAmqpBackend and the locals of dispatchLoop();    *)
(* no acknowledgement takes an unackedCount below zero.                    *)
BrokerTypeOK == RoutingType /\ CopyType /\ QosType /\ DeliveryType /\ ScanType

BrokerInit ==
    /\ opened = FALSE
    /\ exType = [e \in Exchanges |-> "none"]
    /\ boundQs = [e \in Exchanges |-> {}]
    /\ bindings = {}
    /\ declared = {}
    /\ queue = [q \in Queues |-> <<>>]
    /\ consumer = [q \in Queues |-> 0]
    /\ prefetch = [q \in Queues |-> 0]
    /\ unackedCount = [q \in Queues |-> 0]
    /\ unacked = {} /\ nextTag = 1
    /\ consumes = 0
    /\ routed = [q \in Queues |-> 0]
    /\ requeued = [q \in Queues |-> {}] /\ done = [q \in Queues |-> {}]
    /\ scan = NoScan

-----------------------------------------------------------------------------
Connect ==
    /\ ~opened /\ opened' = TRUE
    /\ UNCHANGED <<routing, declared, queue, qos, unacked, nextTag, copyVars, scan>>

(* The last part of disconnect(), and of the destructor: stopConsuming()   *)
(* has joined the dispatch thread, the members are cleared.                *)
Disconnect ==
    /\ opened /\ scan = NoScan
    /\ exType' = [e \in Exchanges |-> "none"]
    /\ boundQs' = [e \in Exchanges |-> {}]
    /\ bindings' = {}
    /\ declared' = {} /\ queue' = [q \in Queues |-> <<>>]
    /\ consumer' = [q \in Queues |-> 0]
    /\ prefetch' = [q \in Queues |-> 0] /\ unackedCount' = [q \in Queues |-> 0]
    /\ unacked' = {}
    /\ done' = [q \in Queues |-> 1..routed[q]]
    /\ UNCHANGED <<opened, consumes, nextTag, routed, requeued, scan>>

(* The first declaration decides on the type *)
DeclareExchange(e, t) ==
    /\ opened /\ exType[e] = "none"
    /\ exType' = [exType EXCEPT ![e] = t]
    /\ UNCHANGED <<opened, boundQs, bindings, declared, queue, qos, unacked, nextTag,
                   copyVars, scan>>

(* An insertion into m_queues during a callback may rehash it under the    *)
(* scan's iterator: which queues the scan still visits is then undefined   *)
DeclareQueue(q) ==
    /\ opened /\ q \notin declared
    /\ declared' = declared \cup {q}
    /\ IF scan.running
       THEN \E rest \in SUBSET declared' : scan' = [scan EXCEPT !.rest = rest]
       ELSE scan' = scan
    /\ UNCHANGED <<opened, routing, queue, qos, unacked, nextTag, copyVars>>

(* push_back() to m_bindings *)
BindQueue(b) ==
    /\ opened /\ exType[b.exchange] # "none" /\ b.queue \in declared
    /\ \E i \in 1..MaxBindings :
         /\ \A x \in bindings : x.place # i
         /\ \A j \in 1..MaxBindings : j < i => \E x \in bindings : x.place = j
         /\ bindings' = bindings \cup {[place |-> i, queue |-> b.queue,
                                       exchange |-> b.exchange, key |-> b.key]}
    /\ boundQs' = [boundQs EXCEPT ![b.exchange] = @ \cup {b.queue}]
    /\ UNCHANGED <<opened, exType, declared, queue, qos, unacked, nextTag, copyVars, scan>>

SameBinding(x, b) == x.queue = b.queue /\ x.exchange = b.exchange /\ x.key = b.key

(* Removes every copy of the binding, and the queue from boundQueues when  *)
(* no other binding to the exchange is left                                *)
UnbindQueue(b) ==
    /\ opened /\ \E x \in bindings : SameBinding(x, b)
    /\ bindings' = {x \in bindings : ~SameBinding(x, b)}
    /\ LET other == \E x \in bindings' : x.exchange = b.exchange /\ x.queue = b.queue
       IN  boundQs' = [boundQs EXCEPT ![b.exchange] = IF other THEN @ ELSE @ \ {b.queue}]
    /\ UNCHANGED <<opened, exType, declared, queue, qos, unacked, nextTag, copyVars, scan>>

-----------------------------------------------------------------------------
(* routeMessage(): how many copies of a message with key k go to q *)
Hits(e, k, q) ==
    {x \in bindings :
        /\ x.exchange = e /\ x.queue = q
        /\ \/ exType[e] = "Direct" /\ x.key = k
           \/ exType[e] = "Topic" /\ <<x.key, k>> \in Matching}

CopiesFor(e, k, q) ==
    IF exType[e] = "Fanout" THEN IF q \in boundQs[e] THEN 1 ELSE 0
    ELSE Cardinality(Hits(e, k, q))

Publish(e, k) ==
    /\ opened /\ exType[e] # "none"
    /\ \A q \in Queues : routed[q] + CopiesFor(e, k, q) <= MaxCopies
    /\ queue' = [q \in Queues |->
         queue[q] \o [i \in 1..CopiesFor(e, k, q) |-> routed[q] + i]]
    /\ routed' = [q \in Queues |-> routed[q] + CopiesFor(e, k, q)]
    /\ UNCHANGED <<opened, routing, declared, qos, unacked, nextTag, requeued, done, scan>>

-----------------------------------------------------------------------------
(* consume() replaces the consumer of the queue and forgets its count *)
Consume(q, p) ==
    /\ opened /\ q \in declared /\ consumes < MaxConsumes
    /\ consumes' = consumes + 1
    /\ consumer' = [consumer EXCEPT ![q] = consumes + 1]
    /\ prefetch' = [prefetch EXCEPT ![q] = IF p > 0 THEN p ELSE Unlimited]
    /\ unackedCount' = [unackedCount EXCEPT ![q] = 0]
    /\ UNCHANGED <<opened, routing, declared, queue, unacked, nextTag, copyVars, scan>>

CancelConsume(q) ==
    /\ opened /\ consumer[q] # 0
    /\ consumer' = [consumer EXCEPT ![q] = 0]
    /\ prefetch' = [prefetch EXCEPT ![q] = 0]
    /\ unackedCount' = [unackedCount EXCEPT ![q] = 0]
    /\ UNCHANGED <<opened, routing, declared, queue, consumes, unacked, nextTag, copyVars, scan>>

(* The deliveries that ack() and nack() settle *)
Settled(tag, multiple) ==
    {u \in unacked : IF multiple THEN u.tag <= tag ELSE u.tag = tag}

Of(S, q) == {u \in S : u.queue = q}
CopiesOf(S, q) == {u.copy : u \in Of(S, q)}

(* The count of each consumer, without going below zero *)
Uncount(S) ==
    unackedCount' = [q \in Queues |->
        LET left == unackedCount[q] - Cardinality(Of(S, q))
        IN  IF consumer[q] = 0 THEN unackedCount[q] ELSE IF left > 0 THEN left ELSE 0]

Ack(tag, multiple) ==
    /\ opened /\ Settled(tag, multiple) # {}
    /\ unacked' = unacked \ Settled(tag, multiple)
    /\ Uncount(Settled(tag, multiple))
    /\ done' = [q \in Queues |-> done[q] \cup CopiesOf(Settled(tag, multiple), q)]
    /\ UNCHANGED <<opened, routing, declared, queue, consumer, prefetch, consumes, nextTag,
                   routed, requeued, scan>>

(* nack() and reject() without requeue: the messages are dropped *)
NackDrop(tag, multiple) == Ack(tag, multiple)

(* The orders in which m_unacked may list the messages of a queue *)
Listings(C) ==
    {s \in [1..Cardinality(C) -> C] :
        /\ \A i, j \in 1..Cardinality(C) : s[i] = s[j] => i = j
        /\ \A c \in C : \E i \in 1..Cardinality(C) : s[i] = c}

(* A mistaken NackRequeue: the deliveries stay in m_unacked *)
NackRequeueKeep(tag, multiple) ==
    LET S == Settled(tag, multiple) IN
    /\ opened /\ S # {}
    /\ nextTag <= MaxRequeueTag
    /\ Uncount(S)
    /\ queue' = [q \in Queues |->
         LET u == CHOOSE u \in S : TRUE IN IF u.queue = q THEN <<u.copy>> \o queue[q] ELSE queue[q]]
    /\ requeued' = [q \in Queues |-> requeued[q] \cup CopiesOf(S, q)]
    /\ nextTag' = nextTag + Cardinality(S)
    /\ UNCHANGED <<opened, routing, declared, consumer, prefetch, consumes, unacked, routed,
                   done, scan>>

(* With requeue each message goes to the front of its queue, in the order  *)
(* in which m_unacked lists them; each takes a tag of its own              *)
NackRequeue(tag, multiple) ==
    LET S == Settled(tag, multiple) IN
    /\ opened /\ S # {}
    /\ nextTag <= MaxRequeueTag
    /\ unacked' = unacked \ S
    /\ Uncount(S)
    /\ \E front \in [Queues -> UNION {Listings(CopiesOf(S, q)) : q \in Queues}] :
         /\ \A q \in Queues : front[q] \in Listings(CopiesOf(S, q))
         /\ queue' = [q \in Queues |-> front[q] \o queue[q]]
    /\ requeued' = [q \in Queues |-> requeued[q] \cup CopiesOf(S, q)]
    /\ nextTag' = nextTag + Cardinality(S)
    /\ UNCHANGED <<opened, routing, declared, consumer, prefetch, consumes, routed, done, scan>>

-----------------------------------------------------------------------------

(* dispatchLoop() may take from q: the limit is the one read at the start  *)
(* of the visit to q, the count is read each time                          *)
Deliverable(q, limit) ==
    queue[q] # <<>> /\ consumer[q] # 0 /\ unackedCount[q] < limit

(* Pop the front of q, note it as unacked, release m_mutex, call back *)
Deliver(q, rest, limit, to) ==
    /\ queue' = [queue EXCEPT ![q] = Tail(@)]
    /\ unacked' = unacked \cup {[tag |-> nextTag, queue |-> q, copy |-> Head(queue[q]), to |-> to]}
    /\ nextTag' = nextTag + 1
    /\ unackedCount' = [unackedCount EXCEPT ![q] = @ + 1]
    /\ scan' = [running |-> TRUE, at |-> q, rest |-> rest, limit |-> limit, to |-> to]
    /\ UNCHANGED <<opened, routing, declared, consumer, prefetch, consumes, copyVars>>

(* The scan comes to q, of the queues in among, and delivers.  Those it    *)
(* passed before had nothing to take; the others remain.                   *)
Visit(q, among) ==
    /\ q \in among /\ Deliverable(q, prefetch[q])
    /\ \E rest \in SUBSET (among \ {q}) :
         /\ \A p \in among \ (rest \cup {q}) : ~Deliverable(p, prefetch[p])
         /\ Deliver(q, rest, prefetch[q], consumer[q])

ScanBegin(q) == scan = NoScan /\ opened /\ Visit(q, declared)

(* After the callback the same queue again, with the callback and the      *)
(* limit read before it                                                    *)
ScanAgain ==
    /\ scan.running /\ Deliverable(scan.at, scan.limit)
    /\ Deliver(scan.at, scan.rest, scan.limit, scan.to)

ScanNext(q) ==
    /\ scan.running /\ ~Deliverable(scan.at, scan.limit)
    /\ Visit(q, scan.rest)

ScanEnd ==
    /\ scan.running /\ ~Deliverable(scan.at, scan.limit)
    /\ \A q \in scan.rest : ~Deliverable(q, prefetch[q])
    /\ scan' = NoScan
    /\ UNCHANGED <<opened, routing, declared, queue, qos, unacked, nextTag, copyVars>>

DispatchStep == (\E q \in Queues : ScanBegin(q) \/ ScanNext(q)) \/ ScanAgain \/ ScanEnd

Tags == {u.tag : u \in unacked}

BrokerNext ==
    \/ Connect \/ Disconnect
    \/ \E e \in Exchanges, t \in Types : DeclareExchange(e, t)
    \/ \E q \in Queues : DeclareQueue(q) \/ CancelConsume(q)
    \/ \E b \in Binding : BindQueue(b) \/ UnbindQueue(b)
    \/ \E e \in Exchanges, k \in Keys : Publish(e, k)
    \/ \E q \in Queues, p \in Prefetches : Consume(q, p)
    \/ \E tag \in Tags, multiple \in BOOLEAN :
         Ack(tag, multiple) \/ NackDrop(tag, multiple) \/ NackRequeue(tag, multiple)
    \/ DispatchStep

(* The dispatch thread runs, and consumers settle what they get            *)
BrokerFairness ==
    /\ WF_brokerVars(DispatchStep)
    /\ WF_brokerVars(\E tag \in Tags : Ack(tag, FALSE))

BrokerSpec == BrokerInit /\ [][BrokerNext]_brokerVars

-----------------------------------------------------------------------------
Waiting(q) == {queue[q][i] : i \in 1..Len(queue[q])}

(* No copy is lost or doubled: each copy routed to a queue is exactly once *)
(* in it, or delivered and unsettled once, or done.                        *)
Conservation ==
    \A q \in Queues :
        /\ Waiting(q) \cup CopiesOf(unacked, q) \cup done[q] = 1..routed[q]
        /\ \A i, j \in 1..Len(queue[q]) : queue[q][i] = queue[q][j] => i = j
        /\ Waiting(q) \cap (CopiesOf(unacked, q) \cup done[q]) = {}
        /\ CopiesOf(unacked, q) \cap done[q] = {}
        /\ \A u, v \in Of(unacked, q) : u.copy = v.copy => u = v

(* A queue keeps the order of publication, but for requeued copies, which  *)
(* are all in front.                                                       *)
QueueOrder ==
    \A q \in Queues : \A i, j \in 1..Len(queue[q]) : i < j =>
        \/ queue[q][i] \in requeued[q]
        \/ queue[q][j] \notin requeued[q] /\ queue[q][i] < queue[q][j]

(* Fanout exchanges read boundQueues, the others m_bindings: the two agree *)
(* whatever is bound twice, unbound and bound again.                       *)
BoundQueuesAgree ==
    \A e \in Exchanges :
        boundQs[e] = {x.queue : x \in {x \in bindings : x.exchange = e}}

(* A consumer is never held back by deliveries that nobody can settle any  *)
(* more: its count never exceeds the unsettled deliveries of the queue.    *)
NoPhantomUnacked ==
    \A q \in Queues : unackedCount[q] <= Cardinality(Of(unacked, q))

(* The broker's records stay right through repeated bindings, replaced     *)
(* consumers and single and multiple ack and nack while callbacks run: no  *)
(* copy lost, doubled or overtaken, counts and records that agree.         *)
BrokerSound == BrokerTypeOK /\ Conservation /\ QueueOrder /\ BoundQueuesAgree /\ NoPhantomUnacked

(* A copy in a queue that has a consumer is delivered once publishers and  *)
(* requeues pause: however full the other queues are, whoever cancels,     *)
(* nacks or takes over a consumer meanwhile.  Without the pause, which is  *)
(* what MaxCopies and MaxRequeueTag stand for, it is NOT: the scan leaves  *)
(* a queue only when it is empty or its consumer is at the limit (`while   *)
(* (!queue.empty())`, inmemory_amqp_backend.cpp:356), and a publisher that *)
(* keeps one queue filled starves the others.                              *)
EventuallyDelivered ==
    \A q \in Queues, c \in 1..MaxCopies :
        (c \in Waiting(q) /\ consumer[q] # 0) ~> (c \notin Waiting(q) \/ consumer[q] = 0)
=============================================================================
